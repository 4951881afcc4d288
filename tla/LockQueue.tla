----------------------------- MODULE LockQueue -----------------------------
(***************************************************************************)
(* The broker's one LockQueue (lib/aquilon/locks.py), used by the worker    *)
(* threads that run commands.  Each key object belongs to one thread, which  *)
(* brackets some work with acquire(key) and release(key).                   *)
(*                                                                         *)
(* phase[k] is where that thread is:                                        *)
(*   "out"      it has built the key (or released it) and not called acquire*)
(*   "entering" it has set the state to "acquiring", outside the Condition  *)
(*   "parked"   it sleeps in queue_condition.wait()                         *)
(*   "woken"    it was notified and must get the Condition's lock back      *)
(*   "inside"   acquire has returned                                        *)
(*   "leaving"  it has set the state to "releasing", outside the Condition  *)
(*   "left"     it is off the queue and has not yet set "released"          *)
(* What the code does while it holds the Condition's lock is one step.      *)
(***************************************************************************)
EXTENDS Naturals, SequencesExt, LockKeys

CONSTANTS Key,      \* the key objects
          Shape     \* what they may lock

ASSUME ShapeAssumption == Shape \subseteq LockKey

VARIABLES shape,    \* shape[k]: the shared and exclusive sets of k
          state,    \* LockKey.state, the label other threads see
          queue,    \* LockQueue.queue
          phase

vars == <<shape, state, queue, phase>>

State == {"initialized", "acquiring", "acquired", "releasing", "released"}

Phase == {"out", "entering", "parked", "woken", "inside", "leaving", "left"}

TypeOK == /\ shape \in [Key -> Shape]
          /\ state \in [Key -> State]
          /\ queue \in Seq(Key)
          /\ phase \in [Key -> Phase]

(* mutant: only keys already granted block. *)
BlockedByHolders(k, q) ==
  \E i \in 1..Len(q) : /\ phase[q[i]] \in {"inside", "leaving"}
                       /\ q[i] # k
                       /\ Blocks(shape[q[i]], shape[k])

(* mutant: whoever is ahead and waits blocks, conflict or not. *)
BlockedByAnyWaiter(k, q) ==
  \E i \in 1..Len(q) : /\ \A j \in 1..i : q[j] # k
                       /\ \/ Blocks(shape[q[i]], shape[k])
                          \/ phase[q[i]] = "parked"

(* LockQueue.blocked: a key that precedes k in the queue conflicts with it. *)
Blocked(k, q) ==
  \E i \in 1..Len(q) : /\ \A j \in 1..i : q[j] # k
                       /\ Blocks(shape[q[i]], shape[k])

Init == /\ shape \in [Key -> Shape]
        /\ state = [k \in Key |-> "initialized"]
        /\ queue = << >>
        /\ phase = [k \in Key |-> "out"]

(* acquire: key.transition("acquiring"). *)
Acquire(k) == /\ phase[k] = "out"
              /\ state' = [state EXCEPT ![k] = "acquiring"]
              /\ phase' = [phase EXCEPT ![k] = "entering"]
              /\ UNCHANGED <<shape, queue>>

(* The outcome of one evaluation of "while self.blocked(key)". *)
Wait(k) == /\ phase' = [phase EXCEPT ![k] = "parked"]
           /\ UNCHANGED state

Grant(k) == /\ phase' = [phase EXCEPT ![k] = "inside"]
            /\ state' = [state EXCEPT ![k] = "acquired"]

WaitOrGrant(k, q) == IF Blocked(k, q) THEN Wait(k) ELSE Grant(k)

(* acquire, under the Condition: join the queue and look for blockers.      *)
(* "if key in self.queue: raise" is the second conjunct's negation: the code*)
(* builds a key for each "with", so NotQueuedTwice shows it never fires.    *)
Enqueue(k) == /\ phase[k] = "entering"
              /\ ~ Contains(queue, k)
              /\ queue' = Append(queue, k)
              /\ WaitOrGrant(k, queue')
              /\ UNCHANGED shape

(* wait() returns: the thread holds the Condition again and looks again.    *)
Recheck(k) == /\ phase[k] = "woken"
              /\ WaitOrGrant(k, queue)
              /\ UNCHANGED <<shape, queue>>

(* release: key.transition("releasing"). *)
Release(k) == /\ phase[k] = "inside"
              /\ state' = [state EXCEPT ![k] = "releasing"]
              /\ phase' = [phase EXCEPT ![k] = "leaving"]
              /\ UNCHANGED <<shape, queue>>

(* mutant: pop(0) for remove(key). *)
RemoveHead(k) == queue # << >> /\ queue' = Tail(queue)

(* mutant: notify() for notifyAll(). *)
NotifyOne(k) ==
  LET parked == {j \in Key : phase[j] = "parked"}
  IN  IF parked = {}
        THEN phase' = [phase EXCEPT ![k] = "left"]
        ELSE \E j \in parked : phase' = [phase EXCEPT ![k] = "left", ![j] = "woken"]

(* release, under the Condition: queue.remove(key) and notifyAll(). *)
RemoveKey(k) == \E i \in 1..Len(queue) : /\ queue[i] = k
                                         /\ \A j \in 1..(i-1) : queue[j] # k
                                         /\ queue' = RemoveAt(queue, i)

NotifyAll(k) == phase' = [j \in Key |-> IF j = k THEN "left"
                                        ELSE IF phase[j] = "parked" THEN "woken"
                                        ELSE phase[j]]

Dequeue(k) == /\ phase[k] = "leaving"
              /\ RemoveKey(k)
              /\ NotifyAll(k)
              /\ UNCHANGED <<shape, state>>

(* release: key.transition("released"), after the Condition's lock is free. *)
Released(k) == /\ phase[k] = "left"
               /\ state' = [state EXCEPT ![k] = "released"]
               /\ phase' = [phase EXCEPT ![k] = "out"]
               /\ UNCHANGED <<shape, queue>>

Next == \E k \in Key : \/ Acquire(k) \/ Enqueue(k) \/ Recheck(k)
                       \/ Release(k) \/ Dequeue(k) \/ Released(k)

SafeSpec == Init /\ [][Next]_vars

(* A thread that can run does, and the work under a lock ends: nothing makes *)
(* a thread call acquire.                                                   *)
Fairness == \A k \in Key : WF_vars(\/ Enqueue(k) \/ Recheck(k) \/ Release(k)
                                   \/ Dequeue(k) \/ Released(k))

Spec == SafeSpec /\ Fairness
-----------------------------------------------------------------------------
Holding == {k \in Key : phase[k] \in {"inside", "leaving"}}

Queued == {k \in Key : phase[k] \in {"parked", "woken", "inside", "leaving"}}

Waiting == {k \in Key : phase[k] \in {"parked", "woken"}}

(* j is ahead of k in the queue. *)
Before(j, k) == \E a, b \in 1..Len(queue) : a < b /\ queue[a] = j /\ queue[b] = k

(* Two keys that conflict are never held at the same time: what CompileKey, *)
(* PlenaryKey and the others are for (acquire, blocked).                    *)
MutualExclusion ==
  \A j, k \in Holding : j # k => ~ Blocks(shape[j], shape[k])

(* A thread sleeping in wait() has something to wait for: release notifies  *)
(* every waiter, and no request is granted or withdrawn without that, so no *)
(* thread sleeps while the queue would let it in.                           *)
NoLostWakeup == \A k \in Key : phase[k] = "parked" => Blocked(k, queue)

(* The queue holds exactly the waiting and holding keys, each once, so that *)
(* "Duplicate attempt to acquire" is never raised.                          *)
NotQueuedTwice ==
  /\ \A i, j \in 1..Len(queue) : queue[i] = queue[j] => i = j
  /\ ToSet(queue) = Queued

(* No overtaking: a key is granted only when every conflicting key that      *)
(* asked before it has left the queue.                                      *)
GrantedInOrder ==
  \A j, k \in Key : /\ Before(j, k) /\ Blocks(shape[j], shape[k])
                    => k \notin Holding

(* Every request is granted in the end, a global compile lock among a       *)
(* stream of profile locks included.                                        *)
EveryRequestGranted ==
  \A k \in Key : phase[k] = "entering" ~> phase[k] = "inside"
=============================================================================
