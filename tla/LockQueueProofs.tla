-------------------------- MODULE LockQueueProofs --------------------------
(***************************************************************************)
(* Theorems of LockQueue, for any set of keys and any shapes: typing, the   *)
(* queue holding each pending key once, grants in order, mutual exclusion   *)
(* and the absence of lost wake-ups; and that the queue implements           *)
(* FairKeyedLock.                                                           *)
(*                                                                         *)
(* Mutual exclusion is not inductive: a grant looks only at the keys ahead  *)
(* in the queue, so what makes it safe is that every holder is queued, once, *)
(* and has no conflicting key ahead of it.  Of two conflicting holders one   *)
(* would be ahead of the other.                                             *)
(***************************************************************************)
EXTENDS LockQueueRefinement, SequenceTheorems, TLAPS

Inv == TypeOK /\ NotQueuedTwice /\ GrantedInOrder /\ NoLostWakeup

(* Conflicts are symmetric, so it does not matter which key asked first. *)
LEMMA BlocksSymmetric ==
  ASSUME NEW j, NEW k
  PROVE  Blocks(j, k) <=> Blocks(k, j)
  BY DEF Blocks, Blockers

LEMMA RemoveAtProperties ==
  ASSUME NEW S, NEW q \in Seq(S), NEW i \in 1..Len(q)
  PROVE  /\ RemoveAt(q, i) \in Seq(S)
         /\ Len(RemoveAt(q, i)) = Len(q) - 1
         /\ \A a \in 1..(Len(q) - 1) :
              RemoveAt(q, i)[a] = IF a < i THEN q[a] ELSE q[a + 1]
<1> DEFINE front == SubSeq(q, 1, i - 1)
           back  == SubSeq(q, i + 1, Len(q))
<1>1. \A a \in 1..Len(q) : q[a] \in S
  BY ElementOfSeq
<1>2. /\ front \in Seq(S)
      /\ Len(front) = i - 1
      /\ \A a \in 1..(i - 1) : front[a] = q[a]
  <2>1. \A a \in 1..(i - 1) : q[a] \in S
    BY <1>1
  <2>2. /\ front \in Seq(S)
        /\ Len(front) = IF 1 <= i - 1 THEN i - 1 - 1 + 1 ELSE 0
        /\ \A a \in 1..(i - 1 - 1 + 1) : front[a] = q[1 + a - 1]
    BY <2>1, SubSeqProperties, SMT
  <2> QED
    BY <2>2
<1>3. /\ back \in Seq(S)
      /\ Len(back) = Len(q) - i
      /\ \A a \in 1..(Len(q) - i) : back[a] = q[a + i]
  <2>1. \A a \in (i + 1)..Len(q) : q[a] \in S
    BY <1>1
  <2>2. /\ back \in Seq(S)
        /\ Len(back) = IF i + 1 <= Len(q) THEN Len(q) - (i + 1) + 1 ELSE 0
        /\ \A a \in 1..(Len(q) - (i + 1) + 1) : back[a] = q[i + 1 + a - 1]
    BY <2>1, SubSeqProperties, SMT
  <2> QED
    BY <2>2
<1>4. RemoveAt(q, i) = front \o back
  BY DEF RemoveAt
<1> HIDE DEF front, back
<1>5. /\ front \o back \in Seq(S)
      /\ Len(front \o back) = Len(front) + Len(back)
      /\ \A a \in 1..(Len(front) + Len(back)) :
           (front \o back)[a] = IF a <= Len(front) THEN front[a]
                                ELSE back[a - Len(front)]
  BY <1>2, <1>3, ConcatProperties
<1> QED
  BY <1>2, <1>3, <1>4, <1>5

LEMMA ToSetMembers ==
  ASSUME NEW S, NEW q \in Seq(S)
  PROVE  \A x : x \in ToSet(q) <=> \E i \in 1..Len(q) : q[i] = x
  BY LenProperties DEF ToSet

(* For a queued key, being blocked and having a conflicting key ahead are    *)
(* the same.                                                                *)
LEMMA BlockedIffConflictAhead ==
  ASSUME TypeOK, NotQueuedTwice, NEW k \in Queued
  PROVE  Blocked(k, queue) <=>
           \E j \in Key : Before(j, k) /\ Blocks(shape[j], shape[k])
<1>1. PICK p \in 1..Len(queue) : queue[p] = k
  BY DEF NotQueuedTwice, ToSet, TypeOK
<1>2. \A i \in 1..Len(queue) : (\A j \in 1..i : queue[j] # k) <=> i < p
  BY <1>1 DEF NotQueuedTwice, TypeOK
<1>3. \A j \in Key : Before(j, k) <=> \E i \in 1..Len(queue) : i < p /\ queue[i] = j
  BY <1>1 DEF NotQueuedTwice, Before, TypeOK
<1>4. \A i \in 1..Len(queue) : queue[i] \in Key
  BY DEF TypeOK
<1> QED
  BY <1>2, <1>3, <1>4 DEF Blocked

LEMMA InitInv == Init => Inv
<1> SUFFICES ASSUME Init PROVE Inv
  OBVIOUS
<1>1. TypeOK
  BY DEF Init, TypeOK, State, Phase
<1>2. NotQueuedTwice
  BY DEF Init, NotQueuedTwice, ToSet, Queued
<1>3. GrantedInOrder
  BY DEF Init, GrantedInOrder, Before
<1>4. NoLostWakeup
  BY DEF Init, NoLostWakeup
<1> QED
  BY <1>1, <1>2, <1>3, <1>4 DEF Inv

LEMMA TypeStep ==
  ASSUME TypeOK, [Next]_vars
  PROVE  TypeOK'
<1> USE DEF TypeOK, State, Phase
<1>1. CASE UNCHANGED vars
  BY <1>1 DEF vars
<1>2. ASSUME NEW k \in Key, Acquire(k) PROVE TypeOK'
  BY <1>2 DEF Acquire
<1>3. ASSUME NEW k \in Key, Enqueue(k) PROVE TypeOK'
  <2>1. Append(queue, k) \in Seq(Key)
    BY AppendProperties
  <2> QED
    BY <1>3, <2>1 DEF Enqueue, WaitOrGrant, Wait, Grant
<1>4. ASSUME NEW k \in Key, Recheck(k) PROVE TypeOK'
  BY <1>4 DEF Recheck, WaitOrGrant, Wait, Grant
<1>5. ASSUME NEW k \in Key, Release(k) PROVE TypeOK'
  BY <1>5 DEF Release
<1>6. ASSUME NEW k \in Key, Dequeue(k) PROVE TypeOK'
  <2>1. PICK i \in 1..Len(queue) : queue' = RemoveAt(queue, i)
    BY <1>6 DEF Dequeue, RemoveKey
  <2>2. queue' \in Seq(Key)
    BY <2>1, RemoveAtProperties
  <2> QED
    BY <1>6, <2>2 DEF Dequeue, NotifyAll
<1>7. ASSUME NEW k \in Key, Released(k) PROVE TypeOK'
  BY <1>7 DEF Released
<1> QED
  BY <1>1, <1>2, <1>3, <1>4, <1>5, <1>6, <1>7 DEF Next

(* acquire, the part under the Condition. *)
LEMMA EnqueueStep ==
  ASSUME Inv, TypeOK', NEW k \in Key, Enqueue(k)
  PROVE  Inv'
<1> USE DEF Inv
<1> DEFINE n == Len(queue)
<1>1. /\ n \in Nat
      /\ Len(queue') = n + 1
      /\ \A i \in 1..n : queue'[i] = queue[i] /\ queue[i] \in Key
      /\ queue'[n + 1] = k
      /\ \A i \in 1..n : queue[i] # k
  BY AppendProperties, ElementOfSeq DEF Enqueue, Contains, TypeOK
<1>2. /\ phase[k] = "entering"
      /\ \A l \in Key \ {k} : phase'[l] = phase[l]
      /\ phase'[k] = IF Blocked(k, queue') THEN "parked" ELSE "inside"
      /\ shape' = shape
  BY DEF Enqueue, WaitOrGrant, Wait, Grant, TypeOK
<1> HIDE DEF n
<1>3. NotQueuedTwice'
  <2>1. ASSUME NEW i \in 1..(n + 1), NEW j \in 1..(n + 1), queue'[i] = queue'[j]
        PROVE  i = j
    BY <1>1, <2>1 DEF NotQueuedTwice, n
  <2>2. ToSet(queue') = ToSet(queue) \cup {k}
    <3>1. /\ \A x : x \in ToSet(queue) <=> \E i \in 1..n : queue[i] = x
          /\ \A x : x \in ToSet(queue') <=> \E i \in 1..(n + 1) : queue'[i] = x
      BY <1>1, ToSetMembers DEF TypeOK, n
    <3>2. ASSUME NEW i \in 1..(n + 1)
          PROVE  queue'[i] = k \/ (i \in 1..n /\ queue'[i] = queue[i])
      BY <1>1
    <3>3. \A i \in 1..n : i \in 1..(n + 1)
      BY <1>1
    <3>4. n + 1 \in 1..(n + 1)
      BY <1>1
    <3> QED
      BY <1>1, <3>1, <3>2, <3>3, <3>4
  <2>3. Queued' = Queued \cup {k}
    BY <1>2 DEF Queued
  <2> QED
    BY <1>1, <2>1, <2>2, <2>3 DEF NotQueuedTwice
<1>4. GrantedInOrder'
  <2> SUFFICES ASSUME NEW j \in Key, NEW l \in Key,
                      Before(j, l)', Blocks(shape[j], shape[l])
               PROVE  l \notin Holding'
    BY <1>2 DEF GrantedInOrder
  <2>1. PICK a \in 1..(n + 1), b \in 1..(n + 1) :
          a < b /\ queue'[a] = j /\ queue'[b] = l
    BY <1>1 DEF Before
  <2>2. CASE b = n + 1
    <3>1. Blocked(k, queue')
      BY <1>1, <2>1, <2>2 DEF Blocked
    <3> QED
      BY <1>1, <1>2, <2>1, <2>2, <3>1 DEF Holding
  <2>3. CASE b # n + 1
    <3>1. Before(j, l)
      BY <1>1, <2>1, <2>3 DEF Before, n
    <3>2. l # k
      BY <1>1, <2>1, <2>3
    <3> QED
      BY <1>2, <3>1, <3>2 DEF GrantedInOrder, Holding
  <2> QED
    BY <2>2, <2>3
<1>5. NoLostWakeup'
  <2> SUFFICES ASSUME NEW l \in Key, phase'[l] = "parked"
               PROVE  Blocked(l, queue)'
    BY DEF NoLostWakeup
  <2>1. CASE l = k
    BY <1>2, <2>1 DEF Blocked
  <2>2. CASE l # k
    <3>1. Blocked(l, queue)
      BY <1>2, <2>2 DEF NoLostWakeup
    <3> QED
      BY <1>1, <1>2, <3>1 DEF Blocked, n
  <2> QED
    BY <2>1, <2>2
<1> QED
  BY <1>3, <1>4, <1>5

(* release, the part under the Condition. *)
LEMMA DequeueStep ==
  ASSUME Inv, TypeOK', NEW k \in Key, Dequeue(k)
  PROVE  Inv'
<1> USE DEF Inv
<1> DEFINE n == Len(queue)
<1>1. PICK p \in 1..n : queue[p] = k /\ queue' = RemoveAt(queue, p)
  BY DEF Dequeue, RemoveKey
<1>2. /\ n \in Nat
      /\ Len(queue') = n - 1
      /\ \A i \in 1..(n - 1) : queue'[i] = IF i < p THEN queue[i] ELSE queue[i + 1]
      /\ \A i \in 1..n : queue[i] \in Key
  <2>1. queue \in Seq(Key)
    BY DEF TypeOK
  <2> QED
    BY <1>1, <2>1, RemoveAtProperties, ElementOfSeq, LenProperties
<1>3. /\ phase[k] = "leaving"
      /\ phase'[k] = "left"
      /\ \A l \in Key \ {k} : phase'[l] = IF phase[l] = "parked" THEN "woken"
                                          ELSE phase[l]
      /\ shape' = shape
  BY DEF Dequeue, NotifyAll, TypeOK
<1>4. \A i, j \in 1..n : queue[i] = queue[j] => i = j
  BY DEF NotQueuedTwice
<1> HIDE DEF n
<1>5. NotQueuedTwice'
  <2>1. ASSUME NEW i \in 1..(n - 1), NEW j \in 1..(n - 1), queue'[i] = queue'[j]
        PROVE  i = j
    BY <1>1, <1>2, <1>4, <2>1
  <2>2. ToSet(queue') = ToSet(queue) \ {k}
    <3>1. \A x : x \in ToSet(queue') <=> \E i \in 1..(n - 1) : queue'[i] = x
      BY <1>2, ToSetMembers DEF TypeOK
    <3>2. \A x : x \in ToSet(queue) <=> \E i \in 1..n : queue[i] = x
      BY ToSetMembers DEF TypeOK, n
    <3>3. ASSUME NEW i \in 1..n, queue[i] # k
          PROVE  \E j \in 1..(n - 1) : queue'[j] = queue[i]
      <4>1. CASE i < p
        BY <1>1, <1>2, <4>1
      <4>2. CASE i > p
        <5>1. i - 1 \in 1..(n - 1) /\ queue'[i - 1] = queue[i]
          BY <1>1, <1>2, <4>2
        <5> QED
          BY <5>1
      <4> QED
        BY <1>1, <3>3, <4>1, <4>2
    <3>4. ASSUME NEW j \in 1..(n - 1)
          PROVE  queue'[j] # k /\ \E i \in 1..n : queue[i] = queue'[j]
      BY <1>1, <1>2, <1>4
    <3> QED
      BY <3>1, <3>2, <3>3, <3>4
  <2>3. Queued' = Queued \ {k}
    BY <1>3 DEF Queued
  <2> QED
    BY <1>2, <2>1, <2>2, <2>3 DEF NotQueuedTwice
<1>6. GrantedInOrder'
  <2> SUFFICES ASSUME NEW j \in Key, NEW l \in Key,
                      Before(j, l)', Blocks(shape[j], shape[l])
               PROVE  l \notin Holding'
    BY <1>3 DEF GrantedInOrder
  <2>1. PICK a \in 1..(n - 1), b \in 1..(n - 1) :
          a < b /\ queue'[a] = j /\ queue'[b] = l
    BY <1>2 DEF Before
  <2>2. Before(j, l)
    <3> DEFINE aa == IF a < p THEN a ELSE a + 1
               bb == IF b < p THEN b ELSE b + 1
    <3>1. /\ aa \in 1..n /\ bb \in 1..n /\ aa < bb
          /\ queue[aa] = j /\ queue[bb] = l
      BY <1>2, <2>1
    <3> QED
      BY <3>1 DEF Before, n
  <2>3. l \notin Holding
    BY <2>2 DEF GrantedInOrder
  <2> QED
    BY <1>3, <2>3 DEF Holding
<1>7. NoLostWakeup'
  BY <1>3 DEF NoLostWakeup
<1> QED
  BY <1>5, <1>6, <1>7

(* acquire, after wait() returned. *)
LEMMA RecheckStep ==
  ASSUME Inv, TypeOK', NEW k \in Key, Recheck(k)
  PROVE  Inv'
<1> USE DEF Inv
<1>1. /\ phase[k] = "woken"
      /\ \A l \in Key \ {k} : phase'[l] = phase[l]
      /\ phase'[k] = IF Blocked(k, queue) THEN "parked" ELSE "inside"
      /\ shape' = shape /\ queue' = queue
  BY DEF Recheck, WaitOrGrant, Wait, Grant, TypeOK
<1>2. Queued' = Queued
  BY <1>1 DEF Queued
<1>3. NotQueuedTwice'
  BY <1>1, <1>2 DEF NotQueuedTwice, ToSet
<1>4. GrantedInOrder'
  <2> SUFFICES ASSUME NEW j \in Key, NEW l \in Key,
                      Before(j, l), Blocks(shape[j], shape[l])
               PROVE  l \notin Holding'
    BY <1>1 DEF GrantedInOrder, Before
  <2>1. CASE l = k
    <3>1. k \in Queued
      BY <1>1 DEF Queued
    <3>2. Blocked(k, queue)
      BY <2>1, <3>1, BlockedIffConflictAhead
    <3> QED
      BY <1>1, <2>1, <3>2 DEF Holding
  <2>2. CASE l # k
    BY <1>1, <2>2 DEF GrantedInOrder, Holding
  <2> QED
    BY <2>1, <2>2
<1>5. NoLostWakeup'
  BY <1>1 DEF NoLostWakeup, Blocked
<1> QED
  BY <1>3, <1>4, <1>5

(* The steps that touch neither the queue nor the wait set. *)
LEMMA OtherStep ==
  ASSUME Inv, TypeOK', NEW k \in Key, Acquire(k) \/ Release(k) \/ Released(k)
  PROVE  Inv'
<1> USE DEF Inv
<1>1. /\ \A l \in Key \ {k} : phase'[l] = phase[l]
      /\ phase'[k] # "parked"
      /\ shape' = shape /\ queue' = queue
      /\ Queued' = Queued /\ Holding' = Holding
  BY DEF Acquire, Release, Released, Queued, Holding, TypeOK
<1>2. NotQueuedTwice'
  BY <1>1 DEF NotQueuedTwice, ToSet
<1>3. GrantedInOrder'
  BY <1>1 DEF GrantedInOrder, Before
<1>4. NoLostWakeup'
  BY <1>1 DEF NoLostWakeup, Blocked
<1> QED
  BY <1>2, <1>3, <1>4

LEMMA InvStep == Inv /\ [Next]_vars => Inv'
<1> SUFFICES ASSUME Inv, [Next]_vars PROVE Inv'
  OBVIOUS
<1>1. TypeOK'
  BY TypeStep DEF Inv
<1>2. CASE UNCHANGED vars
  BY <1>2 DEF vars, Inv, TypeOK, NotQueuedTwice, GrantedInOrder, NoLostWakeup,
              ToSet, Queued, Holding, Before, Blocked
<1>3. ASSUME NEW k \in Key,
             \/ Acquire(k) \/ Enqueue(k) \/ Recheck(k)
             \/ Release(k) \/ Dequeue(k) \/ Released(k)
      PROVE  Inv'
  BY <1>1, <1>3, EnqueueStep, DequeueStep, RecheckStep, OtherStep
<1> QED
  BY <1>2, <1>3 DEF Next

(* The inductive invariant holds in every reachable state. *)
THEOREM Invariance == SafeSpec => []Inv
<1>1. QED
  BY InitInv, InvStep, PTL DEF SafeSpec

(* Every variable stays in its type, whatever the keys. *)
THEOREM Typing == SafeSpec => []TypeOK
<1>1. Inv => TypeOK
  BY DEF Inv
<1> QED
  BY <1>1, Invariance, PTL

(* The queue holds each pending key once: the duplicate check in acquire     *)
(* never fires.                                                             *)
THEOREM QueueIntegrity == SafeSpec => []NotQueuedTwice
<1>1. Inv => NotQueuedTwice
  BY DEF Inv
<1> QED
  BY <1>1, Invariance, PTL

(* acquire never grants a key past a conflicting one that asked earlier. *)
THEOREM InOrder == SafeSpec => []GrantedInOrder
<1>1. Inv => GrantedInOrder
  BY DEF Inv
<1> QED
  BY <1>1, Invariance, PTL

(* A thread asleep in acquire has a conflicting key ahead of it. *)
THEOREM WakeupsNotLost == SafeSpec => []NoLostWakeup
<1>1. Inv => NoLostWakeup
  BY DEF Inv
<1> QED
  BY <1>1, Invariance, PTL

(* Keys that conflict are never held together: the exclusion every command   *)
(* that writes templates relies on.                                         *)
THEOREM Exclusion == SafeSpec => []MutualExclusion
<1>1. Inv => MutualExclusion
  <2> SUFFICES ASSUME Inv, NEW j \in Holding, NEW k \in Holding, j # k
               PROVE  ~ Blocks(shape[j], shape[k])
    BY DEF MutualExclusion
  <2>1. PICK a \in 1..Len(queue) : queue[a] = j
    BY DEF Inv, TypeOK, NotQueuedTwice, ToSet, Queued, Holding
  <2>2. PICK b \in 1..Len(queue) : queue[b] = k
    BY DEF Inv, TypeOK, NotQueuedTwice, ToSet, Queued, Holding
  <2>3. Before(j, k) \/ Before(k, j)
    BY <2>1, <2>2 DEF Before, Inv, TypeOK
  <2> QED
    BY <2>3, BlocksSymmetric DEF Inv, GrantedInOrder, Holding
<1> QED
  BY <1>1, Invariance, PTL
-----------------------------------------------------------------------------
(* How a step of the queue changes what is ahead of what. *)
LEMMA BeforeOnEnqueue ==
  ASSUME Inv, NEW k \in Key, Enqueue(k), NEW j \in Key, NEW l \in Key
  PROVE  Before(j, l)' <=> Before(j, l) \/ (l = k /\ j \in Queued)
<1> DEFINE n == Len(queue)
<1>1. /\ n \in Nat
      /\ Len(queue') = n + 1
      /\ \A i \in 1..n : queue'[i] = queue[i]
      /\ queue'[n + 1] = k
      /\ \A i \in 1..n : queue[i] # k
  BY AppendProperties DEF Enqueue, Contains, TypeOK, Inv
<1>2. j \in Queued <=> \E i \in 1..n : queue[i] = j
  BY ToSetMembers DEF NotQueuedTwice, TypeOK, Inv
<1> HIDE DEF n
<1>3. Before(j, l)' <=> \E a, b \in 1..(n + 1) :
                           a < b /\ queue'[a] = j /\ queue'[b] = l
  BY <1>1 DEF Before
<1>4. Before(j, l) <=> \E a, b \in 1..n : a < b /\ queue[a] = j /\ queue[b] = l
  BY DEF Before, n
<1>5. ASSUME NEW a \in 1..(n + 1), NEW b \in 1..(n + 1),
             a < b, queue'[a] = j, queue'[b] = l
      PROVE  Before(j, l) \/ (l = k /\ j \in Queued)
  <2>1. a \in 1..n /\ queue[a] = j
    BY <1>1, <1>5
  <2>2. CASE b = n + 1
    BY <1>1, <1>2, <1>5, <2>1, <2>2
  <2>3. CASE b # n + 1
    BY <1>1, <1>4, <1>5, <2>1, <2>3
  <2> QED
    BY <2>2, <2>3
<1>6. ASSUME NEW a \in 1..n, queue[a] = j, l = k
      PROVE  Before(j, l)'
  <2>1. a \in 1..(n + 1) /\ n + 1 \in 1..(n + 1) /\ a < n + 1
    BY <1>1
  <2> QED
    BY <1>1, <1>3, <1>6, <2>1
<1>7. ASSUME NEW a \in 1..n, NEW b \in 1..n, a < b, queue[a] = j, queue[b] = l
      PROVE  Before(j, l)'
  <2>1. a \in 1..(n + 1) /\ b \in 1..(n + 1)
    BY <1>1
  <2> QED
    BY <1>1, <1>3, <1>7, <2>1
<1> QED
  BY <1>2, <1>3, <1>4, <1>5, <1>6, <1>7

LEMMA BeforeOnDequeue ==
  ASSUME Inv, NEW k \in Key, Dequeue(k), NEW j \in Key, NEW l \in Key
  PROVE  Before(j, l)' <=> Before(j, l) /\ j # k /\ l # k
<1> DEFINE n == Len(queue)
<1>1. PICK p \in 1..n : queue[p] = k /\ queue' = RemoveAt(queue, p)
  BY DEF Dequeue, RemoveKey
<1>2. /\ n \in Nat
      /\ Len(queue') = n - 1
      /\ \A i \in 1..(n - 1) : queue'[i] = IF i < p THEN queue[i] ELSE queue[i + 1]
  <2>1. queue \in Seq(Key)
    BY DEF TypeOK, Inv
  <2> QED
    BY <1>1, <2>1, RemoveAtProperties, LenProperties
<1>3. \A i, m \in 1..n : queue[i] = queue[m] => i = m
  BY DEF NotQueuedTwice, Inv
<1> HIDE DEF n
<1>4. Before(j, l)' <=> \E a, b \in 1..(n - 1) :
                           a < b /\ queue'[a] = j /\ queue'[b] = l
  BY <1>2 DEF Before
<1>5. Before(j, l) <=> \E a, b \in 1..n : a < b /\ queue[a] = j /\ queue[b] = l
  BY DEF Before, n
<1>6. ASSUME NEW a \in 1..(n - 1), NEW b \in 1..(n - 1),
             a < b, queue'[a] = j, queue'[b] = l
      PROVE  Before(j, l) /\ j # k /\ l # k
  <2> DEFINE aa == IF a < p THEN a ELSE a + 1
             bb == IF b < p THEN b ELSE b + 1
  <2>1. /\ aa \in 1..n /\ bb \in 1..n /\ aa < bb /\ aa # p /\ bb # p
        /\ queue[aa] = j /\ queue[bb] = l
    BY <1>2, <1>6
  <2> QED
    BY <1>1, <1>3, <1>5, <2>1
<1>7. ASSUME NEW a \in 1..n, NEW b \in 1..n,
             a < b, queue[a] = j, queue[b] = l, j # k, l # k
      PROVE  Before(j, l)'
  <2> DEFINE aa == IF a < p THEN a ELSE a - 1
             bb == IF b < p THEN b ELSE b - 1
  <2>1. a # p /\ b # p
    BY <1>1, <1>7
  <2>2. aa \in 1..(n - 1) /\ bb \in 1..(n - 1) /\ aa < bb
    BY <1>2, <1>7, <2>1
  <2>3. queue'[aa] = j /\ queue'[bb] = l
    <3>1. queue'[aa] = queue[a]
      BY <1>2, <2>1, <2>2
    <3>2. queue'[bb] = queue[b]
      <4>1. CASE b < p
        BY <1>2, <2>2, <4>1
      <4>2. CASE b > p
        <5>1. bb = b - 1 /\ ~ (b - 1 < p) /\ b - 1 + 1 = b
          BY <4>2
        <5> QED
          BY <1>2, <2>2, <5>1
      <4> QED
        BY <2>1, <4>1, <4>2
    <3> QED
      BY <1>7, <3>1, <3>2
  <2> QED
    BY <1>4, <2>2, <2>3
<1> QED
  BY <1>4, <1>5, <1>6, <1>7

LEMMA InitRefines == Init => Lock!Init
<1> SUFFICES ASSUME Init PROVE Lock!Init
  OBVIOUS
<1>1. conflictBar \subseteq Key \X Key
  BY DEF conflictBar
<1>2. \A j, k \in Key : <<j, k>> \in conflictBar => <<k, j>> \in conflictBar
  BY BlocksSymmetric DEF conflictBar
<1>3. Queued = {} /\ Holding = {}
  BY DEF Init, Queued, Holding
<1>4. waitsForBar = [k \in Key |-> {}]
  BY DEF Init, waitsForBar, Before
<1> QED
  BY <1>1, <1>2, <1>3, <1>4 DEF Lock!Init

(* Joining the queue is the abstract request. *)
LEMMA EnqueueRefines ==
  ASSUME Inv, Inv', NEW k \in Key, Enqueue(k)
  PROVE  Lock!Request(k)
<1> DEFINE ahead == {j \in Queued : <<j, k>> \in conflictBar}
<1>1. /\ phase[k] = "entering"
      /\ \A l \in Key \ {k} : phase'[l] = phase[l]
      /\ phase'[k] = IF Blocked(k, queue') THEN "parked" ELSE "inside"
      /\ shape' = shape
  BY DEF Enqueue, WaitOrGrant, Wait, Grant, TypeOK, Inv
<1>2. k \notin Queued /\ Queued' = Queued \cup {k} /\ Queued \subseteq Key
  BY <1>1 DEF Queued
<1>3. conflictBar' = conflictBar
  BY <1>1 DEF conflictBar
<1>4. ahead = {j \in Key : j \in Queued /\ Blocks(shape[j], shape[k])}
  BY <1>2 DEF conflictBar
<1>5. \A j \in Key : ~ Before(j, k)
  BY <1>2, ToSetMembers DEF Before, NotQueuedTwice, Inv, TypeOK
<1>6. waitsForBar'[k] = ahead
  BY <1>1, <1>4, <1>5, BeforeOnEnqueue DEF waitsForBar
<1>7. \A l \in Key \ {k} : waitsForBar'[l] = waitsForBar[l]
  BY <1>1, BeforeOnEnqueue DEF waitsForBar
<1>8. waitsForBar' = [waitsForBar EXCEPT ![k] = ahead]
  BY <1>6, <1>7 DEF waitsForBar
<1>9. Blocked(k, queue') <=> ahead # {}
  <2> DEFINE n == Len(queue)
  <2>1. /\ n \in Nat
        /\ Len(queue') = n + 1
        /\ \A i \in 1..n : queue'[i] = queue[i] /\ queue[i] # k
        /\ queue'[n + 1] = k
    BY AppendProperties DEF Enqueue, Contains, TypeOK, Inv
  <2>2. \A j : j \in Queued <=> \E i \in 1..n : queue[i] = j
    BY ToSetMembers DEF NotQueuedTwice, TypeOK, Inv
  <2> HIDE DEF n
  <2>3. \A i \in 1..(n + 1) : (\A j \in 1..i : queue'[j] # k) <=> i \in 1..n
    BY <2>1
  <2>4. Blocked(k, queue') <=> \E i \in 1..n : Blocks(shape[queue[i]], shape[k])
    BY <2>1, <2>3 DEF Blocked
  <2> QED
    BY <1>2, <1>4, <2>2, <2>4
<1>10. Holding' = IF ahead = {} THEN Holding \cup {k} ELSE Holding
  BY <1>1, <1>9 DEF Holding
<1> QED
  BY <1>2, <1>3, <1>8, <1>10 DEF Lock!Request

(* A recheck grants the key or changes nothing the abstract lock shows. *)
LEMMA RecheckRefines ==
  ASSUME Inv, NEW k \in Key, Recheck(k)
  PROVE  Lock!Grant(k) \/ UNCHANGED Lock!lockVars
<1>1. /\ phase[k] = "woken"
      /\ \A l \in Key \ {k} : phase'[l] = phase[l]
      /\ phase'[k] = IF Blocked(k, queue) THEN "parked" ELSE "inside"
      /\ shape' = shape /\ queue' = queue
  BY DEF Recheck, WaitOrGrant, Wait, Grant, TypeOK, Inv
<1>2. /\ k \in Queued \ Holding
      /\ Queued' = Queued
      /\ conflictBar' = conflictBar
      /\ waitsForBar' = waitsForBar
  BY <1>1 DEF Queued, Holding, conflictBar, waitsForBar, Before
<1>3. CASE Blocked(k, queue)
  <2>1. Holding' = Holding
    BY <1>1, <1>3 DEF Holding
  <2> QED
    BY <1>2, <2>1 DEF Lock!lockVars
<1>4. CASE ~ Blocked(k, queue)
  <2>1. Holding' = Holding \cup {k}
    BY <1>1, <1>4 DEF Holding
  <2>2. waitsForBar[k] = {}
    BY <1>2, <1>4, BlockedIffConflictAhead DEF waitsForBar, Inv
  <2> QED
    BY <1>2, <2>1, <2>2 DEF Lock!Grant
<1> QED
  BY <1>3, <1>4

(* Leaving the queue gives the key back. *)
LEMMA DequeueRefines ==
  ASSUME Inv, NEW k \in Key, Dequeue(k)
  PROVE  Lock!GiveBack(k)
<1>1. /\ phase[k] = "leaving"
      /\ phase'[k] = "left"
      /\ \A l \in Key \ {k} : phase'[l] = IF phase[l] = "parked" THEN "woken"
                                          ELSE phase[l]
      /\ shape' = shape
  BY DEF Dequeue, NotifyAll, TypeOK, Inv
<1>2. /\ k \in Holding
      /\ Holding' = Holding \ {k}
      /\ Queued' = Queued \ {k}
  BY <1>1 DEF Holding, Queued
<1>3. conflictBar' = conflictBar
  BY <1>1 DEF conflictBar
<1>4. waitsForBar' = [j \in Key |-> waitsForBar[j] \ {k}]
  <2>1. waitsForBar[k] = {}
    BY <1>2 DEF waitsForBar, GrantedInOrder, Inv
  <2>2. ASSUME NEW l \in Key PROVE waitsForBar'[l] = waitsForBar[l] \ {k}
    BY <1>1, <2>1, BeforeOnDequeue DEF waitsForBar
  <2> QED
    BY <2>2 DEF waitsForBar
<1> QED
  BY <1>2, <1>3, <1>4 DEF Lock!GiveBack

LEMMA StepRefines == Inv /\ Inv' /\ [Next]_vars => [Lock!Next]_Lock!lockVars
<1> SUFFICES ASSUME Inv, Inv', [Next]_vars PROVE [Lock!Next]_Lock!lockVars
  OBVIOUS
<1>1. CASE UNCHANGED vars
  BY <1>1 DEF vars, Lock!lockVars, conflictBar, waitsForBar, Queued, Holding, Before
<1>2. ASSUME NEW k \in Key, Acquire(k) \/ Release(k) \/ Released(k)
      PROVE  UNCHANGED Lock!lockVars
  <2>1. /\ shape' = shape /\ queue' = queue
        /\ Queued' = Queued /\ Holding' = Holding
    BY <1>2 DEF Acquire, Release, Released, Queued, Holding, TypeOK, Inv
  <2> QED
    BY <2>1 DEF Lock!lockVars, conflictBar, waitsForBar, Before
<1>3. ASSUME NEW k \in Key, Enqueue(k) PROVE Lock!Next
  BY <1>3, EnqueueRefines DEF Lock!Next
<1>4. ASSUME NEW k \in Key, Recheck(k) PROVE [Lock!Next]_Lock!lockVars
  BY <1>4, RecheckRefines DEF Lock!Next
<1>5. ASSUME NEW k \in Key, Dequeue(k) PROVE Lock!Next
  BY <1>5, DequeueRefines DEF Lock!Next
<1> QED
  BY <1>1, <1>2, <1>3, <1>4, <1>5 DEF Next

(* The queue implements the fair keyed lock, for any keys and shapes. *)
THEOREM Refinement == SafeSpec => ImplementsFairKeyedLock
<1>1. QED
  BY InitRefines, Invariance, StepRefines, PTL
  DEF SafeSpec, ImplementsFairKeyedLock, Lock!Spec
=============================================================================
