--------------------------- MODULE FairKeyedLock ---------------------------
(***************************************************************************)
(* What the broker's lock queue promises: a request waits for exactly the   *)
(* conflicting requests that were pending when it was made, and for nothing *)
(* else.  There is no queue here, only the set of requests each one still    *)
(* waits for.                                                               *)
(***************************************************************************)
CONSTANT Key

VARIABLES conflict,   \* the pairs of keys that may not be held together
          pending,    \* the keys requested and not given back
          held,       \* those of them that were granted
          waitsFor    \* waitsFor[k]: the requests k has to let pass

lockVars == <<conflict, pending, held, waitsFor>>

Init == /\ conflict \subseteq Key \X Key
        /\ \A j, k \in Key : <<j, k>> \in conflict => <<k, j>> \in conflict
        /\ pending = {}
        /\ held = {}
        /\ waitsFor = [k \in Key |-> {}]

(* A request is granted at once when it conflicts with none pending. *)
Request(k) ==
  LET ahead == {j \in pending : <<j, k>> \in conflict}
  IN  /\ k \notin pending
      /\ pending' = pending \cup {k}
      /\ waitsFor' = [waitsFor EXCEPT ![k] = ahead]
      /\ held' = IF ahead = {} THEN held \cup {k} ELSE held
      /\ UNCHANGED conflict

Grant(k) == /\ k \in pending \ held
            /\ waitsFor[k] = {}
            /\ held' = held \cup {k}
            /\ UNCHANGED <<conflict, pending, waitsFor>>

GiveBack(k) == /\ k \in held
               /\ held' = held \ {k}
               /\ pending' = pending \ {k}
               /\ waitsFor' = [j \in Key |-> waitsFor[j] \ {k}]
               /\ UNCHANGED conflict

Next == \E k \in Key : Request(k) \/ Grant(k) \/ GiveBack(k)

Spec == Init /\ [][Next]_lockVars
=============================================================================
