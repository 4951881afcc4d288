------------------------ MODULE LockQueueRefinement ------------------------
(***************************************************************************)
(* The lock queue implements FairKeyedLock: a key waits for the conflicting  *)
(* keys ahead of it in the queue.                                           *)
(***************************************************************************)
EXTENDS LockQueue

conflictBar == {p \in Key \X Key : Blocks(shape[p[1]], shape[p[2]])}

waitsForBar ==
  [k \in Key |-> {j \in Key : Before(j, k) /\ Blocks(shape[j], shape[k])}]

Lock == INSTANCE FairKeyedLock WITH conflict <- conflictBar,
                                    pending  <- Queued,
                                    held     <- Holding,
                                    waitsFor <- waitsForBar

(* Every behaviour of the queue is one FairKeyedLock allows: acquire waits   *)
(* for the conflicting requests made before it and for no later one, and     *)
(* release lets go of exactly one request.                                  *)
ImplementsFairKeyedLock == Lock!Spec
=============================================================================
