---------------------------- MODULE MCLockQueue ----------------------------
(***************************************************************************)
(* Small instances of LockQueue: three threads, and the kinds of key whose   *)
(* conflicts differ.                                                        *)
(***************************************************************************)
EXTENDS LockQueueRefinement

CONSTANTS k1, k2, k3

Keys == {k1, k2, k3}

Names == {"d1", "h1", "p1"}

(* flush, deploy, an update of a host, an update of its personality, a       *)
(* refresh, and a transaction that needs no lock.                           *)
Shapes == {CompileKey(NoName, NoName),
           CompileKey("d1", NoName),
           ObjectProfileKey("d1", "h1", {<<"personality", "p1">>}, FALSE),
           CollectionKey({PlenaryKey({<<"personality", "p1">>}, TRUE)}),
           SyncKey("d1"),
           CollectionKey({})}
=============================================================================
