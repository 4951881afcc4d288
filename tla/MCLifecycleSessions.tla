------------------------ MODULE MCLifecycleSessions ------------------------
(***************************************************************************)
(* Instance of LifecycleSessions: two threads on two hosts and one         *)
(* cluster, or one thread for the refinement of the serial machine.        *)
(***************************************************************************)
EXTENDS LifecycleSessions, TLC

CONSTANTS h1, h2, c1, t1, t2

MCHostRequests  == {"ready", "rebuild", "decommissioned"}
MCDelHostStatus == {"build", "decommissioned"}

Symmetric == Permutations({h1, h2}) \cup Permutations({t1, t2})

=============================================================================
