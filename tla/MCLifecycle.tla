---------------------------- MODULE MCLifecycle ----------------------------
(***************************************************************************)
(* Instance of Lifecycle: two hosts, two clusters and one VM, so that      *)
(* hosts and the VM can move between clusters.                             *)
(***************************************************************************)
EXTENDS Lifecycle, TLC

CONSTANTS h1, h2, c1, c2, v1

\* install, reinstall and blind have no code of their own
MCHostRequests ==
    {"build", "almostready", "ready", "rebuild", "failed", "decommissioned"}
MCDelHostStatus == {"build", "decommissioned", "failed"}

Symmetric == Permutations({h1, h2}) \cup Permutations({c1, c2})

=============================================================================
