----------------------------- MODULE MCBranches -----------------------------
(***************************************************************************)
(* Instance of Branches: the domain prod, a domain that may track it or a  *)
(* sandbox, one sandbox, two changes, two threads.                         *)
(***************************************************************************)
EXTENDS Branches, TLC

CONSTANTS prod, test, box, x, y, t1, t2

Symmetric == Permutations({t1, t2}) \cup Permutations({x, y})

=============================================================================
