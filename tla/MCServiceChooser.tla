-------------------------- MODULE MCServiceChooser --------------------------
(***************************************************************************)
(* Instance of ServiceChooser: two hosts, a cluster for two, two instances *)
(* with room for one, for two or for any number of clients.                *)
(***************************************************************************)
EXTENDS ServiceChooser, TLC

CONSTANTS h1, h2, i1, i2, t1, t2

Symmetric == Permutations({h1, h2}) \cup Permutations({i1, i2})
                \cup Permutations({t1, t2})

=============================================================================
