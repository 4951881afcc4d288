------------------------ MODULE MCPlenaryTransaction ------------------------
(***************************************************************************)
(* Two plenaries of the kinds commands meet.                                *)
(***************************************************************************)
EXTENDS PlenaryTransaction

CONSTANTS p1, p2

Plenaries == {p1, p2}

Host(prior, fate, moved, changed) ==
  [prior |-> prior, fate |-> fate, moved |-> moved, changed |-> changed,
   compileable |-> TRUE, host |-> TRUE, object |-> TRUE, allow_incomplete |-> TRUE]

Kinds ==
  {Host("absent", "live", FALSE, TRUE),             \* add_host
   Host("complete", "live", FALSE, FALSE),          \* nothing changed
   Host("complete", "live", FALSE, TRUE),           \* reconfigure
   Host("complete", "live", TRUE, TRUE),            \* manage
   Host("complete", "deleted", FALSE, TRUE),        \* del_host
   Host("complete", "incomplete", FALSE, TRUE),
   Host("incomplete", "live", FALSE, TRUE),
   [Host("complete", "incomplete", TRUE, TRUE) EXCEPT !.allow_incomplete = FALSE],
   [Host("complete", "live", FALSE, TRUE) EXCEPT !.compileable = FALSE],
   [Host("complete", "live", FALSE, TRUE) EXCEPT !.compileable = FALSE, !.host = FALSE],
   [Host("complete", "live", TRUE, TRUE) EXCEPT !.object = FALSE, !.host = FALSE]}
=============================================================================
