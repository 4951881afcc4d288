----------------------------- MODULE MCNotifyd -----------------------------
(***************************************************************************)
(* Instance of Notifyd: one object, three seconds, one fault.               *)
(***************************************************************************)
EXTENDS Notifyd, TLC

CONSTANT o1

=============================================================================
