------------------------- MODULE MCForegroundCommand ------------------------
(* TLC instances of ForegroundCommand. *)
EXTENDS ForegroundCommand
=============================================================================
