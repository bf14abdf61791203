--------------------------- MODULE MCWatchedShell ---------------------------
(* TLC instances of WatchedShell. *)
EXTENDS WatchedShell
=============================================================================
