----------------------------- MODULE MCLspClient ----------------------------
(* TLC instances of LspClient. *)
EXTENDS LspClient, TLC

Symmetry == Permutations(Requests) \cup Permutations(Callers)
=============================================================================
