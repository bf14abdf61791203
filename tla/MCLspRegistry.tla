---------------------------- MODULE MCLspRegistry ---------------------------
(* TLC instances of LspRegistry. *)
EXTENDS LspRegistry, TLC

Symmetry == Permutations(Clients) \cup Permutations(Tools)
=============================================================================
