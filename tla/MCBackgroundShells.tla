------------------------- MODULE MCBackgroundShells -------------------------
(* TLC instances of BackgroundShells. *)
EXTENDS BackgroundShells, TLC

Symmetry == Permutations(Shells) \cup Permutations(Callers)
=============================================================================
