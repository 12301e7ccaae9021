--------------------------- MODULE MCResultCache ---------------------------
(* Small instances of ResultCache for TLC. *)
EXTENDS ResultCache, TLC

Symmetry == Permutations(Proc)
=============================================================================
