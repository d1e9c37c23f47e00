------------------------------ MODULE MCRecovery ------------------------------
(* Small instances of Recovery. *)
EXTENDS Recovery, TLC

Symmetry == Permutations(Messages)
=============================================================================
