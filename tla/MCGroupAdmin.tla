------------------------------ MODULE MCGroupAdmin ------------------------------
(* Small instances of GroupAdmin. *)
EXTENDS GroupAdmin, TLC

Symmetry == Permutations(Users \ {Me}) \cup Permutations(Groups) \cup Permutations(Slots)
=============================================================================
