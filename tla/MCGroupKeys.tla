------------------------------ MODULE MCGroupKeys ------------------------------
(* Small instances of GroupKeys. *)
EXTENDS GroupKeys, TLC

Symmetry == Permutations(Clients)
=============================================================================
