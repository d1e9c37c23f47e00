----------------------------- MODULE MCUseMessages ----------------------------
(* Small instances of UseMessages. *)
EXTENDS UseMessages, TLC

Symmetry == Permutations(Ids) \cup Permutations(Groups)
=============================================================================
