---------------------------- MODULE MCGroupDiscovery ---------------------------
(* Small instances of GroupDiscovery. *)
EXTENDS GroupDiscovery, TLC

Symmetry == Permutations(Accounts) \cup Permutations(Uuids) \cup Permutations(Runs)
=============================================================================
