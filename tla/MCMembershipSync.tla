---------------------------- MODULE MCMembershipSync ----------------------------
(* Small instances of MembershipSync. *)
EXTENDS MembershipSync, TLC

Symmetry == Permutations(Members)
=============================================================================
