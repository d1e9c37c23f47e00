--------------------------- MODULE MCMessageHandlers ---------------------------
(* Small instances of MessageHandlers. *)
EXTENDS MessageHandlers, TLC

Symmetry == Permutations(Ids) \cup Permutations(Groups)
                \cup Permutations(Addresses) \cup Permutations(Nonces)
=============================================================================
