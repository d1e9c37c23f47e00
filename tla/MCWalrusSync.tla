----------------------------- MODULE MCWalrusSync -----------------------------
(* Small instances of WalrusSync.  Liveness is checked: no symmetry. *)
EXTENDS WalrusSync
=============================================================================
