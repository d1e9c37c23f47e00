----------------------------- MODULE MCSignedCalls ----------------------------
(* Small instances of SignedCalls.  Liveness is checked: no symmetry. *)
EXTENDS SignedCalls
=============================================================================
