---------------------------- MODULE MCSubscription ----------------------------
(* Small instances of Subscription.  Liveness is checked: no symmetry. *)
EXTENDS Subscription
=============================================================================
