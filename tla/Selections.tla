------------------------------- MODULE Selections -------------------------------
(***************************************************************************)
(* Sequences chosen by what they hold: what Array.prototype.filter, sort   *)
(* and the iteration of a Set leave of an array.  Each operator is a set   *)
(* of sequences, of one where the order is determined.                     *)
(***************************************************************************)
EXTENDS Integers, Sequences, FiniteSets

(* The sequences in which each element of a finite set stands once. *)
Arrangements(S) ==
    {s \in [1..Cardinality(S) -> S] : S \subseteq {s[i] : i \in DOMAIN s}}

(* The entries at these places, in their order.  (A set of one.) *)
Selected(entries, places) ==
    {[i \in DOMAIN s |-> entries[s[i]]] :
        s \in {a \in Arrangements(places) :
                   \A i, j \in DOMAIN a : i < j => a[i] < a[j]}}
=============================================================================
