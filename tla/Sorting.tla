------------------------------ MODULE Sorting ------------------------------
(***************************************************************************)
(* Lists in an order, defined without recursion: the place of an element   *)
(* is the number of elements before it.  No state.                         *)
(***************************************************************************)
EXTENDS Integers, Sequences, FiniteSets

(* The elements of S, of which "before" is a set of pairs: a strict and    *)
(* total order.                                                            *)
Sorted(S, before) ==
  [k \in 1 .. Cardinality(S) |->
     CHOOSE x \in S : Cardinality({y \in S : <<y, x>> \in before}) = k - 1]

(* The elements of the sequence s that are in S, in their order.           *)
Keeping(s, S) ==
  LET places == {i \in DOMAIN s : s[i] \in S}
      order  == Sorted(places, {ij \in places \X places : ij[1] < ij[2]})
  IN  [k \in 1 .. Cardinality(places) |-> s[order[k]]]
=============================================================================
