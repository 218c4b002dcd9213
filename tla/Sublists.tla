------------------------------ MODULE Sublists ------------------------------
(***************************************************************************)
(* What a list comprehension with a condition leaves of a list.            *)
(***************************************************************************)
EXTENDS Integers, Sequences, FiniteSets

(* The elements of a list at some of its indices, in their order.          *)
ElementsAt(list, indices) ==
  LET place(i) == Cardinality({j \in indices : j <= i})
  IN  [k \in 1..Cardinality(indices) |-> list[CHOOSE i \in indices : place(i) = k]]
=============================================================================
