------------------------------ MODULE Picking ------------------------------
(***************************************************************************)
(* What is left of a sequence when elements are taken out, by their places. *)
(***************************************************************************)
EXTENDS Naturals, Sequences, FiniteSets

\* The place that so many places are not behind.
Place(is, k) == CHOOSE i \in is : Cardinality({j \in is : j <= i}) = k

\* The elements at these places, in their order.
Picked(s, is) == [k \in 1..Cardinality(is) |-> s[Place(is, k)]]

=============================================================================
