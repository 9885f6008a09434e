------------------------------ MODULE Ranking ------------------------------
(***************************************************************************)
(* Numbers in ascending order, and the entries of a list at given places.  *)
(***************************************************************************)
EXTENDS Integers, Sequences, FiniteSets

(* How many of the numbers P are not above i.                              *)
Before(P, i) == Cardinality({j \in P : j <= i})

InOrder(P) == [n \in 1 .. Cardinality(P) |-> CHOOSE i \in P : Before(P, i) = n]

(* The entries of a list at the places P, in the order of the list.        *)
Chosen(list, P) == LET places == InOrder(P) IN [n \in DOMAIN places |-> list[places[n]]]

Earliest(P) == CHOOSE i \in P : \A j \in P : i <= j
=============================================================================
