------------------------------ MODULE Ranking ------------------------------
(***************************************************************************)
(* Finite sets in an order that decides between any two of their members:  *)
(* what Python's sorted and SQL's ORDER BY make of them.                   *)
(***************************************************************************)
EXTENDS Integers, FiniteSets

\* Each member is at the place that the number of those before it gives it.
InOrder(S, Precedes(_, _)) ==
  [i \in 1..Cardinality(S) |-> CHOOSE x \in S : Cardinality({y \in S : Precedes(y, x)}) = i - 1]

=============================================================================
