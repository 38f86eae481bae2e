-------------------------------- MODULE Lists --------------------------------
(***************************************************************************)
(* What several loops of the program do with a list: add up what its items *)
(* cost, and go through a set of places in an order.                       *)
(***************************************************************************)
EXTENDS Naturals, Sequences, FiniteSets

Sum(costs) ==
    LET upto[n \in 0 .. Len(costs)] == IF n = 0 THEN 0 ELSE upto[n - 1] + costs[n]
    IN  upto[Len(costs)]

\* The elements of S in the strict order before, a set of pairs: each has the
\* place after those that come before it.
Listed(S, before) ==
    LET Place(i) == Cardinality({j \in S : <<j, i>> \in before}) + 1
    IN  [n \in 1 .. Cardinality(S) |-> CHOOSE i \in S : Place(i) = n]
==============================================================================
