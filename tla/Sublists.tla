------------------------------- MODULE Sublists -------------------------------
(* The loops that go through a list and take over some of its entries.     *)
EXTENDS Naturals, FiniteSets, Sequences

\* the entries of a list that are found in S, in their order
Found(list, S) ==
  LET at == {i \in DOMAIN list : list[i] \in S}
      Rank(i) == Cardinality({j \in at : j <= i})
  IN  [n \in 1..Cardinality(at) |-> list[CHOOSE i \in at : Rank(i) = n]]
=============================================================================
