------------------------------- MODULE Ranking -------------------------------
(***************************************************************************)
(* Sorting, by the place that each element takes: ORDER BY in the tables of *)
(* the twins and sort() in their handlers, which keep the order of what is  *)
(* equal. Elements are numbers, a row or a position; each has a key.        *)
(***************************************************************************)
EXTENDS Integers, FiniteSets

Precedes(key, i, j) == key[i] < key[j] \/ (key[i] = key[j] /\ i < j)

Ahead(S, key, i) == {j \in S : Precedes(key, j, i)}

\* The k-th element of S is the one that k - 1 others come before.
InOrder(S, key) ==
  [k \in 1 .. Cardinality(S) |->
     CHOOSE i \in S : Cardinality(Ahead(S, key, i)) = k - 1]
=============================================================================
