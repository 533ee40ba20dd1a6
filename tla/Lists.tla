------------------------------- MODULE Lists --------------------------------
(***************************************************************************)
(* Lists of the interface that lose entries: Array.filter.                 *)
(***************************************************************************)
EXTENDS Integers, FiniteSets

\* The rank of a place among some places.
Rank(i, places) == Cardinality({j \in places : j <= i})

\* The entries of a list at some of its places, in their order.
EntriesAt(list, places) ==
  [k \in 1..Cardinality(places) |-> list[CHOOSE i \in places : Rank(i, places) = k]]
=============================================================================
