----------------------------- MODULE Subsequences -----------------------------
(***************************************************************************)
(* Numbers of a set counted in ascending order, and the entries a list has *)
(* at the places of a set, in their order.  SelectSeq and SetToSortSeq of  *)
(* the library say the same, but the proof system expands neither.         *)
(***************************************************************************)
EXTENDS Naturals, FiniteSets

Rank(i, places) == Cardinality({j \in places : j <= i})

Nth(k, places) == CHOOSE i \in places : Rank(i, places) = k

Kept(list, places) == [k \in 1..Cardinality(places) |-> list[Nth(k, places)]]
=============================================================================
