---------------------------- MODULE RowSequences ----------------------------
(***************************************************************************)
(* What the readers of the store do with a table of rows: keep the rows a  *)
(* mask marks (pandas df[mask], event_store.py), and put them in order     *)
(* (sort_values, accessors.py).  Both are stated over sets, so that they   *)
(* can be reasoned about for tables of any length.                         *)
(***************************************************************************)
EXTENDS Integers, Sequences, FiniteSets, SequencesExt

\* What is wanted of a sequence, in its order.
Select(s, wanted) ==
  LET kept[n \in 0 .. Len(s)] ==
        IF n = 0 THEN << >>
        ELSE IF s[n] \in wanted THEN Append(kept[n - 1], s[n]) ELSE kept[n - 1]
  IN kept[Len(s)]

\* The place of the first of s that is wanted, 0 where none is.
PlaceOf(s, wanted) ==
  LET places == {i \in DOMAIN s : s[i] \in wanted}
  IN IF places = {} THEN 0 ELSE CHOOSE i \in places : \A j \in places : i <= j

\* s up to the first that is wanted, and from there.
Until(s, wanted) ==
  IF PlaceOf(s, wanted) = 0 THEN s ELSE SubSeq(s, 1, PlaceOf(s, wanted) - 1)

From(s, wanted) ==
  IF PlaceOf(s, wanted) = 0 THEN << >> ELSE SubSeq(s, PlaceOf(s, wanted), Len(s))

\* s in the order that the set of pairs before gives its elements: at each place
\* is the element that as many others come before.
Arranged(s, before) ==
  LET Rank(i) == Cardinality({j \in DOMAIN s : <<s[j], s[i]>> \in before})
  IN [k \in DOMAIN s |-> s[CHOOSE i \in DOMAIN s : Rank(i) = k - 1]]

\* The members of a set in that order.
SetInOrder(S, before) ==
  LET Rank(x) == Cardinality({y \in S : <<y, x>> \in before})
  IN [k \in 1 .. Cardinality(S) |-> CHOOSE x \in S : Rank(x) = k - 1]
=============================================================================
