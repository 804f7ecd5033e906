------------------------------- MODULE Lists -------------------------------
(***************************************************************************)
(* Sorted lists, sublists and sums, for the modules whose properties hang  *)
(* on them.  They are those of SequencesExt and FiniteSetsExt without      *)
(* recursion: the place of an element is the number of elements before it, *)
(* and a sum is the number of elements of a set, so that what they promise *)
(* follows from facts about finite sets.                                   *)
(***************************************************************************)
EXTENDS Naturals, Sequences, FiniteSets

\* A strict order of the elements of S, as a set of pairs <<first, second>>.
IsStrictOrder(R, S) ==
    /\ \A a \in S : <<a, a>> \notin R
    /\ \A a, b, c \in S : <<a, b>> \in R /\ <<b, c>> \in R => <<a, c>> \in R
    /\ \A a, b \in S : a = b \/ <<a, b>> \in R \/ <<b, a>> \in R

Place(R, S, a) == Cardinality({b \in S : <<b, a>> \in R}) + 1

\* SetToSortSeq: the elements of S as a list, in the order R.
InOrder(R, S) == [k \in 1 .. Cardinality(S) |-> CHOOSE a \in S : Place(R, S, a) = k]

Ascending(S) == {p \in S \X S : p[1] < p[2]}

\* SelectSeq: the elements of the list s at the positions K, in their order.
Only(s, K) ==
    LET order == InOrder(Ascending(K), K)
    IN  [k \in 1 .. Cardinality(K) |-> s[order[k]]]

\* SortSeq: the elements of the list s, its positions in the order R.
Sorted(R, s) == LET order == InOrder(R, DOMAIN s) IN [k \in DOMAIN s |-> s[order[k]]]

\* MapThenSumSet: the sum of the numbers f[a], for every a in S.
Units(f, S) == UNION {{a} \X (1 .. f[a]) : a \in S}
Total(f, S) == Cardinality(Units(f, S))
=============================================================================
