------------------------------ MODULE Ordering ------------------------------
(***************************************************************************)
(* Sets of numbers put in order, and sequences without some of their       *)
(* elements, defined by what they are and not by recursion (as SelectSeq   *)
(* and SetToSortSeq are), so that OrderingProofs can reason about them.    *)
(***************************************************************************)
EXTENDS Integers, FiniteSets

\* The numbers of S from the smallest to the largest.
InOrder(S) ==
  CHOOSE s \in [1..Cardinality(S) -> S] :
    \A i, j \in DOMAIN s : i < j => s[i] < s[j]

\* The sequence q without the elements that are not in S.
Only(q, S) ==
  LET kept == InOrder({k \in DOMAIN q : q[k] \in S})
  IN  [n \in DOMAIN kept |-> q[kept[n]]]
=============================================================================
