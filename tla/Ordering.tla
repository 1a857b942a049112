------------------------------- MODULE Ordering -------------------------------
(* Python's sorted, of a finite set and by a strict order.  SetToSortSeq of *)
(* the community modules says the same with TLC's SortSeq, which has no     *)
(* definition that a proof could expand.                                    *)
EXTENDS Integers, FiniteSets

(* The members of S from the least on: the i-th has i - 1 before it. *)
SortedBy(S, Less(_, _)) ==
    [i \in 1 .. Cardinality(S) |-> CHOOSE x \in S : Cardinality({y \in S : Less(y, x)}) = i - 1]
===============================================================================
