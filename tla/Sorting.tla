------------------------------- MODULE Sorting -------------------------------
(***************************************************************************)
(* A finite set of numbers as a sequence, in order: the k-th is the one    *)
(* with k of them up to itself.  (SetToSortSeq of the community modules    *)
(* sorts by a choice among permutations, about which nothing is proved.)   *)
(***************************************************************************)
EXTENDS Integers, FiniteSets

Sorted(S) == [k \in 1 .. Cardinality(S) |->
                CHOOSE e \in S : Cardinality({ x \in S : x <= e }) = k]
=============================================================================
