------------------------------- MODULE Sorting -------------------------------
(***************************************************************************)
(* Sorting a set of numbers: what the sorts of the library leave, without  *)
(* their algorithms.                                                       *)
(***************************************************************************)
EXTENDS Integers, SequencesExt

\* The elements of S in ascending order.
Ascending(S) == [i \in 1..Cardinality(S) |->
                    CHOOSE x \in S : Cardinality({y \in S : y < x}) = i - 1]
=============================================================================
