-------------------------- MODULE MCSearchBuilder --------------------------
(***************************************************************************)
(* Instances of SearchBuilder: two ids in different small groups, announced *)
(* in any order and more than once, two terms, offset fields of 2 and 4    *)
(* bits so that they can overflow.                                         *)
(***************************************************************************)
EXTENDS SearchBuilder

MCIds              == {2, 1030}
MCKeys             == {1, 2}
MCPositions        == {5}
MCValues           == {9}
MCContentLengths   == {0, 3}
MCEmbeddingCounts  == {0, 2}
MCWildcards        == [k \in MCKeys |-> {2}]
=============================================================================
