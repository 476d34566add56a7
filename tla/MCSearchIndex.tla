--------------------------- MODULE MCSearchIndex ---------------------------
(***************************************************************************)
(* An instance of SearchIndex: ids in two high level groups, key 2 is the  *)
(* wildcard of key 1.                                                      *)
(***************************************************************************)
EXTENDS SearchIndex, TLC

MCIds             == {2, 262150}
MCKeys            == {1, 2}
MCPositions       == {0, 300}
MCValues          == {40}
MCContentLengths  == {0}
MCEmbeddingCounts == {1}
MCWildcards       == [k \in MCKeys |-> {2}]
MCStripped        == 2 :> 1

\* What FewCallsAlwaysReadable asks of clients holds of these.
ASSUME InstanceNarrow == NarrowInput /\ MaxTerms <= MaxBehind
=============================================================================
