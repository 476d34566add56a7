------------------------------ MODULE MCTermSet ------------------------------
(***************************************************************************)
(* The instance of TermSet.  The documents have a capital letter, which a  *)
(* query asks for as a small one, and the query has the other one twice.   *)
(* The documents are complete before the first set is made: the builder    *)
(* and the sets have no variable in common.                                *)
(***************************************************************************)
EXTENDS TermSet

MCLetters   == {65, 98}
MCPositions == {300}
MCValues    == {40}
MCContentLengths  == {3}
MCEmbeddingCounts == {0}
MCQueries   == {<<98, 97, 98>>}

\* The order of two documents does not matter to a set, so the smaller comes
\* first, with one record at most; the other one has two.  Only one letter has
\* records without a position, and these have a value.
SmallDocuments ==
    /\ sets # <<>> => term_bh = {} /\ Len(documents) = MaxDocuments
    /\ \A d \in DOMAIN documents :
          Len(documents[d].given.records) \in (IF d = 1 THEN {0, 1} ELSE {2})
    /\ \A q \in term_bh : q.record.position = 0 =>
          q.record.term = Lower(65) /\ q.record.value # 0
=============================================================================
