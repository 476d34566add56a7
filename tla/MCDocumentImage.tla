--------------------------- MODULE MCDocumentImage ---------------------------
(***************************************************************************)
(* Instances of DocumentImage.  The letter 65 is 'A', which a lookup finds *)
(* as 'a', 97; the letter 200 stands for the term "a*".  98 is in none of  *)
(* the documents.  The buffer of a document is at a multiple of 64, of 16   *)
(* only, as malloc may place it, or at an odd address.                     *)
(***************************************************************************)
EXTENDS DocumentImage, TLC

MCLetters   == {65, 200}
MCPositions == {5, 300, 70000}
MCValues    == {40, 300}
MCContentLengths  == {3}
MCEmbeddingCounts == {1}
MCAsked     == {97, 98, 200}
MCStripped  == 200 :> 97
MCBaseAddresses == {4096, 4112, 4159}

\* The second document, which is there for what the builder may have left of
\* the first, has one record at most.
SmallSecond == documents # <<>> => Cardinality(term_bh) <= 1
=============================================================================
