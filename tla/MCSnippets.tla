----------------------------- MODULE MCSnippets -----------------------------
(***************************************************************************)
(* The instance of Snippets: two terms, two queries.  Term 1 belongs to    *)
(* either query (its two occurrences at a position merge), term 2 to both. *)
(* With a summary of 2 tokens the limits 2, 3 and 6 become 4, 3 and 2, 6,  *)
(* 5 and 3, and 12, 9 and 6 for the starts 0, 1 and from 2 on: a region    *)
(* without an occurrence can be a snippet of its own, or too long for one. *)
(***************************************************************************)
EXTENDS Snippets, TLC

MCPlaces      == {0, 1, 3, 5, 7, 11, 12}
MCTermIndexes == {1, 2}
MCQueryMasks  == (1 :> {{1}, {2}}) @@ (2 :> {{1, 2}})
MCMaxSnippets == {2, 3, 6}
=============================================================================
