------------------------------ MODULE TermMatch ------------------------------
(***************************************************************************)
(* What a client sees of term sets, with no bytes in it: a document is the *)
(* list of the records [term, position, value] it added, in order; a set   *)
(* is made from a query, counts the documents it is passed over, and       *)
(* shows, for each of its terms, whether the document it was matched       *)
(* against last has it, at which positions, and a value.  The value is not *)
(* always of this document: one that stores none for a term leaves the     *)
(* value of an earlier document in place, as the code does.                *)
(*                                                                         *)
(* Positions are written to buffers: "held" is the buffers a set uses, 0   *)
(* for none.  A copy holds those of its original until it is prepared      *)
(* itself, so that matching either of them may change the positions, and   *)
(* nothing else, that the other one shows.                                 *)
(***************************************************************************)
EXTENDS Sorting

CONSTANT Queries   \* queries as sequences of terms

VARIABLES
    documents,
    sets    \* [held, terms]; a term is [term, query_term_freq, freq, match,
            \*                           value, positions]

vars == <<documents, sets>>

\* What a document says of a term.  Position 0 stands for no position.
Places(d, term) == {i \in DOMAIN documents[d] : documents[d][i].term = term}
Has(d, term)    == Places(d, term) # {}
PositionsFor(d, term) ==
    LET placed == Ascending({i \in Places(d, term) : documents[d][i].position # 0})
    IN  [k \in DOMAIN placed |-> documents[d][placed[k]].position]

\* The value shown once the posting of a term of d is decoded, if "old" was
\* shown before: that of a record without a position, whichever of them the
\* builder's sort puts first.  No value is stored for a term that has positions
\* only, nor a 0 beside other records: then "old" is still shown, and nothing
\* tells a client that it is the value of another document.
ValueShown(d, term, old, new) ==
    LET plain     == {i \in Places(d, term) : documents[d][i].position = 0}
        stored(i) == documents[d][i].value # 0 \/ Places(d, term) = {i}
    IN  IF plain = {} THEN new = old
        ELSE \E i \in plain : new = IF stored(i) THEN documents[d][i].value ELSE old

Init == documents = <<>> /\ sets = <<>>

Grows(old, new) == Len(new) = Len(old) + 1 /\ \A k \in DOMAIN old : new[k] = old[k]

AddDocument == Grows(documents, documents') /\ UNCHANGED sets

\* sil_construct_term_set: the terms of the query in order, each once.
IsFresh(set, query) ==
    /\ set.held = 0
    /\ {set.terms[i].term : i \in DOMAIN set.terms} = ToSet(query)
    /\ \A i, j \in DOMAIN set.terms :
          i < j => set.terms[i].term < set.terms[j].term
    /\ \A i \in DOMAIN set.terms :
          /\ set.terms[i].freq = 0 /\ set.terms[i].match = 0
          /\ set.terms[i].query_term_freq =
                Cardinality({k \in DOMAIN query : query[k] = set.terms[i].term})
NewSet ==
    /\ Grows(sets, sets')
    /\ \E query \in Queries : IsFresh(sets'[Len(sets')], query)
    /\ UNCHANGED documents

CopySet(s) == sets' = Append(sets, sets[s]) /\ UNCHANGED documents

\* A step of set s that leaves the others alone, and one of any sets.
SameTerms ==
    /\ DOMAIN sets' = DOMAIN sets /\ UNCHANGED documents
    /\ \A q \in DOMAIN sets : DOMAIN sets'[q].terms = DOMAIN sets[q].terms
OnlySet(s) == SameTerms /\ \A q \in DOMAIN sets \ {s} : sets'[q] = sets[q]

\* update_frequency: one more document for each term that d has, whose posting
\* is decoded into the set as a match does, the value with it.
Counted(d, old, new) ==
    IF Has(d, old.term)
    THEN /\ new = [old EXCEPT !.freq = @ + 1, !.value = new.value]
         /\ ValueShown(d, old.term, old.value, new.value)
    ELSE new = old
Pass(s, d) ==
    /\ OnlySet(s) /\ sets'[s].held = sets[s].held
    /\ \A i \in DOMAIN sets[s].terms : Counted(d, sets[s].terms[i], sets'[s].terms[i])

\* add_set_freq: the frequencies of src are added to those of s.
Combined(src, old, new) ==
    \E k \in DOMAIN sets[src].terms :
        /\ sets[src].terms[k].term = old.term
        /\ new = [old EXCEPT !.freq = @ + sets[src].terms[k].freq]
Combine(s, src) ==
    /\ OnlySet(s) /\ sets'[s].held = sets[s].held
    /\ \A i \in DOMAIN sets[s].terms :
          Combined(src, sets[s].terms[i], sets'[s].terms[i])

\* match_prepare_for_set: buffers of its own, with nothing in them yet.
Repositioned(old, new) == new = [old EXCEPT !.positions = new.positions]
Prepare(s) ==
    /\ OnlySet(s) /\ \A q \in DOMAIN sets : sets[q].held # sets'[s].held
    /\ \A i \in DOMAIN sets[s].terms :
          Repositioned(sets[s].terms[i], sets'[s].terms[i])

\* match_set.
Matched(d, old, new) ==
    IF Has(d, old.term)
    THEN /\ new = [old EXCEPT !.match = d, !.value = new.value,
                              !.positions = PositionsFor(d, old.term)]
         /\ ValueShown(d, old.term, old.value, new.value)
    ELSE new = [old EXCEPT !.match = 0]
Match(s, d) ==
    /\ SameTerms /\ sets[s].held # 0
    /\ \A q \in DOMAIN sets :
          IF sets[q].held # sets[s].held THEN sets'[q] = sets[q]
          ELSE /\ sets'[q].held = sets[q].held
               /\ \A i \in DOMAIN sets[q].terms :
                     LET old == sets[q].terms[i]
                         new == sets'[q].terms[i]
                     IN  IF q = s THEN Matched(d, old, new) ELSE Repositioned(old, new)

Next ==
    \/ AddDocument
    \/ NewSet
    \/ \E s \in DOMAIN sets :
          \/ CopySet(s)
          \/ Prepare(s)
          \/ \E src \in DOMAIN sets : src # s /\ Combine(s, src)
          \/ \E d \in DOMAIN documents : Pass(s, d) \/ Match(s, d)

Spec == Init /\ [][Next]_vars
=============================================================================
