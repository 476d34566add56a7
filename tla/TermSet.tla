------------------------------ MODULE TermSet ------------------------------
(***************************************************************************)
(* The term sets that are matched against documents of the builder         *)
(* (sil_document_image.c).                                                 *)
(*                                                                         *)
(* A client makes a term set from a query, passes it over documents to     *)
(* count frequencies and to find out how large the position buffers must   *)
(* be, allocates these (prepare), and matches the set against one document *)
(* at a time.  Sets may be copied and combined.  TermMatch says what a     *)
(* client may expect of this.                                              *)
(*                                                                         *)
(* The buffers of a set are an entry of heap; a copy of a set shares those *)
(* of the original.  The clients match a set only against documents that   *)
(* its buffers are large enough for: passed remembers, for each set, the   *)
(* documents its sizes come from, and ready those that the buffers of an   *)
(* entry of heap were sized by.                                            *)
(***************************************************************************)
EXTENDS DocumentBuilder

CONSTANTS
    Queries,        \* token sequences as the client's callback leaves them
    MaxSets, MaxFrequency, MaxPrepares   \* bounds

ASSUME TermSetAssumption ==
    /\ Queries \subseteq Seq(1..255)
    /\ {MaxSets, MaxFrequency, MaxPrepares} \subseteq Nat

VARIABLES
    sets,              \* the term sets
    heap,              \* position buffers, one entry a call of prepare
    passed, ready

setVars == <<sets, heap, passed, ready>>
vars    == <<builderVars, setVars>>

Init == /\ BuilderInit
        /\ sets = <<>> /\ heap = <<>> /\ passed = <<>> /\ ready = <<>>

Memory(d)  == documents[d].document
ImageOf(d) == Image(Memory(d), DocumentAt)
KeysOf(s)  == [i \in DOMAIN sets[s].terms |-> sets[s].terms[i].term]
Hits(s, d) == Merge(Memory(d), ImageOf(d), KeysOf(s))

\* sil_construct_term_set: the terms of the query in order, each once.  The
\* query is in small letters when the callback gets it, and nothing touches
\* the tokens that the callback returns.
UniqueTerms_Unsorted(tokens) == tokens
UniqueTerms(tokens) == Ascending({tokens[i] : i \in DOMAIN tokens})
Construct(query) ==
    LET keys == UniqueTerms(query)
    IN  /\ Len(sets) < MaxSets /\ query # <<>>
        /\ sets' = Append(sets,
              [terms |-> [k \in DOMAIN keys |->
                  [term |-> keys[k],
                   query_term_freq |->
                      Cardinality({i \in DOMAIN query : query[i] = keys[k]}),
                   freq |-> 0, max_term_size |-> 0,
                   match |-> 0, value |-> 0, end |-> 0]],
               term_positions |-> 0])
        /\ passed' = Append(passed, {})
        /\ UNCHANGED <<builderVars, heap, ready>>

\* sil_term_set_copy: the structs are copied, buffer pointers included.
Copy(s) ==
    /\ Len(sets) < MaxSets
    /\ sets' = Append(sets, sets[s])
    /\ passed' = Append(passed, passed[s])
    /\ UNCHANGED <<builderVars, heap, ready>>

\* The size of a term is the number of its position bytes, at least that of
\* its positions; the set keeps the largest.
Larger_Newest(size, other) == other
Larger(size, other) == Max({size, other})

UpdateFrequency(s, d) ==
    LET hits == Hits(s, d)
        counted(t, i) ==
          LET a == AdvanceDocumentId(Memory(d), (CHOOSE h \in hits : h[1] = i)[2],
                                     t.value)
          IN  [t EXCEPT !.freq = @ + 1, !.value = a.value,
                        !.max_term_size = Larger(@, a.p - a.wp)]
    IN  /\ \A i \in DOMAIN sets[s].terms : sets[s].terms[i].freq < MaxFrequency
        /\ sets' = [sets EXCEPT ![s].terms = [i \in DOMAIN @ |->
              IF \E h \in hits : h[1] = i THEN counted(@[i], i) ELSE @[i]]]
        /\ passed' = [passed EXCEPT ![s] = @ \cup {d}]
        /\ UNCHANGED <<builderVars, heap, ready>>

\* sil_document_image_add_set_freq, for two sets of one query.
AddSetFreq(dest, src) ==
    LET both(t, u) == [t EXCEPT !.freq = @ + u.freq,
                                !.max_term_size = Larger(@, u.max_term_size)]
    IN  /\ dest # src /\ KeysOf(dest) = KeysOf(src)
        /\ \A i \in DOMAIN sets[dest].terms :
              sets[dest].terms[i].freq + sets[src].terms[i].freq <= MaxFrequency
        /\ sets' = [sets EXCEPT ![dest].terms =
              [i \in DOMAIN @ |-> both(@[i], sets[src].terms[i])]]
        /\ passed' = [passed EXCEPT ![dest] = @ \cup passed[src]]
        /\ UNCHANGED <<builderVars, heap, ready>>

\* sil_document_image_match_prepare_for_set: new buffers for every term; what
\* is in them is not set, and the ends still point into the old ones.
Prepare(s) ==
    /\ Len(heap) < MaxPrepares
    /\ heap' = Append(heap, [i \in DOMAIN sets[s].terms |->
          [capacity |-> sets[s].terms[i].max_term_size + 1, cells |-> <<>>]])
    /\ ready' = Append(ready, passed[s])
    /\ sets' = [sets EXCEPT ![s].term_positions = Len(heap) + 1]
    /\ UNCHANGED <<builderVars, passed>>

Missed_Kept(t) == t
Missed(t) == [t EXCEPT !.match = 0]

\* sil_document_image_match_set: a buffer is written from its start and keeps
\* what is behind.
Overwritten(cells, ps) == ps \o SubSeq(cells, Len(ps) + 1, Len(cells))

MatchSet(s, d) ==
    LET hits == Hits(s, d)
        b    == sets[s].term_positions
        at(i)  == (CHOOSE h \in hits : h[1] = i)[2]
        old(i) == sets[s].terms[i].value
        a(i)   == AdvanceDocumentId(Memory(d), at(i), old(i))
        ps(i)  == Decoded(Memory(d), a(i))
        hit(i) == \E h \in hits : h[1] = i
        matched(t, i) == [t EXCEPT !.match = d, !.value = a(i).value,
                                   !.end = Len(ps(i))]
        written(e, i) == [e EXCEPT !.cells = Overwritten(@, ps(i))]
    IN  /\ b # 0 /\ d \in ready[b]
        /\ sets' = [sets EXCEPT ![s].terms = [i \in DOMAIN @ |->
              IF hit(i) THEN matched(@[i], i) ELSE Missed(@[i])]]
        /\ heap' = [heap EXCEPT ![b] = [i \in DOMAIN @ |->
              IF hit(i) THEN written(@[i], i) ELSE @[i]]]
        /\ UNCHANGED <<builderVars, passed, ready>>

SetNext ==
    \/ \E query \in Queries : Construct(query)
    \/ \E s \in 1..Len(sets) :
          \/ Copy(s)
          \/ Prepare(s)
          \/ \E src \in 1..Len(sets) : AddSetFreq(s, src)
          \/ \E d \in 1..Len(documents) : UpdateFrequency(s, d) \/ MatchSet(s, d)

Next == (BuilderNext /\ UNCHANGED setVars) \/ SetNext

Spec == Init /\ [][Next]_vars
-----------------------------------------------------------------------------
(***************************************************************************)
(* Properties.                                                             *)
(***************************************************************************)
TermData == [term : 1..255, query_term_freq : Nat, freq : Nat,
             max_term_size : Nat, match : 0..MaxDocuments, value : Nat, end : Nat]

\* The sets' terms ascend, as the merge with a document needs them to, and
\* their buffers exist.
TypeOK ==
    /\ term_bh \subseteq [record : Record, copy : Nat] /\ document_length \in 0..MaxTerms
    /\ \A d \in DOMAIN documents : documents[d].given.records \in Seq(Record)
    /\ \A s \in DOMAIN sets :
          /\ sets[s].terms \in Seq(TermData)
          /\ sets[s].term_positions \in DOMAIN heap \cup {0}
          /\ \A i, j \in DOMAIN sets[s].terms :
                i < j => sets[s].terms[i].term < sets[s].terms[j].term
    /\ DOMAIN passed = DOMAIN sets /\ DOMAIN ready = DOMAIN heap

\* Matching never decodes more positions than prepare made room for, although
\* prepare goes by sizes that other passes, perhaps of other sets, collected.
MatchFitsBuffer ==
    \A h \in DOMAIN heap : \A i \in DOMAIN heap[h] :
        Len(heap[h][i].cells) <= heap[h][i].capacity

\* What a client sees of a term: its positions up to term_positions_end, a 0
\* standing for none; nothing while the end points into other buffers.
Nonzero(ps) ==
    LET at == Ascending({k \in DOMAIN ps : ps[k] # 0})
    IN  IF \A k \in DOMAIN ps : ps[k] # 0 THEN ps ELSE [k \in DOMAIN at |-> ps[at[k]]]
Visible(t, b, i) ==
    IF b = 0 \/ t.end > Len(heap[b][i].cells) THEN <<>>
    ELSE Nonzero(SubSeq(heap[b][i].cells, 1, t.end))

ShownTerm(t, b, i) ==
    [term |-> t.term, query_term_freq |-> t.query_term_freq, freq |-> t.freq,
     match |-> t.match, value |-> t.value, positions |-> Visible(t, b, i)]
ShownSet(set) ==
    [held |-> set.term_positions,
     terms |-> [i \in DOMAIN set.terms |->
                   ShownTerm(set.terms[i], set.term_positions, i)]]

ShownSets == [s \in DOMAIN sets |-> ShownSet(sets[s])]
ShownDocuments == [d \in DOMAIN documents |-> documents[d].given.records]

TM == INSTANCE TermMatch WITH
    documents <- ShownDocuments,
    sets      <- ShownSets

\* Passing, combining, copying, preparing and matching, in any order, do to
\* what a client sees exactly what TermMatch says: a match shows which terms
\* the document has and their positions, with nothing of the document before
\* it but the value of a term the document stores none for; a pass counts it;
\* and no call changes another set except for the positions in buffers they
\* share.
SetsImplement == TM!Spec
=============================================================================
