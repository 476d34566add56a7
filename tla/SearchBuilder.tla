--------------------------- MODULE SearchBuilder ---------------------------
(***************************************************************************)
(* The search builder (sil_search_builder.c): a client announces documents *)
(* with "global" and adds terms to the one announced last; destroy sorts   *)
(* what was collected and writes the files of the index.                   *)
(*                                                                         *)
(* The two external sorters (open_sorted, of the-io-library) are sets of   *)
(* records.  Their reducer io_keep_first keeps one record of those that    *)
(* compare equal; which one is up to the sort, a choice in Destroy.        *)
(* A term string is a number, in the order of strcmp.  The bytes of d,     *)
(* content and embeddings are abstracted to a tag, the number of the call  *)
(* that announced the document, so that a slice of a file tells whose it   *)
(* is.                                                                     *)
(*                                                                         *)
(* A definition Name_Something is Name with a bug a programmer could have  *)
(* made; Next does not use it.  It shows what a property would catch.      *)
(***************************************************************************)
EXTENDS PostingFormat


CONSTANTS
    Ids, Keys, Positions, Values,     \* what clients pass
    ContentLengths, EmbeddingCounts,
    Wildcards,               \* the prefix terms of a term, with their '*'
    ContentOffsetLimit,      \* 2^36: content_offset is a field of 36 bits
    EmbeddingsOffsetLimit,   \* 2^28: embeddings_offset is a field of 28 bits
    MaxGlobals, MaxTerms,    \* bounds on the calls of a client
    GlobalFirst,             \* clients announce a document before its terms
    NoDocument               \* an empty global_bh

ASSUME BuilderAssumption ==
    /\ Ids \subseteq 0..(IdLimit - 1)
    /\ Keys \subseteq Nat /\ Positions \subseteq Nat /\ Values \subseteq Nat
    /\ ContentLengths \subseteq Nat /\ EmbeddingCounts \subseteq Nat
    /\ Wildcards \in [Keys -> SUBSET Keys]
    /\ ContentOffsetLimit \in Nat \ {0} /\ EmbeddingsOffsetLimit \in Nat \ {0}
    /\ MaxGlobals \in Nat /\ MaxTerms \in Nat
    /\ GlobalFirst \in BOOLEAN

\* A document: what "global" was given, and its length in positions.
Document == [id : Ids, tag : 1..MaxGlobals, document_length : 0..MaxTerms,
             content_length : ContentLengths, num_embeddings : EmbeddingCounts]
ASSUME NoDocumentAssumption == NoDocument \notin Document

VARIABLES
    term_data,        \* records [term, id, position, value] for the sorter
    global_data,      \* documents that are finished
    global_bh,        \* the document announced last, or NoDocument
    max_id, current_id, document_length,
    total_terms, total_documents,
    globals, terms,   \* calls made, for the tags and the bounds
    files             \* what destroy wrote, NoFiles before

docVars == <<global_data, global_bh, max_id, current_id, globals>>
vars == <<term_data, docVars, document_length, total_terms, total_documents,
          terms, files>>

NoFiles == <<>>    \* a record without fields
Building == files = NoFiles

DocumentIds(docs) == {d.id : d \in docs}
TermRecords(recs, key) ==
    {[id |-> r.id, position |-> r.position, value |-> r.value] :
        r \in {q \in recs : q.term = key}}

Init == /\ term_data = {} /\ global_data = {} /\ global_bh = NoDocument
        /\ max_id = 0 /\ current_id = 0 /\ document_length = 0
        /\ total_terms = 0 /\ total_documents = 0
        /\ globals = 0 /\ terms = 0 /\ files = NoFiles

\* The document announced last, if there is one, gets its length and goes to
\* the sorter.
FinishDocument_CountsEmpty ==
    /\ IF global_bh = NoDocument THEN UNCHANGED <<global_data, total_terms>>
       ELSE /\ global_data' = global_data
                 \cup {[global_bh EXCEPT !.document_length = document_length]}
            /\ total_terms' = total_terms + document_length
    /\ total_documents' = total_documents + 1
FinishDocument ==
    IF global_bh = NoDocument
    THEN UNCHANGED <<global_data, total_documents, total_terms>>
    ELSE /\ global_data' = global_data
              \cup {[global_bh EXCEPT !.document_length = document_length]}
         /\ total_documents' = total_documents + 1
         /\ total_terms' = total_terms + document_length

Global_LastIdIsMax(id, content_length, num_embeddings) ==
    /\ Building /\ globals < MaxGlobals
    /\ FinishDocument
    /\ global_bh' = [id |-> id, tag |-> globals + 1, document_length |-> 0,
                     content_length |-> content_length,
                     num_embeddings |-> num_embeddings]
    /\ max_id' = id
    /\ current_id' = id /\ document_length' = 0
    /\ globals' = globals + 1
    /\ UNCHANGED <<term_data, terms, files>>
Global_StaleCurrent(id, content_length, num_embeddings) ==
    /\ Building /\ globals < MaxGlobals
    /\ FinishDocument
    /\ global_bh' = [id |-> id, tag |-> globals + 1, document_length |-> 0,
                     content_length |-> content_length,
                     num_embeddings |-> num_embeddings]
    /\ max_id' = IF id > max_id THEN id ELSE max_id
    /\ current_id' = max_id /\ document_length' = 0
    /\ globals' = globals + 1
    /\ UNCHANGED <<term_data, terms, files>>
Global(id, content_length, num_embeddings) ==
    /\ Building /\ globals < MaxGlobals
    /\ FinishDocument
    /\ global_bh' = [id |-> id, tag |-> globals + 1, document_length |-> 0,
                     content_length |-> content_length,
                     num_embeddings |-> num_embeddings]
    /\ max_id' = IF id > max_id THEN id ELSE max_id
    /\ current_id' = id /\ document_length' = 0
    /\ globals' = globals + 1
    /\ UNCHANGED <<term_data, terms, files>>

\* _sil_search_builder_term for each of a set of keys.
Add(keys, value, pos) ==
    /\ Building /\ terms < MaxTerms
    /\ GlobalFirst => global_bh # NoDocument
    /\ term_data' = term_data \cup
         {[term |-> k, id |-> current_id, position |-> pos, value |-> value] :
            k \in keys}
    /\ terms' = terms + 1
    /\ UNCHANGED <<docVars, total_terms, total_documents, files>>

\* valid_expansion_term returns false before it looks at the term, so the
\* wterm calls add no wildcard.
ValidExpansionTerm(key) == FALSE
Expanded(key) == {key} \cup (IF ValidExpansionTerm(key) THEN Wildcards[key]
                             ELSE {})

Term(key)  == Add({key}, 0, 0) /\ UNCHANGED document_length
WTerm(key) == Add(Expanded(key), 0, 0) /\ UNCHANGED document_length
TermPosition_NotCounted(key, pos) ==
    Add({key}, 0, pos) /\ UNCHANGED document_length
TermPosition(key, pos) ==
    Add({key}, 0, pos) /\ document_length' = document_length + 1
WTermPosition(key, pos) ==
    Add(Expanded(key), 0, pos) /\ document_length' = document_length + 1
TermValue(key, value) == Add({key}, value, 0) /\ UNCHANGED document_length
WTermValue(key, value) ==
    Add(Expanded(key), value, 0) /\ UNCHANGED document_length

(***************************************************************************)
(* What destroy writes.                                                    *)
(***************************************************************************)
\* io_keep_first: one of the records that compare_global_data or
\* compare_term_data finds equal.
KeptGlobals(docs) ==
    {s \in SUBSET docs : /\ DocumentIds(s) = DocumentIds(docs)
                         /\ \A d, e \in s : d.id = e.id => d = e}
TermKey(r) == <<r.term, r.id, r.position>>
KeptTerms(recs) ==
    {s \in SUBSET recs : /\ \A r \in recs : \E q \in s : TermKey(q) = TermKey(r)
                         /\ \A q, r \in s : TermKey(q) = TermKey(r) => q = r}

\* What a document takes in the two files: its content with the 4-byte length
\* in front, its embeddings.
ContentSizes(docs) == [d \in docs |-> d.content_length + 4]
EmbeddingSizes(docs) == [d \in docs |-> d.num_embeddings]
Before(docs, d) == {e \in docs : e.id < d.id}
ContentOffset_NoPrefix(docs, d) ==
    SumFunctionOnSet([e \in docs |-> e.content_length], Before(docs, d))
ContentOffset(docs, d) == SumFunctionOnSet(ContentSizes(docs), Before(docs, d))
EmbeddingsOffset(docs, d) ==
    SumFunctionOnSet(EmbeddingSizes(docs), Before(docs, d))

\* <base>_gbl: the headers in id order, here by id.
GlobalFile(docs) ==
    [id \in DocumentIds(docs) |->
        LET d == CHOOSE e \in docs : e.id = id
        IN  [tag |-> d.tag, document_length |-> d.document_length,
             content_length |-> d.content_length,
             num_embeddings |-> d.num_embeddings,
             content_offset |-> ContentOffset(docs, d) % ContentOffsetLimit,
             embeddings_offset |->
                EmbeddingsOffset(docs, d) % EmbeddingsOffsetLimit]]

\* A file in which document d has sizes[d] cells, in id order.
CellFile(docs, sizes) ==
    LET ids == Ascending(DocumentIds(docs))
        cells(d) == [i \in 1..sizes[d] |-> <<d.tag, i>>]
    IN  FlattenSeq([i \in 1..Len(ids) |->
            cells(CHOOSE d \in docs : d.id = ids[i])])

Written(docs, recs, documents, length, top) ==
    LET keys == Ascending({r.term : r \in recs})
        data == [k \in 1..Len(keys) |-> TermRecords(recs, keys[k])]
    IN  [gbl        |-> GlobalFile(docs),
         content    |-> CellFile(docs, ContentSizes(docs)),
         embeddings |-> CellFile(docs, EmbeddingSizes(docs)),
         term_idx   |-> [k \in 1..Len(keys) |->
                           [key |-> keys[k], offs |-> HeaderAt(data, k) - 1]],
         term_data  |-> TermFile(data),
         postings   |-> data,
         stats      |-> [num_terms |-> Len(keys), total_documents |-> documents,
                         total_terms |-> length, max_id |-> top]]

Destroy_LosesLast ==
    /\ Building
    /\ UNCHANGED <<global_data, total_documents, total_terms>>
    /\ \E docs \in KeptGlobals(global_data), recs \in KeptTerms(term_data) :
         files' = Written(docs, recs, total_documents, total_terms, max_id)
    /\ UNCHANGED <<term_data, global_bh, max_id, current_id, globals,
                   document_length, terms>>
Destroy ==
    /\ Building
    /\ FinishDocument
    /\ \E docs \in KeptGlobals(global_data'), recs \in KeptTerms(term_data) :
         files' = Written(docs, recs, total_documents', total_terms', max_id)
    /\ UNCHANGED <<term_data, global_bh, max_id, current_id, globals,
                   document_length, terms>>

Next == \/ \E id \in Ids, c \in ContentLengths, e \in EmbeddingCounts :
              Global(id, c, e)
        \/ \E key \in Keys :
              \/ Term(key) \/ WTerm(key)
              \/ \E pos \in Positions :
                    TermPosition(key, pos) \/ WTermPosition(key, pos)
              \/ \E value \in Values :
                    TermValue(key, value) \/ WTermValue(key, value)
        \/ Destroy

Spec == Init /\ [][Next]_vars
-----------------------------------------------------------------------------
(***************************************************************************)
(* Properties.                                                             *)
(***************************************************************************)
Record   == [term : Keys, id : Ids \cup {0}, position : Positions \cup {0},
             value : Values \cup {0}]

\* The fields of the builder have their types; the index is written when the
\* last document has gone to the sorter.
TypeOK ==
    /\ term_data \subseteq Record
    /\ global_data \subseteq Document
    /\ global_bh \in Document \cup {NoDocument}
    /\ max_id \in Ids \cup {0} /\ current_id \in Ids \cup {0}
    /\ document_length \in 0..MaxTerms
    /\ total_terms \in Nat /\ total_documents \in Nat
    /\ globals \in 0..MaxGlobals /\ terms \in 0..MaxTerms
    /\ ~Building /\ global_bh # NoDocument =>
          \E d \in global_data : d.tag = global_bh.tag

\* The documents a client has announced so far.
Announced == global_data \cup (IF global_bh = NoDocument THEN {} ELSE {global_bh})

\* The table of global headers has max_id + 1 entries and the image stores at
\* gbls[id] without a check (sil_search_image_init): no id may exceed max_id,
\* whatever the order of the ids, of the documents that were sorted, of the
\* one still in the buffer, of the headers and of the postings written.
IdsFitTable ==
    /\ \A d \in Announced : d.id <= max_id
    /\ \A r \in term_data : r.id <= max_id
    /\ ~Building => /\ files.stats.max_id = max_id
                    /\ \A id \in DOMAIN files.gbl : id <= files.stats.max_id

\* Every posting belongs to a document of the index: a reader that finds an
\* id in a posting list also finds its global header (README.md, "For each
\* document blob call global, then enumerate its terms").
WrittenPostingsHaveDocument ==
    ~Building /\ Announced # {} => \A r \in term_data : r.id \in DOMAIN files.gbl
PostingsHaveDocument ==
    /\ \A r \in term_data : r.id \in DocumentIds(Announced)
    /\ WrittenPostingsHaveDocument

\* The content and the embeddings found at the offsets of a header are those
\* of the document whose header it is, all of them and in order, as long as
\* the files are within what the offset fields can hold; so for documents
\* that were announced twice, of which one is kept.
Slice(file, offset, n) == SubSeq(file, offset + 1, offset + n)
Own(tag, n) == [i \in 1..n |-> <<tag, i>>]
SlicesOwned ==
    ~Building => \A id \in DOMAIN files.gbl :
        LET h == files.gbl[id]
        IN  /\ Len(files.content) <= ContentOffsetLimit =>
                  Slice(files.content, h.content_offset, h.content_length + 4)
                    = Own(h.tag, h.content_length + 4)
            /\ Len(files.embeddings) <= EmbeddingsOffsetLimit =>
                  Slice(files.embeddings, h.embeddings_offset, h.num_embeddings)
                    = Own(h.tag, h.num_embeddings)

\* Two documents were announced with one id.
IdsReused == \E d, e \in Announced : d.id = e.id /\ d.tag # e.tag

\* The lengths in the headers gbl, together.
SumOfLengths(gbl) ==
    SumFunctionOnSet([id \in DOMAIN gbl |-> gbl[id].document_length], DOMAIN gbl)

\* The numbers of stats.txt, from which readers compute the average length
\* for BM25, are those of the headers in the files, unless ids were reused
\* (then documents that the reducer dropped are counted too).
StatsMatchFiles ==
    ~Building =>
        LET s == files.stats
        IN  /\ s.num_terms = Len(files.term_idx)
            /\ s.total_documents >= Cardinality(DOMAIN files.gbl)
            /\ ~IdsReused =>
                 /\ s.total_documents = Cardinality(DOMAIN files.gbl)
                 /\ s.total_terms = SumOfLengths(files.gbl)

\* A document is at least as long, for BM25, as the number of positions its
\* postings hold, although lengths are kept by the calls and postings by the
\* sorter, which drops repeated calls.
LengthsCoverPositions ==
    ~Building /\ GlobalFirst /\ ~IdsReused =>
        \A id \in DOMAIN files.gbl :
            files.gbl[id].document_length >=
                Cardinality({TermKey(r) : r \in {q \in term_data :
                                q.id = id /\ q.position # 0}})

\* The reader finds a term by binary search over term_idx and its header at
\* the offset there: the keys ascend strictly, each offset is that of a
\* header with the frequency and the most positions of this very term, and
\* the blocks tile term_data without a gap.
IndexPointsAtTerms ==
    ~Building =>
        LET idx  == files.term_idx
            data == files.term_data
            at(k) == idx[k].offs + 1
            ids(k) == {r.id : r \in {q \in term_data : q.term = idx[k].key}}
            placed(k, id) == {r.position : r \in {q \in term_data :
                                q.term = idx[k].key /\ q.id = id
                                /\ q.position # 0}}
        IN  /\ {idx[k].key : k \in 1..Len(idx)} = {r.term : r \in term_data}
            /\ \A k \in 1..Len(idx) :
                 /\ k > 1 => idx[k-1].key < idx[k].key
                 /\ U32At(data, at(k) + 4) = Cardinality(ids(k))
                 /\ \A id \in ids(k) :
                       Cardinality(placed(k, id)) <= U32At(data, at(k))
                 /\ at(k) + U32At(data, at(k) - 4) =
                       IF k = Len(idx) THEN Len(data) + 1 ELSE at(k + 1) - 4

\* What clients added fits the widths of the format.  The builder does not
\* check it; IndexPointsAtTerms is proved for indexes of which it is true.
FilesInWidths ==
    ~Building => \A k \in 1..Len(files.postings) : InWidths(files.postings[k])
=============================================================================
