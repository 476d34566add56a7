---------------------------- MODULE SearchIndex ----------------------------
(***************************************************************************)
(* An index from end to end: SearchBuilder writes the files, the search    *)
(* image (sil_search_image.c) loads them, clients look terms up in it, run *)
(* a term cursor over the bytes of the posting list to its end and fetch    *)
(* the global header of each hit.                                          *)
(***************************************************************************)
EXTENDS SearchBuilder, TermImpl

CONSTANTS
    Stripped,    \* a key that ends in '*' without it, as another key
    NoImage, NoHeader,
    MaxQueries   \* bound on the lookups of a client

ASSUME IndexAssumption ==
    /\ DOMAIN Stripped \subseteq Keys /\ \A k \in DOMAIN Stripped : Stripped[k] \in Keys
    /\ MaxQueries \in Nat

\* A global header in the file.
Header == [tag : 1..MaxGlobals, document_length : 0..MaxTerms,
           content_length : ContentLengths, num_embeddings : EmbeddingCounts,
           content_offset : Nat, embeddings_offset : Nat]
ASSUME NoHeaderAssumption == NoHeader \notin Header

VARIABLES
    image,       \* sil_search_image_t
    query,       \* the key asked for last
    term, t, ret, call,   \* the cursor, see TermCursor
    seen,        \* ids advance has returned since the lookup
    header,      \* what sil_search_image_global returned last
    queries

readerVars == <<image, query, term, t, ret, call, seen, header, queries>>
indexVars  == <<vars, readerVars>>

Loaded == image # NoImage

Live   == term # 0 /\ ret # "false"

IndexInit ==
    /\ Init
    /\ image = NoImage /\ query = 0 /\ term = 0 /\ t = NoCursor
    /\ ret = "none" /\ call = "none" /\ seen = {} /\ header = NoHeader
    /\ queries = 0

\* The bytes behind term_data are zeros here (TermCursor varies them).
Zeros == [i \in 1..8 |-> 0]

\* sil_search_image_init: the table of headers has max_id + 1 entries, from
\* stats.txt, and gets a header for each record of the global file; gbls is
\* the part of it that is not NULL (IdsFitTable: nothing lands outside).
Opened(entries) ==
    [num_gbls   |-> entries,
     gbls       |-> files.gbl,
     embeddings |-> files.embeddings,
     content    |-> files.content,
     terms      |-> files.term_idx,
     term_data  |-> files.term_data \o Zeros]
LoadImage_NoSlot ==
    /\ ~Building /\ ~Loaded
    /\ image' = Opened(files.stats.max_id)
    /\ UNCHANGED <<vars, query, term, t, ret, call, seen, header, queries>>
LoadImage ==
    /\ ~Building /\ ~Loaded
    /\ image' = Opened(files.stats.max_id + 1)
    /\ UNCHANGED <<vars, query, term, t, ret, call, seen, header, queries>>

\* search_strings: the entry with this key, by binary search.
Found(key) == {k \in 1..Len(image.terms) : image.terms[k].key = key}
\* sil_search_image_term falls back to the term without its '*'.
Matches_NoFallback(key) == Found(key)
Matches(key) == IF Found(key) = {} /\ key \in DOMAIN Stripped
                THEN Found(Stripped[key]) ELSE Found(key)

Lookup(key) ==
    /\ Loaded /\ ~Live /\ queries < MaxQueries
    /\ UNCHANGED <<vars, image, header>>
    /\ query' = key /\ seen' = {} /\ queries' = queries + 1
    /\ ret' = "none" /\ call' = "lookup"
    /\ \/ \E k \in Matches(key) :
             /\ term' = k
             /\ t' = FillTerm(image.term_data, image.terms[k].offs + 1)
       \/ Matches(key) = {} /\ term' = 0 /\ t' = NoCursor

\* The loop of a client, "while(advance) { decode; ... }", one call a step.
Advance ==
    /\ Live
    /\ LET r == ImageAdvance(image.term_data, t)
       IN  /\ t' = r.t
           /\ ret' = IF r.ok THEN "true" ELSE "false"
           /\ seen' = IF r.ok THEN seen \cup {r.t.id} ELSE seen
    /\ call' = "advance"
    /\ UNCHANGED <<vars, image, query, term, header, queries>>

DecodeHit ==
    /\ ret = "true"
    /\ t' = [t EXCEPT !.positions = Decoded(image.term_data, t)]
    /\ call' = "decode"
    /\ UNCHANGED <<vars, image, query, term, ret, seen, header, queries>>

\* sil_search_image_global for the id under the cursor.
FetchGlobal ==
    /\ ret = "true"
    /\ header' = IF t.id < image.num_gbls /\ t.id \in DOMAIN image.gbls
                 THEN image.gbls[t.id] ELSE NoHeader
    /\ call' = "global"
    /\ UNCHANGED <<vars, image, query, term, t, ret, seen, queries>>

\* What a client reads at the pointers that sil_search_image_content and
\* sil_search_image_embeddings return for a header; content begins with its
\* length, of 4 bytes.
ContentOf(h) ==
    SubSeq(image.content, h.content_offset + 1,
           h.content_offset + h.content_length + 4)
EmbeddingsOf(h) ==
    SubSeq(image.embeddings, h.embeddings_offset + 1,
           h.embeddings_offset + h.num_embeddings)

Build == Next /\ UNCHANGED readerVars

IndexNext == \/ Build
             \/ LoadImage
             \/ \E key \in Keys : Lookup(key)
             \/ Advance
             \/ DecodeHit
             \/ FetchGlobal

IndexSpec == IndexInit /\ [][IndexNext]_indexVars /\ WF_indexVars(Advance)
-----------------------------------------------------------------------------
(***************************************************************************)
(* Properties: a query against what the client gave the builder.           *)
(***************************************************************************)
\* The records the client added for a key, and the key a query stands for.
Added(key)  == {r \in term_data : r.term = key}
Asked == IF Added(query) = {} /\ query \in DOMAIN Stripped
         THEN Stripped[query] ELSE query
Hit   == term # 0 /\ ret = "true"

\* The reader's variables have their types and a hit is within the table.
IndexTypeOK ==
    /\ TypeOK
    /\ ret \in {"none", "true", "false"} /\ query \in Keys \cup {0}
    /\ seen \subseteq Nat /\ queries \in 0..MaxQueries
    /\ Hit => t.id < image.num_gbls

\* A query that has run to its end has returned every document the term was
\* added to, and no other; a lookup finds nothing only when there is nothing.
QueryIsExact ==
    /\ ret = "false" => seen = {r.id : r \in Added(Asked)}
    /\ queries > 0 /\ term = 0 => Added(Asked) = {}

\* The positions decoded for a hit are, in ascending order, the ones the
\* client gave for this term in this document (0 stands for "none"), and the
\* value is one the client gave.
HitIsAsAdded ==
    call = "decode" /\ Hit =>
        LET mine == {r \in Added(Asked) : r.id = t.id}
            ps   == t.positions
        IN  /\ {ps[i] : i \in 1..Len(ps)} \ {0} = {r.position : r \in mine} \ {0}
            /\ \A i, j \in 1..Len(ps) : i < j => ps[i] < ps[j]
            /\ (\A r \in mine : r.position = 0) =>
                  \E r \in mine : t.value = r.value

\* The header fetched for a hit is that of a document announced with its id,
\* and leads to the content and the embeddings of that document.
HitHasHeader ==
    call = "global" /\ Hit =>
        /\ header # NoHeader
        /\ \E d \in Announced :
              /\ d.id = t.id /\ d.tag = header.tag
              /\ ContentOf(header) = Own(d.tag, d.content_length + 4)
              /\ EmbeddingsOf(header) = Own(d.tag, d.num_embeddings)

\* The loop "while(advance)" of a query ends.
QueryEnds == (term # 0) ~> (ret = "false")
-----------------------------------------------------------------------------
\* What SearchIndexProofs assumes of an index: what clients added fits the
\* format, and the 8 bytes behind a term that etp takes in, of the next
\* block or of what follows the file, read as empty groups; content and
\* embeddings are within what the offset fields can hold.
FilesReadable ==
    FilesInWidths /\ (~Building => EmptyBehind(files.postings, Zeros))
FilesInOffsets ==
    ~Building => /\ Len(files.content) <= ContentOffsetLimit
                 /\ Len(files.embeddings) <= EmbeddingsOffsetLimit

\* FilesReadable is derived from what clients pass: numbers that fit, a term
\* of so few records that its positions, of 5 bytes each, take less than
\* 2^28, and behind another term one so short that its length and its most
\* positions fit in a byte (a record takes at most 29 bytes).
NarrowInput == /\ \A v \in Values : Fits32(v)
               /\ \A pos \in Positions : pos < 268435456
MaxRecords == 53687091
MaxBehind  == 8
ListsFit   == ~Building => \A k \in 1..Len(files.postings) :
                              Cardinality(files.postings[k]) <= MaxRecords
ShortLists == ~Building => \A k \in 1..Len(files.postings) :
                              k > 1 => Cardinality(files.postings[k]) <= MaxBehind
=============================================================================
