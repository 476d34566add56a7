--------------------------- MODULE DocumentBuilder ---------------------------
(***************************************************************************)
(* The document builder (sil_document_builder.c): a client adds terms,     *)
(* with or without positions and values, and has them serialized; then it  *)
(* begins the next document.  DocumentImage and TermSet read the results.  *)
(*                                                                         *)
(* The records of a document are a bag: each is in term_bh with a number   *)
(* that tells it from the equal ones.                                      *)
(***************************************************************************)
EXTENDS DocumentFormat

CONSTANTS
    Letters, Positions, Values, ContentLengths, EmbeddingCounts,
    DocumentAt,              \* the index clients point an image at
    MaxTerms, MaxDocuments   \* bounds

ASSUME DocumentBuilderAssumption ==
    /\ Letters \subseteq 1..255 /\ Positions \subseteq Nat /\ Values \subseteq Nat
    /\ ContentLengths \subseteq Nat /\ EmbeddingCounts \subseteq Nat
    /\ DocumentAt \in Nat \ {0} /\ {MaxTerms, MaxDocuments} \subseteq Nat

VARIABLES
    term_bh,           \* the records added since the last document
    document_length,   \* document_length_for_bm25
    documents          \* what sil_document_builder_global was given so far

builderVars == <<term_bh, document_length, documents>>

BuilderInit == term_bh = {} /\ document_length = 0 /\ documents = <<>>

\* The wterm calls add the term alone: valid_expansion_term is false.
Add(letter, value, pos) ==
    LET r == [term |-> Lower(letter), position |-> pos, value |-> value]
        equal == {q \in term_bh : q.record = r}
    IN  /\ Len(documents) < MaxDocuments /\ Cardinality(term_bh) < MaxTerms
        /\ term_bh' = term_bh \cup {[record |-> r, copy |-> Cardinality(equal)]}
        /\ UNCHANGED documents

Term(letter) == Add(letter, 0, 0) /\ UNCHANGED document_length
TermPosition(letter, pos) ==
    Add(letter, 0, pos) /\ document_length' = document_length + 1
TermValue(letter, value) == Add(letter, value, 0) /\ UNCHANGED document_length

\* sort_term_data, which leaves the order of equal records open.
InOrder(r, q) == r.term < q.term \/ (r.term = q.term /\ r.position <= q.position)
Sorted(b) ==
    {s \in [1..Cardinality(b) -> b] : \A i, j \in DOMAIN s :
        i < j => s[i] # s[j] /\ InOrder(s[i].record, s[j].record)}

Serialized(d) == [given |-> d, document |-> Blob(d)]
\* The buffers and the length, for the next document.
ClearBuilder_LengthKept == term_bh' = {} /\ UNCHANGED document_length
ClearBuilder == term_bh' = {} /\ document_length' = 0

BuildDocument(content_length, num_embeddings) ==
    /\ Len(documents) < MaxDocuments
    /\ \E s \in Sorted(term_bh) :
          documents' = Append(documents,
             Serialized([records |-> [i \in DOMAIN s |-> s[i].record],
                         document_length |-> document_length,
                         data_length |-> 4, content_length |-> content_length,
                         num_embeddings |-> num_embeddings]))
    /\ ClearBuilder

BuilderNext ==
    \/ \E letter \in Letters :
          \/ Term(letter)
          \/ \E pos \in Positions : TermPosition(letter, pos)
          \/ \E value \in Values : TermValue(letter, value)
    \/ \E c \in ContentLengths, e \in EmbeddingCounts : BuildDocument(c, e)

(***************************************************************************)
(* The records a client adds, for the types of the readers.                *)
(***************************************************************************)
Record == [term : {Lower(l) : l \in Letters}, position : Positions \cup {0},
           value : Values \cup {0}]
=============================================================================
