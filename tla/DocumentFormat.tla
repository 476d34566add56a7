--------------------------- MODULE DocumentFormat ---------------------------
(***************************************************************************)
(* The byte format of a serialized document: what sil_document_builder.c   *)
(* writes and sil_document_image.c reads.  A posting has the fields of     *)
(* PostingFormat behind a control word of 8 bits, without an id.           *)
(*                                                                         *)
(* A term is a string of one letter, so it takes two bytes and strcmp      *)
(* compares the letters.  A pointer into a document is an index of its     *)
(* memory, 1 for the first byte of the buffer; where an address matters,   *)
(* for the alignment of the embeddings, "base" is that of this byte.       *)
(***************************************************************************)
EXTENDS TermImpl

CONSTANT EmbeddingBytes   \* 512 in the code, a multiple of 64

ASSUME DocumentFormatAssumption ==
    EmbeddingBytes \in Nat /\ EmbeddingBytes % 64 = 0

\* The copy loop of _sil_document_builder_term.
Lower(letter) == IF letter \in 65..90 THEN letter + 32 ELSE letter

PrefixSize       == 4    \* the length in front of the header
DocumentHeader   == 24   \* sizeof(sil_document_header_t)
AlignUp(address) == ((address + 63) \div 64) * 64

(***************************************************************************)
(* Writing.  A document d has its records [term, position, value] in the   *)
(* order the builder sorted them, and the sizes of its other parts.        *)
(***************************************************************************)
TermsOf(d) == Ascending({d.records[i].term : i \in 1..Len(d.records)})

\* compress_term: records with the same term and position all stay.  The
\* encoders that sil_document_builder.c has under it (encode_high_bit32,
\* encode_single_value, encode_position_value) are copies of those of
\* sil_search_builder.c, which are in PostingFormat.
RecordsWith(d, term) ==
    LET places == Ascending({i \in 1..Len(d.records) : d.records[i].term = term})
    IN  [k \in 1..Len(places) |-> d.records[places[k]]]
CompressTerm(d, term) ==
    LET c == EncodePosting(RecordsWith(d, term))
    IN  <<term, 0, c.flags>> \o c.payload

TermArea(d) == FlattenSeq([i \in 1..Len(TermsOf(d)) |->
                              CompressTerm(d, TermsOf(d)[i])])

\* num_terms counts the calls, not the terms of the area.
HeaderOf_CountsPositions(d) ==
    [document_length |-> d.document_length,
     term_length |-> Len(TermArea(d)), data_length |-> d.data_length,
     content_length |-> d.content_length,
     num_embeddings |-> d.num_embeddings, num_terms |-> d.document_length]
HeaderOf(d) ==
    [document_length |-> d.document_length,
     term_length |-> Len(TermArea(d)), data_length |-> d.data_length,
     content_length |-> d.content_length,
     num_embeddings |-> d.num_embeddings, num_terms |-> Len(d.records)]

\* A cell of the client's data, content or embeddings is its number there.
Cells(n) == [i \in 1..n |-> i % 256]

\* The document as sil_document_builder_global leaves it in the buffer: its
\* length, the header and the parts, with zeros in front of the embeddings so
\* that their offset in the buffer is a multiple of 64.
Body(d) ==
    LET h == HeaderOf(d)
    IN  U32(h.document_length) \o U32(h.term_length) \o U32(h.data_length)
        \o U32(h.content_length) \o U32(h.num_embeddings) \o U32(h.num_terms)
        \o Cells(d.data_length) \o TermArea(d) \o Cells(d.content_length)
Padding_BodyOnly(d) ==
    LET used == Len(Body(d))
    IN  [i \in 1..(AlignUp(used) - used) |-> 0]
Padding(d) ==
    LET used == PrefixSize + Len(Body(d))
    IN  [i \in 1..(AlignUp(used) - used) |-> 0]
Blob(d) ==
    LET document == Body(d) \o Padding(d)
                    \o Cells(EmbeddingBytes * d.num_embeddings)
    IN  U32(Len(document)) \o document

\* What the widths of the format can hold: every value, the differences of
\* the positions of a term, and the lengths.
DocumentInWidths(d) ==
    /\ \A i \in 1..Len(d.records) :
          /\ Fits32(d.records[i].value)
          /\ NearPositions(PositionsOf(RecordsWith(d, d.records[i].term)))
    /\ \A n \in {d.document_length, Len(TermArea(d)), d.data_length,
                 d.content_length, d.num_embeddings, Len(d.records),
                 Len(Blob(d)) - PrefixSize} : Fits32(n)

(***************************************************************************)
(* Reading.                                                                *)
(***************************************************************************)
\* sil_document_image_init for a document pointer that is index "at".
Image(m, at) ==
    LET word(k) == U32At(m, at + 4 * (k - 1))
        data    == at + DocumentHeader
        terms   == data + word(3)
        content == terms + word(2)
    IN  [header |-> [document_length |-> word(1), term_length |-> word(2),
                     data_length |-> word(3), content_length |-> word(4),
                     num_embeddings |-> word(5), num_terms |-> word(6)],
         data |-> data, terms |-> terms, content |-> content]

\* Where it finds the embeddings: at the next address, not offset, that is a
\* multiple of 64.
EmbeddingsAt(image, base) ==
    AlignUp(base + image.content + image.header.content_length - 1) - base + 1

\* sil_skip_id: the end of the posting at p, without decoding it.
SkipId_ValueSkipped(m, p) ==
    LET flags == At(m, p)
        q     == p + 1
        long  == DecodeHighBit(m, q)
        size  == (flags \div 4) % 4
    IN  IF ~HasFlag(flags, POS_PRESENT)
        THEN q + (CASE flags < VALUE_1BYTE -> 0 [] flags = VALUE_1BYTE -> 1
                    [] flags = VALUE_2BYTE -> 2 [] OTHER -> 4)
        ELSE IF size < 3 THEN q + size + 1 ELSE long.next + long.value + 1
SkipId(m, p) ==
    LET flags == At(m, p)
        first == At(m, p + 1)
        q     == p + 1 + (IF ~HasFlag(flags, VALUE_PRESENT) THEN 0
                          ELSE IF first < POS_VALUE_2BYTE THEN 1
                          ELSE IF first < POS_VALUE_4BYTE THEN 3 ELSE 5)
        long  == DecodeHighBit(m, q)
        size  == (flags \div 4) % 4
    IN  IF ~HasFlag(flags, POS_PRESENT)
        THEN p + 1 + (CASE flags < VALUE_1BYTE -> 0 [] flags = VALUE_1BYTE -> 1
                        [] flags = VALUE_2BYTE -> 2 [] OTHER -> 4)
        ELSE IF size < 3 THEN q + size + 1 ELSE long.next + long.value + 1

\* advance_document_id at p; old is the value before.
AdvanceDocumentId(m, p, old) ==
    LET flags == At(m, p)
        value == IF ~HasFlag(flags, POS_PRESENT)
                 THEN DecodeSingleValue(m, flags, p + 1)
                 ELSE IF HasFlag(flags, VALUE_PRESENT)
                 THEN DecodePositionValue(m, p + 1)
                 ELSE [value |-> old, next |-> p + 1]
        pos   == IF HasFlag(flags, POS_PRESENT)
                 THEN DecodeTermPositions(m, flags, value.next)
                 ELSE [base |-> 0, start |-> value.next, end |-> value.next]
    IN  [value |-> value.value, first_base |-> pos.base,
         wp |-> pos.start, p |-> pos.end]

\* sil_document_image_terms: the terms, and where each posting is.
TermsIn(m, image) ==
    LET from[p \in Nat] ==
          IF p >= image.content THEN <<>>
          ELSE <<[term |-> At(m, p), at |-> p + 2]>> \o from[SkipId(m, p + 2)]
    IN  from[image.terms]

\* sil_document_image_match_term: where the posting of a term is, if the
\* document has the term.
MatchTerm(m, image, key) ==
    LET from[p \in Nat] ==
          IF p >= image.content \/ key < At(m, p) THEN {}
          ELSE IF key = At(m, p) THEN {p + 2}
          ELSE from[SkipId(m, p + 2)]
    IN  from[image.terms]

\* The merge of update_frequency and match_set: the index of each query term
\* that the document has, with the place of its posting.  Both lists ascend.
Merge_SkipsBehind(m, image, keys) ==
    LET walk[s \in Nat \X Nat] ==
          LET p == s[1]
              i == s[2]
          IN  IF p >= image.content \/ i > Len(keys) THEN {}
              ELSE IF keys[i] < At(m, p)
              THEN walk[<<SkipId(m, p + 2), i + 1>>]
              ELSE IF keys[i] = At(m, p)
              THEN {<<i, p + 2>>}
                   \cup walk[<<AdvanceDocumentId(m, p + 2, 0).p, i + 1>>]
              ELSE walk[<<SkipId(m, p + 2), i>>]
    IN  walk[<<image.terms, 1>>]
Merge(m, image, keys) ==
    LET walk[s \in Nat \X Nat] ==
          LET p == s[1]
              i == s[2]
          IN  IF p >= image.content \/ i > Len(keys) THEN {}
              ELSE IF keys[i] < At(m, p) THEN walk[<<p, i + 1>>]
              ELSE IF keys[i] = At(m, p)
              THEN {<<i, p + 2>>}
                   \cup walk[<<AdvanceDocumentId(m, p + 2, 0).p, i + 1>>]
              ELSE walk[<<SkipId(m, p + 2), i>>]
    IN  walk[<<image.terms, 1>>]
=============================================================================
