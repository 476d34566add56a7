---------------------------- MODULE DocumentImage ----------------------------
(***************************************************************************)
(* Reading one document (sil_document_image.c): the image of the document  *)
(* built last, and the cursor that a lookup of a term in it returns.       *)
(*                                                                         *)
(* Such a cursor has one posting, with the id 1: its first advance returns *)
(* true, the next one false.  A client looks a term up, decodes positions  *)
(* when it likes and loops while advance returns true.  A cursor does not  *)
(* outlive a bound: one lookup is followed to its end.                     *)
(***************************************************************************)
EXTENDS DocumentBuilder

CONSTANTS
    Asked,       \* what clients look up
    Stripped,    \* a letter that stands for a term ending in '*', without it
    BaseAddresses   \* where the buffer of a document may be in memory

ASSUME DocumentImageAssumption ==
    /\ Asked \subseteq 1..255 /\ DOMAIN Stripped \subseteq Asked
    /\ \A letter \in DOMAIN Stripped : Stripped[letter] \in 1..255
    /\ BaseAddresses \subseteq Nat

VARIABLES
    asked,     \* the term that was looked up, 0 before
    t,         \* the cursor, NULL if the lookup returned none
    ret,       \* what advance returned last
    hits       \* the times it returned true

cursorVars == <<asked, t, ret, hits>>
vars       == <<builderVars, cursorVars>>

NULL == [advance |-> "NULL"]

Init == /\ BuilderInit
        /\ asked = 0 /\ t = NULL /\ ret = "none" /\ hits = 0

Memory == documents[Len(documents)].document
ImageOfLast == Image(Memory, DocumentAt)

\* sil_document_image_term: where the posting is, of the term or of the term
\* without its '*'.
Place_NoFallback(letter) == MatchTerm(Memory, ImageOfLast, letter)
Place(letter) ==
    LET place == MatchTerm(Memory, ImageOfLast, letter)
    IN  IF place = {} /\ letter \in DOMAIN Stripped
        THEN MatchTerm(Memory, ImageOfLast, Stripped[letter]) ELSE place

\* fill_term for the posting at p.
FillDocumentTerm(p) ==
    LET a == AdvanceDocumentId(Memory, p, 0)
    IN  [id |-> 1, value |-> a.value, first_base |-> a.first_base, wp |-> a.wp,
         p |-> a.p, max_term_size |-> a.p - a.wp, document_frequency |-> 1,
         positions |-> <<>>, decoded |-> FALSE, advance |-> "advance"]

Lookup(letter) ==
    /\ documents # <<>> /\ term_bh = {} /\ asked = 0
    /\ asked' = letter
    /\ IF Place(letter) = {} THEN t' = NULL
       ELSE \E p \in Place(letter) : t' = FillDocumentTerm(p)
    /\ UNCHANGED <<builderVars, ret, hits>>

Live == t # NULL /\ ret # "false"

\* sil_term_decode_positions.
DecodePositions ==
    /\ Live
    /\ t' = [t EXCEPT !.positions = Decoded(Memory, t), !.decoded = TRUE]
    /\ UNCHANGED <<builderVars, asked, ret, hits>>

\* sil_document_image_advance, then sil_document_image_advance_next, which
\* makes the cursor an empty one.
Advance ==
    /\ Live /\ t.advance = "advance"
    /\ t' = [t EXCEPT !.advance = "advance_next"]
    /\ ret' = "true" /\ hits' = hits + 1
    /\ UNCHANGED <<builderVars, asked>>
AdvanceNext ==
    /\ Live /\ t.advance = "advance_next"
    /\ t' = [t EXCEPT !.advance = "empty"]
    /\ ret' = "false"
    /\ UNCHANGED <<builderVars, asked, hits>>

\* sil_document_image_advance_to returns true and leaves the cursor alone.
\* Clients intersect the cursors of one document, whose only id is 1.
AdvanceTo(id) ==
    /\ Live /\ id = 1 /\ ret' = "true"
    /\ UNCHANGED <<builderVars, asked, t, hits>>

Next ==
    \/ asked = 0 /\ BuilderNext /\ UNCHANGED cursorVars
    \/ \E letter \in Asked : Lookup(letter)
    \/ DecodePositions \/ Advance \/ AdvanceNext \/ AdvanceTo(1)

Spec == Init /\ [][Next]_vars
-----------------------------------------------------------------------------
(***************************************************************************)
(* Properties.                                                             *)
(***************************************************************************)
\* A document that was just built.
JustBuilt == documents # <<>> /\ term_bh = {} /\ asked = 0
LastGiven == documents[Len(documents)].given
Given(letter) == {r \in ToSet(LastGiven.records) : r.term = letter}

\* The last document fits the widths of the format.
LastInWidths == documents # <<>> => DocumentInWidths(LastGiven)

\* A serialized document shows its parts again: the header, the data, the
\* terms with a walk by sil_skip_id that ends where the content begins and
\* agrees with the decoder on every length, and the content.  The embeddings
\* are the end of the document, but the image finds them there only if the
\* buffer is at a multiple of 64: the builder pads their offset, the image
\* rounds their address up, and nothing aligns the buffer.
ImageIsDocument ==
    JustBuilt =>
        LET m     == Memory
            image == ImageOfLast
            given == LastGiven
            found == TermsIn(m, image)
            slice(from, n) == SubSeq(m, from, from + n - 1)
            size  == EmbeddingBytes * given.num_embeddings
            embeddings == Len(m) + 1 - size
        IN  /\ image.header = HeaderOf(given)
            /\ U32At(m, 1) = Len(m) - PrefixSize
            /\ [i \in DOMAIN found |-> found[i].term] = TermsOf(given)
            /\ \A i \in DOMAIN found :
                  LET next == SkipId(m, found[i].at)
                  IN  /\ next = AdvanceDocumentId(m, found[i].at, 0).p
                      /\ i = Len(found) => next = image.content
            /\ slice(image.data, given.data_length) = Cells(given.data_length)
            /\ slice(image.content, given.content_length)
                  = Cells(given.content_length)
            /\ slice(embeddings, size) = Cells(size)
            /\ \A base \in BaseAddresses :
                  EmbeddingsAt(image, base) = embeddings <=> base % 64 = 0

\* The length of a document, for BM25, counts its own positions: at least as
\* many as its terms have, and none left over from the document before.
LengthIsOwn ==
    \A d \in DOMAIN documents :
        LET given == documents[d].given
        IN  given.document_length \in
              Cardinality({i \in DOMAIN given.records :
                              given.records[i].position # 0})
                .. Len(given.records)

\* A lookup returns a cursor exactly when the document has the term or, for
\* a wildcard, the term without its '*'; the cursor shows what the client gave
\* for the one that was found, in a buffer that is large enough, and its loop
\* is passed once.
LookupIsExact ==
    asked # 0 =>
        LET found == IF Given(asked) = {} /\ asked \in DOMAIN Stripped
                     THEN Given(Stripped[asked]) ELSE Given(asked)
            plain == {r.value : r \in {q \in found : q.position = 0}}
        IN  /\ (t = NULL) = (found = {})
            /\ t # NULL =>
                  /\ t.id = 1
                  /\ Cardinality(plain) = 1 => plain \subseteq {t.value, 0}
                  /\ Len(t.positions) <= t.max_term_size + 1
                  /\ t.decoded =>
                        ToSet(t.positions) \ {0} =
                            {r.position : r \in found} \ {0}
                  /\ \A i, j \in DOMAIN t.positions :
                        i < j => t.positions[i] <= t.positions[j]
            /\ hits <= 1
            /\ ret = "false" => hits = 1

\* sil_document_image_terms never writes more terms than the array of
\* num_terms it allocates, which counts the calls of the builder, can hold.
TermsFitArray ==
    JustBuilt =>
        Len(TermsIn(Memory, ImageOfLast)) <= ImageOfLast.header.num_terms
=============================================================================
