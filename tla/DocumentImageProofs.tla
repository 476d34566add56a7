------------------------- MODULE DocumentImageProofs -------------------------
(***************************************************************************)
(* The document length that is written into a document, for every set of   *)
(* letters, positions and values and for documents of every size: the      *)
(* builder's invariant carries over to the clients of its documents.       *)
(***************************************************************************)
EXTENDS DocumentImage, DocumentBuilderProofs

\* A cursor changes nothing that the builder has.
LEMMA ReadersKeepBuilder ==
    ASSUME [Next]_vars
    PROVE  BuilderNext \/ UNCHANGED builderVars
BY DEF vars, Next, Lookup, DecodePositions, Advance, AdvanceNext, AdvanceTo

\* The length that sil_document_builder_global writes counts the document's
\* own positions: no fewer than the records that have one, no more than all
\* its records, and none that was left over from the document before.
THEOREM LengthIsOwnAlways == Spec => []LengthIsOwn
<1>1. Init => DocumentInv
  BY DocumentInvInit DEF Init
<1>2. DocumentInv /\ [Next]_vars => DocumentInv'
  BY ReadersKeepBuilder, DocumentInvStep, DocumentInvStutters
<1>3. DocumentInv => LengthIsOwn
  BY DEF DocumentInv, DocumentsInv, Written, OwnLength, LengthIsOwn
<1> QED BY <1>1, <1>2, <1>3, PTL DEF Spec
-----------------------------------------------------------------------------
(***************************************************************************)
(* What the image of the last document shows.                              *)
(***************************************************************************)
\* The last document.
LEMMA LastDocument ==
    ASSUME DocumentInv, documents # <<>>
    PROVE  /\ LastGiven \in GivenDocument /\ InSortOrder(LastGiven)
           /\ Memory = Blob(LastGiven) /\ Memory \in Seq(Nat)
<1> DEFINE x == documents[Len(documents)]
<1>1. x \in [given : GivenDocument, document : Seq(Nat)] /\ Len(documents) \in DOMAIN documents
  <2> DEFINE D == [given : GivenDocument, document : Seq(Nat)]
  <2>1. documents \in Seq(D) /\ documents # <<>>
    BY DEF DocumentInv, DocumentsInv
  <2> HIDE DEF D
  <2>2. Len(documents) \in DOMAIN documents
    BY <2>1
  <2>3. x \in D
    BY <2>1, <2>2
  <2> QED BY <2>2, <2>3 DEF D
<1>2. Written(x)
  BY <1>1 DEF DocumentInv, DocumentsInv
<1> HIDE DEF x
<1>3. /\ x.given \in GivenDocument /\ InSortOrder(x.given)
      /\ x.document = Blob(x.given) /\ x.document \in Seq(Nat)
  BY <1>1, <1>2 DEF Written
<1> QED BY <1>3 DEF x, LastGiven, Memory

\* The terms that an image shows.
LEMMA TermsShown ==
    ASSUME NEW d, d.records \in Seq(Record), NEW m \in Seq(Nat), NEW image,
           image.terms \in Nat, image.content \in Nat, NEW at, NEW end,
           Shown(d, m, image, at, end)
    PROVE  LET found == TermsIn(m, image)
           IN  /\ [i \in DOMAIN found |-> found[i].term] = TermsOf(d)
               /\ Len(found) \in Nat /\ Len(found) <= Len(d.records)
               /\ \A i \in DOMAIN found :
                     LET next == SkipId(m, found[i].at)
                     IN  /\ next = AdvanceDocumentId(m, found[i].at, 0).p
                         /\ i = Len(found) => next = image.content
<1> DEFINE S     == LettersOf(d)
           n     == Cardinality(S)
           a     == Ascending(S)
           found == TermsIn(m, image)
<1>1. /\ S \in SUBSET Nat /\ IsFiniteSet(S) /\ n \in Nat /\ n <= Len(d.records)
      /\ TermsOf(d) = a /\ Len(TermsOf(d)) = n
  BY LettersFacts
<1>2. Walk(S, m, image.terms, image.content, at, end)
  BY DEF Shown
<1>3. a \in [1..n -> S]
  <2> HIDE DEF S
  <2> QED BY <1>1, AscendingFacts
<1> HIDE DEF S
<1>4. /\ TermsIn(m, image) = FoundTerms(S, at)
      /\ \A k \in 1..n : a[k] \in S /\ (k = n => end[a[k]] = image.content)
  <2>1. /\ S \in SUBSET Nat /\ IsFiniteSet(S) /\ m \in Seq(Nat)
        /\ image.terms \in Nat /\ image.content \in Nat
        /\ Walk(S, m, image.terms, image.content, at, end)
    BY <1>1, <1>2
  <2>2. TermsIn(m, image) = FoundTerms(S, at) /\ LastEnds(S, end, image.content)
    BY ONLY <2>1, TermsFound
  <2> QED BY <2>2 DEF LastEnds
<1> HIDE DEF n, a
<1>5. found = [k \in 1..n |-> [term |-> a[k], at |-> at[a[k]] + 2]]
  BY <1>4 DEF FoundTerms, n, a
<1> HIDE DEF found
<1>6. DOMAIN found = 1..n /\ Len(found) = n
  BY <1>1, <1>5
<1>7. [i \in DOMAIN found |-> found[i].term] = TermsOf(d)
  <2>1. [i \in DOMAIN found |-> found[i].term] = [i \in 1..n |-> a[i]]
    BY <1>5, <1>6
  <2> QED BY <1>1, <1>3, <2>1
<1>8. ASSUME NEW i \in 1..n
      PROVE  /\ SkipId(m, found[i].at) = AdvanceDocumentId(m, found[i].at, 0).p
             /\ i = n => SkipId(m, found[i].at) = image.content
  <2>0. found[i] = [term |-> a[i], at |-> at[a[i]] + 2]
    BY <1>5
  <2>1. found[i].at = at[a[i]] + 2 /\ a[i] \in S /\ (i = n => end[a[i]] = image.content)
    BY <1>4, <2>0
  <2> DEFINE p == at[a[i]] + 2
  <2>2. SkipId(m, p) = end[a[i]]
    BY <1>2, <2>1 DEF Walk
  <2>3. AdvanceDocumentId(m, p, 0).p = end[a[i]]
    BY <2>1 DEF Shown, S
  <2> HIDE DEF p
  <2>4. found[i].at = p
    BY <2>1 DEF p
  <2> QED BY <2>1, <2>2, <2>3, <2>4
<1>9. Len(found) \in Nat /\ Len(found) <= Len(d.records)
  BY <1>1, <1>6
<1>10. \A i \in DOMAIN found :
          LET next == SkipId(m, found[i].at)
          IN  /\ next = AdvanceDocumentId(m, found[i].at, 0).p
              /\ i = Len(found) => next = image.content
  BY <1>6, <1>8
<1> QED BY <1>7, <1>9, <1>10 DEF found

\* What was just built is shown, and its terms fit the array.
LEMMA BuiltIsShown ==
    ASSUME DocumentInv, LastInWidths, DocumentAt = PrefixSize + 1
    PROVE  ImageIsDocument /\ TermsFitArray
<1>1. SUFFICES ASSUME JustBuilt PROVE ImageIsDocument /\ TermsFitArray
  BY DEF ImageIsDocument, TermsFitArray
<1> DEFINE d     == LastGiven
           m     == Memory
           image == ImageOfLast
           found == TermsIn(m, image)
           slice(from, n) == SubSeq(m, from, from + n - 1)
           size       == EmbeddingBytes * d.num_embeddings
           embeddings == Len(m) + 1 - size
<1>2. documents # <<>>
  BY <1>1 DEF JustBuilt
<1>3. d \in GivenDocument /\ InSortOrder(d) /\ m = Blob(d) /\ m \in Seq(Nat)
  BY <1>2, LastDocument
<1>4. DocumentInWidths(d)
  BY <1>2 DEF LastInWidths
<1>5. image = Image(m, DocumentAt) /\ image.terms \in Nat /\ image.content \in Nat
  BY <1>3, ImageFacts DEF ImageOfLast
<1>6. d.records \in Seq(Record)
  BY <1>3 DEF InSortOrder
<1> HIDE DEF d, m, image
<1>7. PICK at, end : Shown(d, m, image, at, end)
  BY <1>3, <1>4, <1>5, DocumentShown
<1>8. /\ [i \in DOMAIN found |-> found[i].term] = TermsOf(d)
      /\ Len(found) \in Nat /\ Len(found) <= Len(d.records)
      /\ \A i \in DOMAIN found :
            LET next == SkipId(m, found[i].at)
            IN  /\ next = AdvanceDocumentId(m, found[i].at, 0).p
                /\ i = Len(found) => next = image.content
  BY <1>3, <1>5, <1>6, <1>7, TermsShown
<1> HIDE DEF found
<1>9. /\ image.header = HeaderOf(d)
      /\ U32At(m, 1) = Len(m) - PrefixSize
      /\ slice(image.data, d.data_length) = Cells(d.data_length)
      /\ slice(image.content, d.content_length) = Cells(d.content_length)
      /\ slice(embeddings, size) = Cells(size)
      /\ \A base \in BaseAddresses :
            EmbeddingsAt(image, base) = embeddings <=> base % 64 = 0
  BY <1>7, DocumentImageAssumption DEF Shown, PartsShown
<1>10. ImageIsDocument
  BY <1>8, <1>9 DEF ImageIsDocument, found, d, m, image
<1>11. image.header.num_terms = Len(d.records)
  BY <1>9 DEF HeaderOf
<1>12. TermsFitArray
  BY <1>8, <1>11 DEF TermsFitArray, found, m, image
<1> QED BY <1>10, <1>12
-----------------------------------------------------------------------------
(***************************************************************************)
(* What a cursor shows.                                                    *)
(***************************************************************************)
\* The records of a term, and the values of those without a position.
WithTerm(d, x)  == {r \in ToSet(d.records) : r.term = x}
PositionsIn(R)  == {r.position : r \in R}
PlainValues(R)  == {r.value : r \in {q \in R : q.position = 0}}

\* The posting of a term at p shows the positions and the value of its
\* records: a is what advance_document_id makes of it.
ShowsRecords(R, a, ps) ==
    /\ ps \in Seq(Nat) /\ Len(ps) <= a.p - a.wp
    /\ \A i, j \in 1..Len(ps) : i < j => ps[i] <= ps[j]
    /\ ToSet(ps) \ {0} = PositionsIn(R) \ {0}
    /\ \A v : PlainValues(R) = {v} => v \in {a.value, 0}

\* A posting is shown as the client gave it.
LEMMA PostingShown ==
    ASSUME NEW d, InSortOrder(d), DocumentInWidths(d), NEW x \in LettersOf(d),
           NEW m \in Seq(Nat), NEW p \in Nat,
           StoredAt(m, p, DocumentPosting(RecordsWith(d, x))),
           NEW c, c.wp = AdvanceDocumentId(m, p, 0).wp, c.p = AdvanceDocumentId(m, p, 0).p,
           c.first_base = AdvanceDocumentId(m, p, 0).first_base
    PROVE  ShowsRecords(WithTerm(d, x), AdvanceDocumentId(m, p, 0), Decoded(m, c))
<1> DEFINE recs == RecordsWith(d, x)
           a    == AdvanceDocumentId(m, p, 0)
           ps   == Decoded(m, c)
           R    == WithTerm(d, x)
           n    == Len(recs)
<1>1. /\ RecordsAscend(recs)
      /\ \A k \in 1..n : recs[k] \in R
      /\ \A r \in R : \E k \in 1..n : recs[k] = r
  BY RecordsOfTerm DEF WithTerm
<1>2. NarrowPosting(recs)
  BY TermIsNarrow
<1>3. ps = PositionsOf(recs) /\ ps \in Seq(Nat) /\ Len(ps) <= a.p - a.wp
  <2> HIDE DEF recs
  <2>1. StoredAt(m, p, DocumentPosting(recs)) /\ 0 \in Nat
    BY DEF recs
  <2>2. ps = PositionsOf(recs) /\ ps \in Seq(Nat) /\ Len(ps) <= c.p - c.wp
    BY <1>2, <2>1, DocumentPositionsBack
  <2> QED BY <2>2
<1>4. a.value = IF OnlyValue(recs) \/ ValueFirst(recs) THEN recs[1].value ELSE 0
  <2> HIDE DEF recs
  <2>1. StoredAt(m, p, DocumentPosting(recs))
    BY DEF recs
  <2>2. DocumentDecoding(recs, m, a, 0, p + Len(DocumentPosting(recs)))
    BY <1>2, <2>1, DocumentPostingBack
  <2> QED BY <2>2 DEF DocumentDecoding
<1> HIDE DEF recs, ps, R, a
<1>5. /\ \A i, j \in 1..Len(ps) : i < j => ps[i] <= ps[j]
      /\ \A i \in 1..Len(ps) : \E k \in 1..n : ps[i] = recs[k].position
      /\ \A k \in 1..n : recs[k].position # 0 =>
            \E i \in 1..Len(ps) : ps[i] = recs[k].position
  <2>1. RecordsAscend(recs) /\ ps = PositionsOf(recs)
    BY <1>1, <1>3
  <2>2. \A i, j \in 1..Len(ps) : i < j => ps[i] <= ps[j]
    BY ONLY <2>1, PositionsOfDocument
  <2>3. \A i \in 1..Len(ps) : \E k \in 1..n : ps[i] = recs[k].position
    BY ONLY <2>1, PositionsOfDocument
  <2>4. \A k \in 1..n : recs[k].position # 0 =>
           \E i \in 1..Len(ps) : ps[i] = recs[k].position
    BY ONLY <2>1, PositionsOfDocument
  <2> QED BY <2>2, <2>3, <2>4
<1>6. ToSet(ps) \ {0} = PositionsIn(R) \ {0}
  <2>1. ToSet(ps) = {ps[i] : i \in 1..Len(ps)}
    BY <1>3 DEF ToSet
  <2>2. ASSUME NEW y \in ToSet(ps) PROVE y \in PositionsIn(R)
    <3>1. PICK i \in 1..Len(ps) : y = ps[i]
      BY <2>1, <2>2
    <3>2. PICK k \in 1..n : ps[i] = recs[k].position
      BY <1>5
    <3> QED BY <1>1, <3>1, <3>2 DEF PositionsIn
  <2>3. ASSUME NEW y \in PositionsIn(R), y # 0 PROVE y \in ToSet(ps)
    <3>1. PICK r \in R : y = r.position
      BY <2>3 DEF PositionsIn
    <3>2. PICK k \in 1..n : recs[k] = r
      BY <1>1
    <3>3. PICK i \in 1..Len(ps) : ps[i] = recs[k].position
      BY <1>5, <2>3, <3>1, <3>2
    <3> QED BY <2>1, <3>1, <3>2, <3>3
  <2> QED BY <2>2, <2>3
<1>7. ASSUME NEW v, PlainValues(R) = {v} PROVE v \in {a.value, 0}
  <2>1. PICK r \in R : r.position = 0
    BY <1>7 DEF PlainValues
  <2>2. PICK k \in 1..n : recs[k] = r
    BY <1>1
  <2>3. 1 \in 1..n /\ recs[1].position \in Nat /\ recs[1].position <= 0
    <3>1. n \in Nat /\ \A i \in 1..n : recs[i].position \in Nat
      BY <1>1 DEF RecordsAscend
    <3>2. 1 \in 1..n
      BY <2>2, <3>1
    <3>3. CASE k = 1
      BY <2>1, <2>2, <3>1, <3>2, <3>3
    <3>4. CASE k # 1
      <4>1. 1 < k
        BY <3>4
      <4>2. recs[1].position <= recs[k].position
        BY <1>1, <3>2, <4>1 DEF RecordsAscend
      <4> QED BY <2>1, <2>2, <3>1, <3>2, <4>2
    <3> QED BY <3>3, <3>4
  <2>4. recs[1].position = 0 /\ recs[1] \in R
    BY <1>1, <2>3
  <2>5. recs[1].value = v
    BY <1>7, <2>4 DEF PlainValues
  <2>6. v # 0 => ValueFirst(recs)
    BY <2>4, <2>5 DEF ValueFirst
  <2> QED BY <1>4, <2>5, <2>6
<1> QED BY <1>3, <1>5, <1>6, <1>7 DEF ShowsRecords, ps, R, a

\* The values are finitely many.
LEMMA PlainFinite ==
    ASSUME NEW d, d.records \in Seq(Record), NEW x
    PROVE  IsFiniteSet(PlainValues(WithTerm(d, x)))
<1> DEFINE n == Len(d.records)
           A == {i \in 1..n : d.records[i].term = x /\ d.records[i].position = 0}
           h == [i \in 1..n |-> d.records[i].value]
<1>1. n \in Nat /\ ToSet(d.records) = {d.records[i] : i \in 1..n}
  BY DEF ToSet
<1>2. PlainValues(WithTerm(d, x)) = Mapped(h, A)
  <2> HIDE DEF n
  <2> QED BY <1>1 DEF PlainValues, WithTerm, Mapped
<1>3. IsFiniteSet(1..n) /\ A \in SUBSET (1..n)
  BY <1>1, FS_Interval
<1> HIDE DEF A, h, n
<1>4. IsFiniteSet(Mapped(h, A))
  <2>1. IsFiniteSet(A)
    BY <1>3, FS_Subset
  <2>2. A \in SUBSET A
    OBVIOUS
  <2> QED BY <2>1, <2>2, MappedSets
<1> QED BY <1>2, <1>4

(***************************************************************************)
(* The cursor of a lookup stays with the posting it was filled from.       *)
(***************************************************************************)
\* The cursor c was filled from the posting of the term at one of the places.
FilledFrom(places, m, c) ==
    \E p \in places, decoded \in BOOLEAN, way \in {"advance", "advance_next", "empty"} :
        LET a == AdvanceDocumentId(m, p, 0)
        IN  c = [id |-> 1, value |-> a.value, first_base |-> a.first_base, wp |-> a.wp,
                 p |-> a.p, max_term_size |-> a.p - a.wp, document_frequency |-> 1,
                 positions |-> IF decoded THEN Decoded(m, a) ELSE <<>>,
                 decoded |-> decoded, advance |-> way]

\* The calls of advance: what it returned, and how often it returned true.
PassesOnce ==
    /\ hits = 0 \/ hits = 1
    /\ t.advance = "advance" => hits = 0 /\ ret # "false"
    /\ t.advance # "advance" => hits = 1

CursorInv ==
    /\ asked = 0 => t = NULL
    /\ t = NULL => hits = 0 /\ ret = "none"
    /\ asked # 0 => /\ documents # <<>> /\ asked \in Asked
                    /\ t = NULL => Place(asked) = {}
                    /\ t # NULL => FilledFrom(Place(asked), Memory, t) /\ PassesOnce

\* Decoding reads no more of a cursor than where its positions are.
LEMMA DecodedSame ==
    ASSUME NEW m, NEW c, NEW e, c.wp = e.wp, c.p = e.p, c.first_base = e.first_base
    PROVE  Decoded(m, c) = Decoded(m, e)
<1> DEFINE G(wp, p, base) ==
      LET from[s \in Nat \X Nat] ==
            IF s[1] >= p THEN <<>>
            ELSE LET d == DecodeHighBit(m, s[1])
                 IN  <<s[2] + d.value>> \o from[<<d.next, s[2] + d.value>>]
      IN  from[<<wp, base>>]
<1>1. Decoded(m, c) = G(c.wp, c.p, c.first_base)
  BY DEF Decoded
<1>2. Decoded(m, e) = G(e.wp, e.p, e.first_base)
  BY DEF Decoded
<1> HIDE DEF G
<1> QED BY <1>1, <1>2

\* What DecodePositions and the two advances make of a cursor.
AfterDecode(m, c) == [c EXCEPT !.positions = Decoded(m, c), !.decoded = TRUE]
OnItsWay(c, way)  == [c EXCEPT !.advance = way]

\* A cursor that was filled is not the empty one; it is decoded, and it goes
\* the way from one advance to the next.
LEMMA FilledCursor ==
    ASSUME NEW P, NEW m, NEW c, FilledFrom(P, m, c)
    PROVE  /\ c # NULL
           /\ FilledFrom(P, m, AfterDecode(m, c)) /\ AfterDecode(m, c).advance = c.advance
           /\ \A w \in {"advance_next", "empty"} :
                 FilledFrom(P, m, OnItsWay(c, w)) /\ OnItsWay(c, w).advance = w
<1>1. PICK p \in P, decoded \in BOOLEAN, way \in {"advance", "advance_next", "empty"} :
        LET a == AdvanceDocumentId(m, p, 0)
        IN  c = [id |-> 1, value |-> a.value, first_base |-> a.first_base, wp |-> a.wp,
                 p |-> a.p, max_term_size |-> a.p - a.wp, document_frequency |-> 1,
                 positions |-> IF decoded THEN Decoded(m, a) ELSE <<>>,
                 decoded |-> decoded, advance |-> way]
  BY DEF FilledFrom
<1> DEFINE a == AdvanceDocumentId(m, p, 0)
           x == a.value
           f == a.first_base
           w == a.wp
           e == a.p
           n == e - w
           q == Decoded(m, a)
           v == IF decoded THEN q ELSE <<>>
           cursor(ps, b, z) ==
             [id |-> 1, value |-> x, first_base |-> f, wp |-> w, p |-> e,
              max_term_size |-> n, document_frequency |-> 1, positions |-> ps,
              decoded |-> b, advance |-> z]
<1>2. c = cursor(v, decoded, way)
  BY <1>1
<1>3. ASSUME NEW b \in BOOLEAN, NEW z \in {"advance", "advance_next", "empty"}
      PROVE  FilledFrom(P, m, cursor(IF b THEN q ELSE <<>>, b, z))
  BY DEF FilledFrom
<1>4. c.wp = a.wp /\ c.p = a.p /\ c.first_base = a.first_base
  <2> HIDE DEF v, n, a
  <2> QED BY <1>2
<1>5. Decoded(m, c) = q
  <2> HIDE DEF a
  <2>1. Decoded(m, c) = Decoded(m, a)
    BY <1>4, DecodedSame
  <2> QED BY <2>1
<1> HIDE DEF x, f, w, e, n, q
<1>6. c # NULL /\ c.advance = way
  <2> HIDE DEF v
  <2>1. c.advance = way
    BY <1>2
  <2>2. NULL.advance = "NULL"
    BY DEF NULL
  <2> QED BY <2>1, <2>2
<1>7. [c EXCEPT !.positions = q, !.decoded = TRUE] = cursor(q, TRUE, way)
  <2> HIDE DEF v
  <2> DEFINE d == [c EXCEPT !.positions = q]
  <2>1. d = cursor(q, decoded, way)
    BY <1>2
  <2>2. [d EXCEPT !.decoded = TRUE] = cursor(q, TRUE, way)
    <3> HIDE DEF d
    <3>1. ASSUME NEW y, NEW b
          PROVE  [cursor(q, y, way) EXCEPT !.decoded = b] = cursor(q, b, way)
      OBVIOUS
    <3> HIDE DEF cursor
    <3>2. [cursor(q, decoded, way) EXCEPT !.decoded = TRUE] = cursor(q, TRUE, way)
      BY <3>1
    <3> QED BY <2>1, <3>2
  <2> HIDE DEF cursor
  <2>3. [c EXCEPT !.positions = q, !.decoded = TRUE] = [d EXCEPT !.decoded = TRUE]
    OBVIOUS
  <2> QED BY <2>2, <2>3
<1>8. FilledFrom(P, m, cursor(q, TRUE, way))
  <2>1. FilledFrom(P, m, cursor(IF TRUE THEN q ELSE <<>>, TRUE, way))
    BY <1>3
  <2> QED BY <2>1
<1>9. ASSUME NEW z \in {"advance_next", "empty"}
      PROVE  [c EXCEPT !.advance = z] = cursor(v, decoded, z)
  <2> HIDE DEF v
  <2> QED BY <1>2
<1>10. ASSUME NEW z \in {"advance_next", "empty"}
       PROVE  FilledFrom(P, m, cursor(v, decoded, z))
  BY <1>3
<1>11. \A z \in {"advance_next", "empty"} :
          FilledFrom(P, m, OnItsWay(c, z)) /\ OnItsWay(c, z).advance = z
  <2> SUFFICES ASSUME NEW z \in {"advance_next", "empty"}
               PROVE  FilledFrom(P, m, OnItsWay(c, z)) /\ OnItsWay(c, z).advance = z
    OBVIOUS
  <2>1. cursor(v, decoded, z).advance = z
    OBVIOUS
  <2> HIDE DEF cursor, v
  <2> QED BY <1>9, <1>10, <2>1 DEF OnItsWay
<1>12. cursor(q, TRUE, way).advance = way
  OBVIOUS
<1> HIDE DEF cursor, v
<1>13. AfterDecode(m, c) = cursor(q, TRUE, way)
  BY <1>5, <1>7 DEF AfterDecode
<1> QED BY <1>6, <1>8, <1>11, <1>12, <1>13

\* Every call of a client preserves what is known of its cursor.
LEMMA CursorInvStep == CursorInv /\ [Next]_vars => CursorInv'
<1> SUFFICES ASSUME CursorInv, [Next]_vars PROVE CursorInv'
  OBVIOUS
<1>1. ASSUME documents' = documents
      PROVE  /\ Memory' = Memory /\ ImageOfLast' = ImageOfLast
             /\ \A x : Place(x)' = Place(x)
  <2>1. Memory' = Memory /\ ImageOfLast' = ImageOfLast
    BY <1>1 DEF Memory, ImageOfLast
  <2> QED BY <2>1 DEF Place
<1>2. ASSUME documents' = documents, asked' = asked, Live,
             asked' # 0 => FilledFrom(Place(asked), Memory, t') /\ PassesOnce'
      PROVE  CursorInv'
  <2>1. asked # 0 /\ t # NULL /\ documents # <<>> /\ asked \in Asked
    BY <1>2 DEF Live, CursorInv
  <2>2. Place(asked)' = Place(asked) /\ Memory' = Memory
    BY <1>1, <1>2 DEF Place
  <2>3. FilledFrom(Place(asked), Memory, t')
    BY <1>2, <2>1
  <2>4. t' # NULL
    <3> DEFINE c == t'
    <3>1. FilledFrom(Place(asked), Memory, c)
      BY <2>3
    <3> HIDE DEF c
    <3>2. c # NULL
      BY ONLY <3>1, FilledCursor
    <3> QED BY <3>2 DEF c
  <2>5. FilledFrom(Place(asked)', Memory', t')
    BY <2>2, <2>3
  <2> QED BY <1>2, <2>1, <2>4, <2>5 DEF CursorInv
<1>3. ASSUME Live PROVE asked # 0 /\ FilledFrom(Place(asked), Memory, t) /\ PassesOnce
  BY <1>3 DEF Live, CursorInv
<1>4. CASE UNCHANGED vars
  <2>1. /\ documents' = documents /\ asked' = asked /\ t' = t /\ ret' = ret /\ hits' = hits
    BY <1>4 DEF vars, builderVars, cursorVars
  <2>2. Place(asked)' = Place(asked) /\ Memory' = Memory
    BY <1>1, <2>1 DEF Place
  <2>3. FilledFrom(Place(asked)', Memory', t') <=> FilledFrom(Place(asked), Memory, t)
    BY <2>1, <2>2
  <2>4. PassesOnce' <=> PassesOnce
    BY <2>1 DEF PassesOnce
  <2> QED BY <2>1, <2>2, <2>3, <2>4 DEF CursorInv
<1>5. CASE asked = 0 /\ BuilderNext /\ UNCHANGED cursorVars
  BY <1>5 DEF CursorInv, cursorVars
<1>6. ASSUME NEW letter \in Asked, Lookup(letter) PROVE CursorInv'
  <2>1. /\ documents # <<>> /\ asked = 0 /\ asked' = letter
        /\ documents' = documents /\ ret' = ret /\ hits' = hits
        /\ IF Place(letter) = {} THEN t' = NULL
           ELSE \E p \in Place(letter) : t' = FillDocumentTerm(p)
    BY <1>6 DEF Lookup, builderVars
  <2>2. letter # 0
    BY DocumentImageAssumption
  <2>3. hits = 0 /\ ret = "none"
    BY <2>1 DEF CursorInv
  <2>4. Place(asked)' = Place(letter) /\ Memory' = Memory
    <3>1. Memory' = Memory /\ ImageOfLast' = ImageOfLast
      BY <1>1, <2>1
    <3> QED BY <2>1, <3>1 DEF Place
  <2>5. CASE Place(letter) = {}
    BY <2>1, <2>2, <2>3, <2>4, <2>5 DEF CursorInv
  <2>6. CASE Place(letter) # {}
    <3>1. PICK p \in Place(letter) : t' = FillDocumentTerm(p)
      BY <2>1, <2>6
    <3>2. FilledFrom(Place(letter), Memory, FillDocumentTerm(p))
      <4>1. FALSE \in BOOLEAN /\ "advance" \in {"advance", "advance_next", "empty"}
        OBVIOUS
      <4> QED BY <4>1 DEF FilledFrom, FillDocumentTerm
    <3>3. FillDocumentTerm(p).advance = "advance"
      BY DEF FillDocumentTerm
    <3>4. t' # NULL
      <4> DEFINE c == FillDocumentTerm(p)
      <4>1. FilledFrom(Place(letter), Memory, c)
        BY <3>2
      <4> HIDE DEF c
      <4>2. c # NULL
        BY ONLY <4>1, FilledCursor
      <4> QED BY <3>1, <4>2 DEF c
    <3>5. FilledFrom(Place(asked)', Memory', t')
      BY <2>4, <3>1, <3>2
    <3>6. PassesOnce'
      BY <2>1, <2>3, <3>1, <3>3 DEF PassesOnce
    <3> QED BY <2>1, <2>2, <3>4, <3>5, <3>6 DEF CursorInv
  <2> QED BY <2>5, <2>6
<1>7. CASE DecodePositions
  <2>1. /\ Live /\ documents' = documents /\ asked' = asked /\ ret' = ret /\ hits' = hits
        /\ t' = AfterDecode(Memory, t)
    BY <1>7 DEF DecodePositions, builderVars, AfterDecode
  <2>2. FilledFrom(Place(asked), Memory, t) /\ PassesOnce
    BY <1>3, <2>1
  <2>3. FilledFrom(Place(asked), Memory, t') /\ t'.advance = t.advance
    BY <2>1, <2>2, FilledCursor
  <2>4. PassesOnce'
    BY <2>1, <2>2, <2>3 DEF PassesOnce
  <2> QED BY <1>2, <2>1, <2>3, <2>4
<1>8. CASE Advance
  <2>1. /\ Live /\ documents' = documents /\ asked' = asked /\ t.advance = "advance"
        /\ ret' = "true" /\ hits' = hits + 1 /\ t' = OnItsWay(t, "advance_next")
    BY <1>8 DEF Advance, builderVars, OnItsWay
  <2>2. FilledFrom(Place(asked), Memory, t) /\ PassesOnce
    BY <1>3, <2>1
  <2>3. FilledFrom(Place(asked), Memory, t') /\ t'.advance = "advance_next"
    BY <2>1, <2>2, FilledCursor
  <2>4. PassesOnce'
    BY <2>1, <2>2, <2>3 DEF PassesOnce
  <2> QED BY <1>2, <2>1, <2>3, <2>4
<1>9. CASE AdvanceNext
  <2>1. /\ Live /\ documents' = documents /\ asked' = asked /\ t.advance = "advance_next"
        /\ ret' = "false" /\ hits' = hits /\ t' = OnItsWay(t, "empty")
    BY <1>9 DEF AdvanceNext, builderVars, OnItsWay
  <2>2. FilledFrom(Place(asked), Memory, t) /\ PassesOnce
    BY <1>3, <2>1
  <2>3. FilledFrom(Place(asked), Memory, t') /\ t'.advance = "empty"
    BY <2>1, <2>2, FilledCursor
  <2>4. PassesOnce'
    BY <2>1, <2>2, <2>3 DEF PassesOnce
  <2> QED BY <1>2, <2>1, <2>3, <2>4
<1>10. CASE AdvanceTo(1)
  <2>1. /\ Live /\ documents' = documents /\ asked' = asked /\ ret' = "true"
        /\ t' = t /\ hits' = hits
    BY <1>10 DEF AdvanceTo, builderVars
  <2>2. FilledFrom(Place(asked), Memory, t) /\ PassesOnce
    BY <1>3, <2>1
  <2>3. FilledFrom(Place(asked), Memory, t')
    BY <2>1, <2>2
  <2>4. PassesOnce'
    BY <2>1, <2>2 DEF PassesOnce
  <2> QED BY <1>2, <2>1, <2>3, <2>4
<1> QED BY <1>4, <1>5, <1>6, <1>7, <1>8, <1>9, <1>10 DEF Next

\* What a lookup found is what was given.
LEMMA LookupShown ==
    ASSUME DocumentInv, CursorInv, LastInWidths, DocumentAt = PrefixSize + 1
    PROVE  LookupIsExact
<1>1. SUFFICES ASSUME asked # 0 PROVE LookupIsExact
  BY DEF LookupIsExact
<1> DEFINE d     == LastGiven
           m     == Memory
           image == ImageOfLast
           S     == LettersOf(d)
           key   == IF Given(asked) = {} /\ asked \in DOMAIN Stripped
                    THEN Stripped[asked] ELSE asked
           found == Given(key)
<1>2. documents # <<>> /\ asked \in Asked
  BY <1>1 DEF CursorInv
<1>3. d \in GivenDocument /\ InSortOrder(d) /\ m = Blob(d) /\ m \in Seq(Nat)
  BY <1>2, LastDocument
<1>4. DocumentInWidths(d)
  BY <1>2 DEF LastInWidths
<1>5. image = Image(m, DocumentAt) /\ image.terms \in Nat /\ image.content \in Nat
  BY <1>3, ImageFacts DEF ImageOfLast
<1>6. d.records \in Seq(Record)
  BY <1>3 DEF InSortOrder
<1>7. \A x : Given(x) = WithTerm(d, x)
  BY DEF Given, WithTerm
<1>8. ASSUME NEW x PROVE Given(x) = {} <=> x \notin S
  <2>1. ToSet(d.records) = {d.records[i] : i \in 1..Len(d.records)}
    BY <1>6 DEF ToSet
  <2> QED BY <1>7, <2>1 DEF WithTerm, LettersOf
<1>9. asked \in Nat /\ key \in Nat
  <2>1. asked \in 1..255 /\ (asked \in DOMAIN Stripped => Stripped[asked] \in 1..255)
    BY <1>2, DocumentImageAssumption
  <2>2. asked \in Nat /\ (asked \in DOMAIN Stripped => Stripped[asked] \in Nat)
    BY <2>1
  <2>3. key = asked \/ (asked \in DOMAIN Stripped /\ key = Stripped[asked])
    OBVIOUS
  <2> HIDE DEF key
  <2> QED BY <2>2, <2>3
<1>10. Place(asked) = LET place == MatchTerm(m, image, asked)
                      IN  IF place = {} /\ asked \in DOMAIN Stripped
                          THEN MatchTerm(m, image, Stripped[asked]) ELSE place
  BY DEF Place
<1>11. S \in SUBSET (1..255)
  BY <1>6, LettersFacts
<1> HIDE DEF d, m, image
<1>12. PICK at, end : Shown(d, m, image, at, end)
  BY <1>3, <1>4, <1>5, DocumentShown
<1>13. Walk(S, m, image.terms, image.content, at, end)
  BY <1>12 DEF Shown
<1> HIDE DEF S
<1>14. ASSUME NEW x \in Nat
       PROVE  MatchTerm(m, image, x) = IF x \in S THEN {at[x] + 2} ELSE {}
  BY <1>3, <1>5, <1>11, <1>13, MatchFinds
<1>15. Place(asked) = IF key \in S THEN {at[key] + 2} ELSE {}
  <2>1. asked \in DOMAIN Stripped => Stripped[asked] \in Nat
    BY DocumentImageAssumption
  <2>2. MatchTerm(m, image, asked) = {} <=> asked \notin S
    BY <1>9, <1>14
  <2> QED BY <1>8, <1>9, <1>10, <1>14, <2>1, <2>2
<1> HIDE DEF key
<1>16. (t = NULL) = (found = {})
  <2>1. t = NULL <=> Place(asked) = {}
    BY <1>1 DEF CursorInv, FilledFrom
  <2> QED BY <1>8, <1>15, <2>1
<1>17. ASSUME t # NULL
       PROVE  /\ t.id = 1
              /\ Cardinality(PlainValues(found)) = 1 => PlainValues(found) \subseteq {t.value, 0}
              /\ Len(t.positions) <= t.max_term_size + 1
              /\ t.decoded => ToSet(t.positions) \ {0} = PositionsIn(found) \ {0}
              /\ \A i, j \in DOMAIN t.positions : i < j => t.positions[i] <= t.positions[j]
  <2>1. FilledFrom(Place(asked), m, t)
    BY <1>1, <1>17 DEF CursorInv, m
  <2>2. PICK p \in Place(asked), decoded \in BOOLEAN,
             way \in {"advance", "advance_next", "empty"} :
        LET a == AdvanceDocumentId(m, p, 0)
        IN  t = [id |-> 1, value |-> a.value, first_base |-> a.first_base, wp |-> a.wp,
                 p |-> a.p, max_term_size |-> a.p - a.wp, document_frequency |-> 1,
                 positions |-> IF decoded THEN Decoded(m, a) ELSE <<>>,
                 decoded |-> decoded, advance |-> way]
    BY <2>1 DEF FilledFrom
  <2> DEFINE a == AdvanceDocumentId(m, p, 0)
             q == Decoded(m, a)
             v == IF decoded THEN q ELSE <<>>
  <2>3. key \in S /\ p = at[key] + 2
    BY <1>15
  <2>4. p \in Nat
    BY <1>13, <2>3 DEF Walk
  <2>5. StoredAt(m, p, DocumentPosting(RecordsWith(d, key)))
    BY <1>12, <2>3 DEF Shown, S
  <2>6. ShowsRecords(WithTerm(d, key), a, q)
    <3>1. key \in LettersOf(d)
      BY <2>3 DEF S
    <3> QED BY <1>3, <1>4, <2>4, <2>5, <3>1, PostingShown
  <2>7. t.id = 1 /\ t.value = a.value /\ t.max_term_size = a.p - a.wp
        /\ t.positions = v /\ t.decoded = decoded
    <3> HIDE DEF a, v
    <3> QED BY <2>2 DEF a, v
  <2>8. a.p \in Nat /\ a.wp \in Nat /\ a.wp <= a.p
    <3>1. 0 \in Nat
      OBVIOUS
    <3> QED BY <1>3, <2>4, <3>1, AdvanceFacts
  <2> HIDE DEF a, q
  <2>9. found = WithTerm(d, key)
    BY <1>7
  <2>10. Cardinality(PlainValues(found)) = 1 => PlainValues(found) \subseteq {t.value, 0}
    <3>1. SUFFICES ASSUME Cardinality(PlainValues(found)) = 1
                   PROVE  PlainValues(found) \subseteq {t.value, 0}
      OBVIOUS
    <3>2. IsFiniteSet(PlainValues(found))
      BY <1>6, <2>9, PlainFinite
    <3>3. PICK y : PlainValues(found) = {y}
      BY <3>1, <3>2, FS_Singleton
    <3>4. y \in {a.value, 0}
      BY <2>6, <2>9, <3>3 DEF ShowsRecords
    <3> QED BY <2>7, <3>3, <3>4
  <2>11. /\ v \in Seq(Nat) /\ Len(v) <= a.p - a.wp
         /\ \A i, j \in 1..Len(v) : i < j => v[i] <= v[j]
    <3>1. CASE decoded
      BY <2>6, <3>1 DEF ShowsRecords
    <3>2. CASE ~decoded
      BY <2>8, <3>2
    <3> QED BY <3>1, <3>2
  <2>12. Len(t.positions) <= t.max_term_size + 1
    <3> HIDE DEF v
    <3> QED BY <2>7, <2>8, <2>11
  <2>13. \A i, j \in DOMAIN t.positions : i < j => t.positions[i] <= t.positions[j]
    <3> HIDE DEF v
    <3>1. DOMAIN v = 1..Len(v)
      BY <2>11
    <3> QED BY <2>7, <2>11, <3>1
  <2>14. t.decoded => ToSet(t.positions) \ {0} = PositionsIn(found) \ {0}
    BY <2>6, <2>7, <2>9 DEF ShowsRecords
  <2> QED BY <2>7, <2>10, <2>12, <2>13, <2>14
<1>18. hits <= 1 /\ (ret = "false" => hits = 1)
  BY <1>1 DEF CursorInv, PassesOnce
<1> HIDE DEF found
<1>19. Given(IF Given(asked) = {} /\ asked \in DOMAIN Stripped
             THEN Stripped[asked] ELSE asked) = found
  BY DEF found, key
<1>20. (IF Given(asked) = {} /\ asked \in DOMAIN Stripped
        THEN Given(Stripped[asked]) ELSE Given(asked)) = found
  BY <1>19
<1> QED BY <1>16, <1>17, <1>18, <1>20 DEF LookupIsExact, PlainValues, PositionsIn

\* Once a document that fits the widths of the format is built, its image shows
\* the header, the data, the terms and the content that were given; it finds
\* the embeddings if its buffer is at a multiple of 64, and at no other address.
THEOREM ImageAlwaysShowsDocument ==
    ASSUME DocumentAt = PrefixSize + 1
    PROVE  Spec => [](LastInWidths => ImageIsDocument)
<1>1. Init => DocumentInv
  BY DocumentInvInit DEF Init
<1>2. DocumentInv /\ [Next]_vars => DocumentInv'
  BY ReadersKeepBuilder, DocumentInvStep, DocumentInvStutters
<1>3. DocumentInv => (LastInWidths => ImageIsDocument)
  BY BuiltIsShown
<1> QED BY <1>1, <1>2, <1>3, PTL DEF Spec

\* sil_document_image_terms stays within the array of num_terms.
THEOREM TermsAlwaysFitArray ==
    ASSUME DocumentAt = PrefixSize + 1
    PROVE  Spec => [](LastInWidths => TermsFitArray)
<1>1. Init => DocumentInv
  BY DocumentInvInit DEF Init
<1>2. DocumentInv /\ [Next]_vars => DocumentInv'
  BY ReadersKeepBuilder, DocumentInvStep, DocumentInvStutters
<1>3. DocumentInv => (LastInWidths => TermsFitArray)
  BY BuiltIsShown
<1> QED BY <1>1, <1>2, <1>3, PTL DEF Spec

\* A lookup finds exactly the terms that the document has, and its cursor
\* shows the positions and the value that the client gave.
THEOREM LookupIsAlwaysExact ==
    ASSUME DocumentAt = PrefixSize + 1
    PROVE  Spec => [](LastInWidths => LookupIsExact)
<1>1. Init => DocumentInv /\ CursorInv
  BY DocumentInvInit DEF Init, CursorInv
<1>2. DocumentInv /\ CursorInv /\ [Next]_vars => DocumentInv' /\ CursorInv'
  BY ReadersKeepBuilder, DocumentInvStep, DocumentInvStutters, CursorInvStep
<1>3. DocumentInv /\ CursorInv => (LastInWidths => LookupIsExact)
  BY LookupShown
<1> QED BY <1>1, <1>2, <1>3, PTL DEF Spec
=============================================================================
