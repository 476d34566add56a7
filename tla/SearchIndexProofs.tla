------------------------- MODULE SearchIndexProofs -------------------------
(***************************************************************************)
(* Theorems about SearchBuilder, the index it writes, and SearchIndex, the *)
(* clients that read it, for every set of ids, keys and values and every   *)
(* number of calls.                                                        *)
(*                                                                         *)
(* The invariants of the builder are not inductive as they stand.  TypeOK  *)
(* needs that a document is never longer than the calls made; the table    *)
(* bound and the link from postings to documents need to know where        *)
(* current_id comes from and which ids the global file was written with.   *)
(* BuilderInv is the strengthening; every action is shown to keep it.      *)
(* LengthsInv, TotalsInv and WrittenInv add what the lengths, the totals   *)
(* and the files are about.                                                *)
(*                                                                         *)
(* ReaderInv puts an open cursor of a client on a posting of the term that *)
(* was asked for (PostingFormatProofs!StandsOn) and says which ids it has  *)
(* shown.  How the cursor moves is proved in PostingFormatProofs.          *)
(***************************************************************************)
EXTENDS SearchIndex, PostingFormatProofs, SequenceTheorems

\* A document's length in positions counts calls, so the calls bound it.
LengthInv == document_length <= terms

\* max_id is an upper bound of the ids announced, and of current_id.
MaxInv == /\ \A d \in Announced : d.id <= max_id
          /\ current_id <= max_id
          /\ \A r \in term_data : r.id <= max_id

\* The headers destroy writes are those of the documents announced.
FilesInv == ~Building => /\ files.stats.max_id = max_id
                         /\ DOMAIN files.gbl = DocumentIds(Announced)

\* With documents announced before their terms, current_id is the id of the
\* document in the buffer and no posting is without a document.
OwnerInv == GlobalFirst =>
              /\ global_bh # NoDocument => current_id = global_bh.id
              /\ \A r \in term_data : r.id \in DocumentIds(Announced)

BuilderInv == TypeOK /\ LengthInv /\ MaxInv /\ FilesInv /\ OwnerInv

-----------------------------------------------------------------------------
(***************************************************************************)
(* What the helpers give.                                                  *)
(***************************************************************************)
\* finish_document moves the document of the buffer, with its id and tag, to
\* the sorted documents, which stay well formed.
LEMMA FinishDocumentFacts ==
    ASSUME TypeOK, FinishDocument
    PROVE  /\ global_data' \subseteq Document
           /\ DocumentIds(global_data') = DocumentIds(Announced)
           /\ total_terms' \in Nat /\ total_documents' \in Nat
           /\ global_bh # NoDocument =>
                 \E d \in global_data' : d.tag = global_bh.tag
<1>1. CASE global_bh = NoDocument
  <2>1. Announced = global_data /\ global_data' = global_data
    BY <1>1 DEF FinishDocument, Announced
  <2>2. total_terms' \in Nat /\ total_documents' \in Nat
    BY <1>1 DEF FinishDocument, TypeOK
  <2> QED BY <1>1, <2>1, <2>2 DEF TypeOK
<1>2. CASE global_bh # NoDocument
  <2> DEFINE f == [global_bh EXCEPT !.document_length = document_length]
  <2>1. global_bh \in Document /\ document_length \in 0..MaxTerms
    BY <1>2 DEF TypeOK
  <2>2. f \in Document /\ f.id = global_bh.id /\ f.tag = global_bh.tag
    BY <2>1 DEF Document
  <2>3. /\ global_data' = global_data \cup {f}
        /\ total_documents' = total_documents + 1
        /\ total_terms' = total_terms + document_length
    BY <1>2 DEF FinishDocument
  <2>4. Announced = global_data \cup {global_bh}
    BY <1>2 DEF Announced
  <2> HIDE DEF f
  <2>5. global_data' \subseteq Document
    BY <2>2, <2>3 DEF TypeOK
  <2>6. DocumentIds(global_data') = DocumentIds(Announced)
    BY <2>2, <2>3, <2>4 DEF DocumentIds
  <2>7. total_terms' \in Nat /\ total_documents' \in Nat
    <3>1. total_terms \in Nat /\ total_documents \in Nat /\ document_length \in Nat
      BY <2>1 DEF TypeOK
    <3> QED BY <3>1, <2>3
  <2>8. \E d \in global_data' : d.tag = global_bh.tag
    BY <2>2, <2>3
  <2> QED BY <2>5, <2>6, <2>7, <2>8
<1> QED BY <1>1, <1>2

\* An id of a set of documents is the id of one of them.
LEMMA IdOfDocument ==
    ASSUME NEW docs, NEW id
    PROVE  id \in DocumentIds(docs) <=> \E d \in docs : d.id = id
BY DEF DocumentIds

\* Ids are natural numbers: what "id > max_id" compares.
LEMMA IdsAreNat == Ids \cup {0} \subseteq Nat
<1>1. Ids \subseteq 0..(IdLimit - 1) BY BuilderAssumption
<1>2. IdLimit - 1 \in Int BY DEF IdLimit
<1> QED BY <1>1, <1>2

\* An announced document is one of Document.
LEMMA AnnouncedAreDocuments ==
    ASSUME TypeOK
    PROVE  Announced \subseteq Document
BY DEF TypeOK, Announced

\* Every call that adds a term makes records of the current document only,
\* and they are well formed.
LEMMA AddFacts ==
    ASSUME TypeOK, NEW keys, keys \subseteq Keys,
           NEW value \in Values \cup {0}, NEW pos \in Positions \cup {0},
           Add(keys, value, pos)
    PROVE  /\ term_data' \subseteq Record
           /\ \A r \in term_data' : r \in term_data \/ r.id = current_id
           /\ terms' = terms + 1 /\ terms' \in 0..MaxTerms
           /\ Building /\ files' = files /\ UNCHANGED docVars
           /\ total_terms' = total_terms /\ total_documents' = total_documents
           /\ GlobalFirst => global_bh # NoDocument
<1> DEFINE new == {[term |-> k, id |-> current_id, position |-> pos,
                    value |-> value] : k \in keys}
<1>1. term_data' = term_data \cup new BY DEF Add
<1>2. new \subseteq Record /\ \A r \in new : r.id = current_id
  <2>1. current_id \in Ids \cup {0} BY DEF TypeOK
  <2> QED BY <2>1 DEF Record
<1>3. term_data \subseteq Record BY DEF TypeOK
<1> HIDE DEF new
<1>4. terms' = terms + 1 /\ terms' \in 0..MaxTerms
  <2>1. terms \in 0..MaxTerms /\ terms < MaxTerms /\ terms' = terms + 1
    BY DEF Add, TypeOK
  <2>2. MaxTerms \in Nat BY BuilderAssumption
  <2> QED BY <2>1, <2>2
<1> QED BY <1>1, <1>2, <1>3, <1>4 DEF Add
-----------------------------------------------------------------------------
(***************************************************************************)
(* Each call keeps the invariant.                                          *)
(***************************************************************************)
\* The new document is well formed and is not mistaken for an empty buffer.
LEMMA NewDocument ==
    ASSUME TypeOK, NEW id \in Ids, NEW c \in ContentLengths,
           NEW e \in EmbeddingCounts, Global(id, c, e)
    PROVE  /\ global_bh' \in Document
           /\ global_bh'.id = id
           /\ global_bh' # NoDocument
           /\ globals' \in 0..MaxGlobals
<1>1. globals \in 0..MaxGlobals /\ globals < MaxGlobals /\ MaxGlobals \in Nat
  BY BuilderAssumption DEF Global, TypeOK
<1>2. globals + 1 \in 1..MaxGlobals /\ globals' = globals + 1
  BY <1>1 DEF Global
<1>3. 0 \in 0..MaxTerms
  BY BuilderAssumption
<1>4. global_bh' = [id |-> id, tag |-> globals + 1, document_length |-> 0,
                    content_length |-> c, num_embeddings |-> e]
  BY DEF Global
<1>5. global_bh' \in Document /\ global_bh'.id = id
  BY <1>2, <1>3, <1>4 DEF Document
<1> QED BY <1>1, <1>2, <1>5, NoDocumentAssumption

\* global: the last document goes to the sorter, the new one to the buffer.
LEMMA GlobalStep ==
    ASSUME BuilderInv, NEW id \in Ids, NEW c \in ContentLengths,
           NEW e \in EmbeddingCounts, Global(id, c, e)
    PROVE  BuilderInv'
<1> USE DEF BuilderInv
<1>1. Building /\ Building'
  BY DEF Global, Building
<1>2. FinishDocument
  BY DEF Global
<1>3. /\ max_id' = (IF id > max_id THEN id ELSE max_id)
      /\ current_id' = id /\ document_length' = 0
      /\ term_data' = term_data /\ terms' = terms
  BY DEF Global
<1>4. /\ global_data' \subseteq Document
      /\ DocumentIds(global_data') = DocumentIds(Announced)
      /\ total_terms' \in Nat /\ total_documents' \in Nat
  BY <1>2, FinishDocumentFacts
<1>5. global_bh' \in Document /\ global_bh'.id = id /\ global_bh' # NoDocument
      /\ globals' \in 0..MaxGlobals
  BY NewDocument
<1>6. TypeOK'
  <2>1. max_id' \in Ids \cup {0} /\ current_id' \in Ids \cup {0}
    BY <1>3 DEF TypeOK
  <2>2. document_length' \in 0..MaxTerms /\ terms' \in 0..MaxTerms
    BY <1>3, BuilderAssumption DEF TypeOK
  <2>3. term_data' \subseteq Record
    BY <1>3 DEF TypeOK
  <2> QED BY <1>1, <1>4, <1>5, <2>1, <2>2, <2>3 DEF TypeOK
<1>7. LengthInv'
  BY <1>3 DEF TypeOK, LengthInv
<1>8. Announced' = global_data' \cup {global_bh'}
  BY <1>5 DEF Announced
<1>9. MaxInv'
  <2>1. max_id \in Nat /\ id \in Nat /\ max_id <= max_id' /\ id <= max_id'
        /\ max_id' \in Nat
    <3>1. max_id \in Nat /\ id \in Nat BY IdsAreNat DEF TypeOK
    <3> QED BY <3>1, <1>3
  <2>2. ASSUME NEW d \in Announced' PROVE d.id <= max_id'
    <3>1. CASE d = global_bh' BY <3>1, <1>5, <2>1
    <3>2. CASE d \in global_data'
      <4>1. PICK a \in Announced : a.id = d.id
        BY <3>2, <1>4, IdOfDocument
      <4>2. a.id <= max_id BY DEF MaxInv
      <4>3. a.id \in Nat
        BY IdsAreNat, AnnouncedAreDocuments DEF Document
      <4> QED BY <4>1, <4>2, <4>3, <2>1
    <3> QED BY <3>1, <3>2, <1>8
  <2>3. ASSUME NEW r \in term_data' PROVE r.id <= max_id'
    <3>1. r.id <= max_id BY <1>3 DEF MaxInv
    <3>2. r.id \in Nat BY <1>3, IdsAreNat DEF TypeOK, Record
    <3> QED BY <3>1, <3>2, <2>1
  <2> QED BY <1>3, <2>1, <2>2, <2>3 DEF MaxInv
<1>10. FilesInv'
  BY <1>1 DEF FilesInv
<1>11. OwnerInv'
  <2>1. DocumentIds(Announced) \subseteq DocumentIds(Announced)'
    BY <1>4, <1>8 DEF DocumentIds
  <2> QED BY <1>3, <1>5, <2>1 DEF OwnerInv
<1> QED BY <1>6, <1>7, <1>9, <1>10, <1>11

\* The calls that add terms: records of the current document are added, and
\* its length grows at most as the calls do.
LEMMA AddStep ==
    ASSUME BuilderInv, NEW keys, keys \subseteq Keys,
           NEW value \in Values \cup {0}, NEW pos \in Positions \cup {0},
           Add(keys, value, pos),
           document_length' \in {document_length, document_length + 1}
    PROVE  BuilderInv'
<1> USE DEF BuilderInv
<1>1. /\ term_data' \subseteq Record
      /\ \A r \in term_data' : r \in term_data \/ r.id = current_id
      /\ terms' = terms + 1 /\ terms' \in 0..MaxTerms
      /\ total_terms' = total_terms /\ total_documents' = total_documents
      /\ GlobalFirst => global_bh # NoDocument
  BY AddFacts
<1>2. /\ global_data' = global_data /\ global_bh' = global_bh
      /\ max_id' = max_id /\ current_id' = current_id /\ globals' = globals
  BY AddFacts DEF docVars
<1>3. Building /\ Building'
  BY AddFacts DEF Building
<1>4. Announced' = Announced
  BY <1>2 DEF Announced
<1>5. document_length' \in 0..MaxTerms /\ LengthInv'
  <2>1. document_length \in Nat /\ terms \in Nat /\ document_length <= terms
    BY DEF TypeOK, LengthInv
  <2> QED BY <1>1, <2>1, BuilderAssumption DEF LengthInv
<1>6. TypeOK'
  BY <1>1, <1>2, <1>3, <1>5 DEF TypeOK
<1>7. MaxInv'
  BY <1>1, <1>2, <1>4 DEF MaxInv
<1>8. FilesInv'
  BY <1>3 DEF FilesInv
<1>9. OwnerInv'
  <2>1. ASSUME GlobalFirst PROVE current_id \in DocumentIds(Announced)
    <3>1. global_bh # NoDocument /\ current_id = global_bh.id
      BY <1>1, <2>1 DEF OwnerInv
    <3> QED BY <3>1 DEF Announced, DocumentIds
  <2> QED BY <1>1, <1>2, <1>4, <2>1 DEF OwnerInv
<1> QED BY <1>5, <1>6, <1>7, <1>8, <1>9

\* destroy: the last document goes to the sorter and the files are written.
LEMMA DestroyStep ==
    ASSUME BuilderInv, Destroy
    PROVE  BuilderInv'
<1> USE DEF BuilderInv
<1>1. /\ term_data' = term_data /\ global_bh' = global_bh
      /\ max_id' = max_id /\ current_id' = current_id /\ globals' = globals
      /\ document_length' = document_length /\ terms' = terms
      /\ FinishDocument
  BY DEF Destroy
<1>2. /\ global_data' \subseteq Document
      /\ DocumentIds(global_data') = DocumentIds(Announced)
      /\ total_terms' \in Nat /\ total_documents' \in Nat
      /\ global_bh # NoDocument =>
            \E d \in global_data' : d.tag = global_bh.tag
  BY <1>1, FinishDocumentFacts
<1>3. DocumentIds(Announced)' = DocumentIds(Announced)
  <2>1. Announced' = global_data' \cup (IF global_bh = NoDocument THEN {}
                                        ELSE {global_bh})
    BY <1>1 DEF Announced
  <2>2. global_bh # NoDocument => global_bh.id \in DocumentIds(Announced)
    BY DEF Announced, DocumentIds
  <2>3. DocumentIds(Announced)' = DocumentIds(Announced')
    BY DEF DocumentIds
  <2>4. DocumentIds(Announced') =
          DocumentIds(global_data') \cup (IF global_bh = NoDocument THEN {}
                                          ELSE {global_bh.id})
    BY <2>1 DEF DocumentIds
  <2> QED BY <1>2, <2>2, <2>3, <2>4
<1>4. TypeOK'
  BY <1>1, <1>2 DEF TypeOK
<1>5. LengthInv'
  BY <1>1 DEF LengthInv
<1>6. MaxInv'
  <2>1. ASSUME NEW d \in Announced' PROVE d.id <= max_id
    <3>1. d.id \in DocumentIds(Announced)'
      BY DEF DocumentIds
    <3>2. PICK a \in Announced : a.id = d.id
      BY <1>3, <3>1, IdOfDocument
    <3> QED BY <3>2 DEF MaxInv
  <2> QED BY <1>1, <2>1 DEF MaxInv
<1>7. FilesInv'
  <2>1. PICK docs \in KeptGlobals(global_data'), recs \in KeptTerms(term_data) :
          files' = Written(docs, recs, total_documents', total_terms', max_id)
    BY DEF Destroy
  <2>2. DocumentIds(docs) = DocumentIds(Announced)
    BY <1>2, <2>1 DEF KeptGlobals
  <2>3. files'.gbl = GlobalFile(docs) /\ files'.stats.max_id = max_id
    BY <2>1 DEF Written
  <2>4. DOMAIN files'.gbl = DocumentIds(docs)
    BY <2>3 DEF GlobalFile
  <2> QED BY <1>1, <1>3, <2>2, <2>3, <2>4 DEF FilesInv
<1>8. OwnerInv'
  BY <1>1, <1>3 DEF OwnerInv
<1> QED BY <1>4, <1>5, <1>6, <1>7, <1>8
-----------------------------------------------------------------------------
(***************************************************************************)
(* The theorems.                                                           *)
(***************************************************************************)
\* An empty builder satisfies the invariant.
LEMMA InitBuilderInv == Init => BuilderInv
<1> SUFFICES ASSUME Init PROVE BuilderInv
  OBVIOUS
<1>1. MaxTerms \in Nat /\ MaxGlobals \in Nat
  BY BuilderAssumption
<1>2. TypeOK
  BY <1>1 DEF Init, TypeOK, Building
<1>3. LengthInv /\ MaxInv /\ FilesInv /\ OwnerInv
  BY DEF Init, LengthInv, MaxInv, FilesInv, OwnerInv, Announced, Building
<1> QED BY <1>2, <1>3 DEF BuilderInv

\* The term that is added with its wildcards is a key, and so are they.
LEMMA ExpandedAreKeys ==
    ASSUME NEW key \in Keys
    PROVE  Expanded(key) \subseteq Keys
BY BuilderAssumption DEF Expanded

\* Every call of a client keeps the invariant.
LEMMA NextBuilderInv == BuilderInv /\ [Next]_vars => BuilderInv'
<1> SUFFICES ASSUME BuilderInv, [Next]_vars PROVE BuilderInv'
  OBVIOUS
<1>1. ASSUME NEW id \in Ids, NEW c \in ContentLengths,
             NEW e \in EmbeddingCounts, Global(id, c, e)
      PROVE  BuilderInv'
  BY <1>1, GlobalStep
<1>2. ASSUME NEW key \in Keys, Term(key) \/ WTerm(key)
      PROVE  BuilderInv'
  <2>1. CASE Term(key)
    BY <2>1, AddStep DEF Term
  <2>2. CASE WTerm(key)
    BY <2>2, AddStep, ExpandedAreKeys DEF WTerm
  <2> QED BY <1>2, <2>1, <2>2
<1>3. ASSUME NEW key \in Keys, NEW pos \in Positions,
             TermPosition(key, pos) \/ WTermPosition(key, pos)
      PROVE  BuilderInv'
  <2>1. CASE TermPosition(key, pos)
    BY <2>1, AddStep DEF TermPosition
  <2>2. CASE WTermPosition(key, pos)
    BY <2>2, AddStep, ExpandedAreKeys DEF WTermPosition
  <2> QED BY <1>3, <2>1, <2>2
<1>4. ASSUME NEW key \in Keys, NEW value \in Values,
             TermValue(key, value) \/ WTermValue(key, value)
      PROVE  BuilderInv'
  <2>1. CASE TermValue(key, value)
    BY <2>1, AddStep DEF TermValue
  <2>2. CASE WTermValue(key, value)
    BY <2>2, AddStep, ExpandedAreKeys DEF WTermValue
  <2> QED BY <1>4, <2>1, <2>2
<1>5. CASE Destroy
  BY <1>5, DestroyStep
<1>6. CASE UNCHANGED vars
  BY <1>6 DEF vars, docVars, BuilderInv, TypeOK, LengthInv, MaxInv, FilesInv,
              OwnerInv, Announced, Building
<1> QED BY <1>1, <1>2, <1>3, <1>4, <1>5, <1>6 DEF Next

\* The strengthened invariant holds in every behaviour of the builder.
THEOREM BuilderInvariant == Spec => []BuilderInv
<1>1. Init => BuilderInv
  BY InitBuilderInv
<1>2. BuilderInv /\ [Next]_vars => BuilderInv'
  BY NextBuilderInv
<1> QED BY <1>1, <1>2, PTL DEF Spec

\* The builder's fields keep their types, and when the files are written the
\* last document announced is among those that were sorted.
THEOREM TypeCorrect == Spec => []TypeOK
<1>1. BuilderInv => TypeOK
  BY DEF BuilderInv
<1> QED BY <1>1, BuilderInvariant, PTL

\* Whatever the order of the ids, no header and no posting of the index has
\* an id beyond the table of headers that the image allocates from stats.txt
\* (sil_search_image_init stores into it without a check).
THEOREM IdsAlwaysFitTable == Spec => []IdsFitTable
<1>1. BuilderInv => IdsFitTable
  <2> SUFFICES ASSUME BuilderInv PROVE IdsFitTable
    OBVIOUS
  <2>1. (\A d \in Announced : d.id <= max_id) /\ \A r \in term_data : r.id <= max_id
    BY DEF BuilderInv, MaxInv
  <2>2. ASSUME ~Building, NEW id \in DOMAIN files.gbl
        PROVE  id <= files.stats.max_id
    <3>1. files.stats.max_id = max_id /\ id \in DocumentIds(Announced)
      BY <2>2 DEF BuilderInv, FilesInv
    <3>2. PICK d \in Announced : d.id = id
      BY <3>1, IdOfDocument
    <3> QED BY <2>1, <3>1, <3>2
  <2>3. ~Building => files.stats.max_id = max_id
    BY DEF BuilderInv, FilesInv
  <2> QED BY <2>1, <2>2, <2>3 DEF IdsFitTable
<1> QED BY <1>1, BuilderInvariant, PTL

\* A client that announces each document before its terms gets an index in
\* which every posting's document has a header, whatever it announces twice,
\* in whatever order, and whichever duplicate the reducer keeps.
THEOREM PostingsAlwaysHaveDocument ==
    ASSUME GlobalFirst
    PROVE  Spec => []PostingsHaveDocument
<1>1. BuilderInv => PostingsHaveDocument
  BY DEF BuilderInv, OwnerInv, FilesInv, PostingsHaveDocument,
         WrittenPostingsHaveDocument
<1> QED BY <1>1, BuilderInvariant, PTL
-----------------------------------------------------------------------------
(***************************************************************************)
(* That a document is at least as long as the number of its positions, for *)
(* every client that announces documents first and reuses no id.           *)
(*                                                                         *)
(* The positions are counted where the sorter keeps them and the length    *)
(* where the calls are made.  LengthsInv relates the two while documents   *)
(* move from the buffer to the sorter: each tag is of one document, so     *)
(* that without a reused id the calls after an announcement add to no      *)
(* document that was finished before.                                      *)
(***************************************************************************)
\* The positions of a document, by term, among some records.
PlacedOf(recs, id) ==
    {TermKey(r) : r \in {q \in recs : q.id = id /\ q.position # 0}}

TagInv ==
    /\ \A d \in Announced : d.tag \in Nat /\ d.tag <= globals
    /\ Building /\ global_bh # NoDocument =>
          \A d \in global_data : d.tag # global_bh.tag

\* Some positions are counted by a length.
Counted(set, length) == IsFiniteSet(set) /\ Cardinality(set) <= length

CountInv ==
    GlobalFirst /\ ~IdsReused =>
        /\ \A d \in global_data :
              Counted(PlacedOf(term_data, d.id), d.document_length)
        /\ Building /\ global_bh # NoDocument =>
              Counted(PlacedOf(term_data, global_bh.id), document_length)

HeaderInv ==
    ~Building => \A id \in DOMAIN files.gbl : \E d \in global_data :
        d.id = id /\ files.gbl[id].document_length = d.document_length

LengthsInv == TagInv /\ CountInv /\ HeaderInv
-----------------------------------------------------------------------------
\* The document that finish_document moves keeps its id and tag.
LEMMA FinishedDocument ==
    ASSUME TypeOK, FinishDocument
    PROVE  /\ global_bh = NoDocument => global_data' = global_data
           /\ global_bh # NoDocument => \E f \in Document :
                 /\ global_data' = global_data \cup {f}
                 /\ f.id = global_bh.id /\ f.tag = global_bh.tag
                 /\ f.document_length = document_length
<1>1. CASE global_bh = NoDocument
  BY <1>1 DEF FinishDocument
<1>2. CASE global_bh # NoDocument
  <2> DEFINE f == [global_bh EXCEPT !.document_length = document_length]
  <2>1. global_bh \in Document /\ document_length \in 0..MaxTerms
    BY <1>2 DEF TypeOK
  <2>2. /\ f \in Document /\ f.id = global_bh.id /\ f.tag = global_bh.tag
        /\ f.document_length = document_length
    BY <2>1 DEF Document
  <2>3. global_data' = global_data \cup {f}
    BY <1>2 DEF FinishDocument
  <2> HIDE DEF f
  <2> QED BY <1>2, <2>2, <2>3
<1> QED BY <1>1, <1>2

\* One more record is at most one more position, of the current document.
LEMMA AddPlaces ==
    ASSUME TypeOK, NEW key, NEW value, NEW pos, Add({key}, value, pos), NEW id
    PROVE  /\ id # current_id \/ pos = 0 =>
                 PlacedOf(term_data', id) = PlacedOf(term_data, id)
           /\ id = current_id /\ pos # 0 =>
                 PlacedOf(term_data', id)
                    = PlacedOf(term_data, id) \cup {<<key, id, pos>>}
<1> DEFINE new == [term |-> key, id |-> current_id, position |-> pos,
                   value |-> value]
<1>1. term_data' = term_data \cup {new}
  BY DEF Add
<1>2. /\ new.id = current_id /\ new.position = pos
      /\ TermKey(new) = <<key, current_id, pos>>
  BY DEF TermKey
<1> HIDE DEF new
<1> QED BY <1>1, <1>2 DEF PlacedOf

\* A call that adds a record and counts it if it has a position.
LEMMA AddCounts ==
    ASSUME BuilderInv, LengthsInv, NEW key, NEW value, NEW pos,
           Add({key}, value, pos),
           \/ document_length' = document_length + 1
           \/ pos = 0 /\ document_length' = document_length
    PROVE  LengthsInv'
<1>1. /\ Building /\ files' = files /\ global_data' = global_data
      /\ global_bh' = global_bh /\ current_id' = current_id
      /\ globals' = globals /\ (GlobalFirst => global_bh # NoDocument)
  BY DEF Add, docVars
<1>2. Building' /\ Announced' = Announced /\ IdsReused' = IdsReused
  BY <1>1 DEF Building, Announced, IdsReused
<1>3. TypeOK /\ OwnerInv /\ document_length \in Nat
  BY DEF BuilderInv, TypeOK
<1>4. TagInv'
  BY <1>1, <1>2 DEF LengthsInv, TagInv
<1>5. ASSUME GlobalFirst, ~IdsReused
      PROVE  /\ \A d \in global_data :
                   Counted(PlacedOf(term_data', d.id), d.document_length)
             /\ Counted(PlacedOf(term_data', global_bh.id), document_length')
  <2>1. global_bh # NoDocument /\ current_id = global_bh.id
    BY <1>1, <1>3, <1>5 DEF OwnerInv
  <2>2. ASSUME NEW d \in global_data PROVE d.id # current_id
    <3>1. d.tag # global_bh.tag /\ d \in Announced /\ global_bh \in Announced
      BY <1>1, <2>1 DEF LengthsInv, TagInv, Announced
    <3> QED BY <1>5, <2>1, <3>1 DEF IdsReused
  <2>3. ASSUME NEW d \in global_data
        PROVE  Counted(PlacedOf(term_data', d.id), d.document_length)
    <3>1. PlacedOf(term_data', d.id) = PlacedOf(term_data, d.id)
      BY <1>3, <2>2, AddPlaces
    <3> QED BY <1>5, <3>1 DEF LengthsInv, CountInv
  <2> DEFINE old == PlacedOf(term_data, current_id)
             x   == <<key, current_id, pos>>
  <2>4. IsFiniteSet(old) /\ Cardinality(old) <= document_length
    BY <1>1, <1>5, <2>1 DEF LengthsInv, CountInv, Counted
  <2>5. \/ PlacedOf(term_data', current_id) = old
        \/ /\ PlacedOf(term_data', current_id) = old \cup {x}
           /\ document_length' = document_length + 1
    BY <1>3, AddPlaces
  <2> HIDE DEF old, x
  <2>6. Cardinality(old) \in Nat
    BY <2>4, FS_CardinalityType
  <2>7. IsFiniteSet(old \cup {x}) /\ Cardinality(old \cup {x}) <= document_length + 1
    <3>1. /\ IsFiniteSet(old \cup {x})
          /\ Cardinality(old \cup {x})
                = IF x \in old THEN Cardinality(old) ELSE Cardinality(old) + 1
      BY <2>4, FS_AddElement
    <3> QED BY <1>3, <2>4, <2>6, <3>1
  <2>8. Counted(PlacedOf(term_data', current_id), document_length')
    <3> DEFINE now == PlacedOf(term_data', current_id)
    <3>1. document_length' \in Nat /\ document_length <= document_length'
      BY <1>3
    <3>2. CASE now = old
      <4>1. IsFiniteSet(now) /\ Cardinality(now) <= document_length'
        BY <1>3, <2>4, <2>6, <3>1, <3>2
      <4> QED BY <4>1 DEF Counted
    <3>3. CASE now = old \cup {x} /\ document_length' = document_length + 1
      BY <2>7, <3>3 DEF Counted
    <3> QED BY <2>5, <3>2, <3>3
  <2> QED BY <2>1, <2>3, <2>8
<1>6. CountInv'
  BY <1>1, <1>2, <1>5 DEF CountInv
<1>7. HeaderInv'
  BY <1>2 DEF HeaderInv
<1> QED BY <1>4, <1>6, <1>7 DEF LengthsInv

\* After finish_document every document in the sorter is counted, and no id
\* or tag is new.
LEMMA FinishCounts ==
    ASSUME BuilderInv, LengthsInv, Building, FinishDocument
    PROVE  /\ \A d \in global_data' : \E a \in Announced :
                 a.id = d.id /\ a.tag = d.tag
           /\ \A a \in Announced : \E d \in global_data' :
                 a.id = d.id /\ a.tag = d.tag
           /\ GlobalFirst /\ ~IdsReused =>
                 \A d \in global_data' :
                    Counted(PlacedOf(term_data, d.id), d.document_length)
<1>1. TypeOK
  BY DEF BuilderInv
<1>2. CASE global_bh = NoDocument
  <2>1. global_data' = global_data /\ Announced = global_data
    BY <1>1, <1>2, FinishedDocument DEF Announced
  <2> QED BY <2>1 DEF LengthsInv, CountInv
<1>3. CASE global_bh # NoDocument
  <2>1. PICK f \in Document :
          /\ global_data' = global_data \cup {f}
          /\ f.id = global_bh.id /\ f.tag = global_bh.tag
          /\ f.document_length = document_length
    BY <1>1, <1>3, FinishedDocument
  <2>2. Announced = global_data \cup {global_bh}
    BY <1>3 DEF Announced
  <2> QED BY <1>3, <2>1, <2>2 DEF LengthsInv, CountInv
<1> QED BY <1>2, <1>3

\* An announcement begins with no position.
LEMMA GlobalLengths ==
    ASSUME BuilderInv, LengthsInv, NEW id \in Ids, NEW c \in ContentLengths,
           NEW e \in EmbeddingCounts, Global(id, c, e)
    PROVE  LengthsInv'
<1>1. /\ Building /\ Building' /\ FinishDocument /\ globals' = globals + 1
      /\ term_data' = term_data /\ document_length' = 0
      /\ global_bh' = [id |-> id, tag |-> globals + 1, document_length |-> 0,
                       content_length |-> c, num_embeddings |-> e]
  BY DEF Global, Building
<1>2. TypeOK /\ OwnerInv
  BY DEF BuilderInv
<1>3. global_bh' # NoDocument /\ Announced' = global_data' \cup {global_bh'}
  BY <1>2, NewDocument DEF Announced
<1>4. global_bh'.id = id /\ global_bh'.tag = globals + 1 /\ globals \in Nat
  BY <1>1, <1>2 DEF TypeOK
<1>5. ASSUME NEW d \in global_data'
      PROVE  d.tag \in Nat /\ d.tag <= globals
  <2>1. PICK a \in Announced : a.tag = d.tag
    BY <1>1, FinishCounts
  <2> QED BY <2>1 DEF LengthsInv, TagInv
<1>6. TagInv'
  <2>1. \A d \in global_data' : d.tag # global_bh'.tag
    BY <1>4, <1>5
  <2>2. \A d \in Announced' : d.tag \in Nat /\ d.tag <= globals'
    BY <1>1, <1>3, <1>4, <1>5
  <2> QED BY <2>1, <2>2 DEF TagInv
<1>7. ASSUME IdsReused PROVE IdsReused'
  <2>1. PICK d, a \in Announced : d.id = a.id /\ d.tag # a.tag
    BY <1>7 DEF IdsReused
  <2>2. PICK d2 \in global_data' : d2.id = d.id /\ d2.tag = d.tag
    BY <1>1, FinishCounts
  <2>3. PICK a2 \in global_data' : a2.id = a.id /\ a2.tag = a.tag
    BY <1>1, FinishCounts
  <2> QED BY <1>3, <2>1, <2>2, <2>3 DEF IdsReused
<1>8. ASSUME GlobalFirst, ~IdsReused'
      PROVE  /\ \A d \in global_data' :
                   Counted(PlacedOf(term_data', d.id), d.document_length)
             /\ Counted(PlacedOf(term_data', global_bh'.id), document_length')
  <2>1. \A d \in global_data' :
           Counted(PlacedOf(term_data', d.id), d.document_length)
    BY <1>1, <1>7, <1>8, FinishCounts
  <2>2. ASSUME NEW r \in term_data PROVE r.id # id
    <3>1. PICK a \in Announced : a.id = r.id
      BY <1>2, <1>8, IdOfDocument DEF OwnerInv
    <3>2. PICK d \in global_data' : d.id = a.id
      BY <1>1, FinishCounts
    <3>3. d.tag # global_bh'.tag
      BY <1>4, <1>5
    <3>4. d.id # global_bh'.id
      BY <1>3, <1>8, <3>3 DEF IdsReused
    <3> QED BY <1>4, <3>1, <3>2, <3>4
  <2>3. PlacedOf(term_data', id) = {}
    BY <1>1, <2>2 DEF PlacedOf
  <2>4. IsFiniteSet({}) /\ Cardinality({}) = 0
    BY FS_EmptySet
  <2>5. Counted(PlacedOf(term_data', global_bh'.id), document_length')
    BY <1>1, <1>4, <2>3, <2>4 DEF Counted
  <2> QED BY <2>1, <2>5
<1>9. CountInv'
  BY <1>8 DEF CountInv
<1>10. HeaderInv'
  BY <1>1 DEF HeaderInv
<1> QED BY <1>6, <1>9, <1>10 DEF LengthsInv

\* The headers have the lengths of documents that were sorted.
LEMMA DestroyLengths ==
    ASSUME BuilderInv, LengthsInv, Destroy
    PROVE  LengthsInv'
<1>1. /\ Building /\ FinishDocument /\ term_data' = term_data
      /\ global_bh' = global_bh /\ globals' = globals
  BY DEF Destroy
<1>2. PICK docs \in KeptGlobals(global_data'), recs \in KeptTerms(term_data) :
        files' = Written(docs, recs, total_documents', total_terms', max_id)
  BY DEF Destroy
<1>3. TypeOK
  BY DEF BuilderInv
<1>4. docs \subseteq global_data' /\ files'.gbl = GlobalFile(docs)
  BY <1>2 DEF KeptGlobals, Written
<1>5. ASSUME NEW id \in DOMAIN files'.gbl
      PROVE  \E d \in global_data' :
                d.id = id /\ files'.gbl[id].document_length = d.document_length
  <2> DEFINE d == CHOOSE e \in docs : e.id = id
  <2>1. id \in DocumentIds(docs)
    BY <1>4, <1>5 DEF GlobalFile
  <2>2. d \in docs /\ d.id = id
    BY <2>1, IdOfDocument
  <2>3. files'.gbl[id].document_length = d.document_length
    BY <1>4, <2>1 DEF GlobalFile
  <2> QED BY <1>4, <2>2, <2>3
<1>6. ASSUME NEW a \in Announced'
      PROVE  \E b \in Announced : b.id = a.id /\ b.tag = a.tag
  <2>1. a \in global_data' \/ a \in Announced
    BY <1>1 DEF Announced
  <2> QED BY <1>1, <2>1, FinishCounts
<1>7. ASSUME IdsReused PROVE IdsReused'
  <2>1. PICK d, a \in Announced : d.id = a.id /\ d.tag # a.tag
    BY <1>7 DEF IdsReused
  <2>2. PICK d2 \in global_data' : d2.id = d.id /\ d2.tag = d.tag
    BY <1>1, FinishCounts
  <2>3. PICK a2 \in global_data' : a2.id = a.id /\ a2.tag = a.tag
    BY <1>1, FinishCounts
  <2>4. d2 \in Announced' /\ a2 \in Announced'
    BY DEF Announced
  <2> QED BY <2>1, <2>2, <2>3, <2>4 DEF IdsReused
<1>8. ~Building'
  <2>1. "gbl" \in DOMAIN files'
    BY <1>2 DEF Written
  <2>2. "gbl" \notin DOMAIN NoFiles
    BY DEF NoFiles
  <2> QED BY <2>1, <2>2 DEF Building
<1>9. TagInv'
  BY <1>1, <1>6, <1>8 DEF LengthsInv, TagInv
<1>10. CountInv'
  BY <1>1, <1>7, <1>8, FinishCounts DEF CountInv
<1>11. HeaderInv'
  BY <1>5 DEF HeaderInv
<1> QED BY <1>9, <1>10, <1>11 DEF LengthsInv

\* Every call of a client keeps the relation; the wterm calls add one record.
LEMMA NextLengths == BuilderInv /\ LengthsInv /\ [Next]_vars => LengthsInv'
<1> SUFFICES ASSUME BuilderInv, LengthsInv, [Next]_vars PROVE LengthsInv'
  OBVIOUS
<1>1. ASSUME NEW id \in Ids, NEW c \in ContentLengths,
             NEW e \in EmbeddingCounts, Global(id, c, e)
      PROVE  LengthsInv'
  BY <1>1, GlobalLengths
<1>2. ASSUME NEW key \in Keys PROVE Expanded(key) = {key}
  BY DEF Expanded, ValidExpansionTerm
<1>3. ASSUME NEW key \in Keys, Term(key) \/ WTerm(key)
      PROVE  LengthsInv'
  <2>1. Add({key}, 0, 0) /\ document_length' = document_length
    BY <1>2, <1>3 DEF Term, WTerm
  <2> QED BY <2>1, AddCounts
<1>4. ASSUME NEW key \in Keys, NEW pos \in Positions,
             TermPosition(key, pos) \/ WTermPosition(key, pos)
      PROVE  LengthsInv'
  <2>1. Add({key}, 0, pos) /\ document_length' = document_length + 1
    BY <1>2, <1>4 DEF TermPosition, WTermPosition
  <2> QED BY <2>1, AddCounts
<1>5. ASSUME NEW key \in Keys, NEW value \in Values,
             TermValue(key, value) \/ WTermValue(key, value)
      PROVE  LengthsInv'
  <2>1. Add({key}, value, 0) /\ document_length' = document_length
    BY <1>2, <1>5 DEF TermValue, WTermValue
  <2> QED BY <2>1, AddCounts
<1>6. CASE Destroy
  BY <1>6, DestroyLengths
<1>7. CASE UNCHANGED vars
  BY <1>7 DEF vars, docVars, LengthsInv, TagInv, CountInv, HeaderInv, Announced,
              Building, IdsReused
<1> QED BY <1>1, <1>3, <1>4, <1>5, <1>6, <1>7 DEF Next

\* In the beginning.
LEMMA InitLengths == Init => LengthsInv
BY DEF Init, LengthsInv, TagInv, CountInv, HeaderInv, Announced, Building

\* For every client that announces documents first and reuses no id: the
\* length in a header, which BM25 divides by, is at least the number of
\* positions the index has for the document, whatever calls were repeated and
\* whichever records the reducer keeps.
THEOREM LengthsAlwaysCoverPositions == Spec => []LengthsCoverPositions
<1>1. Init => LengthsInv
  BY InitLengths
<1>2. BuilderInv /\ LengthsInv /\ [Next]_vars => LengthsInv'
  BY NextLengths
<1>3. BuilderInv /\ LengthsInv => LengthsCoverPositions
  <2> SUFFICES ASSUME BuilderInv, LengthsInv, ~Building, GlobalFirst, ~IdsReused,
                      NEW id \in DOMAIN files.gbl
               PROVE  files.gbl[id].document_length
                         >= Cardinality(PlacedOf(term_data, id))
    BY DEF LengthsCoverPositions, PlacedOf
  <2>1. PICK d \in global_data :
           d.id = id /\ files.gbl[id].document_length = d.document_length
    BY DEF LengthsInv, HeaderInv
  <2>2. Counted(PlacedOf(term_data, id), d.document_length)
    BY <2>1 DEF LengthsInv, CountInv
  <2>3. Cardinality(PlacedOf(term_data, id)) \in Nat /\ d.document_length \in Nat
    BY <2>1, <2>2, FS_CardinalityType DEF Counted, BuilderInv, TypeOK, Document
  <2> QED BY <2>1, <2>2, <2>3 DEF Counted
<1> QED BY <1>1, <1>2, <1>3, BuilderInvariant, PTL DEF Spec

-----------------------------------------------------------------------------
(***************************************************************************)
(* That stats.txt describes the files.                                     *)
(*                                                                         *)
(* The totals are kept by finish_document, one document at a time; readers *)
(* divide them to get the average length.  TotalsInv says that they are    *)
(* the number and the summed lengths of the documents in the sorter, where *)
(* a document that is announced twice counts twice; without reused ids     *)
(* the reducer keeps them all.                                             *)
(***************************************************************************)
LengthOf(docs) == [d \in docs |-> d.document_length]

TotalsInv ==
    /\ IsFiniteSet(global_data) /\ IsFiniteSet(term_data)
    /\ Cardinality(global_data) = total_documents
    /\ \A d, e \in global_data : d.tag = e.tag => d = e
    /\ \A g : Sums(LengthOf(global_data), global_data, g) =>
                 g[global_data] = total_terms

WrittenInv ==
    ~Building =>
        \E docs \in KeptGlobals(global_data), recs \in KeptTerms(term_data) :
            files = Written(docs, recs, total_documents, total_terms, max_id)

\* Lengths can be summed.
LEMMA LengthWeights ==
    ASSUME NEW docs \in SUBSET Document, IsFiniteSet(docs)
    PROVE  Weights(docs, LengthOf(docs))
<1>1. ASSUME NEW d \in docs PROVE d.document_length \in Nat
  <2>1. d \in Document
    OBVIOUS
  <2>2. d.document_length \in 0..MaxTerms /\ MaxTerms \in Nat
    BY <2>1, BuilderAssumption DEF Document
  <2> QED BY <2>2
<1>2. LengthOf(docs) \in [docs -> Nat]
  BY <1>1 DEF LengthOf
<1> QED BY <1>2 DEF Weights

\* finish_document counts the document it sorts.
LEMMA FinishTotals ==
    ASSUME BuilderInv, LengthsInv, TotalsInv, Building, FinishDocument
    PROVE  /\ IsFiniteSet(global_data')
           /\ Cardinality(global_data') = total_documents'
           /\ \A d, e \in global_data' : d.tag = e.tag => d = e
           /\ \A g : Sums(LengthOf(global_data'), global_data', g) =>
                        g[global_data'] = total_terms'
<1>1. TypeOK
  BY DEF BuilderInv
<1>2. CASE global_bh = NoDocument
  <2>1. global_data' = global_data /\ total_documents' = total_documents
        /\ total_terms' = total_terms
    BY <1>2 DEF FinishDocument
  <2> QED BY <2>1 DEF TotalsInv
<1>3. CASE global_bh # NoDocument
  <2>1. PICK f \in Document :
          /\ global_data' = global_data \cup {f}
          /\ f.id = global_bh.id /\ f.tag = global_bh.tag
          /\ f.document_length = document_length
    BY <1>1, <1>3, FinishedDocument
  <2>2. total_documents' = total_documents + 1
        /\ total_terms' = total_terms + document_length
    BY <1>3 DEF FinishDocument
  <2>3. \A d \in global_data : d.tag # f.tag
    BY <1>3, <2>1 DEF LengthsInv, TagInv
  <2> DEFINE S == global_data
             T == global_data'
  <2>4. S \in SUBSET Document /\ IsFiniteSet(S) /\ f \notin S /\ T = S \cup {f}
    BY <1>1, <2>1, <2>3 DEF TypeOK, TotalsInv
  <2>5. IsFiniteSet(T) /\ Cardinality(T) = Cardinality(S) + 1
    BY <2>4, FS_AddElement
  <2>6. \A d, e \in T : d.tag = e.tag => d = e
    BY <2>3, <2>4 DEF TotalsInv
  <2>7. ASSUME NEW g, Sums(LengthOf(T), T, g)
        PROVE  g[T] = total_terms'
    <3>1. T \in SUBSET Document
      BY <2>1, <2>4
    <3> HIDE DEF T
    <3>2. Weights(S, LengthOf(S)) /\ Weights(T, LengthOf(T))
      BY <2>4, <2>5, <3>1, LengthWeights
    <3>3. PICK s : Sums(LengthOf(S), S, s)
      BY <3>2, SumExists
    <3>4. Agree(S, LengthOf(S), LengthOf(T)) /\ LengthOf(T)[f] = document_length
      BY <2>1, <2>4 DEF Agree, LengthOf
    <3>5. s[S] = total_terms /\ document_length \in Nat /\ total_terms \in Nat
      BY <1>1, <3>3 DEF TotalsInv, TypeOK
    <3>6. g[T] = LengthOf(T)[f] + s[S]
      <4> HIDE DEF S
      <4> QED BY <2>4, <2>7, <3>2, <3>3, <3>4, OneMore
    <3> QED BY <2>2, <3>4, <3>5, <3>6
  <2> QED BY <2>2, <2>5, <2>6, <2>7 DEF TotalsInv
<1> QED BY <1>2, <1>3

\* A call that adds one record.
LEMMA AddTotals ==
    ASSUME TotalsInv, NEW key, NEW value, NEW pos, Add({key}, value, pos)
    PROVE  TotalsInv' /\ WrittenInv'
<1> DEFINE r == [term |-> key, id |-> current_id, position |-> pos, value |-> value]
<1>1. /\ Building /\ Building' /\ global_data' = global_data
      /\ total_terms' = total_terms /\ total_documents' = total_documents
      /\ term_data' = term_data \cup {r}
  BY DEF Add, docVars, Building
<1> HIDE DEF r
<1>2. IsFiniteSet(term_data')
  BY <1>1, FS_AddElement DEF TotalsInv
<1> QED BY <1>1, <1>2 DEF TotalsInv, WrittenInv

\* Every call of a client keeps the totals.
LEMMA NextTotals ==
    BuilderInv /\ LengthsInv /\ TotalsInv /\ WrittenInv /\ [Next]_vars
        => TotalsInv' /\ WrittenInv'
<1> SUFFICES ASSUME BuilderInv, LengthsInv, TotalsInv, WrittenInv, [Next]_vars
             PROVE  TotalsInv' /\ WrittenInv'
  OBVIOUS
<1>1. ASSUME NEW id \in Ids, NEW c \in ContentLengths,
             NEW e \in EmbeddingCounts, Global(id, c, e)
      PROVE  TotalsInv' /\ WrittenInv'
  <2>1. Building /\ Building' /\ FinishDocument /\ term_data' = term_data
    BY <1>1 DEF Global, Building
  <2> QED BY <2>1, FinishTotals DEF TotalsInv, WrittenInv
<1>2. ASSUME NEW key \in Keys PROVE Expanded(key) = {key}
  BY DEF Expanded, ValidExpansionTerm
<1>3. ASSUME NEW key \in Keys, Term(key) \/ WTerm(key)
      PROVE  TotalsInv' /\ WrittenInv'
  <2>1. Add({key}, 0, 0)
    BY <1>2, <1>3 DEF Term, WTerm
  <2> QED BY <2>1, AddTotals
<1>4. ASSUME NEW key \in Keys, NEW pos \in Positions,
             TermPosition(key, pos) \/ WTermPosition(key, pos)
      PROVE  TotalsInv' /\ WrittenInv'
  <2>1. Add({key}, 0, pos)
    BY <1>2, <1>4 DEF TermPosition, WTermPosition
  <2> QED BY <2>1, AddTotals
<1>5. ASSUME NEW key \in Keys, NEW value \in Values,
             TermValue(key, value) \/ WTermValue(key, value)
      PROVE  TotalsInv' /\ WrittenInv'
  <2>1. Add({key}, value, 0)
    BY <1>2, <1>5 DEF TermValue, WTermValue
  <2> QED BY <2>1, AddTotals
<1>6. CASE Destroy
  <2>1. /\ Building /\ FinishDocument /\ term_data' = term_data /\ max_id' = max_id
        /\ \E docs \in KeptGlobals(global_data'), recs \in KeptTerms(term_data) :
              files' = Written(docs, recs, total_documents', total_terms', max_id)
    BY <1>6 DEF Destroy
  <2>2. TotalsInv'
    BY <2>1, FinishTotals DEF TotalsInv
  <2>3. WrittenInv'
    BY <2>1 DEF WrittenInv
  <2> QED BY <2>2, <2>3
<1>7. CASE UNCHANGED vars
  BY <1>7 DEF vars, docVars, TotalsInv, WrittenInv, Building
<1> QED BY <1>1, <1>3, <1>4, <1>5, <1>6, <1>7 DEF Next

\* A new builder has counted nothing.
LEMMA InitTotals == Init => TotalsInv /\ WrittenInv
<1> SUFFICES ASSUME Init PROVE TotalsInv /\ WrittenInv
  OBVIOUS
<1>1. /\ global_data = {} /\ term_data = {} /\ total_documents = 0
      /\ total_terms = 0 /\ Building
  BY DEF Init, Building
<1>2. IsFiniteSet({}) /\ Cardinality({}) = 0
  BY FS_EmptySet
<1>3. ASSUME NEW g, Sums(LengthOf({}), {}, g) PROVE g[{}] = 0
  <2>1. Weights({}, LengthOf({}))
    BY <1>2, LengthWeights
  <2> QED BY <1>3, <2>1, SumFacts DEF Adds
<1> QED BY <1>1, <1>2, <1>3 DEF TotalsInv, WrittenInv

\* So they hold in every behaviour.
LEMMA TotalsAlways == Spec => [](BuilderInv /\ LengthsInv /\ TotalsInv /\ WrittenInv)
<1>1. Init => BuilderInv /\ LengthsInv /\ TotalsInv /\ WrittenInv
  BY InitBuilderInv, InitLengths, InitTotals
<1>2. BuilderInv /\ LengthsInv /\ TotalsInv /\ WrittenInv /\ [Next]_vars
        => (BuilderInv /\ LengthsInv /\ TotalsInv /\ WrittenInv)'
  BY NextBuilderInv, NextLengths, NextTotals
<1> QED BY <1>1, <1>2, PTL DEF Spec

\* What the reducer keeps: one document of each id, all of them when no id
\* was reused.
LEMMA KeptDocuments ==
    ASSUME BuilderInv, TotalsInv, NEW docs \in KeptGlobals(global_data)
    PROVE  /\ docs \in SUBSET Document /\ IsFiniteSet(docs)
           /\ IsFiniteSet(DocumentIds(docs))
           /\ Cardinality(DocumentIds(docs)) <= total_documents
           /\ ~IdsReused => /\ docs = global_data
                            /\ Cardinality(DocumentIds(docs)) = total_documents
<1> DEFINE S == global_data
           h == [d \in S |-> d.id]
<1>1. /\ docs \in SUBSET S /\ DocumentIds(docs) = DocumentIds(S)
      /\ S \in SUBSET Document /\ IsFiniteSet(S) /\ Cardinality(S) = total_documents
  BY DEF KeptGlobals, BuilderInv, TypeOK, TotalsInv
<1>2. IsFiniteSet(docs)
  BY <1>1, FS_Subset
<1>3. DocumentIds(S) = Mapped(h, S)
  BY DEF DocumentIds, Mapped
<1>4. ASSUME ~IdsReused, NEW d \in S, NEW e \in S, d.id = e.id
      PROVE  d = e
  <2>1. d \in Announced /\ e \in Announced
    BY DEF Announced
  <2>2. d.tag = e.tag
    BY <1>4, <2>1 DEF IdsReused
  <2> QED BY <2>2 DEF TotalsInv
<1>5. ~IdsReused => Renames(S, h)
  BY <1>4 DEF Renames
<1>6. /\ IsFiniteSet(Mapped(h, S))
      /\ Cardinality(Mapped(h, S)) <= Cardinality(S)
      /\ Renames(S, h) => Cardinality(Mapped(h, S)) = Cardinality(S)
  <2>1. S \in SUBSET S
    OBVIOUS
  <2> HIDE DEF S, h
  <2> QED BY <1>1, <2>1, MappedSets
<1>7. ASSUME ~IdsReused PROVE docs = S
  <2>1. ASSUME NEW d \in S PROVE d \in docs
    <3>1. d.id \in DocumentIds(docs)
      BY <1>1 DEF DocumentIds
    <3>2. PICK e \in docs : e.id = d.id
      BY <3>1, IdOfDocument
    <3> QED BY <1>1, <1>4, <1>7, <3>2
  <2> QED BY <1>1, <2>1
<1> HIDE DEF S, h
<1> QED BY <1>1, <1>2, <1>3, <1>5, <1>6, <1>7 DEF S

\* The lengths that the headers of documents ids hold.
HeaderLengths(gbl, ids) == [id \in ids |-> gbl[id].document_length]

\* term_idx has an entry for each key.
LEMMA WrittenKeys ==
    ASSUME TypeOK, TotalsInv, NEW recs \in KeptTerms(term_data), NEW docs,
           NEW n, NEW l, NEW top
    PROVE  /\ Written(docs, recs, n, l, top).stats.num_terms
                = Len(Written(docs, recs, n, l, top).term_idx)
           /\ Written(docs, recs, n, l, top).stats.total_documents = n
           /\ Written(docs, recs, n, l, top).stats.total_terms = l
           /\ Written(docs, recs, n, l, top).gbl = GlobalFile(docs)
<1> DEFINE key  == [r \in recs |-> r.term]
           keys == Ascending({r.term : r \in recs})
<1>1. recs \in SUBSET Record /\ IsFiniteSet(recs)
  <2>1. recs \subseteq term_data /\ term_data \subseteq Record
    BY DEF KeptTerms, TypeOK
  <2> QED BY <2>1, FS_Subset DEF TotalsInv
<1>2. {r.term : r \in recs} = Mapped(key, recs)
  BY DEF Mapped
<1>3. IsFiniteSet(Mapped(key, recs))
  <2>1. recs \in SUBSET recs
    OBVIOUS
  <2> HIDE DEF key
  <2> QED BY <1>1, <2>1, MappedSets
<1>4. {r.term : r \in recs} \in SUBSET Nat
  <2>1. ASSUME NEW r \in recs PROVE r.term \in Nat
    BY <1>1, BuilderAssumption DEF Record
  <2> QED BY <2>1
<1>5. Len(keys) \in Nat
  <2> DEFINE S == {r.term : r \in recs}
  <2>1. S \in SUBSET Nat /\ IsFiniteSet(S)
    BY <1>2, <1>3, <1>4
  <2> HIDE DEF S
  <2>2. Cardinality(S) \in Nat /\ Ascending(S) \in [1..Cardinality(S) -> S]
    BY <2>1, AscendingFacts
  <2>3. Ascending(S) \in Seq(S)
    BY <2>2
  <2>4. Len(Ascending(S)) \in Nat
    BY <2>3
  <2> QED BY <2>4 DEF S
<1>6. /\ Written(docs, recs, n, l, top).stats.num_terms = Len(keys)
      /\ Written(docs, recs, n, l, top).stats.total_documents = n
      /\ Written(docs, recs, n, l, top).stats.total_terms = l
      /\ Written(docs, recs, n, l, top).gbl = GlobalFile(docs)
  BY DEF Written
<1>7. \E idx : /\ Written(docs, recs, n, l, top).term_idx = [k \in 1..Len(keys) |-> idx[k]]
  <2> DEFINE data == [k \in 1..Len(keys) |-> TermRecords(recs, keys[k])]
             idx == [k \in 1..Len(keys) |-> [key |-> keys[k], offs |-> HeaderAt(data, k) - 1]]
  <2>1. Written(docs, recs, n, l, top).term_idx = idx
    BY DEF Written
  <2>2. idx = [k \in 1..Len(keys) |-> idx[k]]
    OBVIOUS
  <2> QED BY <2>1, <2>2
<1> HIDE DEF keys
<1>8. Len(Written(docs, recs, n, l, top).term_idx) = Len(keys)
  <2>1. PICK idx : Written(docs, recs, n, l, top).term_idx = [k \in 1..Len(keys) |-> idx[k]]
    BY <1>7
  <2> QED BY <1>5, <2>1
<1> QED BY <1>6, <1>8

\* When no id was reused, the headers hold the lengths that were counted.
LEMMA HeadersSum ==
    ASSUME BuilderInv, TotalsInv, ~IdsReused,
           NEW docs \in KeptGlobals(global_data),
           NEW gbl, gbl = GlobalFile(docs), NEW k, k = HeaderLengths(gbl, DOMAIN gbl)
    PROVE  /\ Weights(DOMAIN gbl, k)
           /\ \A w : Sums(k, DOMAIN gbl, w) => w[DOMAIN gbl] = total_terms
<1> DEFINE S   == global_data
           ids == DocumentIds(S)
           f   == LengthOf(S)
           h   == [d \in S |-> d.id]
<1>1. docs = S /\ S \in SUBSET Document /\ IsFiniteSet(S)
  BY KeptDocuments
<1>2. ids = Mapped(h, S) /\ DOMAIN gbl = ids
  BY <1>1 DEF DocumentIds, GlobalFile, Mapped
<1>3. IsFiniteSet(ids)
  <2>1. S \in SUBSET S
    OBVIOUS
  <2> HIDE DEF S, h, ids
  <2> QED BY <1>1, <1>2, <2>1, MappedSets
<1>4. ASSUME NEW d \in S, NEW e \in S, d.id = e.id
      PROVE  d = e
  <2>1. d \in Announced /\ e \in Announced
    BY DEF Announced
  <2>2. d.tag = e.tag
    BY <1>4, <2>1 DEF IdsReused
  <2> QED BY <2>2 DEF TotalsInv
<1>5. ASSUME NEW d \in S
      PROVE  d.id \in ids /\ k[d.id] = f[d] /\ f[d] = d.document_length
  <2>1. d.id \in ids
    BY DEF DocumentIds
  <2>2. (CHOOSE e \in docs : e.id = d.id) = d
    BY <1>1, <1>4
  <2>3. gbl[d.id].document_length = (CHOOSE e \in docs : e.id = d.id).document_length
    BY <1>1, <2>1 DEF GlobalFile
  <2> QED BY <1>2, <2>1, <2>2, <2>3 DEF HeaderLengths, LengthOf
<1>6. Weights(S, f)
  BY <1>1, LengthWeights
<1>7. Weights(ids, k)
  <2>1. ASSUME NEW id \in ids PROVE k[id] \in Nat
    <3>1. PICK d \in S : id = d.id
      BY DEF DocumentIds
    <3>2. f[d] \in Nat
      BY <1>6 DEF Weights
    <3> QED BY <1>5, <3>1, <3>2
  <2>2. k = [id \in ids |-> k[id]]
    BY <1>2 DEF HeaderLengths
  <2> HIDE DEF ids
  <2> QED BY <1>3, <2>1, <2>2 DEF Weights
<1>8. SameWeights(S, f, ids, k, h)
  <2> HIDE DEF ids, f
  <2> QED BY <1>4, <1>5 DEF SameWeights, Renames
<1>9. S \in SUBSET S /\ (\A g : Sums(f, S, g) => g[S] = total_terms)
  BY DEF TotalsInv
<1> HIDE DEF S, ids, f, h
<1>10. PICK g : Sums(f, S, g)
  BY <1>6, SumExists
<1>11. ASSUME NEW w, Sums(k, ids, w) PROVE g[S] = w[ids]
  <2>1. \A A \in SUBSET S : g[A] = w[Mapped(h, A)]
    <3>1. Sums(k, ids, w)
      BY <1>11
    <3> QED BY ONLY <1>6, <1>7, <1>8, <1>10, <3>1, SumRenamed
  <2> QED BY <1>2, <1>9, <2>1
<1> QED BY <1>2, <1>7, <1>9, <1>10, <1>11

\* The counts are kept as long as the documents are, and written with them.
LEMMA StatsFromTotals ==
    ASSUME BuilderInv, TotalsInv, WrittenInv
    PROVE  StatsMatchFiles
<1> SUFFICES ASSUME ~Building PROVE StatsMatchFiles
  BY DEF StatsMatchFiles
<1>1. PICK docs \in KeptGlobals(global_data), recs \in KeptTerms(term_data) :
          files = Written(docs, recs, total_documents, total_terms, max_id)
  BY DEF WrittenInv
<1>2. /\ files.stats.num_terms = Len(files.term_idx)
      /\ files.stats.total_documents = total_documents
      /\ files.stats.total_terms = total_terms
      /\ files.gbl = GlobalFile(docs)
  BY <1>1, WrittenKeys DEF BuilderInv
<1>3. DOMAIN files.gbl = DocumentIds(docs)
  BY <1>2 DEF GlobalFile
<1>4. /\ Cardinality(DocumentIds(docs)) <= total_documents
      /\ ~IdsReused => Cardinality(DocumentIds(docs)) = total_documents
      /\ IsFiniteSet(DocumentIds(docs))
  BY KeptDocuments
<1>5. total_documents >= Cardinality(DocumentIds(docs))
  <2>1. total_documents \in Nat /\ Cardinality(DocumentIds(docs)) \in Nat
    BY <1>4, FS_CardinalityType DEF BuilderInv, TypeOK
  <2> QED BY <1>4, <2>1
<1>6. ASSUME ~IdsReused PROVE total_terms = SumOfLengths(files.gbl)
  <2> DEFINE gbl == files.gbl
             k   == HeaderLengths(gbl, DOMAIN gbl)
             ids == DOMAIN gbl
  <2>1. gbl = GlobalFile(docs)
    BY <1>2
  <2>2. k = HeaderLengths(gbl, DOMAIN gbl)
    OBVIOUS
  <2>3. SumOfLengths(gbl) = Total(k, ids)
    BY DEF SumOfLengths, Total, HeaderLengths
  <2> HIDE DEF gbl, k
  <2>4. /\ Weights(ids, k)
        /\ \A w : Sums(k, ids, w) => w[ids] = total_terms
    BY <1>6, <2>1, <2>2, HeadersSum
  <2>5. PICK w : Sums(k, ids, w)
    BY <2>4, SumExists
  <2>6. Total(k, ids) = w[ids]
    <3>1. ids \in SUBSET ids
      OBVIOUS
    <3> HIDE DEF ids
    <3> QED BY <2>4, <2>5, <3>1, TotalIsSum
  <2> QED BY <2>3, <2>4, <2>5, <2>6 DEF gbl
<1> QED BY <1>2, <1>3, <1>4, <1>5, <1>6 DEF StatsMatchFiles

\* The counts in stats.txt are those of the files written with it: the terms,
\* the documents and, when no id was reused, the lengths in the headers, from
\* which readers compute the average length for BM25.
THEOREM StatsAlwaysMatchFiles == Spec => []StatsMatchFiles
<1>1. BuilderInv /\ LengthsInv /\ TotalsInv /\ WrittenInv => StatsMatchFiles
  BY StatsFromTotals
<1> QED BY <1>1, TotalsAlways, PTL
-----------------------------------------------------------------------------
(***************************************************************************)
(* That the slices of a header are those of its document.                  *)
(*                                                                         *)
(* A header's offset is the sum of what the documents with smaller ids     *)
(* take, and the file has the documents' cells one behind the other in id  *)
(* order.  That both agree is proved by going up the sorted ids.           *)
(***************************************************************************)
OneOfEachId(docs) == /\ IsFiniteSet(docs) /\ DocumentIds(docs) \in SUBSET Nat
                     /\ \A d, e \in docs : d.id = e.id => d = e

\* The cells of document d lie in the file from off on, all of them in it.
CellsFrom(file, off, d, size) == \A j \in 1..size : file[off + j] = <<d.tag, j>>
CellsAt(file, off, d, size) ==
    /\ off \in Nat /\ size \in Nat /\ off + size <= Len(file)
    /\ CellsFrom(file, off, d, size)

\* doc lists the documents in id order.
InOrder(docs, n, doc) ==
    /\ n \in Nat /\ doc \in [1..n -> docs]
    /\ n = Len(Ascending(DocumentIds(docs)))
    /\ \A k \in 1..n :
          doc[k] = CHOOSE d \in docs : d.id = Ascending(DocumentIds(docs))[k]
    /\ \A j, k \in 1..n : j < k => doc[j].id < doc[k].id
    /\ \A d \in docs : \E k \in 1..n : doc[k] = d

\* There is such a list.
LEMMA DocumentsInOrder ==
    ASSUME NEW docs, OneOfEachId(docs)
    PROVE  \E n, doc : InOrder(docs, n, doc)
<1> DEFINE I   == DocumentIds(docs)
           n   == Cardinality(I)
           A   == Ascending(I)
           h   == [d \in docs |-> d.id]
           doc == [k \in 1..n |-> CHOOSE d \in docs : d.id = A[k]]
<1>1. I \in SUBSET Nat /\ IsFiniteSet(I)
  <2>1. I = Mapped(h, docs)
    BY DEF DocumentIds, Mapped
  <2>2. IsFiniteSet(docs) /\ docs \in SUBSET docs /\ I \in SUBSET Nat
    BY DEF OneOfEachId
  <2> HIDE DEF I, h
  <2> QED BY <2>1, <2>2, MappedSets
<1>2. /\ n \in Nat /\ A \in [1..n -> I]
      /\ \A i, j \in 1..n : i < j => A[i] < A[j]
      /\ \A x \in I : \E i \in 1..n : A[i] = x
  <2> HIDE DEF I
  <2> QED BY <1>1, AscendingFacts
<1>3. ASSUME NEW k \in 1..n PROVE doc[k] \in docs /\ doc[k].id = A[k]
  <2>1. A[k] \in I
    BY <1>2
  <2>2. \E d \in docs : d.id = A[k]
    BY <2>1, IdOfDocument
  <2> QED BY <2>2
<1>4. ASSUME NEW d \in docs PROVE \E k \in 1..n : doc[k] = d
  <2>1. d.id \in I
    BY DEF DocumentIds
  <2>2. PICK k \in 1..n : A[k] = d.id
    BY <1>2, <2>1
  <2>3. doc[k] \in docs /\ doc[k].id = d.id
    BY <1>3, <2>2
  <2>4. doc[k] = d
    BY <2>3 DEF OneOfEachId
  <2> QED BY <2>4
<1>5. n = Len(A)
  BY <1>2
<1>6. doc \in [1..n -> docs]
  BY <1>3
<1> HIDE DEF n, doc, A
<1>7. \A j, k \in 1..n : j < k => doc[j].id < doc[k].id
  BY <1>2, <1>3
<1>8. \A k \in 1..n : doc[k] = CHOOSE d \in docs : d.id = A[k]
  BY DEF doc
<1>9. InOrder(docs, n, doc)
  BY <1>2, <1>4, <1>5, <1>6, <1>7, <1>8 DEF A, InOrder
<1> QED BY <1>9

\* The cells of a document are at the sum of what comes before it.
LEMMA CellsInOrder ==
    ASSUME NEW docs, OneOfEachId(docs), NEW sizes, Weights(docs, sizes)
    PROVE  /\ Len(CellFile(docs, sizes)) \in Nat
           /\ \A d \in docs :
                CellsAt(CellFile(docs, sizes), Total(sizes, Before(docs, d)), d, sizes[d])
<1>0. PICK n, doc : InOrder(docs, n, doc)
  BY DocumentsInOrder
<1>1. /\ n \in Nat /\ doc \in [1..n -> docs]
      /\ n = Len(Ascending(DocumentIds(docs)))
      /\ \A k \in 1..n :
            doc[k] = CHOOSE d \in docs : d.id = Ascending(DocumentIds(docs))[k]
      /\ \A j, k \in 1..n : j < k => doc[j].id < doc[k].id
      /\ \A d \in docs : \E k \in 1..n : doc[k] = d
  BY <1>0 DEF InOrder
<1> DEFINE X  == {d.tag : d \in docs} \X Nat
           ss == [k \in 1..n |-> [i \in 1..sizes[doc[k]] |-> <<doc[k].tag, i>>]]
<1>2. ASSUME NEW k \in 1..n
      PROVE  /\ sizes[doc[k]] \in Nat /\ ss[k] \in Seq(X) /\ Len(ss[k]) = sizes[doc[k]]
             /\ \A j \in 1..sizes[doc[k]] : ss[k][j] = <<doc[k].tag, j>>
  <2>1. doc[k] \in docs /\ sizes[doc[k]] \in Nat
    BY <1>1 DEF Weights
  <2>2. ss[k] = [i \in 1..sizes[doc[k]] |-> <<doc[k].tag, i>>]
    OBVIOUS
  <2>3. ss[k] \in [1..sizes[doc[k]] -> X]
    BY <2>1, <2>2
  <2> QED BY <2>1, <2>2, <2>3
<1>3. ss \in Seq(Seq(X)) /\ Len(ss) = n
  <2>1. DOMAIN ss = 1..n /\ ss = [k \in 1..n |-> ss[k]]
    OBVIOUS
  <2> HIDE DEF ss, X
  <2>2. ss \in [1..n -> Seq(X)]
    BY <1>2, <2>1
  <2> QED BY <1>1, <2>2
<1>4. CellFile(docs, sizes) = FlattenSeq(ss)
  <2>1. ss = [i \in 1..Len(Ascending(DocumentIds(docs))) |->
                 LET e == CHOOSE d \in docs : d.id = Ascending(DocumentIds(docs))[i]
                 IN  [j \in 1..sizes[e] |-> <<e.tag, j>>]]
    BY <1>1
  <2> HIDE DEF ss
  <2> QED BY <2>1 DEF CellFile
<1> HIDE DEF ss, X
<1>5. PICK off \in [1..(n + 1) -> Nat] :
          /\ off[1] = 0
          /\ \A k \in 1..n :
                /\ off[k + 1] = off[k] + Len(ss[k])
                /\ off[k + 1] <= Len(FlattenSeq(ss))
                /\ \A j \in 1..Len(ss[k]) : FlattenSeq(ss)[off[k] + j] = ss[k][j]
  <2>1. \E off \in [1..(Len(ss) + 1) -> Nat] :
           /\ off[1] = 0 /\ off[Len(ss) + 1] = Len(FlattenSeq(ss))
           /\ \A k \in 1..Len(ss) :
                 /\ off[k + 1] = off[k] + Len(ss[k])
                 /\ off[k + 1] <= Len(FlattenSeq(ss))
                 /\ \A j \in 1..Len(ss[k]) : FlattenSeq(ss)[off[k] + j] = ss[k][j]
    BY ONLY <1>3, FlattenLayout
  <2> QED BY <1>3, <2>1
<1>6. PICK g : Sums(sizes, docs, g)
  BY SumExists
<1>7. Adds(sizes, docs, g)
  BY <1>6, SumFacts
<1>8. ASSUME NEW m \in 1..n, m # 1 => off[m - 1] = g[Before(docs, doc[m - 1])]
      PROVE  off[m] = g[Before(docs, doc[m])]
  <2>1. CASE m = 1
    <3>1. ASSUME NEW e \in docs PROVE ~(e.id < doc[1].id)
      <4>1. PICK k \in 1..n : doc[k] = e
        BY <1>1
      <4>2. doc[1].id \in Nat /\ e.id \in Nat
        BY <1>1, <2>1 DEF OneOfEachId, DocumentIds
      <4>3. k = 1 \/ doc[1].id < doc[k].id
        BY <1>1, <2>1, <4>1
      <4> QED BY <4>1, <4>2, <4>3
    <3>2. Before(docs, doc[1]) = {}
      BY <3>1 DEF Before
    <3> QED BY <1>5, <1>7, <2>1, <3>2 DEF Adds
  <2>2. CASE m # 1
    <3> DEFINE x == doc[m - 1]
               T == Before(docs, doc[m])
    <3>1. m - 1 \in 1..n /\ m - 1 < m /\ (m - 1) + 1 = m /\ x \in docs
      BY <1>1, <2>2
    <3>2. x \in T /\ T \in SUBSET docs
      BY <1>1, <3>1 DEF Before
    <3>3. T \ {x} = Before(docs, x)
      <4>1. ASSUME NEW e \in docs PROVE e \in T \ {x} <=> e.id < x.id
        <5>1. PICK k \in 1..n : doc[k] = e
          BY <1>1
        <5>2. x.id \in Nat /\ e.id \in Nat /\ doc[m].id \in Nat
          BY <1>1, <3>1 DEF OneOfEachId, DocumentIds
        <5>3. CASE k < m - 1
          <6>1. k < m
            BY <3>1, <5>3
          <6>2. doc[k].id < doc[m].id /\ doc[k].id < x.id
            BY <1>1, <3>1, <5>3, <6>1
          <6> QED BY <5>1, <5>2, <6>2 DEF Before
        <5>4. CASE k = m - 1
          BY <5>1, <5>2, <5>4
        <5>5. CASE k > m - 1
          <6>1. k = m \/ m < k
            BY <3>1, <5>5
          <6>2. m - 1 < k /\ x.id < doc[k].id
            BY <1>1, <3>1, <5>5
          <6>3. k = m \/ doc[m].id < doc[k].id
            BY <1>1, <6>1
          <6> QED BY <5>1, <5>2, <6>2, <6>3 DEF Before
        <5> QED BY <3>1, <5>3, <5>4, <5>5
      <4> QED BY <4>1 DEF Before
    <3>4. g[T] = sizes[x] + g[Before(docs, x)]
      <4>1. g[T] = sizes[x] + g[T \ {x}]
        <5> HIDE DEF x, T
        <5> QED BY <1>7, <3>2 DEF Adds
      <4> QED BY <3>3, <4>1
    <3>5. off[m] = off[m - 1] + sizes[x]
      BY <1>2, <1>5, <3>1
    <3>6. off[m - 1] \in Nat /\ sizes[x] \in Nat /\ off[m - 1] = g[Before(docs, x)]
      <4>1. m - 1 \in 1..(n + 1)
        BY <1>1, <3>1
      <4>2. off[m - 1] \in Nat
        BY <1>5, <4>1
      <4>3. sizes[x] \in Nat
        BY <1>2, <3>1
      <4>4. off[m - 1] = g[Before(docs, x)]
        BY <1>8, <2>2
      <4> QED BY <4>2, <4>3, <4>4
    <3> QED BY <3>4, <3>5, <3>6
  <2> QED BY <2>1, <2>2
<1>9. \A m \in 1..n : off[m] = g[Before(docs, doc[m])]
  <2> DEFINE Bad == {m \in 1..n : off[m] # g[Before(docs, doc[m])]}
  <2>1. SUFFICES ASSUME Bad # {} PROVE FALSE
    OBVIOUS
  <2>2. PICK m \in Bad : \A x \in Bad : m <= x
    <3>1. Bad \in SUBSET Nat
      OBVIOUS
    <3> HIDE DEF Bad
    <3> QED BY <2>1, <3>1, MinimumExists
  <2>3. m # 1 => m - 1 \in 1..n /\ m - 1 \notin Bad
    <3>1. m \in 1..n /\ m \in Nat /\ ~(m <= m - 1)
      OBVIOUS
    <3>2. m # 1 => m - 1 \in 1..n
      BY <1>1, <3>1
    <3> HIDE DEF Bad
    <3> QED BY <2>2, <3>1, <3>2
  <2> QED BY <1>8, <2>3
<1>10. ASSUME NEW d \in docs
       PROVE  CellsAt(CellFile(docs, sizes), Total(sizes, Before(docs, d)), d, sizes[d])
  <2>1. PICK k \in 1..n : doc[k] = d
    BY <1>1
  <2>2. Total(sizes, Before(docs, d)) = g[Before(docs, d)]
    <3>1. Before(docs, d) \in SUBSET docs
      BY DEF Before
    <3> QED BY <1>6, <3>1, TotalIsSum
  <2>3. Total(sizes, Before(docs, d)) = off[k]
    BY <1>9, <2>1, <2>2
  <2>4. /\ off[k] \in Nat /\ off[k + 1] = off[k] + sizes[d]
        /\ off[k + 1] <= Len(FlattenSeq(ss)) /\ sizes[d] \in Nat
        /\ \A j \in 1..sizes[d] : FlattenSeq(ss)[off[k] + j] = <<d.tag, j>>
    <3>1. Len(ss[k]) = sizes[d] /\ sizes[d] \in Nat /\ k \in 1..(n + 1)
          /\ \A j \in 1..sizes[d] : ss[k][j] = <<d.tag, j>>
      BY <1>1, <1>2, <2>1
    <3>2. /\ off[k + 1] = off[k] + Len(ss[k]) /\ off[k + 1] <= Len(FlattenSeq(ss))
          /\ \A j \in 1..Len(ss[k]) : FlattenSeq(ss)[off[k] + j] = ss[k][j]
      BY <1>5
    <3> QED BY <1>5, <3>1, <3>2
  <2> QED BY <1>4, <2>3, <2>4 DEF CellsAt, CellsFrom
<1>11. Len(FlattenSeq(ss)) \in Nat
  <2>1. FlattenSeq(ss) \in Seq(X)
    BY <1>3, FlattenLayout
  <2> QED BY <2>1
<1> QED BY <1>4, <1>10, <1>11

\* The slice of a file where the cells of a document lie, and an empty slice.
LEMMA SliceIsOwn ==
    ASSUME NEW file, NEW off \in Nat, NEW d, NEW size \in Nat, CellsFrom(file, off, d, size)
    PROVE  Slice(file, off, size) = Own(d.tag, size)
<1> DEFINE X == {d.tag} \X Nat
           m == off + 1
           n == off + size
           s == SubSeq(file, m, n)
<1>1. /\ m \in Int /\ n \in Int /\ n - m + 1 = size
      /\ \A j \in 1..size : m + j - 1 = off + j
      /\ IF m <= n THEN n - m + 1 = size ELSE 0 = size
  OBVIOUS
<1>2. ASSUME NEW i \in m..n PROVE file[i] \in X
  <2>1. i - off \in 1..size /\ off + (i - off) = i
    OBVIOUS
  <2>2. file[i] = <<d.tag, i - off>> /\ i - off \in Nat
    BY <2>1 DEF CellsFrom
  <2> QED BY <2>2
<1> HIDE DEF m, n, X
<1>3. /\ s \in Seq(X) /\ Len(s) = IF m <= n THEN n - m + 1 ELSE 0
      /\ \A j \in 1..(n - m + 1) : s[j] = file[m + j - 1]
  BY <1>1, <1>2, SubSeqProperties
<1> HIDE DEF s
<1>4. Len(s) = size /\ \A j \in 1..size : s[j] = <<d.tag, j>>
  BY <1>1, <1>3 DEF CellsFrom
<1>5. s = [j \in 1..Len(s) |-> s[j]]
  BY <1>3
<1>6. s = [j \in 1..size |-> <<d.tag, j>>]
  BY <1>4, <1>5
<1> QED BY <1>6 DEF Slice, Own, s, m, n

\* An offset that fits its field is kept, and without cells any will do.
LEMMA SliceOfField ==
    ASSUME NEW file, NEW off, NEW d, NEW size, CellsAt(file, off, d, size),
           NEW limit \in Nat \ {0}, Len(file) <= limit, Len(file) \in Nat
    PROVE  Slice(file, off % limit, size) = Own(d.tag, size)
<1>1. /\ off \in Nat /\ size \in Nat /\ off + size <= Len(file)
      /\ CellsFrom(file, off, d, size)
  BY DEF CellsAt
<1>2. off % limit \in Nat
  BY <1>1
<1>3. CASE size = 0
  <2>1. CellsFrom(file, off % limit, d, size)
    BY <1>3 DEF CellsFrom
  <2> QED BY <1>1, <1>2, <2>1, SliceIsOwn
<1>4. CASE size # 0
  <2>1. off < limit
    BY <1>1, <1>4
  <2>2. off % limit = off
    BY <1>1, <2>1
  <2>3. Slice(file, off, size) = Own(d.tag, size)
    BY <1>1, SliceIsOwn
  <2> QED BY <2>2, <2>3
<1> QED BY <1>3, <1>4

\* The documents that the reducer kept can be listed, and what they take is
\* a number.
LEMMA KeptCells ==
    ASSUME BuilderInv, TotalsInv, NEW docs \in KeptGlobals(global_data)
    PROVE  /\ OneOfEachId(docs)
           /\ Weights(docs, ContentSizes(docs)) /\ Weights(docs, EmbeddingSizes(docs))
<1>1. /\ docs \in SUBSET Document /\ IsFiniteSet(docs)
      /\ \A d, e \in docs : d.id = e.id => d = e
  BY KeptDocuments DEF KeptGlobals
<1>2. ASSUME NEW d \in docs
      PROVE  d.id \in Nat /\ d.content_length + 4 \in Nat /\ d.num_embeddings \in Nat
  <2>1. d.id \in Ids /\ d.content_length \in ContentLengths
        /\ d.num_embeddings \in EmbeddingCounts
    BY <1>1 DEF Document
  <2>2. Ids \cup {0} \subseteq Nat /\ ContentLengths \subseteq Nat
        /\ EmbeddingCounts \subseteq Nat
    BY IdsAreNat, BuilderAssumption
  <2>3. d.content_length \in Nat
    BY <2>1, <2>2
  <2>4. d.content_length + 4 \in Nat
    BY <2>3
  <2> QED BY <2>1, <2>2, <2>4
<1>3. DocumentIds(docs) \in SUBSET Nat
  BY <1>2 DEF DocumentIds
<1> QED BY <1>1, <1>2, <1>3 DEF OneOfEachId, Weights, ContentSizes, EmbeddingSizes

\* A header that was written is that of a document announced with its id, and
\* leads to what the document has in the two files.
LEMMA WrittenHeader ==
    ASSUME BuilderInv, TotalsInv, WrittenInv, ~Building, NEW id \in DOMAIN files.gbl,
           NEW h, h = files.gbl[id]
    PROVE  /\ h \in Header
           /\ \E d \in Announced : /\ d.id = id /\ d.tag = h.tag
                                   /\ d.content_length = h.content_length
                                   /\ d.num_embeddings = h.num_embeddings
           /\ Len(files.content) <= ContentOffsetLimit =>
                 Slice(files.content, h.content_offset, h.content_length + 4)
                   = Own(h.tag, h.content_length + 4)
           /\ Len(files.embeddings) <= EmbeddingsOffsetLimit =>
                 Slice(files.embeddings, h.embeddings_offset, h.num_embeddings)
                   = Own(h.tag, h.num_embeddings)
<1>1. PICK docs \in KeptGlobals(global_data), recs \in KeptTerms(term_data) :
          files = Written(docs, recs, total_documents, total_terms, max_id)
  BY DEF WrittenInv
<1>2. /\ files.gbl = GlobalFile(docs)
      /\ files.content = CellFile(docs, ContentSizes(docs))
      /\ files.embeddings = CellFile(docs, EmbeddingSizes(docs))
  BY <1>1 DEF Written
<1>3. /\ OneOfEachId(docs)
      /\ Weights(docs, ContentSizes(docs)) /\ Weights(docs, EmbeddingSizes(docs))
  BY KeptCells
<1> DEFINE d == CHOOSE e \in docs : e.id = id
<1>4. d \in docs
  <2>1. id \in DocumentIds(docs)
    BY <1>2 DEF GlobalFile
  <2> QED BY <2>1, IdOfDocument
<1>5. /\ h.tag = d.tag /\ h.content_length = d.content_length
      /\ h.num_embeddings = d.num_embeddings
      /\ h.content_offset = ContentOffset(docs, d) % ContentOffsetLimit
      /\ h.embeddings_offset = EmbeddingsOffset(docs, d) % EmbeddingsOffsetLimit
  BY <1>2 DEF GlobalFile
<1>6. /\ ContentOffset(docs, d) = Total(ContentSizes(docs), Before(docs, d))
      /\ EmbeddingsOffset(docs, d) = Total(EmbeddingSizes(docs), Before(docs, d))
  BY DEF ContentOffset, EmbeddingsOffset, Total
<1>7. /\ ContentSizes(docs)[d] = d.content_length + 4
      /\ EmbeddingSizes(docs)[d] = d.num_embeddings
  BY <1>4 DEF ContentSizes, EmbeddingSizes
<1> HIDE DEF d
<1>8. /\ CellsAt(files.content, ContentOffset(docs, d), d, d.content_length + 4)
      /\ CellsAt(files.embeddings, EmbeddingsOffset(docs, d), d, d.num_embeddings)
  BY <1>2, <1>3, <1>4, <1>6, <1>7, CellsInOrder
<1>9. /\ Len(files.content) \in Nat /\ Len(files.embeddings) \in Nat
      /\ ContentOffsetLimit \in Nat \ {0} /\ EmbeddingsOffsetLimit \in Nat \ {0}
  BY <1>2, <1>3, CellsInOrder, BuilderAssumption
<1>10. Len(files.content) <= ContentOffsetLimit =>
          Slice(files.content, h.content_offset, h.content_length + 4)
            = Own(h.tag, h.content_length + 4)
  BY <1>5, <1>8, <1>9, SliceOfField
<1>11. Len(files.embeddings) <= EmbeddingsOffsetLimit =>
          Slice(files.embeddings, h.embeddings_offset, h.num_embeddings)
            = Own(h.tag, h.num_embeddings)
  BY <1>5, <1>8, <1>9, SliceOfField
<1>12. h \in Header
  <2>1. d \in Document
    BY <1>4, KeptDocuments
  <2>2. h.content_offset \in Nat /\ h.embeddings_offset \in Nat
    <3>1. ContentOffset(docs, d) \in Nat /\ EmbeddingsOffset(docs, d) \in Nat
      BY <1>8 DEF CellsAt
    <3> QED BY <1>5, <1>9, <3>1
  <2>3. h = [tag |-> d.tag, document_length |-> d.document_length,
             content_length |-> d.content_length, num_embeddings |-> d.num_embeddings,
             content_offset |-> h.content_offset, embeddings_offset |-> h.embeddings_offset]
    BY <1>2 DEF GlobalFile, d
  <2> QED BY <2>1, <2>2, <2>3 DEF Document, Header
<1>13. d \in Announced /\ d.id = id
  <2>1. d \in global_data
    BY <1>4 DEF KeptGlobals
  <2>2. \E e \in docs : e.id = id
    <3>1. id \in DocumentIds(docs)
      BY <1>2 DEF GlobalFile
    <3> QED BY <3>1, IdOfDocument
  <2> QED BY <2>1, <2>2 DEF Announced, d
<1> QED BY <1>5, <1>10, <1>11, <1>12, <1>13

\* The content and the embeddings that the header of a document points at are
\* those of the document, whatever the order in which documents came and
\* whichever of the calls with its id was kept, as long as the files are
\* within the range of the offset fields.
THEOREM SlicesAlwaysOwned == Spec => []SlicesOwned
<1>1. BuilderInv /\ TotalsInv /\ WrittenInv => SlicesOwned
  BY WrittenHeader DEF SlicesOwned
<1> QED BY <1>1, TotalsAlways, PTL

-----------------------------------------------------------------------------
(***************************************************************************)
(* That term_idx points at the blocks of the terms.                        *)
(***************************************************************************)
\* The terms of the files f, as the records recs and the index of their keys.
TermsOf(f, recs) ==
    /\ Len(f.postings) \in Nat /\ Len(f.term_idx) = Len(f.postings)
    /\ f.postings = [k \in 1..Len(f.postings) |-> f.postings[k]]
    /\ f.term_data = TermFile(f.postings)
    /\ \A k \in 1..Len(f.postings) :
          /\ f.term_idx[k].offs = HeaderAt(f.postings, k) - 1
          /\ f.term_idx[k].key \in Keys
          /\ f.postings[k] = TermRecords(recs, f.term_idx[k].key)
    /\ \A j, k \in 1..Len(f.postings) : j < k => f.term_idx[j].key < f.term_idx[k].key
    /\ \A r \in term_data : \E k \in 1..Len(f.postings) : f.term_idx[k].key = r.term
    /\ \A k \in 1..Len(f.postings) : \E r \in term_data : f.term_idx[k].key = r.term

\* The keys are written in order, each with its records.
LEMMA WrittenTerms ==
    ASSUME TypeOK, TotalsInv, NEW recs \in KeptTerms(term_data), NEW docs,
           NEW n, NEW l, NEW top, NEW f, f = Written(docs, recs, n, l, top)
    PROVE  TermsOf(f, recs)
<1> DEFINE K    == {r.term : r \in recs}
           keys == Ascending(K)
           c    == Cardinality(K)
           data == [k \in 1..Len(keys) |-> TermRecords(recs, keys[k])]
           idx  == [k \in 1..Len(keys) |-> [key |-> keys[k], offs |-> HeaderAt(data, k) - 1]]
<1>1. f.postings = data /\ f.term_idx = idx /\ f.term_data = TermFile(data)
  BY DEF Written
<1>2. recs \in SUBSET term_data /\ recs \in SUBSET Record /\ IsFiniteSet(recs)
  <2>1. recs \subseteq term_data /\ term_data \subseteq Record
    BY DEF KeptTerms, TypeOK
  <2> QED BY <2>1, FS_Subset DEF TotalsInv
<1>3. K \in SUBSET Nat /\ K \in SUBSET Keys /\ IsFiniteSet(K)
  <2> DEFINE key == [r \in recs |-> r.term]
  <2>1. K = Mapped(key, recs)
    BY DEF Mapped
  <2>2. IsFiniteSet(Mapped(key, recs))
    <3>1. recs \in SUBSET recs
      OBVIOUS
    <3> HIDE DEF key
    <3> QED BY <1>2, <3>1, MappedSets
  <2>3. ASSUME NEW r \in recs PROVE r.term \in Nat /\ r.term \in Keys
    BY <1>2, BuilderAssumption DEF Record
  <2> QED BY <2>1, <2>2, <2>3
<1>4. \A r \in term_data : r.term \in K
  <2>1. TAKE r \in term_data
  <2>2. PICK q \in recs : TermKey(q) = TermKey(r)
    BY DEF KeptTerms
  <2>3. q.term = r.term
    BY <2>2 DEF TermKey
  <2> QED BY <2>3
<1>5. \A x \in K : \E r \in term_data : x = r.term
  BY <1>2
<1> HIDE DEF K
<1>6. /\ c \in Nat /\ keys \in [1..c -> K]
      /\ \A i, j \in 1..c : i < j => keys[i] < keys[j]
      /\ \A x \in K : \E i \in 1..c : keys[i] = x
  BY <1>3, AscendingFacts
<1>7. Len(keys) = c /\ \A i \in 1..c : keys[i] \in K
  BY <1>6
<1> HIDE DEF keys, c
<1>8. Len(data) = c /\ Len(idx) = c
  BY <1>6, <1>7
<1>9. \A k \in 1..c : data[k] = TermRecords(recs, keys[k])
  BY <1>7
<1>10. \A k \in 1..c : idx[k].key = keys[k] /\ idx[k].offs = HeaderAt(data, k) - 1
  <2> HIDE DEF data
  <2> QED BY <1>7
<1>11. data = [k \in 1..c |-> data[k]]
  BY <1>7
<1> HIDE DEF data, idx
<1>12. \A k \in 1..c : idx[k].key \in Keys
  BY <1>3, <1>7, <1>10
<1>13. \A j, k \in 1..c : j < k => idx[j].key < idx[k].key
  BY <1>6, <1>10
<1>14. \A r \in term_data : \E k \in 1..c : idx[k].key = r.term
  BY <1>4, <1>6, <1>10
<1>15. \A k \in 1..c : \E r \in term_data : idx[k].key = r.term
  BY <1>5, <1>7, <1>10
<1>16. /\ Len(f.postings) = c /\ Len(f.term_idx) = c /\ f.term_data = TermFile(f.postings)
       /\ f.postings = [k \in 1..c |-> f.postings[k]]
       /\ \A k \in 1..c : /\ f.term_idx[k].key = keys[k] /\ f.term_idx[k].key = idx[k].key
                          /\ f.term_idx[k].offs = HeaderAt(f.postings, k) - 1
                          /\ f.postings[k] = TermRecords(recs, keys[k])
  BY <1>1, <1>8, <1>9, <1>10, <1>11
<1> HIDE DEF TermRecords, HeaderAt, TermFile
<1>17. Len(f.postings) \in Nat
  BY <1>6, <1>16
<1>18. \A k \in 1..c : f.term_idx[k].key \in Keys /\ f.postings[k] = TermRecords(recs, f.term_idx[k].key)
  BY <1>12, <1>16
<1>19. \A j, k \in 1..c : j < k => f.term_idx[j].key < f.term_idx[k].key
  BY <1>13, <1>16
<1>20. /\ \A r \in term_data : \E k \in 1..c : f.term_idx[k].key = r.term
       /\ \A k \in 1..c : \E r \in term_data : f.term_idx[k].key = r.term
  <2>1. ASSUME NEW r \in term_data PROVE \E k \in 1..c : f.term_idx[k].key = r.term
    <3>1. PICK k \in 1..c : idx[k].key = r.term
      BY <1>14
    <3> QED BY <1>16, <3>1
  <2>2. ASSUME NEW k \in 1..c PROVE \E r \in term_data : f.term_idx[k].key = r.term
    <3>1. PICK r \in term_data : idx[k].key = r.term
      BY <1>15
    <3> QED BY <1>16, <3>1
  <2> QED BY <2>1, <2>2
<1> QED
  BY ONLY <1>16, <1>17, <1>18, <1>19, <1>20 DEF TermsOf

\* Clients have added the term of this key.
Used(key) == \E r \in term_data : r.term = key

\* The records of a term are what clients added for it, as the reducer left
\* them: one for each id and position.
LEMMA TermRecordsFacts ==
    ASSUME TypeOK, TotalsInv, NEW recs \in KeptTerms(term_data), NEW key \in Keys,
           Used(key), NEW R, R = TermRecords(recs, key)
    PROVE  /\ R \in SUBSET PostingRecord
           /\ InWidths(R) => ReadableTerm(R)
           /\ (\A x \in R : Fits32(x.value)) => Reduced(R)
           /\ Cardinality(R) <= Cardinality(term_data)
           /\ \A x \in R : \E r \in term_data : /\ r.term = key /\ r.id = x.id
                                                /\ r.position = x.position
                                                /\ r.value = x.value
           /\ \A r \in term_data : r.term = key =>
                 \E x \in R : x.id = r.id /\ x.position = r.position
<1> DEFINE of == {q \in recs : q.term = key}
           h  == [r \in of |-> [id |-> r.id, position |-> r.position, value |-> r.value]]
<1>1. recs \in SUBSET term_data /\ recs \in SUBSET Record /\ IsFiniteSet(recs)
  <2>1. recs \subseteq term_data /\ term_data \subseteq Record
    BY DEF KeptTerms, TypeOK
  <2> QED BY <2>1, FS_Subset DEF TotalsInv
<1>2. /\ \A r \in term_data : \E q \in recs : TermKey(q) = TermKey(r)
      /\ \A q, r \in recs : TermKey(q) = TermKey(r) => q = r
  BY DEF KeptTerms
<1>3. R = Mapped(h, of)
  BY DEF TermRecords, Mapped
<1>4. IsFiniteSet(R) /\ Cardinality(R) <= Cardinality(term_data)
  <2>1. /\ IsFiniteSet(of) /\ of \in SUBSET of /\ of \in SUBSET term_data
        /\ IsFiniteSet(term_data)
    BY <1>1, FS_Subset DEF TotalsInv
  <2>2. Cardinality(of) <= Cardinality(term_data)
    BY <2>1, FS_Subset
  <2> HIDE DEF h, of
  <2>3. IsFiniteSet(R) /\ Cardinality(R) <= Cardinality(of)
    BY <1>3, <2>1, MappedSets
  <2>4. /\ Cardinality(R) \in Nat /\ Cardinality(of) \in Nat
        /\ Cardinality(term_data) \in Nat
    BY <2>1, <2>3, FS_CardinalityType
  <2> QED BY <2>2, <2>3, <2>4
<1>5. \A x \in R : \E q \in recs : /\ q.term = key /\ x.id = q.id /\ x.position = q.position
                                   /\ x.value = q.value
                                   /\ x = [id |-> q.id, position |-> q.position, value |-> q.value]
  BY DEF TermRecords
<1>6. \A q \in recs : q.term = key =>
          [id |-> q.id, position |-> q.position, value |-> q.value] \in R
  BY DEF TermRecords
<1> HIDE DEF h, of
<1>7. R \in SUBSET PostingRecord
  <2>1. Ids \cup {0} \subseteq 0..(IdLimit - 1)
    <3>1. IdLimit \in Nat /\ IdLimit > 0
      BY SMT DEF IdLimit
    <3> HIDE DEF IdLimit
    <3> QED BY <3>1, BuilderAssumption
  <2>2. Positions \cup {0} \subseteq Nat /\ Values \cup {0} \subseteq Nat
    BY BuilderAssumption
  <2>3. ASSUME NEW x \in R PROVE x \in PostingRecord
    <3>1. PICK q \in recs : x = [id |-> q.id, position |-> q.position, value |-> q.value]
      BY <1>5
    <3>2. q.id \in Ids \cup {0} /\ q.position \in Positions \cup {0} /\ q.value \in Values \cup {0}
      BY <1>1 DEF Record
    <3>3. q.id \in 0..(IdLimit - 1) /\ q.position \in Nat /\ q.value \in Nat
      BY <2>1, <2>2, <3>2
    <3> QED BY <3>1, <3>3 DEF PostingRecord
  <2> QED BY <2>3
<1>8. \A x, y \in R : x.id = y.id /\ x.position = y.position => x = y
  <2> SUFFICES ASSUME NEW x \in R, NEW y \in R, x.id = y.id, x.position = y.position
               PROVE  x = y
    OBVIOUS
  <2>1. PICK q \in recs : /\ q.term = key /\ x.id = q.id /\ x.position = q.position
                          /\ x = [id |-> q.id, position |-> q.position, value |-> q.value]
    BY <1>5
  <2>2. PICK r \in recs : /\ r.term = key /\ y.id = r.id /\ y.position = r.position
                          /\ y = [id |-> r.id, position |-> r.position, value |-> r.value]
    BY <1>5
  <2>3. TermKey(q) = TermKey(r)
    BY <2>1, <2>2 DEF TermKey
  <2> QED BY <1>2, <2>1, <2>2, <2>3
<1>9. \A r \in term_data : r.term = key => \E x \in R : x.id = r.id /\ x.position = r.position
  <2> SUFFICES ASSUME NEW r \in term_data, r.term = key
               PROVE  \E x \in R : x.id = r.id /\ x.position = r.position
    OBVIOUS
  <2>1. PICK q \in recs : TermKey(q) = TermKey(r)
    BY <1>2
  <2>2. q.term = key /\ q.id = r.id /\ q.position = r.position
    BY <2>1 DEF TermKey
  <2>3. [id |-> q.id, position |-> q.position, value |-> q.value] \in R
    BY <1>6, <2>2
  <2> QED BY <2>2, <2>3
<1>10. R # {}
  BY <1>9 DEF Used
<1>11. \A x \in R : \E r \in term_data : /\ r.term = key /\ r.id = x.id
                                         /\ r.position = x.position /\ r.value = x.value
  BY <1>1, <1>5
<1> QED BY <1>4, <1>7, <1>8, <1>9, <1>10, <1>11 DEF ReadableTerm, Reduced

\* The index points at the header of a term, and the blocks tile the file.
LEMMA BlockInFile ==
    ASSUME NEW ix, Len(ix) \in Nat, ix = [k \in 1..Len(ix) |-> ix[k]],
           \A k \in 1..Len(ix) : Storable(ix[k]),
           NEW m, m = TermFile(ix), NEW k \in 1..Len(ix), NEW h, h = HeaderAt(ix, k)
    PROVE  /\ h \in Nat
           /\ U32At(m, h + 4) = DocumentFrequency(ix[k]) /\ U32At(m, h) = MaxPositions(ix[k])
           /\ h + U32At(m, h - 4) = IF k = Len(ix) THEN Len(m) + 1
                                    ELSE HeaderAt(ix, k + 1) - 4
<1> DEFINE R == ix[k]
           n == Len(CompressGroups(R))
<1>1. \A j \in 1..Len(ix) : TermBlock(ix[j]) \in Seq(Nat)
  BY BlockBytes
<1>2. /\ m \in Seq(Nat) /\ h \in Nat /\ h - 4 \in Nat
      /\ StoredAt(m \o <<>>, h - 4, TermBlock(R))
      /\ h - 4 + Len(TermBlock(R)) = IF k = Len(ix) THEN Len(m) + 1
                                     ELSE HeaderAt(ix, k + 1) - 4
  <2> DEFINE none == <<>>
  <2>1. none \in Seq(Nat)
    OBVIOUS
  <2> HIDE DEF none
  <2>2. /\ TermFile(ix) \in Seq(Nat) /\ HeaderAt(ix, k) \in Nat /\ HeaderAt(ix, k) - 4 \in Nat
        /\ StoredAt(TermFile(ix) \o none, HeaderAt(ix, k) - 4, TermBlock(ix[k]))
        /\ HeaderAt(ix, k) - 4 + Len(TermBlock(ix[k]))
             = IF k = Len(ix) THEN Len(TermFile(ix)) + 1 ELSE HeaderAt(ix, k + 1) - 4
    <3>1. Len(ix) \in Nat /\ ix = [j \in 1..Len(ix) |-> ix[j]] /\ k \in 1..Len(ix)
      OBVIOUS
    <3>2. TermFile(ix) \in Seq(Nat)
      BY ONLY <1>1, <2>1, <3>1, FileBlocks
    <3>3. HeaderAt(ix, k) \in Nat /\ HeaderAt(ix, k) - 4 \in Nat
      BY ONLY <1>1, <2>1, <3>1, FileBlocks
    <3>4. StoredAt(TermFile(ix) \o none, HeaderAt(ix, k) - 4, TermBlock(ix[k]))
      BY ONLY <1>1, <2>1, <3>1, FileBlocks
    <3>5. HeaderAt(ix, k) - 4 + Len(TermBlock(ix[k]))
             = IF k = Len(ix) THEN Len(TermFile(ix)) + 1 ELSE HeaderAt(ix, k + 1) - 4
      BY ONLY <1>1, <2>1, <3>1, FileBlocks
    <3> QED BY <3>2, <3>3, <3>4, <3>5
  <2>3. StoredAt(TermFile(ix) \o <<>>, HeaderAt(ix, k) - 4, TermBlock(ix[k]))
    BY <2>2 DEF none
  <2> QED BY <2>2, <2>3
<1>3. StoredAt(m, h - 4, TermBlock(R))
  <2>1. m \o <<>> = m
    BY <1>2
  <2> QED BY <1>2, <2>1
<1>4. /\ n \in Nat /\ Len(TermBlock(R)) = n + 12
      /\ \A mm, a : StoredAt(mm, a, TermBlock(R)) =>
           /\ U32At(mm, a) = n + HeaderSize
           /\ U32At(mm, a + 4) = MaxPositions(R)
           /\ U32At(mm, a + 8) = DocumentFrequency(R)
  <2>1. Storable(R)
    OBVIOUS
  <2> HIDE DEF R
  <2> QED BY <2>1, BlockBytes
<1> HIDE DEF n, R
<1>5. (h - 4) + 4 = h /\ (h - 4) + 8 = h + 4
  BY <1>2
<1>6. /\ U32At(m, h - 4) = n + 8 /\ U32At(m, h) = MaxPositions(R)
      /\ U32At(m, h + 4) = DocumentFrequency(R)
  BY <1>3, <1>4, <1>5 DEF HeaderSize
<1>7. h + U32At(m, h - 4) = h - 4 + Len(TermBlock(R))
  BY <1>2, <1>4, <1>6
<1> QED BY <1>2, <1>6, <1>7 DEF R

\* The positions clients added for a term in a document, and its documents.
AddedPlaces(key, id) == {r.position : r \in {q \in term_data :
                            q.term = key /\ q.id = id /\ q.position # 0}}
AddedIds(key) == {r.id : r \in {q \in term_data : q.term = key}}

\* Each term's header counts its documents and bounds its positions.
LEMMA HeaderCounts ==
    ASSUME TypeOK, TotalsInv, NEW recs \in KeptTerms(term_data), NEW key \in Keys,
           Used(key), NEW R, R = TermRecords(recs, key), InWidths(R)
    PROVE  /\ Storable(R) /\ DocumentFrequency(R) = Cardinality(AddedIds(key))
           /\ \A id \in AddedIds(key) :
                 Cardinality(AddedPlaces(key, id)) <= MaxPositions(R)
<1>1. /\ R \in SUBSET PostingRecord /\ ReadableTerm(R)
      /\ \A x \in R : \E r \in term_data : /\ r.term = key /\ r.id = x.id
                                           /\ r.position = x.position /\ r.value = x.value
      /\ \A r \in term_data : r.term = key =>
            \E x \in R : x.id = r.id /\ x.position = r.position
  <2>1. InWidths(R)
    OBVIOUS
  <2>2. /\ R \in SUBSET PostingRecord /\ (InWidths(R) => ReadableTerm(R))
        /\ \A x \in R : \E r \in term_data : /\ r.term = key /\ r.id = x.id
                                             /\ r.position = x.position /\ r.value = x.value
        /\ \A r \in term_data : r.term = key =>
              \E x \in R : x.id = r.id /\ x.position = r.position
    BY TermRecordsFacts
  <2> QED BY <2>1, <2>2
<1>2. Storable(R)
  BY <1>1, ReadableIsStorable
<1>3. IdsOf(R) = AddedIds(key)
  BY <1>1 DEF IdsOf, AddedIds
<1>4. ASSUME NEW id \in IdsOf(R)
      PROVE  Cardinality(AddedPlaces(key, id)) <= MaxPositions(R)
  <2> DEFINE ps == PositionsOf(RecordsOf(R, id))
             n  == Len(ps)
             P  == AddedPlaces(key, id)
             D  == 1..n
  <2>1. /\ n \in Nat
        /\ \A r \in R : r.id = id /\ r.position # 0 => \E i \in D : ps[i] = r.position
    <3>1. /\ ps \in Seq(Nat)
          /\ \A r \in R : r.id = id /\ r.position # 0 => \E i \in 1..Len(ps) : ps[i] = r.position
      BY <1>1, ReadableIsReduced, PositionsRecorded
    <3> HIDE DEF ps
    <3> QED BY <3>1
  <2>2. n <= MaxPositions(R) /\ MaxPositions(R) \in Nat
    BY <1>2, PositionsBounded
  <2> HIDE DEF n, ps
  <2>3. P \subseteq Mapped(ps, D)
    <3> SUFFICES ASSUME NEW x \in P PROVE x \in Mapped(ps, D)
      OBVIOUS
    <3>1. PICK r \in term_data : r.term = key /\ r.id = id /\ r.position # 0 /\ x = r.position
      BY DEF AddedPlaces
    <3>2. PICK y \in R : y.id = id /\ y.position = x
      BY <1>1, <3>1
    <3>3. PICK i \in D : ps[i] = x
      BY <2>1, <3>1, <3>2
    <3> QED BY <3>3 DEF Mapped
  <2>4. IsFiniteSet(D) /\ Cardinality(D) = n
    <3>1. 1 \in Int /\ n \in Int
      BY <2>1
    <3> QED BY <2>1, <3>1, FS_Interval
  <2> HIDE DEF D, P
  <2>5. IsFiniteSet(Mapped(ps, D)) /\ Cardinality(Mapped(ps, D)) <= n
    <3>1. D \in SUBSET D
      OBVIOUS
    <3> QED BY <2>4, <3>1, MappedSets
  <2>6. Cardinality(P) <= Cardinality(Mapped(ps, D)) /\ IsFiniteSet(P)
    BY <2>3, <2>5, FS_Subset
  <2>7. Cardinality(P) \in Nat /\ Cardinality(Mapped(ps, D)) \in Nat
    BY <2>5, <2>6, FS_CardinalityType
  <2> QED BY <2>1, <2>2, <2>5, <2>6, <2>7 DEF P
<1> QED BY <1>2, <1>3, <1>4 DEF DocumentFrequency

\* The index written from what the builder holds points at its terms.
LEMMA IndexFromTerms ==
    ASSUME TypeOK, TotalsInv, WrittenInv, FilesInWidths
    PROVE  IndexPointsAtTerms
<1> SUFFICES ASSUME ~Building PROVE IndexPointsAtTerms
  BY DEF IndexPointsAtTerms
<1> DEFINE ix   == files.postings
           n    == Len(ix)
           idx  == files.term_idx
           data == files.term_data
           key(k) == idx[k].key
<1>1. PICK docs \in KeptGlobals(global_data), recs \in KeptTerms(term_data) :
         files = Written(docs, recs, total_documents, total_terms, max_id)
  BY DEF WrittenInv
<1>2. TermsOf(files, recs)
  BY <1>1, WrittenTerms
<1>3. /\ n \in Nat /\ Len(idx) = n /\ ix = [k \in 1..n |-> ix[k]] /\ data = TermFile(ix)
      /\ \A k \in 1..n : /\ idx[k].offs = HeaderAt(ix, k) - 1
                         /\ key(k) \in Keys /\ ix[k] = TermRecords(recs, key(k))
      /\ \A j, k \in 1..n : j < k => key(j) < key(k)
      /\ \A r \in term_data : \E k \in 1..n : key(k) = r.term
      /\ \A k \in 1..n : \E r \in term_data : key(k) = r.term
  BY <1>2 DEF TermsOf
<1>4. \A k \in 1..n : InWidths(ix[k])
  BY DEF FilesInWidths
<1> HIDE DEF ix, n, idx, data
<1>5. ASSUME NEW k \in 1..n
      PROVE  /\ Storable(ix[k]) /\ DocumentFrequency(ix[k]) = Cardinality(AddedIds(key(k)))
             /\ \A id \in AddedIds(key(k)) :
                   Cardinality(AddedPlaces(key(k), id)) <= MaxPositions(ix[k])
  <2> DEFINE x == key(k)
             R == ix[k]
  <2>1. x \in Keys /\ R = TermRecords(recs, x) /\ InWidths(R)
    BY <1>3, <1>4
  <2>2. Used(x)
    BY <1>3 DEF Used
  <2> HIDE DEF x, R
  <2>3. /\ Storable(R) /\ DocumentFrequency(R) = Cardinality(AddedIds(x))
        /\ \A id \in AddedIds(x) : Cardinality(AddedPlaces(x, id)) <= MaxPositions(R)
    BY <2>1, <2>2, HeaderCounts
  <2> QED BY <2>3 DEF x, R
<1>6. ASSUME NEW k \in 1..n
      PROVE  LET h == idx[k].offs + 1
             IN  /\ U32At(data, h + 4) = DocumentFrequency(ix[k])
                 /\ U32At(data, h) = MaxPositions(ix[k])
                 /\ h + U32At(data, h - 4) = IF k = n THEN Len(data) + 1
                                             ELSE (idx[k + 1].offs + 1) - 4
  <2> DEFINE h == HeaderAt(ix, k)
  <2>1. n = Len(ix) /\ Len(ix) \in Nat /\ ix = [j \in 1..Len(ix) |-> ix[j]]
    BY <1>3 DEF n
  <2>2. \A j \in 1..Len(ix) : Storable(ix[j])
    BY <1>5, <2>1
  <2>3. k \in 1..Len(ix)
    BY <2>1
  <2>4. \A j \in 1..n : HeaderAt(ix, j) \in Nat
    BY <1>3, <2>1, <2>2, BlockInFile
  <2>5. /\ U32At(data, h + 4) = DocumentFrequency(ix[k]) /\ U32At(data, h) = MaxPositions(ix[k])
        /\ h + U32At(data, h - 4) = IF k = Len(ix) THEN Len(data) + 1
                                    ELSE HeaderAt(ix, k + 1) - 4
    <3>1. data = TermFile(ix) /\ h = HeaderAt(ix, k)
      BY <1>3
    <3> HIDE DEF h
    <3>2. U32At(data, h + 4) = DocumentFrequency(ix[k]) /\ U32At(data, h) = MaxPositions(ix[k])
      BY ONLY <2>1, <2>2, <2>3, <3>1, BlockInFile
    <3>3. h + U32At(data, h - 4) = IF k = Len(ix) THEN Len(data) + 1
                                   ELSE HeaderAt(ix, k + 1) - 4
      BY ONLY <2>1, <2>2, <2>3, <3>1, BlockInFile
    <3> QED BY <3>2, <3>3
  <2>6. \A j \in 1..n : idx[j].offs + 1 = HeaderAt(ix, j)
    <3>1. TAKE j \in 1..n
    <3>2. idx[j].offs = HeaderAt(ix, j) - 1 /\ HeaderAt(ix, j) \in Nat
      BY <1>3, <2>4
    <3> QED BY <3>2
  <2>7. k # n => idx[k + 1].offs + 1 = HeaderAt(ix, k + 1)
    <3>1. ASSUME k # n PROVE k + 1 \in 1..n
      BY <1>3, <3>1
    <3> QED BY <2>6, <3>1
  <2>8. idx[k].offs + 1 = h
    BY <2>6
  <2> HIDE DEF h
  <2> QED BY <2>1, <2>5, <2>7, <2>8
<1>7. {key(k) : k \in 1..Len(idx)} = {r.term : r \in term_data}
  BY <1>3
<1>8. ASSUME NEW k \in 1..Len(idx), k > 1 PROVE key(k - 1) < key(k)
  <2>1. k \in 1..n /\ k - 1 \in 1..n /\ k - 1 < k
    BY <1>3, <1>8
  <2> QED BY <1>3, <2>1
<1>9. ASSUME NEW k \in 1..Len(idx)
      PROVE  LET h == idx[k].offs + 1
             IN  /\ U32At(data, h + 4) = Cardinality(AddedIds(key(k)))
                 /\ \A id \in AddedIds(key(k)) :
                       Cardinality(AddedPlaces(key(k), id)) <= U32At(data, h)
                 /\ h + U32At(data, h - 4) = IF k = Len(idx) THEN Len(data) + 1
                                             ELSE (idx[k + 1].offs + 1) - 4
  <2>1. k \in 1..n /\ Len(idx) = n
    BY <1>3
  <2> HIDE DEF key
  <2> QED BY <1>5, <1>6, <2>1
<1> QED
  BY <1>7, <1>8, <1>9 DEF IndexPointsAtTerms, AddedIds, AddedPlaces, idx, data

\* The keys of the index ascend, each offset is that of the header of its term
\* with the numbers of this term, and the blocks tile the file, for indexes of
\* any size whose values, positions and lengths fit the format.
THEOREM IndexAlwaysPointsAtTerms == Spec => [](FilesInWidths => IndexPointsAtTerms)
<1>1. TypeOK /\ TotalsInv /\ WrittenInv => (FilesInWidths => IndexPointsAtTerms)
  BY IndexFromTerms
<1>2. BuilderInv /\ LengthsInv /\ TotalsInv /\ WrittenInv => (FilesInWidths => IndexPointsAtTerms)
  BY <1>1 DEF BuilderInv
<1> QED BY <1>2, TotalsAlways, PTL

-----------------------------------------------------------------------------
(***************************************************************************)
(* The index as its readers find it.                                       *)
(***************************************************************************)
\* A reader changes nothing the builder has.
LEMMA ReadersKeepBuilder ==
    ASSUME [IndexNext]_indexVars
    PROVE  [Next]_vars
BY DEF IndexNext, indexVars, Build, LoadImage, Lookup, Advance, DecodeHit, FetchGlobal

\* What holds of the builder in every index.
LEMMA BuilderAlways ==
    IndexSpec => [](BuilderInv /\ LengthsInv /\ TotalsInv /\ WrittenInv)
<1>1. IndexInit => BuilderInv /\ LengthsInv /\ TotalsInv /\ WrittenInv
  BY InitBuilderInv, InitLengths, InitTotals DEF IndexInit
<1>2. BuilderInv /\ LengthsInv /\ TotalsInv /\ WrittenInv /\ [IndexNext]_indexVars
        => (BuilderInv /\ LengthsInv /\ TotalsInv /\ WrittenInv)'
  BY ReadersKeepBuilder, NextBuilderInv, NextLengths, NextTotals
<1> QED BY <1>1, <1>2, PTL DEF IndexSpec

\* The builder, once it has written the index, has finished.
LEMMA WrittenStays ==
    ASSUME ~Building, [Next]_vars
    PROVE  UNCHANGED vars
BY DEF Next, Global, Term, WTerm, TermPosition, WTermPosition, TermValue, WTermValue,
       Add, Destroy, vars, docVars

\* The files of the builder are an index the cursor reads back, and tell
\* which records clients added.
IndexOf(ix) ==
    /\ ReadableIndex(ix, Zeros) /\ Len(files.term_idx) = Len(ix)
    /\ files.term_data = TermFile(ix)
    /\ \A k \in 1..Len(ix) :
          /\ files.term_idx[k].offs + 1 = HeaderAt(ix, k)
          /\ \A x \in ix[k] : \E r \in Added(files.term_idx[k].key) :
                /\ r.id = x.id /\ r.position = x.position /\ r.value = x.value
          /\ \A r \in Added(files.term_idx[k].key) :
                \E x \in ix[k] : x.id = r.id /\ x.position = r.position
    /\ \A r \in term_data : \E k \in 1..Len(ix) : files.term_idx[k].key = r.term
    /\ \A k \in 1..Len(ix) : Added(files.term_idx[k].key) # {}

\* So are they, once they are written, when the index is readable.
LEMMA WrittenIsReadable ==
    ASSUME TypeOK, TotalsInv, WrittenInv, FilesReadable, ~Building
    PROVE  IndexOf(files.postings)
<1> DEFINE ix   == files.postings
           n    == Len(ix)
           idx  == files.term_idx
           key(k) == idx[k].key
<1>1. PICK docs \in KeptGlobals(global_data), recs \in KeptTerms(term_data) :
         files = Written(docs, recs, total_documents, total_terms, max_id)
  BY DEF WrittenInv
<1>2. TermsOf(files, recs)
  BY <1>1, WrittenTerms
<1>3. /\ n \in Nat /\ Len(idx) = n /\ ix = [k \in 1..n |-> ix[k]]
      /\ files.term_data = TermFile(ix)
      /\ \A k \in 1..n : /\ idx[k].offs = HeaderAt(ix, k) - 1
                         /\ key(k) \in Keys /\ ix[k] = TermRecords(recs, key(k))
      /\ \A r \in term_data : \E k \in 1..n : key(k) = r.term
      /\ \A k \in 1..n : \E r \in term_data : key(k) = r.term
  BY <1>2 DEF TermsOf
<1>4. /\ \A k \in 1..n : InWidths(ix[k])
      /\ EmptyBehind(ix, Zeros)
  BY DEF FilesReadable, FilesInWidths
<1> HIDE DEF ix, n, idx
<1>5. ASSUME NEW k \in 1..n
      PROVE  /\ ix[k] \in SUBSET PostingRecord /\ ReadableTerm(ix[k])
             /\ \A x \in ix[k] : \E r \in Added(key(k)) :
                   /\ r.id = x.id /\ r.position = x.position /\ r.value = x.value
             /\ \A r \in Added(key(k)) :
                   \E x \in ix[k] : x.id = r.id /\ x.position = r.position
  <2> DEFINE y == key(k)
             R == ix[k]
  <2>1. y \in Keys /\ R = TermRecords(recs, y) /\ InWidths(R)
    BY <1>3, <1>4
  <2>2. Used(y)
    BY <1>3 DEF Used
  <2> HIDE DEF y, R
  <2>3. /\ R \in SUBSET PostingRecord
        /\ InWidths(R) => ReadableTerm(R)
        /\ \A x \in R : \E r \in term_data : /\ r.term = y /\ r.id = x.id
                                             /\ r.position = x.position /\ r.value = x.value
        /\ \A r \in term_data : r.term = y =>
              \E x \in R : x.id = r.id /\ x.position = r.position
    BY <2>1, <2>2, TermRecordsFacts
  <2> QED BY <2>1, <2>3 DEF Added, y, R
<1>6. n = Len(ix) /\ Len(ix) \in Nat /\ ix = [j \in 1..Len(ix) |-> ix[j]]
  BY <1>3 DEF n
<1>7. Zeros \in Seq(Nat)
  BY DEF Zeros
<1>8. ReadableIndex(ix, Zeros)
  <2>1. ix \in Seq(SUBSET PostingRecord)
    <3>1. \A k \in 1..n : ix[k] \in SUBSET PostingRecord
      BY <1>5
    <3> HIDE DEF PostingRecord
    <3>2. ix \in [1..n -> SUBSET PostingRecord]
      BY <1>3, <3>1
    <3> QED BY <1>3, <3>2
  <2>2. \A k \in 1..Len(ix) : ReadableTerm(ix[k])
    BY <1>5, <1>6
  <2> QED BY <1>4, <1>7, <2>1, <2>2 DEF ReadableIndex
<1>9. \A k \in 1..n : idx[k].offs + 1 = HeaderAt(ix, k)
  <2>1. TAKE k \in 1..n
  <2>2. k \in 1..Len(ix)
    BY <1>6
  <2>3. HeaderAt(ix, k) \in Nat
    BY <1>8, <2>2, TermInFile
  <2>4. idx[k].offs = HeaderAt(ix, k) - 1
    BY <1>3
  <2> QED BY <2>3, <2>4
<1>10. \A k \in 1..n : Added(key(k)) # {}
  BY <1>3 DEF Added
<1>11. /\ files.term_data = TermFile(ix) /\ Len(idx) = n
       /\ \A r \in term_data : \E k \in 1..n : key(k) = r.term
  BY <1>3
<1> QED
  BY <1>5, <1>6, <1>8, <1>9, <1>10, <1>11 DEF IndexOf, ix, idx

-----------------------------------------------------------------------------
(***************************************************************************)
(* The invariant of the readers: a query is about a term of the index, and *)
(* its cursor has shown the ids of this term up to the one it is on.       *)
(***************************************************************************)
ReadsTerm(ix) ==
    /\ term \in 1..Len(ix) /\ t \in Cursor /\ t.id \in IdsOf(ix[term])
    /\ ret # "false" => StandsOn(ix[term], FileMemory(ix, Zeros),
                                 GroupsAt(ix, term), GroupsEnd(ix, term), t)
    /\ ret = "none" => /\ t.fresh /\ seen = {}
                       /\ \A z \in IdsOf(ix[term]) : t.id <= z
    /\ ret = "true" => ~t.fresh /\ seen = {z \in IdsOf(ix[term]) : z <= t.id}
    /\ ret = "false" => seen = IdsOf(ix[term])
    /\ call = "decode" /\ ret = "true" =>
          t.positions = PositionsOf(RecordsOf(ix[term], t.id))
    /\ call = "global" /\ ret = "true" =>
          header = IF t.id < image.num_gbls /\ t.id \in DOMAIN image.gbls
                   THEN image.gbls[t.id] ELSE NoHeader

QueryInv ==
    /\ image \in {NoImage, Opened(files.stats.max_id + 1)}
    /\ Loaded => ~Building
    /\ ~Loaded => term = 0 /\ queries = 0
    /\ ret \in {"none", "true", "false"}
    /\ query \in Keys \cup {0} /\ queries \in 0..MaxQueries
    /\ term = 0 => ret = "none" /\ seen = {}
    /\ queries > 0 /\ term = 0 => Matches(query) = {}
    /\ term # 0 => term \in Matches(query)

ReaderInv == QueryInv /\ (FilesReadable /\ term # 0 => ReadsTerm(files.postings))

BuilderFacts == TypeOK /\ TotalsInv /\ WrittenInv

\* What the image holds once it is loaded.
LEMMA LoadedFacts ==
    ASSUME BuilderFacts, QueryInv, Loaded
    PROVE  /\ ~Building /\ image = Opened(files.stats.max_id + 1)
           /\ image.terms = files.term_idx /\ image.gbls = files.gbl
           /\ image.num_gbls = files.stats.max_id + 1
           /\ image.content = files.content /\ image.embeddings = files.embeddings
           /\ FilesReadable => /\ IndexOf(files.postings)
                               /\ image.term_data = FileMemory(files.postings, Zeros)
<1>1. ~Building /\ image = Opened(files.stats.max_id + 1)
  BY DEF QueryInv, Loaded
<1>2. /\ image.terms = files.term_idx /\ image.gbls = files.gbl
      /\ image.num_gbls = files.stats.max_id + 1
      /\ image.content = files.content /\ image.embeddings = files.embeddings
      /\ image.term_data = files.term_data \o Zeros
  BY <1>1 DEF Opened
<1>3. ASSUME FilesReadable
      PROVE  /\ IndexOf(files.postings)
             /\ image.term_data = FileMemory(files.postings, Zeros)
  <2>1. IndexOf(files.postings)
    BY <1>1, <1>3, WrittenIsReadable DEF BuilderFacts
  <2> QED BY <1>2, <2>1 DEF IndexOf, FileMemory
<1> QED BY <1>1, <1>2, <1>3

\* An open cursor.
LEMMA OpenFacts ==
    ASSUME BuilderFacts, ReaderInv, FilesReadable, term # 0,
           NEW ix, ix = files.postings
    PROVE  /\ Loaded /\ IndexOf(ix) /\ ReadsTerm(ix) /\ ReadableIndex(ix, Zeros)
           /\ image.term_data = FileMemory(ix, Zeros)
           /\ term \in 1..Len(ix) /\ ix[term] \in SUBSET PostingRecord
           /\ ReadableTerm(ix[term]) /\ Storable(ix[term])
           /\ IdsOf(ix[term]) \subseteq Nat
           /\ Quiet(FileMemory(ix, Zeros), GroupsEnd(ix, term))
<1>1. Loaded /\ ReadsTerm(ix)
  BY DEF ReaderInv, QueryInv
<1>2. IndexOf(ix) /\ image.term_data = FileMemory(ix, Zeros)
  BY <1>1, LoadedFacts DEF ReaderInv
<1>3. term \in 1..Len(ix)
  BY <1>1 DEF ReadsTerm
<1>4. ReadableIndex(ix, Zeros)
  BY <1>2 DEF IndexOf
<1>5. ix[term] \in SUBSET PostingRecord /\ ReadableTerm(ix[term])
  BY <1>3, <1>4 DEF ReadableIndex
<1>6. Storable(ix[term])
  BY <1>5, ReadableIsStorable
<1>7. IdsOf(ix[term]) \subseteq Nat
  BY <1>6 DEF Storable, Encodable, IdsInRange
<1>8. Quiet(FileMemory(ix, Zeros), GroupsEnd(ix, term))
  BY <1>3, <1>4, TermInFile
<1> QED BY <1>1, <1>2, <1>3, <1>4, <1>5, <1>6, <1>7, <1>8

\* A lookup.
LEMMA LookupKeeps ==
    ASSUME BuilderFacts, ReaderInv, NEW key \in Keys, Lookup(key)
    PROVE  ReaderInv'
<1>1. /\ Loaded /\ queries < MaxQueries /\ vars' = vars /\ image' = image
      /\ query' = key /\ seen' = {} /\ queries' = queries + 1 /\ ret' = "none"
      /\ call' = "lookup"
  BY DEF Lookup
<1>2. files' = files
  BY <1>1 DEF vars
<1>3. \/ \E k \in Matches(key) : /\ term' = k
                                 /\ t' = FillTerm(image.term_data, image.terms[k].offs + 1)
      \/ Matches(key) = {} /\ term' = 0 /\ t' = NoCursor
  BY DEF Lookup
<1>4. Matches(query)' = Matches(key)
  BY <1>1 DEF Matches, Found
<1>5. Matches(key) \subseteq 1..Len(image.terms)
  BY DEF Matches, Found
<1>6. QueryInv /\ ~Building /\ image.terms = files.term_idx
  BY <1>1, LoadedFacts DEF ReaderInv
<1>7. QueryInv'
  <2>1. /\ image' \in {NoImage, Opened(files.stats.max_id + 1)'}
        /\ Loaded' /\ ~Building'
    <3>1. Opened(files.stats.max_id + 1)' = Opened(files.stats.max_id + 1)
      BY <1>2 DEF Opened
    <3> QED BY <1>1, <1>2, <1>6, <3>1 DEF QueryInv, Loaded, Building
  <2>2. query' \in Keys \cup {0} /\ queries' \in 0..MaxQueries
    <3>1. queries \in 0..MaxQueries /\ MaxQueries \in Nat
      BY <1>6, IndexAssumption DEF QueryInv
    <3> QED BY <1>1, <3>1
  <2>3. term' = 0 => Matches(query)' = {}
    <3>1. \A k \in Matches(key) : k # 0
      BY <1>5
    <3> QED BY <1>3, <1>4, <3>1
  <2>4. term' # 0 => term' \in Matches(query)'
    BY <1>3, <1>4
  <2> QED BY <1>1, <2>1, <2>2, <2>3, <2>4 DEF QueryInv
<1>8. ASSUME FilesReadable', term' # 0 PROVE ReadsTerm(files.postings)'
  <2> DEFINE ix == files.postings
             k  == term'
             R  == ix[k]
             m  == FileMemory(ix, Zeros)
  <2>1. FilesReadable
    BY <1>2, <1>8 DEF FilesReadable, FilesInWidths, Building
  <2>2. IndexOf(ix) /\ image.term_data = m
    BY <1>1, <1>6, <2>1, LoadedFacts
  <2>3. k \in 1..Len(ix) /\ t' = FillTerm(m, HeaderAt(ix, k))
    <3>1. k \in Matches(key) /\ t' = FillTerm(image.term_data, image.terms[k].offs + 1)
      BY <1>3, <1>8
    <3>2. k \in 1..Len(ix)
      BY <1>5, <1>6, <2>2, <3>1 DEF IndexOf
    <3>3. image.terms[k].offs + 1 = HeaderAt(ix, k)
      BY <1>6, <2>2, <3>2 DEF IndexOf
    <3> QED BY <2>2, <3>1, <3>2, <3>3
  <2>4. ReadableIndex(ix, Zeros)
    BY <2>2 DEF IndexOf
  <2> DEFINE c == FillTerm(m, HeaderAt(ix, k))
  <2>5. /\ StandsOn(R, m, GroupsAt(ix, k), GroupsEnd(ix, k), c)
        /\ \A z \in IdsOf(R) : c.id <= z
        /\ c.fresh = TRUE
    BY <2>3, <2>4, LookupStands
  <2>6. c \in Cursor /\ c.id \in IdsOf(R)
    <3> HIDE DEF c, R, m
    <3> QED BY <2>5, StandsFacts
  <2>7. t' = c
    BY <2>3
  <2>8. files.postings' = ix
    BY <1>2
  <2> HIDE DEF c, ix
  <2> QED BY <1>1, <2>3, <2>5, <2>6, <2>7, <2>8 DEF ReadsTerm
<1> QED BY <1>7, <1>8 DEF ReaderInv

\* What a call on an open cursor leaves alone.
SameQuery ==
    /\ vars' = vars /\ image' = image /\ query' = query /\ term' = term
    /\ queries' = queries /\ Loaded /\ term # 0 /\ ret' \in {"true", "false"}

\* Such a call keeps what is known of the query.
LEMMA SameQueryKeeps ==
    ASSUME BuilderFacts, QueryInv, SameQuery
    PROVE  QueryInv' /\ files' = files /\ (FilesReadable' => FilesReadable)
<1>1. files' = files
  BY DEF SameQuery, vars
<1>2. FilesReadable' => FilesReadable
  BY <1>1 DEF FilesReadable, FilesInWidths, Building
<1>3. Opened(files.stats.max_id + 1)' = Opened(files.stats.max_id + 1)
  BY <1>1 DEF Opened
<1>4. Matches(query)' = Matches(query)
  BY DEF Matches, Found, SameQuery
<1>5. (Building' <=> Building) /\ (Loaded' <=> Loaded)
  BY <1>1 DEF Building, Loaded, SameQuery
<1>6. QueryInv'
  BY <1>3, <1>4, <1>5 DEF QueryInv, SameQuery
<1> QED BY <1>1, <1>2, <1>6

\* A call of advance.
LEMMA AdvanceKeeps ==
    ASSUME BuilderFacts, ReaderInv, Advance
    PROVE  ReaderInv'
<1> DEFINE r == ImageAdvance(image.term_data, t)
<1>1. /\ Live /\ t' = r.t /\ ret' = (IF r.ok THEN "true" ELSE "false")
      /\ seen' = (IF r.ok THEN seen \cup {r.t.id} ELSE seen)
      /\ call' = "advance" /\ UNCHANGED <<vars, image, query, term, header, queries>>
  BY DEF Advance
<1>2. SameQuery /\ QueryInv
  <2>1. Loaded
    BY <1>1 DEF Live, ReaderInv, QueryInv
  <2> HIDE DEF r
  <2> QED BY <1>1, <2>1 DEF SameQuery, Live, ReaderInv
<1>3. QueryInv' /\ files' = files /\ (FilesReadable' => FilesReadable)
  BY <1>2, SameQueryKeeps
<1>4. ASSUME FilesReadable' PROVE ReadsTerm(files.postings)'
  <2> DEFINE ix == files.postings
             R  == ix[term]
             m  == FileMemory(ix, Zeros)
             lo == GroupsAt(ix, term)
             hi == GroupsEnd(ix, term)
  <2>1. /\ ReadsTerm(ix) /\ image.term_data = m
        /\ term \in 1..Len(ix) /\ IdsOf(R) \subseteq Nat /\ Quiet(m, hi)
    BY <1>1, <1>3, <1>4, OpenFacts DEF Live
  <2>2. files.postings' = ix /\ term' = term
    BY <1>1, <1>3
  <2>3. /\ t \in Cursor /\ t.id \in IdsOf(R) /\ StandsOn(R, m, lo, hi, t)
        /\ ret = "none" => /\ t.fresh /\ seen = {} /\ \A z \in IdsOf(R) : t.id <= z
        /\ ret = "true" => ~t.fresh /\ seen = {z \in IdsOf(R) : z <= t.id}
        /\ ret \in {"none", "true"}
    <3>1. ret \in {"none", "true", "false"}
      BY <1>2 DEF QueryInv
    <3> QED BY <1>1, <2>1, <3>1 DEF ReadsTerm, Live
  <2> HIDE DEF ix, R, m, lo, hi, r
  <2>4. CASE t.fresh
    <3> DEFINE d == [t EXCEPT !.fresh = FALSE]
    <3>1. r = Yes(d)
      BY <2>4 DEF r, ImageAdvance
    <3>2. r.t = d /\ r.ok
      BY <3>1 DEF Yes
    <3>3. d \in Cursor /\ d.id = t.id /\ d.fresh = FALSE
      BY <2>3 DEF Cursor
    <3>4. StandsOn(R, m, lo, hi, d)
      <4>1. \A b \in BOOLEAN : StandsOn(R, m, lo, hi, [t EXCEPT !.fresh = b])
        BY <2>3, StandsFacts
      <4> QED BY <4>1
    <3> HIDE DEF d
    <3>5. ret = "none" /\ seen = {} /\ \A z \in IdsOf(R) : t.id <= z
      BY <2>3, <2>4
    <3>6. {t.id} = {z \in IdsOf(R) : z <= t.id}
      BY <2>1, <2>3, <3>5
    <3>7. t' = d /\ ret' = "true" /\ seen' = {z \in IdsOf(R) : z <= d.id}
      BY <1>1, <3>2, <3>3, <3>5, <3>6
    <3>8. d.id \in IdsOf(R)
      BY <2>3, <3>3
    <3> QED BY <1>1, <2>1, <2>2, <3>3, <3>4, <3>7, <3>8 DEF ReadsTerm, R, m, lo, hi
  <2>5. CASE ~t.fresh
    <3>1. Moves(R, m, lo, hi, t, IdsBehind(R, t.id), r)
      BY <2>1, <2>3, <2>5, AdvanceMoves DEF r
    <3>2. seen = {z \in IdsOf(R) : z <= t.id}
      BY <2>3, <2>5
    <3>3. r.t \in Cursor /\ r.t.fresh = t.fresh
      BY <3>1 DEF Moves, Results, Same
    <3>4. CASE r.ok
      <4>1. /\ StandsOn(R, m, lo, hi, r.t) /\ r.t.id \in IdsBehind(R, t.id)
            /\ \A z \in IdsBehind(R, t.id) : r.t.id <= z
        BY <3>1, <3>4 DEF Moves
      <4>2. r.t.id \in IdsOf(R) /\ t.id < r.t.id
        BY <4>1 DEF IdsBehind
      <4>3. \A z \in IdsOf(R) : t.id < z => r.t.id <= z
        BY <4>1 DEF IdsBehind
      <4> DEFINE x == t.id
                 y == r.t.id
      <4>4. seen \cup {y} = {z \in IdsOf(R) : z <= y}
        <5>1. x \in Nat /\ y \in Nat /\ x < y /\ y \in IdsOf(R)
          BY <2>1, <2>3, <4>2
        <5>2. \A z \in IdsOf(R) : z \in Nat /\ (x < z => y <= z)
          BY <2>1, <4>3
        <5>3. seen = {z \in IdsOf(R) : z <= x}
          BY <3>2
        <5> HIDE DEF x, y
        <5>4. ASSUME NEW z \in IdsOf(R) PROVE z <= y <=> (z <= x \/ z = y)
          BY <5>1, <5>2
        <5> QED BY <5>1, <5>3, <5>4
      <4>5. t' = r.t /\ ret' = "true" /\ seen' = {z \in IdsOf(R) : z <= y}
        BY <1>1, <3>4, <4>4
      <4> QED BY <1>1, <2>1, <2>2, <2>5, <3>3, <4>1, <4>2, <4>5 DEF ReadsTerm, R, m, lo, hi
    <3>5. CASE ~r.ok
      <4>1. IdsBehind(R, t.id) = {} /\ r.t.id \in IdsOf(R)
        BY <3>1, <3>5 DEF Moves
      <4>2. \A z \in IdsOf(R) : ~(t.id < z)
        BY <4>1 DEF IdsBehind
      <4>3. seen = IdsOf(R)
        BY <2>1, <2>3, <3>2, <4>2
      <4>4. t' = r.t /\ ret' = "false" /\ seen' = IdsOf(R)
        BY <1>1, <3>5, <4>3
      <4> QED BY <1>1, <2>1, <2>2, <3>3, <4>1, <4>4 DEF ReadsTerm, R
    <3> QED BY <3>4, <3>5
  <2> QED BY <2>4, <2>5
<1> QED BY <1>3, <1>4 DEF ReaderInv

\* Decoding the positions.
LEMMA DecodeHitKeeps ==
    ASSUME BuilderFacts, ReaderInv, DecodeHit
    PROVE  ReaderInv'
<1> DEFINE ps == Decoded(image.term_data, t)
           d  == [t EXCEPT !.positions = ps]
<1>1. /\ ret = "true" /\ t' = d /\ call' = "decode"
      /\ UNCHANGED <<vars, image, query, term, ret, seen, header, queries>>
  BY DEF DecodeHit
<1>2. SameQuery /\ QueryInv /\ term # 0
  <2>1. Loaded /\ term # 0
    BY <1>1 DEF ReaderInv, QueryInv
  <2> HIDE DEF d
  <2> QED BY <1>1, <2>1 DEF SameQuery, ReaderInv
<1>3. QueryInv' /\ files' = files /\ (FilesReadable' => FilesReadable)
  BY <1>2, SameQueryKeeps
<1>4. ASSUME FilesReadable' PROVE ReadsTerm(files.postings)'
  <2> DEFINE ix == files.postings
             R  == ix[term]
             m  == FileMemory(ix, Zeros)
             lo == GroupsAt(ix, term)
             hi == GroupsEnd(ix, term)
  <2>1. /\ ReadsTerm(ix) /\ image.term_data = m /\ R \in SUBSET PostingRecord
        /\ ReadableTerm(R) /\ term \in 1..Len(ix)
    BY <1>2, <1>3, <1>4, OpenFacts
  <2>2. files.postings' = ix /\ term' = term
    BY <1>1, <1>3
  <2>3. /\ t \in Cursor /\ t.id \in IdsOf(R) /\ StandsOn(R, m, lo, hi, t)
        /\ ~t.fresh /\ seen = {z \in IdsOf(R) : z <= t.id}
    BY <1>1, <2>1 DEF ReadsTerm
  <2> HIDE DEF ix, R, m, lo, hi
  <2>4. ps = PositionsOf(RecordsOf(R, t.id))
    BY <2>1, <2>3, StandsFacts
  <2>5. ps \in Seq(Nat)
    BY <2>1, <2>3, <2>4, ReadableIsReduced, PositionsRecorded
  <2> HIDE DEF ps
  <2>6. StandsOn(R, m, lo, hi, d)
    <3>1. \A s \in Seq(Nat) : StandsOn(R, m, lo, hi, [t EXCEPT !.positions = s])
      BY <2>3, StandsFacts
    <3> QED BY <2>5, <3>1
  <2>7. d \in Cursor /\ d.id = t.id /\ d.fresh = t.fresh /\ d.positions = ps
    BY <2>3, <2>5 DEF Cursor
  <2> HIDE DEF d
  <2> QED BY <1>1, <2>1, <2>2, <2>3, <2>4, <2>6, <2>7 DEF ReadsTerm, R, m, lo, hi
<1> QED BY <1>3, <1>4 DEF ReaderInv

\* Fetching a global header.
LEMMA FetchGlobalKeeps ==
    ASSUME BuilderFacts, ReaderInv, FetchGlobal
    PROVE  ReaderInv'
<1>1. /\ ret = "true" /\ call' = "global"
      /\ header' = (IF t.id < image.num_gbls /\ t.id \in DOMAIN image.gbls
                    THEN image.gbls[t.id] ELSE NoHeader)
      /\ UNCHANGED <<vars, image, query, term, t, ret, seen, queries>>
  BY DEF FetchGlobal
<1>2. SameQuery /\ QueryInv /\ term # 0
  <2>1. Loaded /\ term # 0
    BY <1>1 DEF ReaderInv, QueryInv
  <2> QED BY <1>1, <2>1 DEF SameQuery, ReaderInv
<1>3. QueryInv' /\ files' = files /\ (FilesReadable' => FilesReadable)
  BY <1>2, SameQueryKeeps
<1>4. ASSUME FilesReadable' PROVE ReadsTerm(files.postings)'
  <2>1. ReadsTerm(files.postings)
    BY <1>2, <1>3, <1>4 DEF ReaderInv
  <2>2. files.postings' = files.postings
    BY <1>3
  <2> QED BY <1>1, <2>1, <2>2 DEF ReadsTerm
<1> QED BY <1>3, <1>4 DEF ReaderInv

\* Loading the image.
LEMMA LoadImageKeeps ==
    ASSUME ReaderInv, LoadImage
    PROVE  ReaderInv'
<1>1. /\ ~Building /\ ~Loaded /\ image' = Opened(files.stats.max_id + 1)
      /\ UNCHANGED <<vars, query, term, t, ret, call, seen, header, queries>>
  BY DEF LoadImage
<1>2. files' = files
  BY <1>1 DEF vars
<1>3. Opened(files.stats.max_id + 1)' = Opened(files.stats.max_id + 1) /\ ~Building'
  BY <1>1, <1>2 DEF Opened, Building
<1>4. term = 0 /\ queries = 0 /\ QueryInv
  BY <1>1 DEF ReaderInv, QueryInv
<1>5. QueryInv'
  BY <1>1, <1>3, <1>4 DEF QueryInv
<1> QED BY <1>1, <1>4, <1>5 DEF ReaderInv

\* A call of the builder.
LEMMA BuildKeeps ==
    ASSUME ReaderInv, Build
    PROVE  ReaderInv'
<1>1. Next /\ UNCHANGED readerVars
  BY DEF Build
<1>2. Building
  BY <1>1 DEF Next, Global, Term, WTerm, TermPosition, WTermPosition, TermValue, WTermValue,
              Add, Destroy
<1>3. ~Loaded /\ image = NoImage /\ term = 0 /\ queries = 0 /\ QueryInv
  BY <1>2 DEF ReaderInv, QueryInv, Loaded
<1>4. QueryInv' /\ term' = 0
  BY <1>1, <1>3 DEF QueryInv, readerVars, Loaded
<1> QED BY <1>4 DEF ReaderInv

\* Every step keeps the invariant of the readers.
LEMMA ReaderInvStep ==
    ASSUME BuilderFacts, ReaderInv, [IndexNext]_indexVars
    PROVE  ReaderInv'
<1>1. CASE Build
  BY <1>1, BuildKeeps
<1>2. CASE LoadImage
  BY <1>2, LoadImageKeeps
<1>3. ASSUME NEW key \in Keys, Lookup(key) PROVE ReaderInv'
  BY <1>3, LookupKeeps
<1>4. CASE Advance
  BY <1>4, AdvanceKeeps
<1>5. CASE DecodeHit
  BY <1>5, DecodeHitKeeps
<1>6. CASE FetchGlobal
  BY <1>6, FetchGlobalKeeps
<1>7. CASE UNCHANGED indexVars
  <2>1. UNCHANGED <<files, image, query, term, t, ret, call, seen, header, queries>>
    BY <1>7 DEF indexVars, vars, readerVars
  <2>2. QueryInv' <=> QueryInv
    BY <2>1 DEF QueryInv, Loaded, Building, Opened, Matches, Found
  <2>3. FilesReadable' <=> FilesReadable
    BY <2>1 DEF FilesReadable, FilesInWidths, Building
  <2>4. ReadsTerm(files.postings)' <=> ReadsTerm(files.postings)
    BY <2>1 DEF ReadsTerm
  <2> QED BY <2>1, <2>2, <2>3, <2>4 DEF ReaderInv
<1> QED BY <1>1, <1>2, <1>3, <1>4, <1>5, <1>6, <1>7 DEF IndexNext

\* It holds before the image is loaded.
LEMMA ReaderInvInit == IndexInit => ReaderInv
<1> SUFFICES ASSUME IndexInit PROVE ReaderInv
  OBVIOUS
<1>1. MaxQueries \in Nat
  BY IndexAssumption
<1> QED BY <1>1 DEF IndexInit, ReaderInv, QueryInv, Loaded

IndexInv == BuilderInv /\ LengthsInv /\ TotalsInv /\ WrittenInv /\ ReaderInv

\* The invariant of an index and its readers.
LEMMA IndexInvariant == IndexSpec => []IndexInv
<1>1. BuilderInv /\ LengthsInv /\ TotalsInv /\ WrittenInv /\ ReaderInv
        /\ [IndexNext]_indexVars => ReaderInv'
  BY ReaderInvStep DEF BuilderFacts, BuilderInv
<1> QED BY <1>1, ReaderInvInit, BuilderAlways, PTL DEF IndexSpec, IndexInv

-----------------------------------------------------------------------------
(***************************************************************************)
(* What a client sees.                                                     *)
(***************************************************************************)
\* What a lookup finds is the term asked for, or the one without its '*'.
LEMMA MatchesAsked ==
    ASSUME BuilderFacts, QueryInv, FilesReadable, Loaded,
           NEW ix, ix = files.postings
    PROVE  /\ Matches(query) = {} => Added(Asked) = {}
           /\ \A k \in Matches(query) : k \in 1..Len(ix) /\ files.term_idx[k].key = Asked
<1>1. image.terms = files.term_idx /\ IndexOf(ix)
  BY LoadedFacts
<1>2. ASSUME NEW key
      PROVE  /\ Found(key) = {} <=> Added(key) = {}
             /\ \A k \in Found(key) : k \in 1..Len(ix) /\ files.term_idx[k].key = key
  <2>1. Found(key) = {k \in 1..Len(ix) : files.term_idx[k].key = key}
    BY <1>1 DEF Found, IndexOf
  <2>2. ASSUME Found(key) = {} PROVE Added(key) = {}
    <3> SUFFICES ASSUME NEW r \in term_data, r.term = key PROVE FALSE
      BY DEF Added
    <3>1. PICK k \in 1..Len(ix) : files.term_idx[k].key = r.term
      BY <1>1 DEF IndexOf
    <3> QED BY <2>1, <2>2, <3>1
  <2>3. ASSUME Added(key) = {} PROVE Found(key) = {}
    <3> SUFFICES ASSUME NEW k \in 1..Len(ix), files.term_idx[k].key = key PROVE FALSE
      BY <2>1
    <3> QED BY <1>1, <2>3 DEF IndexOf
  <2> QED BY <2>1, <2>2, <2>3
<1>3. Matches(query) = Found(Asked)
  BY <1>2 DEF Matches, Asked
<1> QED BY <1>2, <1>3

\* The term under an open cursor, in terms of what clients added.
LEMMA CursorOnAsked ==
    ASSUME BuilderFacts, ReaderInv, FilesReadable, term # 0,
           NEW R, R = files.postings[term]
    PROVE  /\ \A x \in R : \E r \in Added(Asked) :
                 r.id = x.id /\ r.position = x.position /\ r.value = x.value
           /\ \A r \in Added(Asked) : \E x \in R : x.id = r.id /\ x.position = r.position
           /\ IdsOf(R) = {r.id : r \in Added(Asked)}
<1>1. Loaded /\ QueryInv /\ term \in Matches(query)
  BY DEF ReaderInv, QueryInv
<1>2. IndexOf(files.postings)
  BY <1>1, LoadedFacts
<1>3. term \in 1..Len(files.postings) /\ files.term_idx[term].key = Asked
  BY <1>1, MatchesAsked
<1>4. /\ \A x \in R : \E r \in Added(Asked) :
            r.id = x.id /\ r.position = x.position /\ r.value = x.value
      /\ \A r \in Added(Asked) : \E x \in R : x.id = r.id /\ x.position = r.position
  <2> HIDE DEF Asked
  <2> QED BY <1>2, <1>3 DEF IndexOf
<1>5. IdsOf(R) = {r.id : r \in Added(Asked)}
  <2> HIDE DEF Asked, Added
  <2> QED BY <1>4 DEF IdsOf
<1> QED BY <1>4, <1>5

\* A query that has run to its end has returned every document its term was
\* added to and no other, and a lookup that finds nothing says the truth, for
\* indexes and queries of any size.
THEOREM QueryIsAlwaysExact == IndexSpec => [](FilesReadable => QueryIsExact)
<1>1. ASSUME IndexInv, FilesReadable PROVE QueryIsExact
  <2>1. BuilderFacts /\ ReaderInv /\ QueryInv
    BY <1>1 DEF IndexInv, BuilderFacts, BuilderInv, ReaderInv
  <2>2. ASSUME ret = "false" PROVE seen = {r.id : r \in Added(Asked)}
    <3>1. term # 0
      BY <2>1, <2>2 DEF QueryInv
    <3>2. seen = IdsOf(files.postings[term])
      BY <1>1, <2>1, <2>2, <3>1 DEF ReaderInv, ReadsTerm
    <3> QED BY <1>1, <2>1, <3>1, <3>2, CursorOnAsked
  <2>3. ASSUME queries > 0, term = 0 PROVE Added(Asked) = {}
    <3>1. Loaded /\ Matches(query) = {}
      BY <2>1, <2>3 DEF QueryInv
    <3> QED BY <1>1, <2>1, <3>1, MatchesAsked
  <2> QED BY <2>2, <2>3 DEF QueryIsExact
<1> QED BY <1>1, IndexInvariant, PTL

\* The positions decoded for a hit are those clients added for the term and
\* the document, in order; a posting without positions has a value clients
\* added.
THEOREM HitIsAlwaysAsAdded == IndexSpec => [](FilesReadable => HitIsAsAdded)
<1>1. ASSUME IndexInv, FilesReadable PROVE HitIsAsAdded
  <2> SUFFICES ASSUME call = "decode", Hit
               PROVE  LET mine == {r \in Added(Asked) : r.id = t.id}
                          ps   == t.positions
                      IN  /\ {ps[i] : i \in 1..Len(ps)} \ {0} = {r.position : r \in mine} \ {0}
                          /\ \A i, j \in 1..Len(ps) : i < j => ps[i] < ps[j]
                          /\ (\A r \in mine : r.position = 0) =>
                                \E r \in mine : t.value = r.value
    BY DEF HitIsAsAdded
  <2> DEFINE ix   == files.postings
             R    == ix[term]
             mine == {r \in Added(Asked) : r.id = t.id}
             ps   == t.positions
             recs == RecordsOf(R, t.id)
  <2>1. BuilderFacts /\ ReaderInv /\ term # 0 /\ ret = "true"
    BY <1>1 DEF IndexInv, BuilderFacts, BuilderInv, Hit
  <2>2. /\ ReadsTerm(ix) /\ R \in SUBSET PostingRecord /\ ReadableTerm(R)
    BY <1>1, <2>1, OpenFacts
  <2>3. /\ t.id \in IdsOf(R) /\ ps = PositionsOf(recs)
        /\ StandsOn(R, FileMemory(ix, Zeros), GroupsAt(ix, term), GroupsEnd(ix, term), t)
    BY <2>1, <2>2 DEF ReadsTerm
  <2>4. /\ \A x \in R : \E r \in Added(Asked) :
              r.id = x.id /\ r.position = x.position /\ r.value = x.value
        /\ \A r \in Added(Asked) : \E x \in R : x.id = r.id /\ x.position = r.position
    BY <1>1, <2>1, CursorOnAsked
  <2>5. \A r \in mine : \E x \in R : x.id = t.id /\ x.position = r.position
    <3> HIDE DEF R
    <3> QED BY <2>4
  <2>6. \A x \in R : x.id = t.id => \E r \in mine : r.position = x.position /\ r.value = x.value
    <3> HIDE DEF R
    <3> QED BY <2>4
  <2> HIDE DEF mine, ps, R, ix, recs
  <2>7. /\ \A i, j \in 1..Len(ps) : i < j => ps[i] < ps[j]
        /\ \A i \in 1..Len(ps) : \E r \in R : r.id = t.id /\ r.position = ps[i]
        /\ \A r \in R : r.id = t.id /\ r.position # 0 =>
              \E i \in 1..Len(ps) : ps[i] = r.position
    BY <2>2, <2>3, ReadableIsReduced, PositionsRecorded DEF recs
  <2>8. {ps[i] : i \in 1..Len(ps)} \ {0} = {r.position : r \in mine} \ {0}
    <3>1. ASSUME NEW i \in 1..Len(ps) PROVE ps[i] \in {r.position : r \in mine}
      <4>1. PICK x \in R : x.id = t.id /\ x.position = ps[i]
        BY <2>7
      <4> QED BY <2>6, <4>1
    <3>2. ASSUME NEW r \in mine, r.position # 0
          PROVE  \E i \in 1..Len(ps) : ps[i] = r.position
      <4>1. PICK x \in R : x.id = t.id /\ x.position = r.position
        BY <2>5
      <4> QED BY <2>7, <3>2, <4>1
    <3> QED BY <3>1, <3>2
  <2>9. ASSUME \A r \in mine : r.position = 0
        PROVE  \E r \in mine : t.value = r.value
    <3>1. /\ recs # <<>> /\ Len(recs) \in Nat
          /\ \A i, j \in 1..Len(recs) : i < j => recs[i].position < recs[j].position
          /\ \A i \in 1..Len(recs) : recs[i] \in R /\ recs[i].id = t.id
          /\ recs = [i \in 1..Len(recs) |-> recs[i]]
      BY <2>2, <2>3, ReadableIsReduced, RecordsInOrder DEF recs, OneRecordEach, RecordsAscend
    <3>2. \A i \in 1..Len(recs) : recs[i].position = 0
      <4>1. TAKE i \in 1..Len(recs)
      <4>2. PICK r \in mine : r.position = recs[i].position
        BY <2>6, <3>1
      <4> QED BY <2>9, <4>2
    <3>3. Len(recs) = 1
      <4>1. Len(recs) # 0
        BY <3>1
      <4>2. ~(Len(recs) >= 2)
        <5> SUFFICES ASSUME Len(recs) >= 2 PROVE FALSE
          OBVIOUS
        <5>1. 1 \in 1..Len(recs) /\ 2 \in 1..Len(recs)
          BY <3>1
        <5>2. recs[1].position < recs[2].position
          BY <3>1, <5>1
        <5> QED BY <3>2, <5>1, <5>2
      <4> QED BY <3>1, <4>1, <4>2
    <3>4. OnlyValue(recs)
      BY <3>2, <3>3 DEF OnlyValue
    <3>5. t.value = recs[1].value
      BY <2>3, <3>4, StandsFacts DEF recs
    <3>6. PICK r \in mine : r.value = recs[1].value
      BY <2>6, <3>1, <3>3
    <3> QED BY <3>5, <3>6
  <2> QED BY <2>7, <2>8, <2>9 DEF mine, ps
<1> QED BY <1>1, IndexInvariant, PTL

\* A hit of a query, in terms of the table of headers.
LEMMA HitInTable ==
    ASSUME IndexInv, FilesReadable, Hit
    PROVE  /\ Loaded /\ ~Building /\ image.num_gbls = files.stats.max_id + 1
           /\ t.id \in Nat /\ t.id < image.num_gbls
           /\ \E r \in term_data : r.id = t.id
<1>1. BuilderFacts /\ ReaderInv /\ QueryInv /\ term # 0 /\ ret = "true"
  BY DEF IndexInv, BuilderFacts, BuilderInv, ReaderInv, Hit
<1>2. Loaded
  BY <1>1 DEF QueryInv
<1>3. ~Building /\ image.num_gbls = files.stats.max_id + 1
  BY <1>1, <1>2, LoadedFacts
<1>4. t.id \in IdsOf(files.postings[term])
  BY <1>1, OpenFacts DEF ReadsTerm
<1>5. PICK r \in Added(Asked) : r.id = t.id
  <2>1. IdsOf(files.postings[term]) = {r.id : r \in Added(Asked)}
    BY <1>1, CursorOnAsked
  <2> HIDE DEF Added, Asked
  <2> QED BY <1>4, <2>1
<1>6. r \in term_data
  BY DEF Added
<1>7. r.id <= max_id /\ files.stats.max_id = max_id /\ r \in Record
  BY <1>3, <1>6 DEF IndexInv, BuilderInv, MaxInv, FilesInv, TypeOK
<1>8. r.id \in Nat /\ max_id \in Nat
  <2>1. r.id \in Ids \cup {0} /\ max_id \in Ids \cup {0}
    BY <1>7 DEF Record, IndexInv, BuilderInv, TypeOK
  <2> QED BY <2>1, IdsAreNat
<1> QED BY <1>2, <1>3, <1>5, <1>6, <1>7, <1>8

\* The reader's variables have their types, and no hit is outside the table
\* of global headers, which the image reads without a check of its own.
THEOREM IndexTypeCorrect == IndexSpec => [](FilesReadable => IndexTypeOK)
<1>1. ASSUME IndexInv, FilesReadable PROVE IndexTypeOK
  <2>1. BuilderFacts /\ ReaderInv /\ QueryInv
    BY <1>1 DEF IndexInv, BuilderFacts, BuilderInv, ReaderInv
  <2>2. seen \subseteq Nat
    <3>1. CASE term = 0
      BY <2>1, <3>1 DEF QueryInv
    <3>2. CASE term # 0
      <4>1. IdsOf(files.postings[term]) \subseteq Nat /\ ReadsTerm(files.postings)
        BY <1>1, <2>1, <3>2, OpenFacts
      <4>2. seen \subseteq IdsOf(files.postings[term])
        BY <2>1, <4>1 DEF ReadsTerm, QueryInv
      <4> QED BY <4>1, <4>2
    <3> QED BY <3>1, <3>2
  <2>3. Hit => t.id < image.num_gbls
    BY <1>1, HitInTable
  <2> QED BY <2>1, <2>2, <2>3 DEF IndexTypeOK, QueryInv, BuilderFacts
<1> QED BY <1>1, IndexInvariant, PTL

\* For clients that announce a document before its terms: every hit has a
\* header, of a document announced with its id, from which all of the content
\* and the embeddings of this document are reached.
THEOREM HitAlwaysHasHeader ==
    ASSUME GlobalFirst
    PROVE  IndexSpec => [](FilesReadable /\ FilesInOffsets => HitHasHeader)
<1>1. ASSUME IndexInv, FilesReadable, FilesInOffsets PROVE HitHasHeader
  <2> SUFFICES ASSUME call = "global", Hit
               PROVE  /\ header # NoHeader
                      /\ \E d \in Announced :
                            /\ d.id = t.id /\ d.tag = header.tag
                            /\ ContentOf(header) = Own(d.tag, d.content_length + 4)
                            /\ EmbeddingsOf(header) = Own(d.tag, d.num_embeddings)
    BY DEF HitHasHeader
  <2>1. BuilderFacts /\ ReaderInv /\ QueryInv /\ term # 0 /\ ret = "true"
    BY <1>1 DEF IndexInv, BuilderFacts, BuilderInv, ReaderInv, Hit
  <2>2. /\ Loaded /\ ~Building /\ t.id < image.num_gbls
        /\ \E r \in term_data : r.id = t.id
    BY <1>1, HitInTable
  <2>3. /\ image.gbls = files.gbl /\ image.content = files.content
        /\ image.embeddings = files.embeddings
    BY <2>1, <2>2, LoadedFacts
  <2>4. t.id \in DOMAIN files.gbl
    BY <1>1, <2>2 DEF IndexInv, BuilderInv, OwnerInv, FilesInv
  <2>5. header = files.gbl[t.id]
    <3>1. ReadsTerm(files.postings)
      BY <1>1, <2>1 DEF ReaderInv
    <3> QED BY <2>1, <2>2, <2>3, <2>4, <3>1 DEF ReadsTerm
  <2>6. /\ header \in Header
        /\ \E d \in Announced : /\ d.id = t.id /\ d.tag = header.tag
                                /\ d.content_length = header.content_length
                                /\ d.num_embeddings = header.num_embeddings
        /\ Slice(files.content, header.content_offset, header.content_length + 4)
             = Own(header.tag, header.content_length + 4)
        /\ Slice(files.embeddings, header.embeddings_offset, header.num_embeddings)
             = Own(header.tag, header.num_embeddings)
    BY <1>1, <2>2, <2>4, <2>5, WrittenHeader DEF IndexInv, FilesInOffsets
  <2>7. header # NoHeader
    BY <2>6, NoHeaderAssumption
  <2>8. header.content_offset \in Nat /\ header.content_length \in Nat
    <3>1. header.content_length \in ContentLengths /\ header.content_offset \in Nat
      BY <2>6 DEF Header
    <3> QED BY <3>1, BuilderAssumption
  <2>9. /\ ContentOf(header) = Own(header.tag, header.content_length + 4)
        /\ EmbeddingsOf(header) = Own(header.tag, header.num_embeddings)
    <3>1. header.content_offset + (header.content_length + 4)
            = header.content_offset + header.content_length + 4
      BY <2>8
    <3> QED BY <2>3, <2>6, <3>1 DEF ContentOf, EmbeddingsOf, Slice
  <2> QED BY <2>6, <2>7, <2>9
<1> QED BY <1>1, IndexInvariant, PTL

-----------------------------------------------------------------------------
(***************************************************************************)
(* How long the blocks are.  FilesReadable is about the files; here it is  *)
(* derived from what clients pass.  A record takes 17 bytes at most, and   *)
(* twice 6 when it has both groups around it for itself; as the groups     *)
(* share the records out, a term takes at most 29 bytes a record.          *)
(***************************************************************************)
\* Offsets that grow no faster than w stay below it.
LEMMA GrowNoFaster ==
    ASSUME NEW n \in Nat, NEW off \in [1..(n + 1) -> Nat], NEW w \in [1..(n + 1) -> Nat],
           off[1] <= w[1],
           \A k \in 1..n : off[k + 1] + w[k] <= off[k] + w[k + 1]
    PROVE  off[n + 1] <= w[n + 1]
<1> DEFINE D  == 1..(n + 1)
           mu == [k \in D |-> k]
           P  == {k \in D : off[k] <= w[k]}
<1>1. ASSUME NEW k \in D, \A j \in D : mu[j] < mu[k] => j \in P
      PROVE  k \in P
  <2>1. CASE k = 1
    BY <2>1
  <2>2. CASE k # 1
    <3>1. k - 1 \in 1..n /\ k - 1 \in D /\ k \in Nat
      BY <2>2
    <3> DEFINE j == k - 1
    <3>2. j \in 1..n /\ j \in D /\ j + 1 = k /\ mu[j] < mu[k]
      BY <3>1
    <3>3. off[j] <= w[j]
      BY <1>1, <3>2
    <3> HIDE DEF j
    <3>4. off[j + 1] + w[j] <= off[j] + w[j + 1]
      BY <3>2
    <3>5. off[j] \in Nat /\ off[k] \in Nat /\ w[j] \in Nat /\ w[k] \in Nat
      BY <3>2
    <3> QED BY <3>2, <3>3, <3>4, <3>5
  <2> QED BY <2>1, <2>2
<1>2. Inductive(D, mu, P)
  <2>1. mu \in [D -> Nat] /\ P \in SUBSET D
    OBVIOUS
  <2> HIDE DEF mu, P, D
  <2> QED BY <1>1, <2>1 DEF Inductive
<1>3. P = D
  <2> HIDE DEF mu, P, D
  <2> QED BY <1>2, DescentInduction
<1>4. n + 1 \in P
  BY <1>3
<1> QED BY <1>4

\* Every position takes five bytes at most.
LEMMA PositionsAreShort ==
    ASSUME NEW ps \in Seq(Nat)
    PROVE  Len(EncodeTermPositions(ps)) <= 5 * Len(ps)
<1> DEFINE ss == [i \in 1..Len(ps) |-> EncodeHighBit(Gap(ps, i))]
           n  == Len(ps)
           w  == [k \in 1..(n + 1) |-> 5 * (k - 1)]
<1>1. n \in Nat
  OBVIOUS
<1>2. ASSUME NEW i \in 1..n PROVE EncodeHighBit(Gap(ps, i)) \in Seq(Nat)
                                  /\ Len(EncodeHighBit(Gap(ps, i))) \in 1..5
  <2>1. FirstBase(ps[1]) \in Int
    <3>1. ps[1] \in Nat
      OBVIOUS
    <3>2. FirstBase(ps[1]) \in Nat
      BY <3>1, FirstBaseFacts, Zenon
    <3> QED BY <3>2
  <2>2. ps[i] \in Int /\ (i # 1 => ps[i - 1] \in Int)
    OBVIOUS
  <2>3. Gap(ps, i) \in Int
    BY <2>1, <2>2 DEF Gap
  <2> QED BY <2>3, HighBitBytes
<1>3. ss \in Seq(Seq(Nat)) /\ Len(ss) = n
  <2> HIDE DEF n
  <2> QED BY <1>1, <1>2 DEF n
<1>4. EncodeTermPositions(ps) = Concatenated(ss)
  BY PositionsConcatenated, Zenon DEF Gap
<1>5. \A i \in 1..n : Len(ss[i]) \in 1..5
  BY <1>2
<1> HIDE DEF ss, n
<1>6. PICK off \in [1..(n + 1) -> Nat] :
         /\ off[1] = 0 /\ off[n + 1] = Len(FlattenSeq(ss))
         /\ \A k \in 1..n : off[k + 1] = off[k] + Len(ss[k])
  BY <1>3, FlattenLayout
<1>7. w \in [1..(n + 1) -> Nat] /\ off[1] <= w[1]
  BY <1>1, <1>6
<1>8. \A k \in 1..n : off[k + 1] + w[k] <= off[k] + w[k + 1]
  <2>1. TAKE k \in 1..n
  <2>2. w[k] = 5 * (k - 1) /\ w[k + 1] = 5 * k /\ off[k] \in Nat
    BY <1>1, <1>6
  <2> DEFINE x == Len(ss[k])
  <2>3. x \in 1..5 /\ off[k + 1] = off[k] + x
    BY <1>5, <1>6
  <2> HIDE DEF x, w
  <2> QED BY <2>2, <2>3
<1>9. w[n + 1] = 5 * n
  BY <1>1
<1> HIDE DEF w
<1>10. off[n + 1] <= w[n + 1]
  BY <1>1, <1>6, <1>7, <1>8, GrowNoFaster
<1> QED BY <1>4, <1>6, <1>9, <1>10 DEF Concatenated, n

\* The records of R that x owns.
Owned(R, owner, x) == {r \in R : owner[r] = x}

\* Joined pieces take c bytes a record, if the piece of every element does
\* so for the records that it owns.
LEMMA JoinedIsShort ==
    ASSUME NEW S, NEW F, Pieces(S, F), NEW R, IsFiniteSet(R), NEW owner,
           \A r \in R : owner[r] \in S, NEW c \in Nat,
           \A x \in S : Len(F[x]) <= c * Cardinality(Owned(R, owner, x))
    PROVE  /\ Len(Joined(S, F)) \in Nat
           /\ Len(Joined(S, F)) <= c * Cardinality(R)
<1> DEFINE n    == Cardinality(S)
           a    == Ascending(S)
           ss   == [i \in 1..n |-> F[a[i]]]
           part(k) == {r \in R : \E i \in 1..n : i < k /\ owner[r] = a[i]}
           w    == [k \in 1..(n + 1) |-> c * Cardinality(part(k))]
<1>1. /\ n \in Nat /\ a \in [1..n -> S]
      /\ \A i, j \in 1..n : i < j => a[i] < a[j]
      /\ \A x \in S : \E i \in 1..n : a[i] = x
  BY AscendingFacts DEF Pieces
<1>2. ss \in Seq(Seq(Nat)) /\ Len(ss) = n /\ \A i \in 1..n : ss[i] = F[a[i]]
  <2>1. \A i \in 1..n : a[i] \in S
    BY <1>1
  <2>2. \A i \in 1..n : F[a[i]] \in Seq(Nat)
    BY <2>1 DEF Pieces
  <2> HIDE DEF a, n
  <2> QED BY <1>1, <2>2
<1>3. Joined(S, F) = FlattenSeq(ss)
  BY DEF Joined, Concatenated
<1>11. S \in SUBSET Nat
  BY DEF Pieces
<1> HIDE DEF n, a, ss
<1>4. PICK off \in [1..(n + 1) -> Nat] :
         /\ off[1] = 0 /\ off[n + 1] = Len(FlattenSeq(ss))
         /\ \A k \in 1..n : off[k + 1] = off[k] + Len(ss[k])
  BY <1>2, FlattenLayout
<1>5. \A k \in 1..(n + 1) : IsFiniteSet(part(k)) /\ Cardinality(part(k)) \in Nat
  <2>1. TAKE k \in 1..(n + 1)
  <2>2. part(k) \in SUBSET R
    OBVIOUS
  <2> HIDE DEF part
  <2>3. IsFiniteSet(part(k))
    BY <2>2, FS_Subset
  <2> QED BY <2>3, FS_CardinalityType
<1>12. ASSUME NEW k \in 1..n PROVE k \in 1..(n + 1) /\ k + 1 \in 1..(n + 1)
  BY <1>1
<1>6. ASSUME NEW k \in 1..n
      PROVE  Cardinality(part(k + 1))
               = Cardinality(part(k)) + Cardinality(Owned(R, owner, a[k]))
  <2> DEFINE own == Owned(R, owner, a[k])
  <2>1. part(k + 1) = part(k) \cup own
    <3>1. \A i \in 1..n : i < k + 1 <=> i < k \/ i = k
      BY <1>1
    <3> QED BY <3>1 DEF Owned
  <2>2. part(k) \cap own = {}
    <3> SUFFICES ASSUME NEW r \in part(k), r \in own PROVE FALSE
      OBVIOUS
    <3>1. PICK i \in 1..n : i < k /\ owner[r] = a[i]
      OBVIOUS
    <3>2. owner[r] = a[k]
      BY DEF Owned
    <3>3. a[i] < a[k] /\ a[i] \in Nat
      BY <1>1, <1>11, <3>1
    <3> QED BY <3>1, <3>2, <3>3
  <2>3. IsFiniteSet(own)
    <3>1. own \in SUBSET R
      BY DEF Owned
    <3> HIDE DEF own
    <3> QED BY <3>1, FS_Subset
  <2>4. IsFiniteSet(part(k)) /\ Cardinality(part(k)) \in Nat
    BY <1>5, <1>12
  <2> HIDE DEF part, own
  <2>5. Cardinality(own) \in Nat
    BY <2>3, FS_CardinalityType
  <2>6. Cardinality(part(k) \cup own)
          = Cardinality(part(k)) + Cardinality(own) - Cardinality(part(k) \cap own)
    BY <2>3, <2>4, FS_Union
  <2>7. Cardinality(part(k) \cap own) = 0
    BY <2>2, FS_EmptySet
  <2>8. Cardinality(part(k + 1)) = Cardinality(part(k) \cup own)
    BY <2>1
  <2>9. Cardinality(part(k + 1)) = Cardinality(part(k)) + Cardinality(own)
    BY <2>4, <2>5, <2>6, <2>7, <2>8
  <2> QED BY <2>9 DEF own
<1>7. part(1) = {} /\ part(n + 1) = R
  <2>1. part(1) = {}
    BY <1>1
  <2>2. ASSUME NEW r \in R PROVE r \in part(n + 1)
    <3>1. PICK i \in 1..n : a[i] = owner[r]
      BY <1>1
    <3>2. i < n + 1
      BY <1>1
    <3> QED BY <3>1, <3>2
  <2> QED BY <2>1, <2>2
<1>8. /\ w \in [1..(n + 1) -> Nat] /\ w[n + 1] = c * Cardinality(R)
      /\ \A k \in 1..(n + 1) : w[k] = c * Cardinality(part(k))
  <2>1. \A k \in 1..(n + 1) : c * Cardinality(part(k)) \in Nat
    <3>1. TAKE k \in 1..(n + 1)
    <3> DEFINE x == Cardinality(part(k))
    <3>2. x \in Nat
      BY <1>5
    <3> HIDE DEF x
    <3>3. c * x \in Nat
      BY <3>2
    <3> HIDE DEF part
    <3> QED BY <3>3 DEF x
  <2>2. n + 1 \in 1..(n + 1)
    BY <1>1
  <2> HIDE DEF part
  <2> QED BY <1>7, <2>1, <2>2
<1> HIDE DEF part, w
<1>9. \A k \in 1..n : off[k + 1] + w[k] <= off[k] + w[k + 1]
  <2>1. TAKE k \in 1..n
  <2> DEFINE x == Cardinality(part(k))
             y == Cardinality(Owned(R, owner, a[k]))
             l == Len(ss[k])
  <2>2. /\ x \in Nat /\ w[k] = c * x /\ w[k + 1] = c * Cardinality(part(k + 1))
        /\ Cardinality(part(k + 1)) \in Nat
    BY <1>5, <1>8, <1>12
  <2>3. Cardinality(part(k + 1)) = x + y
    BY <1>6
  <2>4. y \in Nat
    <3>1. Owned(R, owner, a[k]) \in SUBSET R
      BY DEF Owned
    <3>2. IsFiniteSet(Owned(R, owner, a[k]))
      BY <3>1, FS_Subset
    <3> QED BY <3>2, FS_CardinalityType
  <2>5. l <= c * y /\ off[k + 1] = off[k] + l /\ off[k] \in Nat /\ l \in Nat
    <3>1. a[k] \in S /\ ss[k] = F[a[k]] /\ ss[k] \in Seq(Nat)
      BY <1>1, <1>2
    <3>2. Len(ss[k]) \in Nat
      BY <3>1
    <3> QED BY <1>4, <1>12, <3>1, <3>2
  <2> HIDE DEF x, y, l
  <2>6. c * (x + y) = c * x + c * y /\ c * x \in Nat /\ c * y \in Nat
    BY <2>2, <2>4
  <2> DEFINE cx == c * x
             cy == c * y
  <2>7. w[k] = cx /\ w[k + 1] = cx + cy /\ l <= cy /\ cx \in Nat /\ cy \in Nat
    BY <2>2, <2>3, <2>5, <2>6
  <2> HIDE DEF cx, cy
  <2> QED BY <2>5, <2>7
<1>13. off[1] <= w[1]
  <2>1. 1 \in 1..(n + 1)
    BY <1>1
  <2> QED BY <1>4, <1>8, <2>1
<1>10. off[n + 1] <= w[n + 1]
  BY <1>1, <1>4, <1>8, <1>9, <1>13, GrowNoFaster
<1>14. off[n + 1] \in Nat
  BY <1>1, <1>4
<1> QED BY <1>3, <1>4, <1>8, <1>10, <1>14

\* A group takes six bytes more than what is in it.
LEMMA GroupIsShort ==
    ASSUME NEW gid \in Byte, NEW body \in Seq(Nat)
    PROVE  /\ Len(EncodeGroup(gid, body)) \in Nat
           /\ Len(EncodeGroup(gid, body)) <= Len(body) + 6
<1> DEFINE len == Len(body)
           c == IF len < GROUP_2BYTE THEN <<len>>
                ELSE IF len < 65536 THEN <<GROUP_2BYTE>> \o U16(len)
                ELSE <<GROUP_4BYTE>> \o U32(len)
           w == <<gid>> \o c
<1>1. EncodeGroup(gid, body) = w \o body
  BY DEF EncodeGroup
<1>2. len \in Nat
  OBVIOUS
<1>3. /\ U16(len) \in Seq(Nat) /\ U32(len) \in Seq(Nat)
      /\ Len(U32(len)) = 4 /\ Len(U16(len)) = 2
  <2> HIDE DEF len
  <2>1. U16(len) \in Seq(Nat) /\ U32(len) \in Seq(Nat) /\ Len(U32(len)) = 4
    BY <1>2, MachineIntegers
  <2>2. Len(U16(len)) = 2
    BY DEF U16
  <2> QED BY <2>1, <2>2
<1>4. c \in Seq(Nat) /\ Len(c) \in 1..5
  <2> HIDE DEF len
  <2>1. <<len>> \in Seq(Nat) /\ Len(<<len>>) = 1
    BY <1>2
  <2>2. /\ <<GROUP_2BYTE>> \in Seq(Nat) /\ Len(<<GROUP_2BYTE>>) = 1
        /\ <<GROUP_4BYTE>> \in Seq(Nat) /\ Len(<<GROUP_4BYTE>>) = 1
    BY DEF GROUP_2BYTE, GROUP_4BYTE
  <2>3. /\ <<GROUP_2BYTE>> \o U16(len) \in Seq(Nat)
        /\ Len(<<GROUP_2BYTE>> \o U16(len)) = Len(<<GROUP_2BYTE>>) + Len(U16(len))
    BY <1>3, <2>2, ConcatFacts
  <2>4. /\ <<GROUP_4BYTE>> \o U32(len) \in Seq(Nat)
        /\ Len(<<GROUP_4BYTE>> \o U32(len)) = Len(<<GROUP_4BYTE>>) + Len(U32(len))
    BY <1>3, <2>2, ConcatFacts
  <2>5. Len(<<GROUP_2BYTE>> \o U16(len)) = 3 /\ Len(<<GROUP_4BYTE>> \o U32(len)) = 5
    BY <1>3, <2>2, <2>3, <2>4
  <2> QED BY <2>1, <2>3, <2>4, <2>5
<1> HIDE DEF c, len
<1>5. <<gid>> \in Seq(Nat) /\ Len(<<gid>>) = 1
  BY DEF Byte
<1>6. w \in Seq(Nat) /\ Len(w) = 1 + Len(c)
  BY <1>4, <1>5, ConcatFacts
<1> HIDE DEF w
<1>7. Len(w \o body) = Len(w) + Len(body) /\ Len(w) \in Nat /\ Len(body) \in Nat
  BY <1>6, ConcatFacts
<1>8. Len(w \o body) \in Nat /\ Len(w \o body) <= Len(body) + 6
  <2> DEFINE x == Len(w \o body)
             y == Len(c)
             z == Len(body)
  <2>1. x = (1 + y) + z /\ z \in Nat
    BY <1>6, <1>7
  <2>2. y \in 1..5
    BY <1>4
  <2> HIDE DEF x, y, z
  <2>3. x \in Nat /\ x <= z + 6
    BY <2>1, <2>2
  <2> QED BY <2>3 DEF x, z
<1> QED BY <1>1, <1>8

\* The positions of a posting are not more than its records.
LEMMA FewPositions ==
    ASSUME NEW recs, RecordsAscend(recs)
    PROVE  /\ Len(PositionsOf(recs)) \in Nat /\ Len(recs) \in Nat /\ 1 <= Len(recs)
           /\ Len(PositionsOf(recs)) <= Len(recs)
<1> DEFINE n == Len(recs)
           R == {recs[i] : i \in 1..n}
<1>1. n \in Nat /\ recs # <<>> /\ recs = [i \in 1..n |-> recs[i]]
  BY DEF RecordsAscend
<1>2. n # 0
  BY <1>1
<1>3. recs \in Seq(R)
  BY <1>1
<1> HIDE DEF R
<1>4. CASE OnlyValue(recs)
  <2>1. PositionsOf(recs) = <<>>
    BY <1>4 DEF PositionsOf
  <2> QED BY <1>1, <1>2, <2>1
<1>5. CASE ~OnlyValue(recs) /\ ValueFirst(recs)
  <2> DEFINE q == Tail(recs)
  <2>1. PositionsOf(recs) = [i \in 1..Len(q) |-> q[i].position]
    BY <1>5 DEF PositionsOf
  <2>2. Len(q) = n - 1 /\ Len(q) \in Nat
    BY <1>1, <1>2, <1>3
  <2> HIDE DEF q
  <2>3. Len(PositionsOf(recs)) = Len(q)
    BY <2>1, <2>2
  <2> QED BY <1>1, <1>2, <2>2, <2>3
<1>6. CASE ~OnlyValue(recs) /\ ~ValueFirst(recs)
  <2>1. PositionsOf(recs) = [i \in 1..n |-> recs[i].position]
    BY <1>6 DEF PositionsOf
  <2>2. Len(PositionsOf(recs)) = n
    BY <1>1, <2>1
  <2> QED BY <1>1, <1>2, <2>2
<1> QED BY <1>4, <1>5, <1>6

\* A posting takes 17 bytes at most for each of its records.
LEMMA PostingIsShort ==
    ASSUME NEW recs, NarrowPosting(recs), NEW sid \in Nat
    PROVE  /\ Len(Posting(sid, recs)) \in Nat
           /\ Len(Posting(sid, recs)) <= 17 * Len(recs)
<1> DEFINE ps == PositionsOf(recs)
           a  == U16(IdShift * sid + EncodePosting(recs).flags)
           b  == EncodePosting(recs).payload
           n  == Len(recs)
<1>1. b \in Seq(Nat) /\ Len(b) \in Nat
  BY PayloadFacts
<1>2. n \in Nat /\ 1 <= n /\ Len(ps) \in Nat /\ Len(ps) <= n
  BY FewPositions DEF NarrowPosting
<1>3. recs[1].value \in Nat /\ recs[1].position \in Nat
  <2>1. 1 \in 1..n
    BY <1>2
  <2> QED BY <2>1 DEF NarrowPosting, RecordsAscend
<1>4. Len(b) <= 5 * n + 10
  <2>1. CASE OnlyValue(recs)
    <3> DEFINE v == recs[1].value
    <3>1. b = EncodeSingleValue(v).payload
      BY <2>1 DEF EncodePosting
    <3> HIDE DEF v, b
    <3>2. Len(U16(v)) = 2 /\ Len(U32(v)) = 4 /\ Len(<<v>>) = 1 /\ Len(<< >>) = 0
      BY DEF U16, U32
    <3>4. EncodeSingleValue(v).payload \in {<< >>, <<v>>, U16(v), U32(v)}
      BY DEF EncodeSingleValue
    <3>3. Len(EncodeSingleValue(v).payload) <= 4
      <4> DEFINE u == U16(v)
                 x == U32(v)
      <4>1. Len(u) = 2 /\ Len(x) = 4
        BY <3>2
      <4> HIDE DEF u, x
      <4>2. \/ EncodeSingleValue(v).payload = << >>
            \/ EncodeSingleValue(v).payload = <<v>>
            \/ EncodeSingleValue(v).payload = u
            \/ EncodeSingleValue(v).payload = x
        BY <3>4 DEF u, x
      <4> DEFINE y == EncodeSingleValue(v).payload
      <4>3. \/ Len(y) = 0 \/ Len(y) = 1 \/ Len(y) = 2 \/ Len(y) = 4
        BY <3>2, <4>1, <4>2
      <4> HIDE DEF y
      <4>4. Len(y) <= 4
        BY <4>3
      <4> QED BY <4>4 DEF y
    <3> HIDE DEF n
    <3> QED BY <1>1, <1>2, <3>1, <3>3
  <2>2. CASE ~OnlyValue(recs)
    <3> DEFINE pv   == PostingValue(recs)
               sz   == PostingSize(ps)
               body == EncodeTermPositions(ps)
    <3>1. b = pv \o sz \o body
      BY <2>2, PostingParts
    <3>2. ps \in Seq(Nat)
      BY <2>2 DEF NarrowPosting, Narrow
    <3>3. pv \in Seq(Nat) /\ Len(pv) <= 5
      <4> DEFINE v == recs[1].value
      <4> HIDE DEF v
      <4>0. v \in Nat
        BY <1>3 DEF v
      <4>1. EncodePositionValue(v) \in Seq(Nat)
        BY <4>0, ValueBytes
      <4>2. Len(EncodePositionValue(v)) <= 5
        <5>1. /\ <<v>> \in Seq(Nat) /\ Len(<<v>>) = 1
              /\ <<254>> \in Seq(Nat) /\ Len(<<254>>) = 1
              /\ <<255>> \in Seq(Nat) /\ Len(<<255>>) = 1
          BY <4>0
        <5>2. U16(v) \in Seq(Nat) /\ U32(v) \in Seq(Nat)
          BY <4>0, MachineIntegers
        <5>3. Len(U16(v)) = 2 /\ Len(U32(v)) = 4
          BY DEF U16, U32
        <5>4. /\ Len(<<254>> \o U16(v)) = Len(<<254>>) + Len(U16(v))
              /\ Len(<<255>> \o U32(v)) = Len(<<255>>) + Len(U32(v))
          BY <5>1, <5>2, ConcatFacts
        <5>5. Len(<<254>> \o U16(v)) = 3 /\ Len(<<255>> \o U32(v)) = 5
          BY <5>1, <5>3, <5>4
        <5> QED BY <5>1, <5>5 DEF EncodePositionValue, POS_VALUE_2BYTE, POS_VALUE_4BYTE
      <4>3. pv = IF ValueFirst(recs) THEN EncodePositionValue(v) ELSE <<>>
        BY DEF PostingValue, v
      <4> HIDE DEF pv
      <4> QED BY <4>1, <4>2, <4>3
    <3>4. sz \in Seq(Nat) /\ Len(sz) <= 5
      <4> DEFINE s == Len(body) - 1
      <4>1. s \in Int
        BY <3>2, PositionsLength
      <4>2. sz = IF s < 3 THEN <<>> ELSE EncodeHighBit(s)
        BY DEF PostingSize
      <4> HIDE DEF s, sz
      <4>3. EncodeHighBit(s) \in Seq(Nat) /\ Len(EncodeHighBit(s)) \in 1..5
        BY <4>1, HighBitBytes
      <4>4. CASE s < 3
        <5>1. sz = <<>>
          BY <4>2, <4>4
        <5> QED BY <5>1
      <4>5. CASE ~(s < 3)
        <5>1. sz = EncodeHighBit(s)
          BY <4>2, <4>5
        <5> DEFINE l == Len(EncodeHighBit(s))
        <5>2. l \in 1..5
          BY <4>3
        <5>3. l <= 5
          <6> HIDE DEF l
          <6> QED BY <5>2
        <5> QED BY <4>3, <5>1, <5>3
      <4> QED BY <4>4, <4>5
    <3>5. body \in Seq(Nat) /\ Len(body) \in Nat /\ Len(body) <= 5 * Len(ps)
      BY <3>2, PositionsLength, PositionsAreShort
    <3> HIDE DEF pv, sz, body, b, ps, n
    <3>6. pv \o sz \in Seq(Nat) /\ Len(pv \o sz) = Len(pv) + Len(sz)
          /\ Len(pv) \in Nat /\ Len(sz) \in Nat
      BY <3>3, <3>4, ConcatFacts
    <3> DEFINE head == pv \o sz
    <3> HIDE DEF head
    <3>7. head \in Seq(Nat) /\ Len(head) = Len(pv) + Len(sz) /\ b = head \o body
      BY <3>1, <3>6 DEF head
    <3>8. Len(b) = Len(head) + Len(body)
      BY <3>5, <3>7, ConcatFacts
    <3> QED BY <1>2, <3>3, <3>4, <3>5, <3>6, <3>7, <3>8
  <2> QED BY <2>1, <2>2
<1>5. a \in Seq(Nat) /\ Len(a) = 2
  <2> DEFINE v == IdShift * sid + EncodePosting(recs).flags
             f == EncodePosting(recs).flags
  <2>1. f \in 0..63
    BY PayloadFacts
  <2> HIDE DEF f
  <2>2. IdShift * sid + f \in Int
    BY <2>1 DEF IdShift
  <2>3. v \in Int
    BY <2>2 DEF f
  <2> HIDE DEF v
  <2>4. U16(v) \in Seq(Nat)
    BY <2>3, MachineIntegers
  <2>5. Len(U16(v)) = 2
    BY DEF U16
  <2> QED BY <2>4, <2>5 DEF v
<1>6. Posting(sid, recs) = a \o b
  BY DEF Posting
<1> HIDE DEF a, b, n, ps
<1>7. Len(a \o b) = Len(a) + Len(b)
  BY <1>1, <1>5, ConcatFacts
<1>8. Len(a \o b) \in Nat /\ Len(a \o b) <= 17 * n
  BY <1>1, <1>2, <1>4, <1>5, <1>7
<1> QED BY <1>6, <1>8 DEF n

\* A term takes 29 bytes at most for each of its records: its postings share
\* the records out, its small groups the postings, its high level groups those.
LEMMA TermIsShort ==
    ASSUME NEW R \in SUBSET PostingRecord, Reduced(R), Encodable(R)
    PROVE  Len(CompressGroups(R)) \in Nat /\ Len(CompressGroups(R)) <= 29 * Cardinality(R)
<1> DEFINE own == [r \in R |-> r.id]
           mid == [r \in R |-> GroupOf(r.id)]
           top == [r \in R |-> HighBase(GroupOf(r.id))]
<1>1. IdsInRange(R) /\ \A id \in IdsOf(R) : NarrowPosting(RecordsOf(R, id)) /\ id \in Nat
  BY DEF Encodable, IdsInRange
<1>2. IsFiniteSet(R) /\ \A x : /\ IsFiniteSet(Owned(R, own, x))
                               /\ IsFiniteSet(Owned(R, mid, x)) /\ IsFiniteSet(Owned(R, top, x))
  <2>1. IsFiniteSet(R)
    BY DEF Reduced
  <2>2. \A f, x : Owned(R, f, x) \in SUBSET R
    BY DEF Owned
  <2>3. \A f, x : IsFiniteSet(Owned(R, f, x))
    BY <2>1, <2>2, FS_Subset
  <2> QED BY <2>1, <2>3
<1>3. \A r \in R : /\ own[r] = r.id /\ r.id \in IdsOf(R)
                   /\ mid[r] = GroupOf(r.id) /\ mid[r] \in GroupsOf(R)
                   /\ top[r] = HighBase(mid[r]) /\ top[r] \in HighsOf(R)
  BY DEF IdsOf, GroupsOf, HighsOf
<1> HIDE DEF own, mid, top
<1>4. ASSUME NEW id \in IdsOf(R)
      PROVE  Len(PostingPiece(R)[id]) <= 17 * Cardinality(Owned(R, own, id))
  <2> DEFINE recs == RecordsOf(R, id)
             n    == Cardinality(Owned(R, own, id))
  <2>1. RecordsAt(R, id) = Owned(R, own, id)
    BY <1>3 DEF RecordsAt, Owned
  <2>2. Len(recs) <= n
    BY <2>1, RecordsInOrder
  <2>3. id % SmallSpan \in Nat
    BY <1>1 DEF SmallSpan
  <2>4. PostingPiece(R)[id] = Posting(id % SmallSpan, recs)
    BY DEF PostingPiece
  <2>5. NarrowPosting(recs)
    BY <1>1
  <2>6. /\ Len(PostingPiece(R)[id]) \in Nat
        /\ Len(PostingPiece(R)[id]) <= 17 * Len(recs)
    <3> HIDE DEF recs
    <3> QED BY <2>3, <2>4, <2>5, PostingIsShort
  <2>7. Len(recs) \in Nat
    <3> HIDE DEF recs
    <3> QED BY <2>5, FewPositions DEF NarrowPosting
  <2>8. n \in Nat
    BY <1>2, FS_CardinalityType
  <2> DEFINE l == Len(PostingPiece(R)[id])
             k == Len(recs)
  <2>9. l \in Nat /\ l <= 17 * k /\ k <= n /\ k \in Nat /\ n \in Nat
    BY <2>2, <2>6, <2>7, <2>8
  <2> HIDE DEF l, k, n
  <2>10. l <= 17 * n
    BY <2>9
  <2> QED BY <2>10 DEF l, n
<1>5. ASSUME NEW g \in GroupsOf(R)
      PROVE  Len(SmallPiece(R)[g]) <= 23 * Cardinality(Owned(R, mid, g))
  <2> DEFINE Q == Owned(R, mid, g)
             S == SmallIds(R, g)
             F == PostingPiece(R)
  <2>1. Pieces(S, F) /\ IsFiniteSet(Q)
    BY <1>2, TermPieces
  <2>2. \A r \in Q : own[r] \in S
    BY <1>3 DEF Owned, SmallIds
  <2>3. ASSUME NEW id \in S PROVE Len(F[id]) <= 17 * Cardinality(Owned(Q, own, id))
    <3>1. id \in IdsOf(R) /\ GroupOf(id) = g
      BY DEF SmallIds
    <3>2. Owned(Q, own, id) = Owned(R, own, id)
      BY <1>3, <3>1 DEF Owned
    <3> HIDE DEF Q, F
    <3>3. Len(PostingPiece(R)[id]) <= 17 * Cardinality(Owned(R, own, id))
      BY <1>4, <3>1
    <3> QED BY <3>2, <3>3 DEF F
  <2>4. Len(SmallBody(R, g)) \in Nat /\ Len(SmallBody(R, g)) <= 17 * Cardinality(Q)
    <3> HIDE DEF S, F, Q
    <3>1. Len(Joined(S, F)) \in Nat /\ Len(Joined(S, F)) <= 17 * Cardinality(Q)
      BY <2>1, <2>2, <2>3, JoinedIsShort
    <3> QED BY <3>1 DEF SmallBody, S, F
  <2>5. Q # {}
    <3>1. PICK id \in IdsOf(R) : g = GroupOf(id)
      BY DEF GroupsOf
    <3>2. PICK r \in R : r.id = id
      BY DEF IdsOf
    <3> QED BY <1>3, <3>1, <3>2 DEF Owned
  <2> DEFINE b == SmallBody(R, g)
             l == Len(EncodeGroup(MidOf(g), b))
  <2>6. l \in Nat /\ l <= Len(b) + 6
    <3>1. MidOf(g) \in Byte /\ b \in Seq(Nat)
      BY <1>1, GroupFacts, TermPieces
    <3> HIDE DEF b
    <3> QED BY <3>1, GroupIsShort
  <2>7. SmallPiece(R)[g] = EncodeGroup(MidOf(g), b)
    BY DEF SmallPiece
  <2>8. Cardinality(Q) \in Nat /\ Cardinality(Q) # 0
    <3> HIDE DEF Q
    <3> QED BY <2>1, <2>5, FS_CardinalityType, FS_EmptySet
  <2> DEFINE n == Cardinality(Q)
             m == Len(b)
  <2>9. l \in Nat /\ l <= m + 6 /\ m \in Nat /\ m <= 17 * n /\ n \in Nat /\ n # 0
    BY <2>4, <2>6, <2>8
  <2> HIDE DEF l, m, n
  <2>10. l <= 23 * n
    BY <2>9
  <2> QED BY <2>7, <2>10 DEF l, n
<1>6. ASSUME NEW h \in HighsOf(R)
      PROVE  Len(HighPiece(R)[h]) <= 29 * Cardinality(Owned(R, top, h))
  <2> DEFINE Q == Owned(R, top, h)
             S == GroupsIn(R, h)
             F == SmallPiece(R)
  <2>1. Pieces(S, F) /\ IsFiniteSet(Q)
    BY <1>2, TermPieces
  <2>2. \A r \in Q : mid[r] \in S
    BY <1>3 DEF Owned, GroupsIn
  <2>3. ASSUME NEW g \in S PROVE Len(F[g]) <= 23 * Cardinality(Owned(Q, mid, g))
    <3>1. g \in GroupsOf(R) /\ HighBase(g) = h
      BY DEF GroupsIn
    <3>2. Owned(Q, mid, g) = Owned(R, mid, g)
      BY <1>3, <3>1 DEF Owned
    <3> HIDE DEF Q, F
    <3>3. Len(SmallPiece(R)[g]) <= 23 * Cardinality(Owned(R, mid, g))
      BY <1>5, <3>1
    <3> QED BY <3>2, <3>3 DEF F
  <2>4. Len(HighBody(R, h)) \in Nat /\ Len(HighBody(R, h)) <= 23 * Cardinality(Q)
    <3> HIDE DEF S, F, Q
    <3>1. Len(Joined(S, F)) \in Nat /\ Len(Joined(S, F)) <= 23 * Cardinality(Q)
      BY <2>1, <2>2, <2>3, JoinedIsShort
    <3> QED BY <3>1 DEF HighBody, S, F
  <2>5. Q # {}
    <3>1. PICK g \in GroupsOf(R) : h = HighBase(g)
      BY DEF HighsOf
    <3>2. PICK id \in IdsOf(R) : g = GroupOf(id)
      BY DEF GroupsOf
    <3>3. PICK r \in R : r.id = id
      BY DEF IdsOf
    <3> QED BY <1>3, <3>1, <3>2, <3>3 DEF Owned
  <2> DEFINE b == HighBody(R, h)
             l == Len(EncodeGroup(HighOf(h), b))
  <2>6. l \in Nat /\ l <= Len(b) + 6
    <3>1. HighOf(h) \in Byte /\ b \in Seq(Nat)
      BY <1>1, GroupFacts, TermPieces
    <3> HIDE DEF b
    <3> QED BY <3>1, GroupIsShort
  <2>7. HighPiece(R)[h] = EncodeGroup(HighOf(h), b)
    BY DEF HighPiece
  <2>8. Cardinality(Q) \in Nat /\ Cardinality(Q) # 0
    <3> HIDE DEF Q
    <3> QED BY <2>1, <2>5, FS_CardinalityType, FS_EmptySet
  <2> DEFINE n == Cardinality(Q)
             m == Len(b)
  <2>9. l \in Nat /\ l <= m + 6 /\ m \in Nat /\ m <= 23 * n /\ n \in Nat /\ n # 0
    BY <2>4, <2>6, <2>8
  <2> HIDE DEF l, m, n
  <2>10. l <= 29 * n
    BY <2>9
  <2> QED BY <2>7, <2>10 DEF l, n
<1>7. Pieces(HighsOf(R), HighPiece(R)) /\ \A r \in R : top[r] \in HighsOf(R)
  BY <1>3, TermPieces
<1>8. /\ Len(Joined(HighsOf(R), HighPiece(R))) \in Nat
      /\ Len(Joined(HighsOf(R), HighPiece(R))) <= 29 * Cardinality(R)
  <2> DEFINE S == HighsOf(R)
             F == HighPiece(R)
  <2>1. \A h \in S : Len(F[h]) <= 29 * Cardinality(Owned(R, top, h))
    BY <1>6
  <2> HIDE DEF S, F
  <2>2. Len(Joined(S, F)) \in Nat /\ Len(Joined(S, F)) <= 29 * Cardinality(R)
    BY <1>2, <1>7, <2>1, JoinedIsShort DEF S, F
  <2> QED BY <2>2 DEF S, F
<1> QED BY <1>1, <1>8, GroupsJoined

\* A term with not too many records, of numbers that fit, fits.
LEMMA ShortTermFits ==
    ASSUME NEW R \in SUBSET PostingRecord, Reduced(R),
           \A r \in R : Below28(r.position), Cardinality(R) <= MaxRecords
    PROVE  /\ InWidths(R) /\ Len(CompressGroups(R)) \in Nat
           /\ Len(CompressGroups(R)) <= 29 * Cardinality(R)
           /\ MaxPositions(R) \in Nat /\ MaxPositions(R) <= Cardinality(R)
<1> DEFINE n == Cardinality(R)
<1>1. n \in Nat /\ n <= 53687091
  <2>1. IsFiniteSet(R)
    BY DEF Reduced
  <2> QED BY SMT, <2>1, FS_CardinalityType DEF MaxRecords
<1>2. ASSUME NEW id \in IdsOf(R)
      PROVE  LET ps == PositionsOf(RecordsOf(R, id))
             IN  /\ ps \in Seq(Nat) /\ Len(ps) \in Nat /\ Len(ps) <= n
                 /\ \A i \in 1..Len(ps) : Below28(ps[i])
  <2> DEFINE recs == RecordsOf(R, id)
             ps   == PositionsOf(recs)
  <2>1. OneRecordEach(recs) /\ Len(recs) <= Cardinality(RecordsAt(R, id))
    BY RecordsInOrder
  <2>2. /\ ps \in Seq(Nat)
        /\ \A i \in 1..Len(ps) : \E r \in R : r.id = id /\ r.position = ps[i]
    BY PositionsRecorded
  <2>3. Len(ps) \in Nat /\ Len(ps) <= Len(recs) /\ Len(recs) \in Nat
    <3> HIDE DEF recs
    <3> QED BY <2>1, FewPositions DEF OneRecordEach
  <2>4. Cardinality(RecordsAt(R, id)) \in Nat /\ Cardinality(RecordsAt(R, id)) <= n
    <3>1. RecordsAt(R, id) \in SUBSET R /\ IsFiniteSet(R)
      BY DEF RecordsAt, Reduced
    <3>2. IsFiniteSet(RecordsAt(R, id)) /\ Cardinality(RecordsAt(R, id)) <= n
      BY <3>1, FS_Subset
    <3> QED BY <3>2, FS_CardinalityType
  <2> HIDE DEF n, recs, ps
  <2>5. Len(ps) <= n
    BY SMT, <1>1, <2>1, <2>3, <2>4
  <2>6. \A i \in 1..Len(ps) : Below28(ps[i])
    BY <2>2
  <2> QED BY <2>2, <2>3, <2>5, <2>6 DEF ps, recs
<1> HIDE DEF n
<1>3. ASSUME NEW id \in IdsOf(R) PROVE NearPositions(PositionsOf(RecordsOf(R, id)))
  <2> DEFINE ps == PositionsOf(RecordsOf(R, id))
  <2>1. /\ ps \in Seq(Nat) /\ Len(ps) \in Nat /\ Len(ps) <= n
        /\ \A i \in 1..Len(ps) : Below28(ps[i])
    BY <1>2
  <2> HIDE DEF ps
  <2>2. ASSUME NEW i \in 1..Len(ps)
        PROVE  ps[i] - (IF i = 1 THEN FirstBase(ps[1]) ELSE ps[i - 1]) < 268435456
    <3>1. ps[i] \in Nat /\ ps[1] \in Nat /\ (i # 1 => ps[i - 1] \in Nat)
      BY SMT, <2>1
    <3> DEFINE f == ps[1]
    <3>2. FirstBase(f) \in Nat
      <4>1. f \in Nat
        BY <3>1
      <4> HIDE DEF f
      <4> QED BY <4>1, FirstBaseFacts
    <3> DEFINE b == IF i = 1 THEN FirstBase(ps[1]) ELSE ps[i - 1]
    <3>3. b \in Nat
      BY SMT, <3>1, <3>2
    <3>4. ps[i] < 268435456
      BY SMT, <2>1 DEF Below28
    <3> HIDE DEF b, f
    <3>5. ps[i] - b < 268435456
      BY SMT, <3>1, <3>3, <3>4
    <3> QED BY SMT, <3>5 DEF b
  <2>3. Len(EncodeTermPositions(ps)) < 268435456
    <3> DEFINE l == Len(EncodeTermPositions(ps))
               k == Len(ps)
    <3>1. l \in Nat /\ l <= 5 * k /\ k \in Nat /\ k <= n
      BY <2>1, PositionsLength, PositionsAreShort
    <3> HIDE DEF l, k
    <3>2. l < 268435456
      BY SMT, <1>1, <3>1
    <3> QED BY SMT, <3>2 DEF l
  <2> QED BY SMT, <2>2, <2>3 DEF NearPositions, ps
<1>4. Encodable(R)
  BY <1>3, ReducedIsEncodable
<1>5. Len(CompressGroups(R)) \in Nat /\ Len(CompressGroups(R)) <= 29 * n
  BY <1>4, TermIsShort DEF n
<1>6. Fits32(Len(CompressGroups(R)) + HeaderSize)
  <2> DEFINE v == Len(CompressGroups(R)) + HeaderSize
             l == Len(CompressGroups(R))
  <2>1. l \in Nat /\ l <= 29 * n /\ v = l + 8
    BY SMT, <1>5 DEF HeaderSize
  <2> HIDE DEF v, l
  <2>2. v \in Nat /\ v < 4294967296
    BY SMT, <1>1, <2>1
  <2>3. v \div 65536 < 65536
    BY SMT, <2>2
  <2> QED BY SMT, <2>3 DEF Fits32, v
<1>7. InWidths(R)
  BY SMT, <1>3, <1>6 DEF InWidths, Reduced
<1>8. MaxPositions(R) \in Nat /\ MaxPositions(R) <= n
  <2>1. \A id \in IdsOf(R) : /\ Len(PositionsOf(RecordsOf(R, id))) \in Nat
                             /\ Len(PositionsOf(RecordsOf(R, id))) <= n
    BY <1>2
  <2>2. IsFiniteSet(IdsOf(R))
    BY <1>4 DEF Encodable, IdsInRange
  <2> QED BY <1>1, <2>1, <2>2, MostPositions
<1> QED BY SMT, <1>5, <1>7, <1>8 DEF n

\* The upper bytes of a small number of 32 bits are empty.
LEMMA SmallWord ==
    ASSUME NEW v \in Nat, v < 256
    PROVE  U32(v) \in Seq(Nat) /\ Len(U32(v)) = 4 /\ U32(v)[2] = 0 /\ U32(v)[4] = 0
<1>1. U32(v) \in Seq(Nat) /\ Len(U32(v)) = 4
  BY MachineIntegers
<1>2. (v \div 256) % 256 = 0 /\ (v \div 16777216) % 256 = 0
  <2>1. v \div 256 = 0 /\ v \div 16777216 = 0
    BY SMT
  <2> QED BY SMT, <2>1
<1> QED BY <1>1, <1>2 DEF U32

\* A block that is short begins with empty bytes at these places.
LEMMA ShortBlockIsEmpty ==
    ASSUME NEW R, Encodable(R), Len(CompressGroups(R)) + HeaderSize < 256,
           MaxPositions(R) \in Nat, MaxPositions(R) < 256
    PROVE  /\ Len(TermBlock(R)) \in Nat /\ 8 <= Len(TermBlock(R))
           /\ \A i \in {1, 3, 5, 7} : TermBlock(R)[i + 1] = 0
<1> DEFINE body == CompressGroups(R)
           a == U32(Len(body) + HeaderSize)
           b == U32(MaxPositions(R))
           c == U32(DocumentFrequency(R))
<1>1. body \in Seq(Nat) /\ Len(body) \in Nat
  BY GroupsAreBytes
<1>2. a \in Seq(Nat) /\ Len(a) = 4 /\ a[2] = 0 /\ a[4] = 0
  <2>1. Len(body) + HeaderSize \in Nat
    BY <1>1 DEF HeaderSize
  <2> QED BY <2>1, SmallWord
<1>3. b \in Seq(Nat) /\ Len(b) = 4 /\ b[2] = 0 /\ b[4] = 0
  BY SmallWord
<1>4. c \in Seq(Nat)
  <2>1. DocumentFrequency(R) \in Nat
    BY FS_CardinalityType DEF DocumentFrequency, Encodable, IdsInRange
  <2> QED BY <2>1, MachineIntegers
<1>5. TermBlock(R) = a \o b \o c \o body
  BY DEF TermBlock
<1> HIDE DEF a, b, c, body
<1> DEFINE x == a \o b
           y == x \o c
           z == y \o body
<1>6. /\ x \in Seq(Nat) /\ Len(x) = 8
      /\ x[2] = 0 /\ x[4] = 0 /\ x[6] = 0 /\ x[8] = 0
  <2>1. /\ x \in Seq(Nat) /\ Len(x) = Len(a) + Len(b)
        /\ \A i \in 1..Len(a) : x[i] = a[i]
        /\ \A j \in 1..Len(b) : x[Len(a) + j] = b[j]
    <3>1. a \in Seq(Nat) /\ b \in Seq(Nat)
      BY <1>2, <1>3
    <3> QED BY <3>1, ConcatFacts
  <2> HIDE DEF x
  <2>2. x[2] = a[2] /\ x[4] = a[4] /\ x[4 + 2] = b[2] /\ x[4 + 4] = b[4]
    BY <1>2, <1>3, <2>1
  <2> QED BY <1>2, <1>3, <2>1, <2>2
<1> HIDE DEF x
<1>7. y \in Seq(Nat) /\ Len(y) \in Nat /\ 8 <= Len(y) /\ \A i \in 1..8 : y[i] = x[i]
  <2>1. /\ y \in Seq(Nat) /\ Len(y) = Len(x) + Len(c) /\ Len(c) \in Nat
        /\ \A i \in 1..Len(x) : y[i] = x[i]
    BY <1>4, <1>6, ConcatFacts
  <2> HIDE DEF y
  <2> QED BY <1>6, <2>1
<1> HIDE DEF y
<1>8. Len(z) \in Nat /\ 8 <= Len(z) /\ \A i \in 1..8 : z[i] = x[i]
  <2>1. /\ Len(z) = Len(y) + Len(body) /\ Len(body) \in Nat
        /\ \A i \in 1..Len(y) : z[i] = y[i]
    BY <1>1, <1>7, ConcatFacts
  <2> HIDE DEF z
  <2>2. Len(z) \in Nat /\ Len(y) <= Len(z)
    BY <1>7, <2>1
  <2>3. \A i \in 1..8 : i \in 1..Len(y)
    BY <1>7
  <2>4. \A i \in 1..8 : z[i] = x[i]
    BY <1>7, <2>1, <2>3
  <2> QED BY <1>7, <2>2, <2>4
<1>9. TermBlock(R) = z
  BY <1>5 DEF y, x
<1> HIDE DEF z
<1> QED BY <1>6, <1>8, <1>9

\* Behind a block are the first bytes of the next one, or the zeros behind
\* the file.
LEMMA BytesBehind ==
    ASSUME NEW ix, Len(ix) \in Nat, ix = [k \in 1..Len(ix) |-> ix[k]],
           \A k \in 1..Len(ix) : TermBlock(ix[k]) \in Seq(Nat),
           \A k \in 2..Len(ix) : /\ 8 <= Len(TermBlock(ix[k]))
                                 /\ \A i \in {1, 3, 5, 7} : TermBlock(ix[k])[i + 1] = 0
    PROVE  EmptyBehind(ix, Zeros)
<1> DEFINE w == TermFile(ix)
           m == w \o Zeros
           h(k) == HeaderAt(ix, k) - 4
           b(k) == TermBlock(ix[k])
<1>1. Zeros \in Seq(Nat) /\ Len(Zeros) = 8 /\ \A i \in 1..8 : Zeros[i] = 0
  BY DEF Zeros
<1>2. /\ m \in Seq(Nat)
      /\ \A k \in 1..Len(ix) : h(k) \in Nat /\ StoredAt(m, h(k), b(k))
      /\ \A k \in 1..Len(ix) :
            h(k) + Len(b(k)) = IF k = Len(ix) THEN Len(w) + 1 ELSE HeaderAt(ix, k + 1) - 4
  <2>1. /\ Len(ix) \in Nat /\ ix = [k \in 1..Len(ix) |-> ix[k]] /\ Zeros \in Seq(Nat)
        /\ \A k \in 1..Len(ix) : TermBlock(ix[k]) \in Seq(Nat)
    BY <1>1
  <2>2. TermFile(ix) \o Zeros \in Seq(Nat)
    BY ONLY <2>1, FileBlocks
  <2>3. \A k \in 1..Len(ix) :
           /\ HeaderAt(ix, k) - 4 \in Nat
           /\ StoredAt(TermFile(ix) \o Zeros, HeaderAt(ix, k) - 4, TermBlock(ix[k]))
           /\ HeaderAt(ix, k) - 4 + Len(TermBlock(ix[k]))
                = IF k = Len(ix) THEN Len(TermFile(ix)) + 1 ELSE HeaderAt(ix, k + 1) - 4
    BY ONLY <2>1, FileBlocks
  <2> QED BY <2>2, <2>3
<1>3. w \in Seq(Nat)
  <2>1. /\ Len(ix) \in Nat /\ ix = [k \in 1..Len(ix) |-> ix[k]] /\ Zeros \in Seq(Nat)
        /\ \A k \in 1..Len(ix) : TermBlock(ix[k]) \in Seq(Nat)
    BY <1>1
  <2> QED BY ONLY <2>1, FileBlocks
<1>4. ASSUME NEW k \in 1..Len(ix), NEW i \in {1, 3, 5, 7}
      PROVE  At(m, h(k) + Len(b(k)) + i) = 0
  <2>1. CASE k = Len(ix)
    <3>1. h(k) + Len(b(k)) = Len(w) + 1
      BY <1>2, <2>1
    <3>2. /\ Len(m) = Len(w) + 8 /\ Len(w) \in Nat
          /\ \A j \in 1..8 : m[Len(w) + j] = 0
      <4>1. /\ Len(m) = Len(w) + Len(Zeros) /\ Len(w) \in Nat
            /\ \A j \in 1..Len(Zeros) : m[Len(w) + j] = Zeros[j]
        <5> DEFINE z == Zeros
        <5>1. z \in Seq(Nat)
          BY <1>1
        <5> HIDE DEF w, z
        <5>2. /\ Len(w \o z) = Len(w) + Len(z) /\ Len(w) \in Nat
              /\ \A j \in 1..Len(z) : (w \o z)[Len(w) + j] = z[j]
          BY ONLY <5>1, <1>3, ConcatFacts
        <5> QED BY <5>2 DEF z
      <4> HIDE DEF m, w
      <4> QED BY <1>1, <4>1
    <3> HIDE DEF m, w, h, b
    <3>3. Len(w) + 1 + i = Len(w) + (i + 1) /\ i + 1 \in 1..8
      BY <3>2
    <3>4. m[Len(w) + 1 + i] = 0
      BY <3>2, <3>3
    <3>5. At(m, Len(w) + 1 + i) = 0
      BY <3>4 DEF At
    <3> QED BY <3>1, <3>5
  <2>2. CASE k # Len(ix)
    <3> DEFINE n == k + 1
    <3>1. n \in 1..Len(ix) /\ n \in 2..Len(ix)
      BY <2>2
    <3>2. h(k) + Len(b(k)) = h(n)
      BY <1>2, <2>2
    <3>3. h(n) \in Nat /\ StoredAt(m, h(n), b(n))
      BY <1>2, <3>1
    <3>4. 8 <= Len(b(n)) /\ b(n)[i + 1] = 0 /\ Len(b(n)) \in Nat
      BY <3>1
    <3> HIDE DEF m, h, b, n
    <3>5. i + 1 \in 1..Len(b(n)) /\ h(n) + (i + 1) - 1 = h(n) + i
      BY <3>3, <3>4
    <3>6. At(m, h(n) + (i + 1) - 1) = b(n)[i + 1]
      BY <3>3, <3>5 DEF StoredAt
    <3> QED BY <3>2, <3>4, <3>5, <3>6
  <2> QED BY <2>1, <2>2
<1> QED BY <1>4 DEF EmptyBehind

\* What the index holds of terms, when clients pass numbers that fit.
LEMMA WrittenLists ==
    ASSUME NarrowInput, TypeOK, TotalsInv, WrittenInv, ~Building,
           NEW ix, ix = files.postings
    PROVE  /\ Len(ix) \in Nat /\ ix = [k \in 1..Len(ix) |-> ix[k]]
           /\ \A k \in 1..Len(ix) :
                 /\ ix[k] \in SUBSET PostingRecord /\ Reduced(ix[k])
                 /\ \A r \in ix[k] : Below28(r.position)
                 /\ Cardinality(ix[k]) <= Cardinality(term_data)
                 /\ InWidths(ix[k]) => ReadableTerm(ix[k])
<1>1. PICK docs \in KeptGlobals(global_data), recs \in KeptTerms(term_data) :
         files = Written(docs, recs, total_documents, total_terms, max_id)
  BY DEF WrittenInv
<1>2. TermsOf(files, recs)
  BY <1>1, WrittenTerms
<1>3. /\ Len(ix) \in Nat /\ ix = [k \in 1..Len(ix) |-> ix[k]]
      /\ \A k \in 1..Len(ix) : /\ files.term_idx[k].key \in Keys
                               /\ ix[k] = TermRecords(recs, files.term_idx[k].key)
                               /\ Used(files.term_idx[k].key)
  BY <1>2 DEF TermsOf, Used
<1>4. ASSUME NEW k \in 1..Len(ix)
      PROVE  /\ ix[k] \in SUBSET PostingRecord /\ Reduced(ix[k])
             /\ \A r \in ix[k] : Below28(r.position)
             /\ Cardinality(ix[k]) <= Cardinality(term_data)
             /\ InWidths(ix[k]) => ReadableTerm(ix[k])
  <2> DEFINE y == files.term_idx[k].key
             R == ix[k]
  <2>1. y \in Keys /\ R = TermRecords(recs, y) /\ Used(y)
    BY <1>3
  <2> HIDE DEF y, R
  <2>2. /\ R \in SUBSET PostingRecord
        /\ InWidths(R) => ReadableTerm(R)
        /\ (\A x \in R : Fits32(x.value)) => Reduced(R)
        /\ Cardinality(R) <= Cardinality(term_data)
        /\ \A x \in R : \E r \in term_data : r.position = x.position /\ r.value = x.value
    BY <2>1, TermRecordsFacts
  <2>3. ASSUME NEW x \in R PROVE Fits32(x.value) /\ Below28(x.position)
    <3>1. PICK r \in term_data : r.position = x.position /\ r.value = x.value
      BY <2>2
    <3>2. r.position \in Positions \cup {0} /\ r.value \in Values \cup {0}
      BY DEF TypeOK, Record
    <3>3. Fits32(0) /\ Below28(0)
      <4>1. 0 \div 65536 = 0
        BY SMT
      <4> QED BY SMT, <4>1 DEF Fits32, Below28
    <3>4. (\A v \in Values : Fits32(v)) /\ (\A pos \in Positions : Below28(pos))
      BY SMT DEF NarrowInput, Below28
    <3> QED BY <3>1, <3>2, <3>3, <3>4
  <2> QED BY <2>2, <2>3 DEF R
<1> QED BY <1>3, <1>4

\* Lists that fit are written whole.
LEMMA ListsInWidths ==
    ASSUME NarrowInput, TypeOK, TotalsInv, WrittenInv, ListsFit
    PROVE  FilesInWidths
<1> SUFFICES ASSUME ~Building, NEW k \in 1..Len(files.postings)
             PROVE  InWidths(files.postings[k])
  BY DEF FilesInWidths
<1>1. /\ files.postings[k] \in SUBSET PostingRecord /\ Reduced(files.postings[k])
      /\ \A r \in files.postings[k] : Below28(r.position)
  BY WrittenLists
<1>2. Cardinality(files.postings[k]) <= MaxRecords
  BY DEF ListsFit
<1> HIDE DEF PostingRecord
<1> QED BY <1>1, <1>2, ShortTermFits

\* And read back, when those behind others are short.
LEMMA ListsReadable ==
    ASSUME NarrowInput, TypeOK, TotalsInv, WrittenInv, ListsFit, ShortLists
    PROVE  FilesReadable
<1>1. FilesInWidths
  BY ListsInWidths
<1> SUFFICES ASSUME ~Building PROVE EmptyBehind(files.postings, Zeros)
  BY <1>1 DEF FilesReadable
<1> DEFINE ix == files.postings
<1>2. /\ Len(ix) \in Nat /\ ix = [k \in 1..Len(ix) |-> ix[k]]
      /\ \A k \in 1..Len(ix) :
            /\ ix[k] \in SUBSET PostingRecord /\ Reduced(ix[k])
            /\ \A r \in ix[k] : Below28(r.position)
            /\ InWidths(ix[k]) => ReadableTerm(ix[k])
  BY WrittenLists
<1>3. /\ \A k \in 1..Len(ix) : InWidths(ix[k]) /\ Cardinality(ix[k]) <= MaxRecords
      /\ \A k \in 1..Len(ix) : k > 1 => Cardinality(ix[k]) <= MaxBehind
  BY <1>1 DEF FilesInWidths, ListsFit, ShortLists
<1> HIDE DEF ix
<1>4. \A k \in 1..Len(ix) : Storable(ix[k])
  BY <1>2, <1>3, ReadableIsStorable
<1>5. \A k \in 1..Len(ix) : TermBlock(ix[k]) \in Seq(Nat)
  BY <1>4, BlockBytes
<1>6. ASSUME NEW k \in 2..Len(ix)
      PROVE  /\ 8 <= Len(TermBlock(ix[k]))
             /\ \A i \in {1, 3, 5, 7} : TermBlock(ix[k])[i + 1] = 0
  <2> DEFINE R == ix[k]
  <2>1. k \in 1..Len(ix) /\ k > 1
    BY <1>2
  <2>2. /\ R \in SUBSET PostingRecord /\ Reduced(R)
        /\ \A r \in R : Below28(r.position)
        /\ Cardinality(R) <= MaxRecords /\ Cardinality(R) <= MaxBehind
        /\ Storable(R)
    BY <1>2, <1>3, <1>4, <2>1
  <2> HIDE DEF R
  <2>3. Encodable(R)
    BY <2>2 DEF Storable
  <2>4. /\ Len(CompressGroups(R)) \in Nat /\ Len(CompressGroups(R)) <= 29 * Cardinality(R)
        /\ MaxPositions(R) \in Nat /\ MaxPositions(R) <= Cardinality(R)
    BY <2>2, ShortTermFits
  <2>5. Cardinality(R) \in Nat
    BY <2>2, FS_CardinalityType DEF Reduced
  <2>6. Len(CompressGroups(R)) + HeaderSize < 256 /\ MaxPositions(R) < 256
    <3> DEFINE l == Len(CompressGroups(R))
               c == Cardinality(R)
               p == MaxPositions(R)
    <3>1. l \in Nat /\ l <= 29 * c /\ p \in Nat /\ p <= c /\ c \in Nat /\ c <= 8
      BY <2>2, <2>4, <2>5 DEF MaxBehind
    <3> HIDE DEF l, c, p
    <3>2. l + 8 < 256 /\ p < 256
      BY <3>1
    <3> QED BY <3>2 DEF l, p, HeaderSize
  <2>7. /\ 8 <= Len(TermBlock(R))
        /\ \A i \in {1, 3, 5, 7} : TermBlock(R)[i + 1] = 0
    BY <2>3, <2>4, <2>6, ShortBlockIsEmpty
  <2> QED BY <2>7 DEF R
<1>7. EmptyBehind(ix, Zeros)
  BY <1>2, <1>5, <1>6, BytesBehind
<1> QED BY <1>7 DEF ix

\* FilesReadable of clients that pass numbers that fit, as long as no term
\* has too many records, and those whose lists lie behind another have few.
THEOREM ShortListsAlwaysReadable ==
    ASSUME NarrowInput
    PROVE  IndexSpec => [](ListsFit /\ ShortLists => FilesReadable)
<1>1. BuilderInv /\ LengthsInv /\ TotalsInv /\ WrittenInv
        => (ListsFit /\ ShortLists => FilesReadable)
  BY ListsReadable DEF BuilderInv
<1> QED BY <1>1, BuilderAlways, PTL

\* A call of a client adds one record at most.
RecordsInv == Cardinality(term_data) <= terms

\* A call that adds a term adds one record at most.
LEMMA AddOneRecord ==
    ASSUME TypeOK, TotalsInv, RecordsInv, NEW key, NEW value, NEW pos, Add({key}, value, pos)
    PROVE  RecordsInv'
<1> DEFINE r == [term |-> key, id |-> current_id, position |-> pos, value |-> value]
<1>1. term_data' = term_data \cup {r} /\ terms' = terms + 1 /\ terms \in Nat
  BY BuilderAssumption DEF Add, TypeOK
<1> HIDE DEF r
<1>2. IsFiniteSet(term_data) /\ Cardinality(term_data) \in Nat
  BY FS_CardinalityType DEF TotalsInv
<1>3. Cardinality(term_data \cup {r}) <= Cardinality(term_data) + 1
  <2>1. CASE r \in term_data
    <3>1. term_data \cup {r} = term_data
      BY <2>1
    <3> QED BY <1>2, <3>1
  <2>2. CASE r \notin term_data
    <3>1. Cardinality(term_data \cup {r}) = Cardinality(term_data) + 1
      BY <1>2, <2>2, FS_AddElement
    <3> QED BY <1>2, <3>1
  <2> QED BY <2>1, <2>2
<1>4. Cardinality(term_data \cup {r}) \in Nat
  <2>1. IsFiniteSet(term_data \cup {r})
    BY <1>2, FS_AddElement
  <2> QED BY <2>1, FS_CardinalityType
<1> DEFINE a == Cardinality(term_data)
           b == Cardinality(term_data \cup {r})
<1>5. a <= terms /\ b <= a + 1 /\ a \in Nat /\ b \in Nat
  BY <1>2, <1>3, <1>4 DEF RecordsInv
<1> HIDE DEF a, b
<1>6. b <= terms + 1
  BY <1>1, <1>5
<1> QED BY <1>1, <1>6 DEF RecordsInv, b

\* Every call of a client keeps the number of records.
LEMMA NextRecords ==
    TypeOK /\ TotalsInv /\ RecordsInv /\ [Next]_vars => RecordsInv'
<1> SUFFICES ASSUME TypeOK, TotalsInv, RecordsInv, [Next]_vars PROVE RecordsInv'
  OBVIOUS
<1>1. ASSUME NEW id \in Ids, NEW c \in ContentLengths,
             NEW e \in EmbeddingCounts, Global(id, c, e)
      PROVE  RecordsInv'
  BY <1>1 DEF Global, RecordsInv
<1>2. ASSUME NEW key \in Keys PROVE Expanded(key) = {key}
  BY DEF Expanded, ValidExpansionTerm
<1>3. ASSUME NEW key \in Keys, Term(key) \/ WTerm(key)
      PROVE  RecordsInv'
  <2>1. Add({key}, 0, 0)
    BY <1>2, <1>3 DEF Term, WTerm
  <2> QED BY <2>1, AddOneRecord
<1>4. ASSUME NEW key \in Keys, NEW pos \in Positions,
             TermPosition(key, pos) \/ WTermPosition(key, pos)
      PROVE  RecordsInv'
  <2>1. Add({key}, 0, pos)
    BY <1>2, <1>4 DEF TermPosition, WTermPosition
  <2> QED BY <2>1, AddOneRecord
<1>5. ASSUME NEW key \in Keys, NEW value \in Values,
             TermValue(key, value) \/ WTermValue(key, value)
      PROVE  RecordsInv'
  <2>1. Add({key}, value, 0)
    BY <1>2, <1>5 DEF TermValue, WTermValue
  <2> QED BY <2>1, AddOneRecord
<1>6. CASE Destroy
  BY <1>6 DEF Destroy, RecordsInv
<1>7. CASE UNCHANGED vars
  BY <1>7 DEF vars, RecordsInv
<1> QED BY <1>1, <1>3, <1>4, <1>5, <1>6, <1>7 DEF Next

\* A new builder has no record.
LEMMA InitRecords == Init => RecordsInv
BY FS_EmptySet DEF Init, RecordsInv

\* No list is longer than the calls of the clients.
LEMMA ListsOfCalls ==
    ASSUME NarrowInput, TypeOK, TotalsInv, WrittenInv, RecordsInv
    PROVE  /\ MaxTerms <= MaxRecords => ListsFit
           /\ MaxTerms <= MaxBehind => ShortLists
<1> SUFFICES ASSUME ~Building, NEW k \in 1..Len(files.postings)
             PROVE  /\ MaxTerms <= MaxRecords => Cardinality(files.postings[k]) <= MaxRecords
                    /\ MaxTerms <= MaxBehind => Cardinality(files.postings[k]) <= MaxBehind
  BY DEF ListsFit, ShortLists
<1> DEFINE c == Cardinality(files.postings[k])
           d == Cardinality(term_data)
<1>1. c <= d /\ Reduced(files.postings[k])
  BY WrittenLists
<1>2. c \in Nat
  BY <1>1, FS_CardinalityType DEF Reduced
<1>3. d \in Nat /\ d <= terms /\ terms \in Nat /\ terms <= MaxTerms /\ MaxTerms \in Nat
  BY FS_CardinalityType, BuilderAssumption DEF TotalsInv, RecordsInv, TypeOK
<1> HIDE DEF c, d
<1>4. c <= MaxTerms
  BY <1>1, <1>2, <1>3
<1>5. MaxRecords \in Nat /\ MaxBehind \in Nat
  BY SMT DEF MaxRecords, MaxBehind
<1> QED BY <1>2, <1>3, <1>4, <1>5 DEF c

\* FilesInWidths, which IndexAlwaysPointsAtTerms and the readers rest on, of
\* clients that pass numbers that fit, in fewer calls than fill a list.
THEOREM FilesAlwaysInWidths ==
    ASSUME NarrowInput, MaxTerms <= MaxRecords
    PROVE  Spec => [](FilesInWidths /\ IndexPointsAtTerms)
<1>1. Init => TypeOK /\ TotalsInv /\ RecordsInv
  BY InitBuilderInv, InitTotals, InitRecords DEF BuilderInv
<1>2. BuilderInv /\ LengthsInv /\ TotalsInv /\ WrittenInv /\ RecordsInv /\ [Next]_vars
        => RecordsInv'
  BY NextRecords DEF BuilderInv
<1>3. BuilderInv /\ LengthsInv /\ TotalsInv /\ WrittenInv /\ RecordsInv
        => FilesInWidths /\ IndexPointsAtTerms
  BY ListsOfCalls, ListsInWidths, IndexFromTerms DEF BuilderInv
<1> QED BY <1>1, <1>2, <1>3, TotalsAlways, PTL DEF Spec

\* FilesReadable of clients that pass numbers that fit, in few calls: readers
\* get what clients gave then, whatever the ids, keys, positions and values.
THEOREM FewCallsAlwaysReadable ==
    ASSUME NarrowInput, MaxTerms <= MaxBehind
    PROVE  IndexSpec => [](FilesReadable /\ QueryIsExact /\ HitIsAsAdded)
<1>1. IndexInit => RecordsInv
  BY InitRecords DEF IndexInit
<1>2. BuilderInv /\ LengthsInv /\ TotalsInv /\ WrittenInv /\ RecordsInv
        /\ [IndexNext]_indexVars => RecordsInv'
  BY ReadersKeepBuilder, NextRecords DEF BuilderInv
<1>3. BuilderInv /\ LengthsInv /\ TotalsInv /\ WrittenInv /\ RecordsInv => FilesReadable
  <2>1. MaxTerms <= MaxRecords
    BY BuilderAssumption, SMT DEF MaxRecords, MaxBehind
  <2> QED BY <2>1, ListsOfCalls, ListsReadable DEF BuilderInv
<1>4. IndexSpec => []FilesReadable
  BY <1>1, <1>2, <1>3, BuilderAlways, PTL DEF IndexSpec
<1> QED BY <1>4, QueryIsAlwaysExact, HitIsAlwaysAsAdded, PTL
=============================================================================
