---------------------------- MODULE TermSetProofs ----------------------------
(***************************************************************************)
(* The buffers of term sets, for all queries and documents and every order *)
(* of passing, combining, copying, preparing and matching.                 *)
(*                                                                         *)
(* A match decodes into a buffer that was allocated by the sizes some      *)
(* passes had collected before, perhaps passes of other sets.  What holds  *)
(* in every state is that a set has terms large enough for each document   *)
(* it was passed over (SetPassed) and that the buffers it uses have room   *)
(* for each document they were sized by (SetReady); a buffer then never    *)
(* gets more positions than that.                                          *)
(*                                                                         *)
(* The second half is the refinement of TermMatch: what a merge finds in   *)
(* the bytes of a document is what its records say, and each call does to  *)
(* what a client sees of the sets what the action of TermMatch does.       *)
(***************************************************************************)
EXTENDS TermSet, DocumentBuilderProofs

Buffer    == [capacity : Nat, cells : Seq(Nat)]
SetRecord == [terms : Seq(TermData), term_positions : Nat]

Keys(set) == [i \in DOMAIN set.terms |-> set.terms[i].term]

\* The postings that a merge finds in the memory m, and the bytes that the
\* positions of the i-th key take there.
HitsIn(m, keys) == Merge(m, Image(m, DocumentAt), keys)
PlaceIn(m, keys, i) == (CHOOSE h \in HitsIn(m, keys) : h[1] = i)[2]
SizeIn(m, keys, i) ==
    LET a == AdvanceDocumentId(m, PlaceIn(m, keys, i), 0) IN a.p - a.wp
FitsIn(m, keys, i, n) ==
    (\E h \in HitsIn(m, keys) : h[1] = i) => SizeIn(m, keys, i) <= n

SetAscends(set) ==
    \A i, j \in DOMAIN set.terms : i < j => set.terms[i].term < set.terms[j].term

SetPassed(set, ds) ==
    \A d \in ds : /\ d \in 1..Len(documents)
                  /\ \A i \in DOMAIN set.terms :
                        FitsIn(documents[d].document, Keys(set), i,
                               set.terms[i].max_term_size)

SetReady(set) ==
    /\ set.term_positions \in 0..Len(heap)
    /\ set.term_positions # 0 =>
          /\ DOMAIN heap[set.term_positions] = DOMAIN set.terms
          /\ \A d \in ready[set.term_positions] : \A i \in DOMAIN set.terms :
                FitsIn(documents[d].document, Keys(set), i,
                       heap[set.term_positions][i].capacity - 1)

SetsInv ==
    /\ sets \in Seq(SetRecord) /\ passed \in Seq(SUBSET Nat)
    /\ Len(passed) = Len(sets)
    /\ \A s \in 1..Len(sets) :
          SetAscends(sets[s]) /\ SetPassed(sets[s], passed[s]) /\ SetReady(sets[s])

HeapInv ==
    /\ heap \in Seq(Seq(Buffer)) /\ ready \in Seq(SUBSET Nat)
    /\ Len(ready) = Len(heap)
    /\ \A b \in 1..Len(ready) : ready[b] \subseteq 1..Len(documents)
    /\ MatchFitsBuffer

TermSetInv == DocumentInv /\ SetsInv /\ HeapInv
-----------------------------------------------------------------------------
(***************************************************************************)
(* Sizes.                                                                  *)
(***************************************************************************)
LEMMA LargerFacts ==
    ASSUME NEW a \in Nat, NEW b \in Nat
    PROVE  Larger(a, b) \in Nat /\ a <= Larger(a, b) /\ b <= Larger(a, b)
BY MaxOfTwo DEF Larger

\* Every document of the builder is memory, and every list of keys is numbers.
LEMMA MemoryFacts ==
    ASSUME DocumentInv
    PROVE  \A d \in 1..Len(documents) : documents[d].document \in Seq(Nat)
<1> SUFFICES ASSUME NEW d \in 1..Len(documents)
             PROVE  documents[d].document \in Seq(Nat)
  OBVIOUS
<1> DEFINE Doc == [given : GivenDocument, document : Seq(Nat)]
<1>1. documents \in Seq(Doc)
  BY DEF DocumentInv, DocumentsInv
<1>2. documents[d] \in Doc
  <2> HIDE DEF Doc
  <2> QED BY <1>1
<1> QED BY <1>2

\* Two sets with the same keys stay so when a term is updated.
LEMMA KeysFacts ==
    ASSUME NEW set \in SetRecord
    PROVE  /\ Keys(set) \in Seq(Nat) /\ Len(Keys(set)) = Len(set.terms)
           /\ DOMAIN set.terms = 1..Len(set.terms)
           /\ \A i \in DOMAIN set.terms : set.terms[i] \in TermData
<1>1. set.terms \in Seq(TermData)
  BY DEF SetRecord
<1>2. \A t \in TermData : t.term \in Nat
  BY DEF TermData
<1>3. \A i \in 1..Len(set.terms) : set.terms[i] \in TermData
  BY <1>1
<1>4. DOMAIN set.terms = 1..Len(set.terms) /\ Len(set.terms) \in Nat
  BY <1>1
<1>5. Keys(set) = [i \in 1..Len(set.terms) |-> set.terms[i].term]
  BY <1>4 DEF Keys
<1>6. \A i \in 1..Len(set.terms) : set.terms[i].term \in Nat
  BY <1>2, <1>3
<1> DEFINE n == Len(set.terms)
           k == [i \in 1..n |-> set.terms[i].term]
<1>7. k \in Seq(Nat) /\ Len(k) = n
  <2> HIDE DEF n
  <2> QED BY <1>4, <1>6 DEF n
<1> QED BY <1>3, <1>4, <1>5, <1>7

\* A posting that the merge found takes the same bytes whatever the value of
\* the term was before, and no more positions than bytes are decoded from it.
LEMMA HitFacts ==
    ASSUME NEW m \in Seq(Nat), NEW keys \in Seq(Nat), NEW i,
           \E h \in HitsIn(m, keys) : h[1] = i, NEW old \in Nat
    PROVE  LET a == AdvanceDocumentId(m, PlaceIn(m, keys, i), old)
           IN  /\ a.value \in Nat /\ a.p - a.wp = SizeIn(m, keys, i)
               /\ SizeIn(m, keys, i) \in Nat
               /\ Decoded(m, a) \in Seq(Nat)
               /\ Len(Decoded(m, a)) <= SizeIn(m, keys, i)
<1> DEFINE h == CHOOSE h \in HitsIn(m, keys) : h[1] = i
           p == PlaceIn(m, keys, i)
           a == AdvanceDocumentId(m, p, old)
           z == AdvanceDocumentId(m, p, 0)
<1>1. HitsIn(m, keys) \in SUBSET (Nat \X Nat)
  <2> DEFINE image == Image(m, DocumentAt)
  <2>1. image.terms \in Nat /\ image.content \in Nat
    BY ImageFacts
  <2> HIDE DEF image
  <2>2. Merge(m, image, keys) \in SUBSET (Nat \X Nat)
    BY <2>1, MergeFacts
  <2> QED BY <2>2 DEF HitsIn, image
<1>2. p \in Nat
  <2>1. h \in HitsIn(m, keys)
    OBVIOUS
  <2>2. p = h[2]
    BY DEF PlaceIn
  <2> HIDE DEF h, p
  <2> QED BY <1>1, <2>1, <2>2
<1> HIDE DEF p
<1>3. /\ a.value \in Nat /\ a.first_base \in Nat
      /\ a.wp \in Nat /\ a.p \in Nat /\ a.wp <= a.p
      /\ a.p = z.p /\ a.wp = z.wp
  BY <1>2, AdvanceFacts
<1>4. SizeIn(m, keys, i) = z.p - z.wp
  BY DEF SizeIn, p
<1> HIDE DEF a, z
<1>5. Decoded(m, a) \in Seq(Nat) /\ Len(Decoded(m, a)) <= a.p - a.wp
  BY <1>3, DecodedFits
<1>6. /\ a.value \in Nat /\ a.p - a.wp = SizeIn(m, keys, i)
      /\ SizeIn(m, keys, i) \in Nat
      /\ Decoded(m, a) \in Seq(Nat) /\ Len(Decoded(m, a)) <= SizeIn(m, keys, i)
  BY <1>3, <1>4, <1>5
<1> QED BY <1>6 DEF a, p

\* What fits into n bytes fits into more.
LEMMA FitsMore ==
    ASSUME NEW m \in Seq(Nat), NEW keys \in Seq(Nat), NEW i,
           NEW n \in Int, NEW k \in Int, n <= k, FitsIn(m, keys, i, n)
    PROVE  FitsIn(m, keys, i, k)
<1> SUFFICES ASSUME \E h \in HitsIn(m, keys) : h[1] = i
             PROVE  SizeIn(m, keys, i) <= k
  BY DEF FitsIn
<1>1. SizeIn(m, keys, i) <= n
  BY DEF FitsIn
<1>2. SizeIn(m, keys, i) \in Nat
  <2>1. 0 \in Nat
    OBVIOUS
  <2> QED BY <2>1, HitFacts
<1> QED BY <1>1, <1>2
-----------------------------------------------------------------------------
(***************************************************************************)
(* Steps.                                                                  *)
(***************************************************************************)
LEMMA TermSetInvInit == Init => TermSetInv
<1> SUFFICES ASSUME Init PROVE TermSetInv
  OBVIOUS
<1>1. DocumentInv
  BY DocumentInvInit DEF Init
<1>2. SetsInv
  BY DEF Init, SetsInv
<1>3. HeapInv
  BY DEF Init, HeapInv, MatchFitsBuffer
<1> QED BY <1>1, <1>2, <1>3 DEF TermSetInv

\* A document stays where it is when the builder goes on.
LEMMA BuilderKeepsDocuments ==
    ASSUME DocumentInv, BuilderNext
    PROVE  /\ Len(documents) \in Nat /\ Len(documents') \in Nat
           /\ Len(documents) <= Len(documents')
           /\ \A d \in 1..Len(documents) : documents'[d] = documents[d]
<1> DEFINE Doc == [given : GivenDocument, document : Seq(Nat)]
<1>1. documents \in Seq(Doc) /\ Len(documents) \in Nat
  BY DEF DocumentInv, DocumentsInv
<1>2. CASE documents' = documents
  BY <1>1, <1>2
<1>3. ASSUME NEW c \in ContentLengths, NEW e \in EmbeddingCounts, BuildDocument(c, e)
      PROVE  \E x : documents' = Append(documents, x)
  BY <1>3 DEF BuildDocument
<1>4. ASSUME NEW x, documents' = Append(documents, x)
      PROVE  /\ Len(documents') = Len(documents) + 1
             /\ \A d \in 1..Len(documents) : documents'[d] = documents[d]
  BY <1>1, <1>4
<1>5. CASE \E x : documents' = Append(documents, x)
  BY <1>1, <1>4, <1>5
<1> QED BY <1>2, <1>3, <1>5
     DEF BuilderNext, Term, TermPosition, TermValue, Add

\* Calls of the builder leave the sets and the buffers alone.
LEMMA BuilderStep ==
    ASSUME TermSetInv, BuilderNext, UNCHANGED setVars
    PROVE  TermSetInv'
<1> USE DEF TermSetInv
<1>1. DocumentInv'
  BY DocumentInvStep
<1>2. /\ Len(documents) \in Nat /\ Len(documents') \in Nat
      /\ Len(documents) <= Len(documents')
      /\ \A d \in 1..Len(documents) : documents'[d] = documents[d]
  BY BuilderKeepsDocuments
<1>3. sets' = sets /\ heap' = heap /\ passed' = passed /\ ready' = ready
  BY DEF setVars
<1>4. \A d \in 1..Len(documents) : d \in 1..Len(documents')
  BY <1>2
<1>5. HeapInv'
  BY <1>3, <1>4 DEF HeapInv, MatchFitsBuffer
<1>6. SetsInv'
  <2>1. ASSUME NEW s \in 1..Len(sets)
        PROVE  SetAscends(sets[s])' /\ SetPassed(sets[s], passed[s])' /\ SetReady(sets[s])'
    <3>1. SetAscends(sets[s]) /\ SetPassed(sets[s], passed[s]) /\ SetReady(sets[s])
      BY DEF SetsInv
    <3>2. SetAscends(sets[s])'
      BY <1>3, <3>1 DEF SetAscends
    <3>3. SetPassed(sets[s], passed[s])'
      BY <1>2, <1>3, <1>4, <3>1 DEF SetPassed, Keys
    <3>4. SetReady(sets[s])'
      <4> DEFINE b == sets[s].term_positions
      <4>1. b \in 0..Len(heap) /\ Len(heap) \in Nat
        BY <3>1 DEF SetReady, HeapInv
      <4>2. CASE b = 0
        BY <1>3, <3>1, <4>2 DEF SetReady
      <4>3. CASE b # 0
        <5>1. b \in 1..Len(ready)
          BY <4>1, <4>3 DEF HeapInv
        <5>2. \A d \in ready[b] : documents'[d] = documents[d]
          <6> HIDE DEF b
          <6> QED BY <1>2, <5>1 DEF HeapInv
        <5> QED BY <1>3, <3>1, <5>2 DEF SetReady, Keys
      <4> QED BY <4>2, <4>3
    <3> QED BY <3>2, <3>3, <3>4
  <2> QED BY <1>3, <2>1 DEF SetsInv
<1> QED BY <1>1, <1>5, <1>6

\* A set that is added, by the constructor or by a copy, fits.
LEMMA NewSet ==
    ASSUME TermSetInv, NEW x \in SetRecord, NEW ds \in SUBSET Nat,
           SetAscends(x), SetPassed(x, ds), SetReady(x),
           sets' = Append(sets, x), passed' = Append(passed, ds),
           UNCHANGED <<builderVars, heap, ready>>
    PROVE  TermSetInv'
<1> USE DEF TermSetInv
<1>1. DocumentInv' /\ documents' = documents /\ heap' = heap /\ ready' = ready
  BY DocumentInvStutters DEF builderVars
<1>2. HeapInv'
  BY <1>1 DEF HeapInv, MatchFitsBuffer
<1>3. sets \in Seq(SetRecord) /\ passed \in Seq(SUBSET Nat) /\ Len(passed) = Len(sets)
  BY DEF SetsInv
<1> DEFINE n == Len(sets)
<1>4. /\ n \in Nat /\ Len(sets') = n + 1 /\ Len(passed') = n + 1
      /\ sets' \in Seq(SetRecord) /\ passed' \in Seq(SUBSET Nat)
      /\ \A s \in 1..n : sets'[s] = sets[s] /\ passed'[s] = passed[s]
      /\ sets'[n + 1] = x /\ passed'[n + 1] = ds
  BY <1>3
<1>5. ASSUME NEW s \in 1..Len(sets')
      PROVE  SetAscends(sets[s])' /\ SetPassed(sets[s], passed[s])' /\ SetReady(sets[s])'
  <2>1. s \in 1..n \/ s = n + 1
    BY <1>4
  <2>2. CASE s \in 1..n
    <3>1. SetAscends(sets[s]) /\ SetPassed(sets[s], passed[s]) /\ SetReady(sets[s])
      BY <2>2 DEF SetsInv
    <3>2. sets'[s] = sets[s] /\ passed'[s] = passed[s]
      BY <1>4, <2>2
    <3> HIDE DEF n
    <3> QED BY <1>1, <3>1, <3>2 DEF SetAscends, SetPassed, SetReady
  <2>3. CASE s = n + 1
    <3>1. sets'[s] = x /\ passed'[s] = ds
      BY <1>4, <2>3
    <3> HIDE DEF n
    <3> QED BY <1>1, <3>1 DEF SetAscends, SetPassed, SetReady
  <2> QED BY <2>1, <2>2, <2>3
<1>6. SetsInv'
  <2> HIDE DEF n
  <2> QED BY <1>4, <1>5 DEF SetsInv
<1> QED BY <1>1, <1>2, <1>6

\* So does a set that another one takes the place of.
LEMMA ChangedSet ==
    ASSUME TermSetInv, NEW s \in 1..Len(sets),
           NEW x \in SetRecord, NEW ds \in SUBSET Nat,
           SetAscends(x), SetPassed(x, ds), SetReady(x),
           sets' = [sets EXCEPT ![s] = x], passed' = [passed EXCEPT ![s] = ds],
           UNCHANGED <<builderVars, heap, ready>>
    PROVE  TermSetInv'
<1> USE DEF TermSetInv
<1>1. DocumentInv' /\ documents' = documents /\ heap' = heap /\ ready' = ready
  BY DocumentInvStutters DEF builderVars
<1>2. HeapInv'
  BY <1>1 DEF HeapInv, MatchFitsBuffer
<1>3. sets \in Seq(SetRecord) /\ passed \in Seq(SUBSET Nat) /\ Len(passed) = Len(sets)
  BY DEF SetsInv
<1>4. /\ Len(sets') = Len(sets) /\ Len(passed') = Len(sets)
      /\ sets' \in Seq(SetRecord) /\ passed' \in Seq(SUBSET Nat)
      /\ \A i \in 1..Len(sets) : i # s => sets'[i] = sets[i] /\ passed'[i] = passed[i]
      /\ sets'[s] = x /\ passed'[s] = ds
  BY <1>3
<1>5. ASSUME NEW i \in 1..Len(sets)
      PROVE  SetAscends(sets[i])' /\ SetPassed(sets[i], passed[i])' /\ SetReady(sets[i])'
  <2>1. CASE i # s
    <3>1. SetAscends(sets[i]) /\ SetPassed(sets[i], passed[i]) /\ SetReady(sets[i])
      BY DEF SetsInv
    <3>2. sets'[i] = sets[i] /\ passed'[i] = passed[i]
      BY <1>4, <2>1
    <3> QED BY <1>1, <3>1, <3>2 DEF SetAscends, SetPassed, SetReady
  <2>2. CASE i = s
    <3>1. sets'[i] = x /\ passed'[i] = ds
      BY <1>4, <2>2
    <3> QED BY <1>1, <3>1 DEF SetAscends, SetPassed, SetReady
  <2> QED BY <2>1, <2>2
<1>6. SetsInv'
  BY <1>4, <1>5 DEF SetsInv
<1> QED BY <1>1, <1>2, <1>6

\* Other terms for a set, with the keys they had.
SameKeys(set, T) ==
    /\ T = [i \in DOMAIN set.terms |-> T[i]]
    /\ \A i \in DOMAIN set.terms : T[i] \in TermData /\ T[i].term = set.terms[i].term

\* With these it ascends and uses its buffers as before.
LEMMA ChangedTerms ==
    ASSUME TermSetInv, NEW s \in 1..Len(sets), NEW T, SameKeys(sets[s], T)
    PROVE  LET x == [sets[s] EXCEPT !.terms = T]
           IN  /\ x \in SetRecord /\ x.terms = T
               /\ x.term_positions = sets[s].term_positions
               /\ DOMAIN T = DOMAIN sets[s].terms /\ Keys(x) = Keys(sets[s])
               /\ SetAscends(x) /\ SetReady(x)
<1> DEFINE old == sets[s]
           x   == [old EXCEPT !.terms = T]
<1>1. old \in SetRecord /\ SetAscends(old) /\ SetReady(old)
  BY DEF TermSetInv, SetsInv
<1> HIDE DEF old
<1>2. old.terms \in Seq(TermData) /\ DOMAIN old.terms = 1..Len(old.terms)
      /\ Len(old.terms) \in Nat
  BY <1>1 DEF SetRecord
<1>0. SameKeys(old, T)
  BY DEF old
<1>3. DOMAIN T = DOMAIN old.terms
  BY <1>0 DEF SameKeys
<1>4. T \in Seq(TermData)
  <2>1. T = [i \in 1..Len(old.terms) |-> T[i]]
    BY <1>0, <1>2 DEF SameKeys
  <2>2. \A i \in 1..Len(old.terms) : T[i] \in TermData
    BY <1>0, <1>2 DEF SameKeys
  <2> DEFINE n == Len(old.terms)
  <2> HIDE DEF n
  <2>3. T \in [1..n -> TermData] /\ n \in Nat
    BY <1>2, <2>1, <2>2 DEF n
  <2> QED BY <2>3
<1>5. x \in SetRecord /\ x.terms = T /\ x.term_positions = old.term_positions
  BY <1>1, <1>4 DEF SetRecord
<1>6. \A i \in DOMAIN old.terms : T[i].term = old.terms[i].term
  BY <1>0 DEF SameKeys
<1> HIDE DEF x
<1>7. Keys(x) = Keys(old)
  BY <1>3, <1>5, <1>6 DEF Keys
<1>8. SetAscends(x)
  BY <1>1, <1>3, <1>5, <1>6 DEF SetAscends
<1>9. SetReady(x)
  BY <1>1, <1>3, <1>5, <1>7 DEF SetReady
<1> QED BY <1>3, <1>5, <1>7, <1>8, <1>9 DEF x, old

\* sil_term_set_copy shares the buffers of the original.
LEMMA CopyStep ==
    ASSUME TermSetInv, NEW s \in 1..Len(sets), Copy(s)
    PROVE  TermSetInv'
<1>1. /\ sets[s] \in SetRecord /\ passed[s] \in SUBSET Nat
      /\ SetAscends(sets[s]) /\ SetPassed(sets[s], passed[s]) /\ SetReady(sets[s])
  BY DEF TermSetInv, SetsInv
<1> QED BY <1>1, NewSet DEF Copy

\* A new set has no buffer.
LEMMA ConstructStep ==
    ASSUME TermSetInv, NEW query \in Queries, Construct(query)
    PROVE  TermSetInv'
<1> DEFINE tokens == query
           K      == {tokens[i] : i \in DOMAIN tokens}
           keys   == UniqueTerms(tokens)
           freq(k) == Cardinality({i \in DOMAIN tokens : tokens[i] = keys[k]})
           terms  == [k \in DOMAIN keys |->
                        [term |-> keys[k], query_term_freq |-> freq(k),
                         freq |-> 0, max_term_size |-> 0,
                         match |-> 0, value |-> 0, end |-> 0]]
           x      == [terms |-> terms, term_positions |-> 0]
<1>1. query \in Seq(1..255)
  BY TermSetAssumption
<1> DEFINE n == Len(query)
<1>2. n \in Nat /\ DOMAIN tokens = 1..n /\ \A i \in 1..n : tokens[i] \in 1..255
  <2> DEFINE L == 1..255
  <2>1. n \in Nat /\ DOMAIN query = 1..n /\ \A i \in 1..n : query[i] \in L
    <3>1. query \in Seq(L)
      BY <1>1
    <3> HIDE DEF L
    <3> QED BY <3>1
  <2> QED BY <2>1
<1> HIDE DEF tokens, n
<1>3. K \in SUBSET (1..255)
  <2>1. ASSUME NEW k \in K PROVE k \in 1..255
    <3>1. PICK i \in DOMAIN tokens : k = tokens[i]
      OBVIOUS
    <3> QED BY <1>2, <3>1
  <2> QED BY <2>1
<1>4. K \in SUBSET Nat /\ IsFiniteSet(K)
  <2> HIDE DEF K
  <2>1. 255 \in Nat
    OBVIOUS
  <2> QED BY <1>3, <2>1, IndexSets
<1> DEFINE c == Cardinality(K)
<1>5. c \in Nat /\ keys \in [1..c -> K] /\ \A i, j \in 1..c : i < j => keys[i] < keys[j]
  <2>1. keys = Ascending(K)
    BY DEF UniqueTerms
  <2> HIDE DEF K, keys
  <2> QED BY <1>4, <2>1, AscendingFacts
<1> HIDE DEF keys, K, c
<1>6. DOMAIN keys = 1..c
  BY <1>5
<1>7. ASSUME NEW k \in 1..c PROVE keys[k] \in 1..255 /\ freq(k) \in Nat
  <2>1. keys[k] \in 1..255
    BY <1>3, <1>5
  <2> DEFINE I == {i \in DOMAIN tokens : tokens[i] = keys[k]}
  <2>2. I \in SUBSET (1..n)
    BY <1>2
  <2> HIDE DEF I
  <2>3. Cardinality(I) \in 0..n
    BY <1>2, <2>2, IndexSets
  <2>4. Cardinality(I) \in Nat
    BY <1>2, <2>3
  <2> QED BY <2>1, <2>4 DEF I
<1> HIDE DEF freq
<1>8. \A k \in 1..c : terms[k] \in TermData /\ terms[k].term = keys[k]
  <2>1. 0 \in 0..MaxDocuments
    BY DocumentBuilderAssumption
  <2> QED BY <1>6, <1>7, <2>1 DEF TermData
<1>9. terms = [k \in 1..c |-> terms[k]]
  BY <1>6
<1> HIDE DEF terms
<1>10. terms \in Seq(TermData) /\ DOMAIN terms = 1..c
  BY <1>5, <1>8, <1>9
<1>11. x \in SetRecord /\ SetAscends(x)
  BY <1>5, <1>8, <1>10 DEF SetRecord, SetAscends
<1>12. SetPassed(x, {}) /\ SetReady(x)
  <2>1. Len(heap) \in Nat
    BY DEF TermSetInv, HeapInv
  <2> QED BY <2>1 DEF SetPassed, SetReady
<1>13. /\ sets' = Append(sets, x) /\ passed' = Append(passed, {})
       /\ UNCHANGED <<builderVars, heap, ready>>
  BY DEF Construct, x, terms, freq, keys, tokens
<1>14. {} \in SUBSET Nat
  OBVIOUS
<1> HIDE DEF x
<1> QED BY <1>11, <1>12, <1>13, <1>14, NewSet

\* A pass over a document makes every term that it has large enough for it,
\* and keeps what it was large enough for before.
LEMMA UpdateFrequencyStep ==
    ASSUME TermSetInv, NEW s \in 1..Len(sets), NEW d \in 1..Len(documents),
           UpdateFrequency(s, d)
    PROVE  TermSetInv'
<1> DEFINE old  == sets[s]
           m    == documents[d].document
           keys == Keys(old)
           hit(i) == \E h \in HitsIn(m, keys) : h[1] = i
           a(i) == AdvanceDocumentId(m, PlaceIn(m, keys, i), old.terms[i].value)
           new(i) == IF hit(i)
                     THEN [old.terms[i] EXCEPT !.freq = @ + 1, !.value = a(i).value,
                              !.max_term_size = Larger(@, a(i).p - a(i).wp)]
                     ELSE old.terms[i]
           T    == [i \in DOMAIN old.terms |-> new(i)]
           x    == [old EXCEPT !.terms = T]
           ds   == passed[s] \cup {d}
<1>1. /\ old \in SetRecord /\ passed[s] \in SUBSET Nat /\ SetPassed(old, passed[s])
      /\ m \in Seq(Nat) /\ keys \in Seq(Nat)
      /\ \A i \in DOMAIN old.terms : old.terms[i] \in TermData
  <2>1. old \in SetRecord /\ passed[s] \in SUBSET Nat /\ SetPassed(old, passed[s])
    BY DEF TermSetInv, SetsInv
  <2>2. m \in Seq(Nat)
    BY MemoryFacts DEF TermSetInv
  <2> HIDE DEF old, m
  <2> QED BY <2>1, <2>2, KeysFacts
<1>2. /\ sets' = [sets EXCEPT ![s] = x] /\ passed' = [passed EXCEPT ![s] = ds]
      /\ UNCHANGED <<builderVars, heap, ready>>
  <2>1. Hits(s, d) = HitsIn(m, keys)
    BY DEF Hits, HitsIn, Memory, ImageOf, KeysOf, Keys
  <2> HIDE DEF HitsIn
  <2> QED BY <2>1 DEF UpdateFrequency, Memory, PlaceIn
<1> HIDE DEF hit
<1>3. ASSUME NEW i \in DOMAIN old.terms
      PROVE  /\ new(i) \in TermData /\ new(i).term = old.terms[i].term
             /\ old.terms[i].max_term_size \in Nat
             /\ old.terms[i].max_term_size <= new(i).max_term_size
             /\ hit(i) => SizeIn(m, keys, i) <= new(i).max_term_size
  <2> DEFINE t == old.terms[i]
  <2>1. t \in TermData
    BY <1>1
  <2>2. CASE hit(i)
    <3> DEFINE size == a(i).p - a(i).wp
               big  == Larger(t.max_term_size, size)
    <3>1. t.value \in Nat /\ t.max_term_size \in Nat /\ t.freq \in Nat
      BY <2>1 DEF TermData
    <3>2. a(i).value \in Nat /\ size = SizeIn(m, keys, i) /\ size \in Nat
      <4> HIDE DEF m, keys, old
      <4> QED BY <1>1, <2>2, <3>1, HitFacts DEF hit
    <3> HIDE DEF size
    <3>3. big \in Nat /\ t.max_term_size <= big /\ size <= big
      BY <3>1, <3>2, LargerFacts
    <3> DEFINE v == a(i).value
    <3>4. new(i) = [t EXCEPT !.freq = @ + 1, !.value = v, !.max_term_size = big]
      BY <2>2 DEF size
    <3> HIDE DEF big, v, t, new
    <3>5. v \in Nat /\ t.freq + 1 \in Nat
      BY <3>1, <3>2 DEF v
    <3>6. new(i) \in TermData /\ new(i).term = t.term /\ new(i).max_term_size = big
      BY <2>1, <3>3, <3>4, <3>5 DEF TermData
    <3> QED BY <3>1, <3>2, <3>3, <3>6 DEF t
  <2>3. CASE ~hit(i)
    <3>1. new(i) = t
      BY <2>3
    <3>2. t.max_term_size \in Nat
      BY <2>1 DEF TermData
    <3> HIDE DEF new
    <3> QED BY <2>1, <2>3, <3>1, <3>2
  <2> QED BY <2>2, <2>3
<1>4. /\ T = [i \in DOMAIN old.terms |-> T[i]] /\ DOMAIN T = DOMAIN old.terms
      /\ \A i \in DOMAIN old.terms : T[i] = new(i)
  OBVIOUS
<1> HIDE DEF T, new
<1>5. /\ x \in SetRecord /\ x.terms = T /\ DOMAIN T = DOMAIN old.terms
      /\ Keys(x) = keys /\ SetAscends(x) /\ SetReady(x)
  <2>1. SameKeys(old, T)
    <3> HIDE DEF old
    <3> QED BY <1>3, <1>4 DEF SameKeys
  <2> QED BY <2>1, ChangedTerms
<1> HIDE DEF x
<1>6. SetPassed(x, ds)
  <2> SUFFICES ASSUME NEW e \in ds
               PROVE  /\ e \in 1..Len(documents)
                      /\ \A i \in DOMAIN T :
                            FitsIn(documents[e].document, keys, i, T[i].max_term_size)
    BY <1>5 DEF SetPassed
  <2>1. CASE e = d
    <3>1. ASSUME NEW i \in DOMAIN T PROVE FitsIn(m, keys, i, T[i].max_term_size)
      <4> HIDE DEF m, keys
      <4> QED BY <1>3, <1>4 DEF FitsIn, hit
    <3> QED BY <2>1, <3>1
  <2>2. CASE e \in passed[s]
    <3>1. /\ e \in 1..Len(documents)
          /\ \A i \in DOMAIN old.terms :
                FitsIn(documents[e].document, keys, i, old.terms[i].max_term_size)
      BY <1>1, <2>2 DEF SetPassed
    <3> DEFINE w == documents[e].document
    <3>2. w \in Seq(Nat)
      BY <3>1, MemoryFacts DEF TermSetInv
    <3>3. ASSUME NEW i \in DOMAIN T PROVE FitsIn(w, keys, i, T[i].max_term_size)
      <4> DEFINE n == old.terms[i].max_term_size
                 k == T[i].max_term_size
      <4>1. n \in Nat /\ n <= k /\ FitsIn(w, keys, i, n) /\ k \in Nat
        <5>1. n \in Nat /\ n <= k /\ FitsIn(w, keys, i, n) /\ T[i] \in TermData
          <6> HIDE DEF w, keys, old
          <6> QED BY <1>3, <1>4, <3>1 DEF w
        <5>2. k \in Nat
          BY <5>1 DEF TermData
        <5> QED BY <5>1, <5>2
      <4> HIDE DEF n, k, w, keys
      <4>2. FitsIn(w, keys, i, k)
        BY <1>1, <3>2, <4>1, FitsMore
      <4> QED BY <4>2 DEF k
    <3> QED BY <3>1, <3>3
  <2> QED BY <2>1, <2>2
<1>7. ds \in SUBSET Nat
  <2>1. Len(documents) \in Nat
    BY DEF TermSetInv, DocumentInv, DocumentsInv
  <2> QED BY <1>1, <2>1
<1> HIDE DEF ds, old
<1> QED BY <1>2, <1>5, <1>6, <1>7, ChangedSet

\* Two sets of a query, put together, are large enough for the documents of
\* both.
LEMMA AddSetFreqStep ==
    ASSUME TermSetInv, NEW dest \in 1..Len(sets), NEW src \in 1..Len(sets),
           AddSetFreq(dest, src)
    PROVE  TermSetInv'
<1> DEFINE old  == sets[dest]
           oth  == sets[src]
           keys == Keys(old)
           new(i) == [old.terms[i] EXCEPT !.freq = @ + oth.terms[i].freq,
                         !.max_term_size = Larger(@, oth.terms[i].max_term_size)]
           T    == [i \in DOMAIN old.terms |-> new(i)]
           x    == [old EXCEPT !.terms = T]
           ds   == passed[dest] \cup passed[src]
<1>1. /\ old \in SetRecord /\ passed[dest] \in SUBSET Nat /\ SetPassed(old, passed[dest])
      /\ oth \in SetRecord /\ passed[src] \in SUBSET Nat /\ SetPassed(oth, passed[src])
  BY DEF TermSetInv, SetsInv
<1>2. /\ keys \in Seq(Nat)
      /\ \A i \in DOMAIN old.terms : old.terms[i] \in TermData
      /\ \A i \in DOMAIN oth.terms : oth.terms[i] \in TermData
  <2> HIDE DEF old, oth
  <2> QED BY <1>1, KeysFacts
<1>3. Keys(oth) = keys /\ DOMAIN oth.terms = DOMAIN old.terms
  <2>1. Keys(oth) = keys
    BY DEF AddSetFreq, KeysOf, Keys
  <2>2. DOMAIN Keys(oth) = DOMAIN oth.terms /\ DOMAIN keys = DOMAIN old.terms
    BY DEF Keys
  <2> QED BY <2>1, <2>2
<1>4. /\ sets' = [sets EXCEPT ![dest] = x] /\ passed' = [passed EXCEPT ![dest] = ds]
      /\ UNCHANGED <<builderVars, heap, ready>>
  BY DEF AddSetFreq
<1>5. ASSUME NEW i \in DOMAIN old.terms
      PROVE  /\ new(i) \in TermData /\ new(i).term = old.terms[i].term
             /\ old.terms[i].max_term_size \in Nat
             /\ oth.terms[i].max_term_size \in Nat
             /\ new(i).max_term_size \in Nat
             /\ old.terms[i].max_term_size <= new(i).max_term_size
             /\ oth.terms[i].max_term_size <= new(i).max_term_size
  <2> DEFINE t   == old.terms[i]
             u   == oth.terms[i]
             big == Larger(t.max_term_size, u.max_term_size)
  <2>1. t \in TermData /\ u \in TermData
    BY <1>2, <1>3
  <2>2. new(i) = [t EXCEPT !.freq = @ + u.freq, !.max_term_size = big]
    OBVIOUS
  <2> HIDE DEF t, u, new
  <2>3. /\ t.max_term_size \in Nat /\ u.max_term_size \in Nat
        /\ t.freq \in Nat /\ u.freq \in Nat
    BY <2>1 DEF TermData
  <2>4. big \in Nat /\ t.max_term_size <= big /\ u.max_term_size <= big
        /\ t.freq + u.freq \in Nat
    <3>1. \A y, z \in Nat : /\ Larger(y, z) \in Nat
                            /\ y <= Larger(y, z) /\ z <= Larger(y, z)
      BY LargerFacts
    <3>2. t.freq + u.freq \in Nat
      BY <2>3
    <3> DEFINE y == t.max_term_size
               z == u.max_term_size
    <3>3. y \in Nat /\ z \in Nat
      BY <2>3
    <3> HIDE DEF y, z
    <3>4. Larger(y, z) \in Nat /\ y <= Larger(y, z) /\ z <= Larger(y, z)
      BY <3>1, <3>3
    <3> QED BY <3>2, <3>4 DEF y, z
  <2> HIDE DEF big
  <2>5. new(i) \in TermData /\ new(i).term = t.term /\ new(i).max_term_size = big
    BY <2>1, <2>2, <2>4 DEF TermData
  <2> QED BY <2>3, <2>4, <2>5 DEF t, u
<1>6. /\ T = [i \in DOMAIN old.terms |-> T[i]] /\ DOMAIN T = DOMAIN old.terms
      /\ \A i \in DOMAIN old.terms : T[i] = new(i)
  OBVIOUS
<1> HIDE DEF T, new
<1>7. /\ x \in SetRecord /\ x.terms = T /\ DOMAIN T = DOMAIN old.terms
      /\ Keys(x) = keys /\ SetAscends(x) /\ SetReady(x)
  <2>1. SameKeys(old, T)
    <3> HIDE DEF old
    <3> QED BY <1>5, <1>6 DEF SameKeys
  <2> QED BY <2>1, ChangedTerms
<1> HIDE DEF x
<1>8. ASSUME NEW e, e \in 1..Len(documents), NEW i \in DOMAIN T, NEW n \in Nat,
             n <= T[i].max_term_size, FitsIn(documents[e].document, keys, i, n)
      PROVE  FitsIn(documents[e].document, keys, i, T[i].max_term_size)
  <2> DEFINE w == documents[e].document
             k == T[i].max_term_size
  <2>1. w \in Seq(Nat)
    BY <1>8, MemoryFacts DEF TermSetInv
  <2>2. k \in Nat
    BY <1>5, <1>6
  <2>3. FitsIn(w, keys, i, n) /\ n <= k
    BY <1>8
  <2> HIDE DEF w, k, keys
  <2>4. FitsIn(w, keys, i, k)
    BY <1>2, <2>1, <2>2, <2>3, FitsMore
  <2> QED BY <2>4 DEF w, k
<1>9. SetPassed(x, ds)
  <2> SUFFICES ASSUME NEW e \in ds
               PROVE  /\ e \in 1..Len(documents)
                      /\ \A i \in DOMAIN T :
                            FitsIn(documents[e].document, keys, i, T[i].max_term_size)
    BY <1>7 DEF SetPassed
  <2>1. CASE e \in passed[dest]
    <3>1. /\ e \in 1..Len(documents)
          /\ \A i \in DOMAIN old.terms :
                FitsIn(documents[e].document, keys, i, old.terms[i].max_term_size)
      BY <1>1, <2>1 DEF SetPassed
    <3> HIDE DEF old, keys
    <3> QED BY <1>5, <1>6, <1>8, <3>1
  <2>2. CASE e \in passed[src]
    <3>1. /\ e \in 1..Len(documents)
          /\ \A i \in DOMAIN old.terms :
                FitsIn(documents[e].document, keys, i, oth.terms[i].max_term_size)
      BY <1>1, <1>3, <2>2 DEF SetPassed
    <3> HIDE DEF old, oth, keys
    <3> QED BY <1>5, <1>6, <1>8, <3>1
  <2> QED BY <2>1, <2>2
<1>10. ds \in SUBSET Nat
  BY <1>1
<1> HIDE DEF ds, old
<1> QED BY <1>4, <1>7, <1>9, <1>10, ChangedSet

\* New buffers have room for every document the set was passed over, and the
\* other sets keep theirs.
LEMMA PrepareStep ==
    ASSUME TermSetInv, NEW s \in 1..Len(sets), Prepare(s)
    PROVE  TermSetInv'
<1> USE DEF TermSetInv
<1> DEFINE old == sets[s]
           n   == Len(heap)
           e   == [i \in DOMAIN old.terms |->
                     [capacity |-> old.terms[i].max_term_size + 1, cells |-> <<>>]]
           x   == [old EXCEPT !.term_positions = n + 1]
<1>1. /\ sets' = [sets EXCEPT ![s] = x] /\ heap' = Append(heap, e)
      /\ ready' = Append(ready, passed[s]) /\ passed' = passed
      /\ UNCHANGED builderVars
  BY DEF Prepare
<1>2. DocumentInv' /\ documents' = documents
  BY <1>1, DocumentInvStutters DEF builderVars
<1>3. /\ heap \in Seq(Seq(Buffer)) /\ ready \in Seq(SUBSET Nat) /\ Len(ready) = n
      /\ n \in Nat /\ sets \in Seq(SetRecord) /\ passed[s] \in SUBSET Nat
      /\ old \in SetRecord /\ SetAscends(old) /\ SetPassed(old, passed[s])
  BY DEF HeapInv, SetsInv
<1>4. /\ DOMAIN old.terms = 1..Len(old.terms)
      /\ \A i \in DOMAIN old.terms : old.terms[i].max_term_size \in Nat
  <2> HIDE DEF old
  <2>1. /\ DOMAIN old.terms = 1..Len(old.terms)
        /\ \A i \in DOMAIN old.terms : old.terms[i] \in TermData
    BY <1>3, KeysFacts
  <2> QED BY <2>1 DEF TermData
<1>5. /\ e \in Seq(Buffer) /\ DOMAIN e = DOMAIN old.terms
      /\ \A i \in DOMAIN old.terms :
            e[i].capacity = old.terms[i].max_term_size + 1 /\ e[i].cells = <<>>
  <2> DEFINE k == Len(old.terms)
  <2>1. k \in Nat
    <3> HIDE DEF old
    <3> QED BY <1>3 DEF SetRecord
  <2>2. \A i \in 1..k : e[i] \in Buffer
    <3> HIDE DEF old
    <3> QED BY <1>4 DEF Buffer
  <2>3. e \in [1..k -> Buffer]
    <3>1. e = [i \in 1..k |-> e[i]]
      BY <1>4
    <3> HIDE DEF e, k
    <3> QED BY <2>2, <3>1
  <2>4. e \in Seq(Buffer)
    <3> HIDE DEF e, k
    <3> QED BY <2>1, <2>3
  <2> QED BY <2>4
<1> HIDE DEF e, n
<1>6. /\ heap' \in Seq(Seq(Buffer)) /\ Len(heap') = n + 1 /\ heap'[n + 1] = e
      /\ \A b \in 1..n : heap'[b] = heap[b]
  <2> DEFINE B == Seq(Buffer)
  <2>1. heap \in Seq(B) /\ e \in B
    BY <1>3, <1>5
  <2> HIDE DEF B
  <2>2. heap' \in Seq(B) /\ Len(heap') = n + 1 /\ heap'[n + 1] = e
        /\ \A b \in 1..n : heap'[b] = heap[b]
    BY <1>1, <2>1 DEF n
  <2> QED BY <2>2 DEF B
<1>7. /\ ready' \in Seq(SUBSET Nat) /\ Len(ready') = n + 1 /\ ready'[n + 1] = passed[s]
      /\ \A b \in 1..n : ready'[b] = ready[b]
  BY <1>1, <1>3
<1>8. x \in SetRecord /\ x.terms = old.terms /\ x.term_positions = n + 1
  <2> HIDE DEF old
  <2> DEFINE k == n + 1
  <2>1. k \in Nat
    BY <1>3
  <2> HIDE DEF k
  <2>2. [old EXCEPT !.term_positions = k] \in SetRecord
    BY <1>3, <2>1 DEF SetRecord
  <2>3. x = [old EXCEPT !.term_positions = k]
    BY DEF k, old
  <2> HIDE DEF x
  <2>4. x.terms = old.terms /\ x.term_positions = k
    BY <1>3, <2>3 DEF SetRecord
  <2> QED BY <2>2, <2>3, <2>4 DEF k
<1> HIDE DEF x, old
<1>9. HeapInv'
  <2>1. ASSUME NEW b \in 1..Len(ready') PROVE ready'[b] \subseteq 1..Len(documents')
    <3>1. b \in 1..n \/ b = n + 1
      BY <1>3, <1>7
    <3>2. CASE b \in 1..n
      BY <1>2, <1>3, <1>7, <3>2 DEF HeapInv
    <3>3. CASE b = n + 1
      <4>1. passed[s] \subseteq 1..Len(documents)
        BY <1>3 DEF SetPassed
      <4> QED BY <1>2, <1>7, <3>3, <4>1
    <3> QED BY <3>1, <3>2, <3>3
  <2>2. ASSUME NEW h \in DOMAIN heap', NEW i \in DOMAIN heap'[h]
        PROVE  Len(heap'[h][i].cells) <= heap'[h][i].capacity
    <3>1. h \in 1..n \/ h = n + 1
      BY <1>3, <1>6
    <3>2. CASE h \in 1..n
      <4>1. h \in DOMAIN heap /\ heap'[h] = heap[h]
        BY <1>3, <1>6, <3>2 DEF n
      <4> QED BY <4>1 DEF HeapInv, MatchFitsBuffer
    <3>3. CASE h = n + 1
      <4>1. i \in DOMAIN old.terms /\ heap'[h][i] = e[i]
        BY <1>5, <1>6, <3>3
      <4>2. Len(<<>>) = 0 /\ 0 <= old.terms[i].max_term_size + 1
        BY <1>4, <4>1
      <4> QED BY <1>5, <4>1, <4>2
    <3> QED BY <3>1, <3>2, <3>3
  <2>3. MatchFitsBuffer'
    BY <2>2 DEF MatchFitsBuffer
  <2> QED BY <1>6, <1>7, <2>1, <2>3 DEF HeapInv
<1>10. /\ sets' \in Seq(SetRecord) /\ Len(sets') = Len(sets) /\ sets'[s] = x
       /\ \A i \in 1..Len(sets) : i # s => sets'[i] = sets[i]
  BY <1>1, <1>3, <1>8
<1>11. ASSUME NEW i \in 1..Len(sets)
       PROVE  SetAscends(sets[i])' /\ SetPassed(sets[i], passed[i])' /\ SetReady(sets[i])'
  <2>1. CASE i # s
    <3>1. SetAscends(sets[i]) /\ SetPassed(sets[i], passed[i]) /\ SetReady(sets[i])
      BY DEF SetsInv
    <3>2. sets'[i] = sets[i] /\ passed'[i] = passed[i]
      BY <1>1, <1>10, <2>1
    <3>3. SetAscends(sets[i])' /\ SetPassed(sets[i], passed[i])'
      BY <1>2, <3>1, <3>2 DEF SetAscends, SetPassed
    <3> DEFINE b == sets[i].term_positions
    <3>4. b \in 0..n
      BY <3>1 DEF SetReady, n
    <3>5. b \in 0..Len(heap')
      BY <1>3, <1>6, <3>4
    <3>6. b # 0 => heap'[b] = heap[b] /\ ready'[b] = ready[b]
      <4> HIDE DEF b
      <4> QED BY <1>3, <1>6, <1>7, <3>4
    <3>7. SetReady(sets[i])'
      BY <1>2, <3>1, <3>2, <3>5, <3>6 DEF SetReady
    <3> QED BY <3>3, <3>7
  <2>2. CASE i = s
    <3>1. sets'[i] = x /\ passed'[i] = passed[s]
      BY <1>1, <1>10, <2>2
    <3>2. Keys(x) = Keys(old)
      BY <1>8 DEF Keys
    <3>3. SetAscends(sets[i])'
      BY <1>3, <1>8, <3>1 DEF SetAscends
    <3>4. SetPassed(sets[i], passed[i])'
      BY <1>2, <1>3, <1>8, <3>1, <3>2 DEF SetPassed
    <3>5. ASSUME NEW j \in DOMAIN old.terms
          PROVE  e[j].capacity - 1 = old.terms[j].max_term_size
      <4>1. old.terms[j].max_term_size \in Nat
            /\ e[j].capacity = old.terms[j].max_term_size + 1
        BY <1>4, <1>5
      <4> QED BY <4>1
    <3>6. n + 1 \in 0..Len(heap') /\ n + 1 # 0
      BY <1>3, <1>6
    <3>7. \A d \in passed[s] : \A j \in DOMAIN old.terms :
             FitsIn(documents[d].document, Keys(old), j, e[j].capacity - 1)
      BY <1>3, <3>5 DEF SetPassed
    <3>8. SetReady(sets[i])'
      BY <1>2, <1>5, <1>6, <1>7, <1>8, <3>1, <3>2, <3>6, <3>7 DEF SetReady
    <3> QED BY <3>3, <3>4, <3>8
  <2> QED BY <2>1, <2>2
<1>12. SetsInv'
  BY <1>1, <1>10, <1>11 DEF SetsInv
<1> QED BY <1>2, <1>9, <1>12

\* What is written over the start of a buffer leaves it as long as it was, or
\* as long as that.
LEMMA OverwrittenFacts ==
    ASSUME NEW cells \in Seq(Nat), NEW ps \in Seq(Nat), NEW n \in Nat,
           Len(cells) <= n, Len(ps) <= n
    PROVE  Overwritten(cells, ps) \in Seq(Nat) /\ Len(Overwritten(cells, ps)) <= n
<1> DEFINE rest == SubSeq(cells, Len(ps) + 1, Len(cells))
<1>1. Len(cells) \in Nat /\ Len(ps) \in Nat
  OBVIOUS
<1>2. rest \in Seq(Nat)
      /\ Len(rest) = IF Len(ps) < Len(cells) THEN Len(cells) - Len(ps) ELSE 0
  BY <1>1
<1>3. Overwritten(cells, ps) = ps \o rest
  BY DEF Overwritten
<1> HIDE DEF rest
<1>4. ps \o rest \in Seq(Nat) /\ Len(ps \o rest) = Len(ps) + Len(rest)
  BY <1>2, ConcatFacts
<1> QED BY <1>1, <1>2, <1>3, <1>4

\* A match decodes into buffers that have room for the document, and leaves
\* their capacities and the sizes and keys of all sets as they are.
LEMMA MatchSetStep ==
    ASSUME TermSetInv, NEW s \in 1..Len(sets), NEW d \in 1..Len(documents),
           MatchSet(s, d)
    PROVE  TermSetInv'
<1> USE DEF TermSetInv
<1> DEFINE old  == sets[s]
           m    == documents[d].document
           keys == Keys(old)
           b    == old.term_positions
           hit(i) == \E h \in HitsIn(m, keys) : h[1] = i
           a(i)   == AdvanceDocumentId(m, PlaceIn(m, keys, i), old.terms[i].value)
           ps(i)  == Decoded(m, a(i))
           new(i) == IF hit(i)
                     THEN [old.terms[i] EXCEPT !.match = d, !.value = a(i).value,
                                               !.end = Len(ps(i))]
                     ELSE Missed(old.terms[i])
           T    == [i \in DOMAIN old.terms |-> new(i)]
           x    == [old EXCEPT !.terms = T]
           buf(i) == IF hit(i)
                     THEN [heap[b][i] EXCEPT !.cells = Overwritten(@, ps(i))]
                     ELSE heap[b][i]
           E    == [i \in DOMAIN heap[b] |-> buf(i)]
<1>1. /\ sets' = [sets EXCEPT ![s] = x] /\ heap' = [heap EXCEPT ![b] = E]
      /\ b # 0 /\ d \in ready[b] /\ passed' = passed /\ ready' = ready
      /\ UNCHANGED builderVars
  <2>1. Hits(s, d) = HitsIn(m, keys)
    BY DEF Hits, HitsIn, Memory, ImageOf, KeysOf, Keys
  <2> HIDE DEF HitsIn
  <2> QED BY <2>1 DEF MatchSet, Memory, PlaceIn
<1> HIDE DEF hit
<1>2. DocumentInv' /\ documents' = documents
  BY <1>1, DocumentInvStutters DEF builderVars
<1>3. /\ heap \in Seq(Seq(Buffer)) /\ sets \in Seq(SetRecord)
      /\ old \in SetRecord /\ SetReady(old) /\ SetAscends(old)
  BY DEF HeapInv, SetsInv
<1>4. /\ m \in Seq(Nat) /\ keys \in Seq(Nat)
      /\ \A i \in DOMAIN old.terms : old.terms[i] \in TermData
  <2>1. m \in Seq(Nat)
    BY MemoryFacts
  <2> HIDE DEF old, m
  <2> QED BY <1>3, <2>1, KeysFacts
<1>5. b \in 1..Len(heap) /\ DOMAIN heap[b] = DOMAIN old.terms
      /\ \A i \in DOMAIN old.terms : FitsIn(m, keys, i, heap[b][i].capacity - 1)
  <2>1. /\ b \in 0..Len(heap) /\ DOMAIN heap[b] = DOMAIN old.terms
        /\ \A e \in ready[b] : \A i \in DOMAIN old.terms :
              FitsIn(documents[e].document, keys, i, heap[b][i].capacity - 1)
    <3> HIDE DEF old
    <3> QED BY <1>1, <1>3 DEF SetReady
  <2> HIDE DEF b, keys
  <2>2. Len(heap) \in Nat
    BY <1>3
  <2>0. b # 0
    BY <1>1
  <2>3. b \in 1..Len(heap)
    BY <2>0, <2>1, <2>2
  <2> QED BY <1>1, <2>1, <2>3
<1>6. ASSUME NEW i \in DOMAIN old.terms, hit(i)
      PROVE  /\ a(i).value \in Nat /\ ps(i) \in Seq(Nat)
             /\ SizeIn(m, keys, i) \in Nat
             /\ Len(ps(i)) <= SizeIn(m, keys, i)
  <2>1. old.terms[i].value \in Nat
    BY <1>4 DEF TermData
  <2> HIDE DEF old, m, keys
  <2> QED BY <1>4, <1>6, <2>1, HitFacts DEF hit
<1> HIDE DEF a, ps
<1>7. ASSUME NEW i \in DOMAIN old.terms
      PROVE  /\ new(i) \in TermData /\ new(i).term = old.terms[i].term
             /\ new(i).max_term_size = old.terms[i].max_term_size
  <2> DEFINE t == old.terms[i]
             v == a(i).value
             k == Len(ps(i))
  <2>1. t \in TermData
    BY <1>4
  <2>2. d \in 0..MaxDocuments /\ 0 \in 0..MaxDocuments
    BY DocumentBuilderAssumption DEF DocumentInv, DocumentsInv
  <2>3. CASE hit(i)
    <3>1. v \in Nat /\ k \in Nat
      <4>1. v \in Nat /\ ps(i) \in Seq(Nat)
        <5> HIDE DEF old
        <5> QED BY <1>6, <2>3
      <4> QED BY <4>1
    <3>2. new(i) = [t EXCEPT !.match = d, !.value = v, !.end = k]
      BY <2>3
    <3> HIDE DEF new, t, v, k
    <3>3. new(i) \in TermData /\ new(i).term = t.term
          /\ new(i).max_term_size = t.max_term_size
      BY <2>1, <2>2, <3>1, <3>2 DEF TermData
    <3> QED BY <3>3 DEF t
  <2>4. CASE ~hit(i)
    <3>1. new(i) = [t EXCEPT !.match = 0]
      BY <2>4 DEF Missed
    <3> HIDE DEF new, t
    <3>2. new(i) \in TermData /\ new(i).term = t.term
          /\ new(i).max_term_size = t.max_term_size
      BY <2>1, <2>2, <3>1 DEF TermData
    <3> QED BY <3>2 DEF t
  <2> QED BY <2>3, <2>4
<1>8. /\ T = [i \in DOMAIN old.terms |-> T[i]] /\ DOMAIN T = DOMAIN old.terms
      /\ \A i \in DOMAIN old.terms : T[i] = new(i)
  OBVIOUS
<1> HIDE DEF T, new
<1>9. /\ x \in SetRecord /\ x.terms = T /\ x.term_positions = b
      /\ Keys(x) = keys /\ SetAscends(x)
  <2>1. SameKeys(old, T)
    <3> HIDE DEF old
    <3> QED BY <1>7, <1>8 DEF SameKeys
  <2> QED BY <2>1, ChangedTerms
<1> HIDE DEF x
<1>10. ASSUME NEW i \in DOMAIN heap[b]
       PROVE  /\ heap[b][i] \in Buffer /\ buf(i) \in Buffer
              /\ buf(i).capacity = heap[b][i].capacity
              /\ Len(buf(i).cells) <= buf(i).capacity
  <2> DEFINE e == heap[b][i]
  <2>1. e \in Buffer /\ Len(e.cells) <= e.capacity
    <3>1. b \in 1..Len(heap) /\ heap[b] \in Seq(Buffer)
      <4> DEFINE B == Seq(Buffer)
      <4>1. heap \in Seq(B) /\ b \in 1..Len(heap)
        BY <1>3, <1>5
      <4> HIDE DEF B, b
      <4>2. heap[b] \in B
        BY <4>1
      <4> QED BY <4>1, <4>2 DEF B
    <3> HIDE DEF b
    <3>2. e \in Buffer
      BY <3>1
    <3>3. b \in DOMAIN heap
      BY <1>3, <3>1
    <3>4. Len(e.cells) <= e.capacity
      BY <3>3 DEF HeapInv, MatchFitsBuffer
    <3> QED BY <3>2, <3>4
  <2>2. CASE hit(i)
    <3> DEFINE n == e.capacity
               c == Overwritten(e.cells, ps(i))
    <3>1. i \in DOMAIN old.terms /\ FitsIn(m, keys, i, n - 1)
      BY <1>5
    <3>2. n \in Nat /\ e.cells \in Seq(Nat)
      <4> HIDE DEF e
      <4> QED BY <2>1 DEF Buffer
    <3>3. SizeIn(m, keys, i) <= n - 1
      <4> HIDE DEF m, keys, n
      <4> QED BY <2>2, <3>1 DEF FitsIn, hit
    <3>4. ps(i) \in Seq(Nat) /\ SizeIn(m, keys, i) \in Nat
          /\ Len(ps(i)) <= SizeIn(m, keys, i)
      <4> HIDE DEF old, m, keys, b
      <4> QED BY <1>6, <2>2, <3>1
    <3> DEFINE z == ps(i)
    <3>5. z \in Seq(Nat) /\ Len(z) <= n
      <4>1. Len(ps(i)) \in Nat
        BY <3>4
      <4> HIDE DEF m, keys, n
      <4> QED BY <3>2, <3>3, <3>4, <4>1
    <3>6. c \in Seq(Nat) /\ Len(c) <= n
      <4> HIDE DEF z
      <4>1. Len(e.cells) <= n
        BY <2>1
      <4> DEFINE y == e.cells
      <4>2. y \in Seq(Nat) /\ Len(y) <= n
        BY <3>2, <4>1
      <4> HIDE DEF e, n, y
      <4>3. Overwritten(y, z) \in Seq(Nat) /\ Len(Overwritten(y, z)) <= n
        BY <3>2, <3>5, <4>2, OverwrittenFacts
      <4> QED BY <4>3 DEF y, z
    <3>7. buf(i) = [e EXCEPT !.cells = c]
      BY <2>2
    <3> HIDE DEF e, buf, c, z, b
    <3>8. buf(i) \in Buffer /\ buf(i).capacity = n /\ buf(i).cells = c
      BY <2>1, <3>6, <3>7 DEF Buffer
    <3> QED BY <2>1, <3>6, <3>8 DEF e
  <2>3. CASE ~hit(i)
    <3>1. buf(i) = e
      BY <2>3
    <3> HIDE DEF buf, e
    <3> QED BY <2>1, <3>1 DEF e
  <2> QED BY <2>2, <2>3
<1>11. /\ DOMAIN E = DOMAIN heap[b]
       /\ \A i \in DOMAIN heap[b] : E[i] = buf(i)
       /\ E = [i \in DOMAIN heap[b] |-> E[i]]
  OBVIOUS
<1> HIDE DEF E, buf
<1>12. E \in Seq(Buffer)
  <2>1. heap[b] \in Seq(Buffer)
    <3> DEFINE B == Seq(Buffer)
    <3>1. heap \in Seq(B) /\ b \in 1..Len(heap)
      BY <1>3, <1>5
    <3> HIDE DEF B, b
    <3>2. heap[b] \in B
      BY <3>1
    <3> QED BY <3>2 DEF B
  <2> DEFINE k == Len(heap[b])
  <2>2. k \in Nat /\ DOMAIN heap[b] = 1..k
    <3> DEFINE y == heap[b]
    <3>1. y \in Seq(Buffer)
      BY <2>1
    <3> HIDE DEF y
    <3>2. Len(y) \in Nat /\ DOMAIN y = 1..Len(y)
      BY <3>1
    <3> QED BY <3>2 DEF y
  <2> HIDE DEF k, b
  <2>3. E \in [1..k -> Buffer]
    <3>1. \A i \in 1..k : E[i] \in Buffer
      BY <1>10, <1>11, <2>2
    <3>2. E = [i \in 1..k |-> E[i]]
      BY <1>11, <2>2
    <3> QED BY <3>1, <3>2
  <2> QED BY <2>2, <2>3
<1> HIDE DEF b
<1>13. /\ heap' \in Seq(Seq(Buffer)) /\ Len(heap') = Len(heap) /\ heap'[b] = E
       /\ \A h \in 1..Len(heap) : h # b => heap'[h] = heap[h]
  <2> DEFINE B == Seq(Buffer)
  <2>1. heap \in Seq(B) /\ E \in B
    BY <1>3, <1>12
  <2> HIDE DEF B
  <2>2. heap' \in Seq(B) /\ Len(heap') = Len(heap) /\ heap'[b] = E
        /\ \A h \in 1..Len(heap) : h # b => heap'[h] = heap[h]
    BY <1>1, <1>5, <2>1
  <2> QED BY <2>2 DEF B
<1>14. ASSUME NEW h \in 1..Len(heap)
       PROVE  /\ DOMAIN heap'[h] = DOMAIN heap[h]
              /\ \A i \in DOMAIN heap[h] :
                    /\ heap'[h][i].capacity = heap[h][i].capacity
                    /\ Len(heap'[h][i].cells) <= heap'[h][i].capacity
  <2>1. CASE h = b
    BY <1>10, <1>11, <1>13, <2>1
  <2>2. CASE h # b
    <3>1. heap'[h] = heap[h] /\ h \in DOMAIN heap
      BY <1>3, <1>13, <2>2
    <3> QED BY <3>1 DEF HeapInv, MatchFitsBuffer
  <2> QED BY <2>1, <2>2
<1>15. HeapInv'
  <2>1. Len(ready) = Len(heap) /\ ready \in Seq(SUBSET Nat)
        /\ \A h \in 1..Len(ready) : ready[h] \subseteq 1..Len(documents)
    BY DEF HeapInv
  <2>2. DOMAIN heap' = 1..Len(heap)
    BY <1>13
  <2>3. MatchFitsBuffer'
    BY <1>14, <2>2 DEF MatchFitsBuffer
  <2> QED BY <1>1, <1>2, <1>13, <2>1, <2>3 DEF HeapInv
<1> HIDE DEF old, keys
<1>16. /\ sets' \in Seq(SetRecord) /\ Len(sets') = Len(sets) /\ sets'[s] = x
       /\ \A i \in 1..Len(sets) : i # s => sets'[i] = sets[i]
  BY <1>1, <1>3, <1>9
<1>17. ASSUME NEW i \in DOMAIN old.terms
       PROVE  x.terms[i].max_term_size = old.terms[i].max_term_size
  BY <1>7, <1>8, <1>9
<1>18. ASSUME NEW i \in 1..Len(sets)
       PROVE  SetAscends(sets[i])' /\ SetPassed(sets[i], passed[i])' /\ SetReady(sets[i])'
  <2> DEFINE w == sets[i]
             c == w.term_positions
  <2>1. SetAscends(w) /\ SetPassed(w, passed[i]) /\ SetReady(w)
    BY DEF SetsInv
  <2>2. /\ SetAscends(sets'[i]) /\ sets'[i].term_positions = c
        /\ Keys(sets'[i]) = Keys(w) /\ DOMAIN sets'[i].terms = DOMAIN w.terms
        /\ \A j \in DOMAIN w.terms :
              sets'[i].terms[j].max_term_size = w.terms[j].max_term_size
    <3>1. CASE i = s
      BY <1>8, <1>9, <1>16, <1>17, <3>1 DEF b, keys, old
    <3>2. CASE i # s
      BY <1>16, <2>1, <3>2
    <3> QED BY <3>1, <3>2
  <2> HIDE DEF w
  <2>3. SetAscends(sets[i])'
    BY <2>2 DEF SetAscends
  <2>4. SetPassed(sets[i], passed[i])'
    BY <1>1, <1>2, <2>1, <2>2 DEF SetPassed
  <2>5. c \in 0..Len(heap) /\ Len(heap) \in Nat
    BY <1>3, <2>1 DEF SetReady
  <2>6. CASE c = 0
    BY <1>13, <2>2, <2>3, <2>4, <2>5, <2>6 DEF SetReady
  <2>7. CASE c # 0
    <3>1. c \in 1..Len(heap)
      BY <2>5, <2>7
    <3>2. /\ DOMAIN heap'[c] = DOMAIN w.terms
          /\ \A j \in DOMAIN w.terms : heap'[c][j].capacity = heap[c][j].capacity
          /\ c \in 0..Len(heap')
      <4>1. DOMAIN heap[c] = DOMAIN w.terms
        BY <2>1, <2>7 DEF SetReady
      <4> HIDE DEF c
      <4> QED BY <1>13, <1>14, <2>5, <3>1, <4>1
    <3>3. SetReady(sets[i])'
      <4>1. /\ \A e \in ready[c] : \A j \in DOMAIN w.terms :
                  FitsIn(documents[e].document, Keys(w), j, heap[c][j].capacity - 1)
        BY <2>1, <2>7 DEF SetReady
      <4>2. \A e \in ready'[c] : \A j \in DOMAIN w.terms :
               FitsIn(documents'[e].document, Keys(w), j, heap'[c][j].capacity - 1)
        <5>1. ready' = ready
          BY <1>1
        <5> HIDE DEF c
        <5> QED BY <1>2, <3>2, <4>1, <5>1
      <4> QED BY <2>2, <3>2, <4>2 DEF SetReady
    <3> QED BY <2>3, <2>4, <3>3
  <2> QED BY <2>3, <2>4, <2>6, <2>7
<1>19. SetsInv'
  BY <1>1, <1>16, <1>18 DEF SetsInv
<1> QED BY <1>2, <1>15, <1>19

\* Every call preserves the invariant.
LEMMA TermSetInvStep == TermSetInv /\ [Next]_vars => TermSetInv'
<1> SUFFICES ASSUME TermSetInv, [Next]_vars PROVE TermSetInv'
  OBVIOUS
<1>1. CASE UNCHANGED vars
  <2>1. DocumentInv'
    BY <1>1, DocumentInvStutters DEF TermSetInv, vars
  <2>2. SetsInv'
    BY <1>1 DEF TermSetInv, SetsInv, SetAscends, SetPassed, SetReady, vars,
                setVars, builderVars
  <2>3. HeapInv'
    BY <1>1 DEF TermSetInv, HeapInv, MatchFitsBuffer, vars, setVars, builderVars
  <2> QED BY <2>1, <2>2, <2>3 DEF TermSetInv
<1>2. CASE BuilderNext /\ UNCHANGED setVars
  BY <1>2, BuilderStep
<1>3. CASE SetNext
  <2>1. CASE \E query \in Queries : Construct(query)
    BY <2>1, ConstructStep
  <2>2. ASSUME NEW s \in 1..Len(sets), Copy(s) PROVE TermSetInv'
    BY <2>2, CopyStep
  <2>3. ASSUME NEW s \in 1..Len(sets), Prepare(s) PROVE TermSetInv'
    BY <2>3, PrepareStep
  <2>4. ASSUME NEW s \in 1..Len(sets), NEW src \in 1..Len(sets), AddSetFreq(s, src)
        PROVE  TermSetInv'
    BY <2>4, AddSetFreqStep
  <2>5. ASSUME NEW s \in 1..Len(sets), NEW d \in 1..Len(documents),
               UpdateFrequency(s, d)
        PROVE  TermSetInv'
    BY <2>5, UpdateFrequencyStep
  <2>6. ASSUME NEW s \in 1..Len(sets), NEW d \in 1..Len(documents), MatchSet(s, d)
        PROVE  TermSetInv'
    BY <2>6, MatchSetStep
  <2> QED BY <1>3, <2>1, <2>2, <2>3, <2>4, <2>5, <2>6 DEF SetNext
<1> QED BY <1>1, <1>2, <1>3 DEF Next

\* So it holds in every behaviour.
LEMMA TermSetInvAlways == Spec => []TermSetInv
BY TermSetInvInit, TermSetInvStep, PTL DEF Spec

\* The invariant implies the types.
LEMMA TermSetInvTypeOK == TermSetInv => TypeOK
<1> SUFFICES ASSUME TermSetInv PROVE TypeOK
  OBVIOUS
<1> USE DEF TermSetInv
<1>1. term_bh \subseteq [record : Record, copy : Nat] /\ document_length \in 0..MaxTerms
  <2>1. /\ term_bh \in SUBSET [record : Record, copy : Nat] /\ IsFiniteSet(term_bh)
        /\ document_length \in Nat /\ document_length <= Cardinality(term_bh)
        /\ Cardinality(term_bh) <= MaxTerms
    BY DEF DocumentInv, RecordsInv, LengthInv
  <2>2. Cardinality(term_bh) \in Nat
    BY <2>1, FS_CardinalityType
  <2> QED BY <2>1, <2>2, DocumentBuilderAssumption
<1>2. ASSUME NEW d \in DOMAIN documents
      PROVE  documents[d].given.records \in Seq(Record)
  <2> DEFINE Doc == [given : GivenDocument, document : Seq(Nat)]
  <2>1. documents \in Seq(Doc)
    BY DEF DocumentInv, DocumentsInv
  <2>2. documents[d] \in Doc
    <3> HIDE DEF Doc
    <3> QED BY <2>1
  <2> QED BY <2>2 DEF GivenDocument
<1>3. /\ sets \in Seq(SetRecord) /\ passed \in Seq(SUBSET Nat)
      /\ Len(passed) = Len(sets)
      /\ heap \in Seq(Seq(Buffer)) /\ ready \in Seq(SUBSET Nat)
      /\ Len(ready) = Len(heap)
  BY DEF SetsInv, HeapInv
<1>4. ASSUME NEW s \in DOMAIN sets
      PROVE  /\ sets[s].terms \in Seq(TermData)
             /\ sets[s].term_positions \in DOMAIN heap \cup {0}
             /\ SetAscends(sets[s])
  <2>1. s \in 1..Len(sets) /\ sets[s] \in SetRecord
    BY <1>3
  <2>2. SetAscends(sets[s]) /\ SetReady(sets[s])
    BY <2>1 DEF SetsInv
  <2>3. DOMAIN heap = 1..Len(heap) /\ Len(heap) \in Nat
    BY <1>3
  <2>4. sets[s].terms \in Seq(TermData)
    BY <2>1 DEF SetRecord
  <2>5. sets[s].term_positions \in 0..Len(heap)
    BY <2>2 DEF SetReady
  <2> QED BY <2>2, <2>3, <2>4, <2>5
<1>5. DOMAIN passed = DOMAIN sets /\ DOMAIN ready = DOMAIN heap
  BY <1>3
<1> QED BY <1>1, <1>2, <1>4, <1>5 DEF TypeOK, SetAscends

\* In every state the sets' terms ascend, as the merge needs them to, their
\* buffers exist and the records, sizes and ends are numbers.
THEOREM TermSetsTypeOK == Spec => []TypeOK
BY TermSetInvAlways, TermSetInvTypeOK, PTL

\* No match of a set with a document that its buffers were sized by decodes
\* more positions than sil_document_image_match_prepare_for_set made room for.
THEOREM MatchFitsBufferAlways == Spec => []MatchFitsBuffer
<1>1. TermSetInv => MatchFitsBuffer
  BY DEF TermSetInv, HeapInv
<1> QED BY <1>1, TermSetInvAlways, PTL
-----------------------------------------------------------------------------
(***************************************************************************)
(* What a posting says of its term.                                        *)
(***************************************************************************)
\* What TermMatch says of a term of a document, for its records.
IndexesOf(records, x) == {i \in DOMAIN records : records[i].term = x}
PositionsSaid(records, x) ==
    LET placed == Ascending({i \in IndexesOf(records, x) : records[i].position # 0})
    IN  [k \in DOMAIN placed |-> records[placed[k]].position]
ValueSaid(records, x, old, new) ==
    LET plain     == {i \in IndexesOf(records, x) : records[i].position = 0}
        stored(i) == records[i].value # 0 \/ IndexesOf(records, x) = {i}
    IN  IF plain = {} THEN new = old
        ELSE \E i \in plain : new = IF stored(i) THEN records[i].value ELSE old

\* ps are positions of records in their order, with every one that is not 0.
Follows(records, x, ps, g) ==
    /\ ps \in Seq(Nat) /\ g \in [1..Len(ps) -> IndexesOf(records, x)]
    /\ \A i, j \in 1..Len(ps) : i < j => g[i] < g[j]
    /\ \A k \in 1..Len(ps) : ps[k] = records[g[k]].position
    /\ \A i \in IndexesOf(records, x) :
          records[i].position # 0 => \E k \in 1..Len(ps) : g[k] = i

\* The postings of a document and the indexes of their records.
RecordsListed(records, x, recs, places) ==
    /\ places \in [1..Len(recs) -> IndexesOf(records, x)]
    /\ \A i, j \in 1..Len(recs) : i < j => places[i] < places[j]
    /\ \A k \in 1..Len(recs) : recs[k] = records[places[k]]
    /\ \A i \in IndexesOf(records, x) : \E k \in 1..Len(recs) : places[k] = i

\* The records of a term are listed in the order of the document.
LEMMA PostingRecords ==
    ASSUME NEW d, d.records \in Seq(Record), NEW x
    PROVE  \E places : RecordsListed(d.records, x, RecordsWith(d, x), places)
<1> DEFINE n      == Len(d.records)
           I      == {k \in 1..n : d.records[k].term = x}
           places == Ascending(I)
           c      == Cardinality(I)
           recs   == [k \in 1..c |-> d.records[places[k]]]
<1>1. n \in Nat /\ DOMAIN d.records = 1..n
  OBVIOUS
<1>2. I \in SUBSET Nat /\ IsFiniteSet(I) /\ c \in Nat
  BY <1>1, IndexSets
<1>3. IndexesOf(d.records, x) = I
  BY <1>1 DEF IndexesOf
<1>4. RecordsWith(d, x) = [k \in 1..Len(places) |-> d.records[places[k]]]
  BY DEF RecordsWith
<1> HIDE DEF I
<1>5. /\ places \in [1..c -> I]
      /\ \A i, j \in 1..c : i < j => places[i] < places[j]
      /\ \A k \in I : \E i \in 1..c : places[i] = k
  BY <1>2, AscendingFacts
<1> HIDE DEF places, c
<1>6. Len(places) = c
  BY <1>2, <1>5
<1>7. RecordsWith(d, x) = recs /\ Len(recs) = c /\ \A k \in 1..c : recs[k] = d.records[places[k]]
  BY <1>2, <1>4, <1>6
<1> HIDE DEF recs
<1>8. RecordsListed(d.records, x, recs, places)
  BY <1>3, <1>5, <1>7 DEF RecordsListed
<1> QED BY <1>7, <1>8

\* The positions of the posting follow the records.
LEMMA PositionsFollow ==
    ASSUME NEW records, NEW x, NEW recs, NEW places,
           RecordsListed(records, x, recs, places), RecordsAscend(recs)
    PROVE  \E g : Follows(records, x, PositionsOf(recs), g)
<1> DEFINE n  == Len(recs)
           ps == PositionsOf(recs)
           R  == IndexesOf(records, x)
<1>1. /\ n \in Nat \ {0} /\ recs = [i \in 1..n |-> recs[i]]
      /\ \A i \in 1..n : recs[i].position \in Nat
  BY DEF RecordsAscend
<1>2. /\ places \in [1..n -> R]
      /\ \A i, j \in 1..n : i < j => places[i] < places[j]
      /\ \A k \in 1..n : recs[k] = records[places[k]]
      /\ \A i \in R : \E k \in 1..n : places[k] = i
  BY DEF RecordsListed
<1>3. CASE OnlyValue(recs)
  <2> DEFINE g == [i \in 1..0 |-> 0]
  <2>1. ps = <<>> /\ n = 1 /\ recs[1].position = 0
    BY <1>3 DEF PositionsOf, OnlyValue
  <2>2. ps \in Seq(Nat) /\ Len(ps) = 0
    BY <2>1
  <2>3. \A i \in R : records[i].position = 0
    BY <1>2, <2>1
  <2>4. g \in [1..0 -> R]
    OBVIOUS
  <2> HIDE DEF g, ps
  <2>5. /\ \A i, j \in 1..Len(ps) : i < j => g[i] < g[j]
        /\ \A k \in 1..Len(ps) : ps[k] = records[g[k]].position
    BY <2>2
  <2>6. Follows(records, x, ps, g)
    BY <2>2, <2>3, <2>4, <2>5 DEF Follows, R
  <2> QED BY <2>6 DEF ps
<1>4. CASE ~OnlyValue(recs) /\ ValueFirst(recs)
  <2> DEFINE k == n - 1
             g == [i \in 1..k |-> places[i + 1]]
  <2>1. n # 1 /\ recs[1].position = 0
    BY <1>1, <1>4 DEF OnlyValue, ValueFirst
  <2>2. k \in Nat \ {0} /\ n = k + 1 /\ \A i \in 1..k : i + 1 \in 1..n
    BY <1>1, <2>1
  <2>3. Len(Tail(recs)) = k /\ \A i \in 1..k : Tail(recs)[i] = recs[i + 1]
    <3>1. recs \in Seq({recs[i] : i \in 1..n})
      BY <1>1
    <3> HIDE DEF n
    <3> QED BY <1>1, <2>1, <3>1 DEF n
  <2>4. ps = [i \in 1..k |-> recs[i + 1].position]
    BY <1>4, <2>3 DEF PositionsOf
  <2> HIDE DEF n, k, ps
  <2>5. ps \in Seq(Nat) /\ Len(ps) = k /\ \A i \in 1..k : ps[i] = recs[i + 1].position
    <3>1. \A i \in 1..k : recs[i + 1].position \in Nat
      BY <1>1, <2>2
    <3> QED BY ONLY <2>2, <2>4, <3>1
  <2>6. g \in [1..k -> R] /\ \A i \in 1..k : g[i] = places[i + 1]
    BY <1>2, <2>2
  <2>7. \A i, j \in 1..k : i < j => g[i] < g[j]
    <3>1. \A i, j \in 1..k : i < j => i + 1 < j + 1
      BY <2>2
    <3> HIDE DEF g
    <3> QED BY <1>2, <2>2, <2>6, <3>1
  <2>8. \A i \in 1..k : ps[i] = records[g[i]].position
    <3> HIDE DEF g
    <3>1. ASSUME NEW i \in 1..k PROVE ps[i] = records[g[i]].position
      <4>1. ps[i] = recs[i + 1].position /\ g[i] = places[i + 1] /\ i + 1 \in 1..n
        BY <2>2, <2>5, <2>6
      <4>2. recs[i + 1] = records[places[i + 1]]
        BY <1>2, <4>1
      <4> QED BY <4>1, <4>2
    <3> QED BY <3>1
  <2>9. ASSUME NEW i \in R, records[i].position # 0 PROVE \E j \in 1..k : g[j] = i
    <3>1. PICK q \in 1..n : places[q] = i
      BY <1>2
    <3>2. q # 1
      BY <1>2, <2>1, <2>9, <3>1
    <3>3. q - 1 \in 1..k /\ (q - 1) + 1 = q
      BY <2>2, <3>2
    <3>4. g[q - 1] = i
      <4> HIDE DEF g
      <4> QED BY <2>6, <3>1, <3>3
    <3> QED BY <3>3, <3>4
  <2> HIDE DEF g
  <2>10. Follows(records, x, ps, g)
    BY <2>5, <2>6, <2>7, <2>8, <2>9 DEF Follows
  <2> QED BY <2>10 DEF ps
<1>5. CASE ~OnlyValue(recs) /\ ~ValueFirst(recs)
  <2>1. ps = [i \in 1..n |-> recs[i].position]
    BY <1>5 DEF PositionsOf
  <2> HIDE DEF n, ps
  <2>2. ps \in Seq(Nat) /\ Len(ps) = n /\ \A i \in 1..n : ps[i] = recs[i].position
    BY <1>1, <2>1
  <2>3. Follows(records, x, ps, places)
    BY <1>2, <2>2 DEF Follows
  <2> QED BY <2>3 DEF ps
<1> QED BY <1>3, <1>4, <1>5

\* Without the zeros they are what TermMatch says.
LEMMA FollowersSaid ==
    ASSUME NEW records \in Seq(Record), NEW x, NEW ps, NEW g, Follows(records, x, ps, g)
    PROVE  Nonzero(ps) = PositionsSaid(records, x)
<1> DEFINE n  == Len(ps)
           R  == IndexesOf(records, x)
           J  == {i \in R : records[i].position # 0}
           Z  == {k \in 1..n : ps[k] # 0}
           zl == Ascending(Z)
           c  == Cardinality(Z)
           f  == [k \in 1..c |-> g[zl[k]]]
<1>1. /\ n \in Nat /\ ps \in Seq(Nat) /\ g \in [1..n -> R]
      /\ \A i, j \in 1..n : i < j => g[i] < g[j]
      /\ \A k \in 1..n : ps[k] = records[g[k]].position
      /\ \A i \in R : records[i].position # 0 => \E k \in 1..n : g[k] = i
  BY DEF Follows
<1>2. Z \in SUBSET Nat /\ IsFiniteSet(Z) /\ c \in Nat
  BY <1>1, IndexSets
<1>3. J \in SUBSET Nat /\ IsFiniteSet(J)
  <2>1. Len(records) \in Nat /\ DOMAIN records = 1..Len(records)
    OBVIOUS
  <2>2. J \in SUBSET (1..Len(records))
    BY <2>1 DEF IndexesOf
  <2> HIDE DEF J
  <2> QED BY <2>1, <2>2, IndexSets
<1>4. \A k \in 1..n : k \in Z <=> ps[k] # 0
  OBVIOUS
<1>41. Z \in SUBSET (1..n)
  OBVIOUS
<1>5. \A i : i \in J <=> i \in R /\ records[i].position # 0
  OBVIOUS
<1>51. DOMAIN ps = 1..n
  BY <1>1
<1>52. PositionsSaid(records, x)
         = [k \in DOMAIN Ascending(J) |-> records[Ascending(J)[k]].position]
  BY DEF PositionsSaid
<1>53. Nonzero(ps) = IF \A k \in 1..n : ps[k] # 0 THEN ps
                     ELSE [k \in DOMAIN zl |-> ps[zl[k]]]
  BY <1>51 DEF Nonzero
<1> HIDE DEF Z, J, n, R
<1>6. /\ zl \in [1..c -> Z]
      /\ \A i, j \in 1..c : i < j => zl[i] < zl[j]
      /\ \A k \in Z : \E i \in 1..c : zl[i] = k
  BY <1>2, AscendingFacts
<1> HIDE DEF zl, c
<1>7. \A k \in 1..c : zl[k] \in Z /\ zl[k] \in 1..n /\ f[k] = g[zl[k]]
  BY <1>41, <1>6
<1>8. f \in [1..c -> J]
  <2>1. ASSUME NEW k \in 1..c PROVE g[zl[k]] \in J
    BY <1>1, <1>4, <1>5, <1>7
  <2> QED BY <2>1
<1> HIDE DEF f
<1>9. \A i, j \in 1..c : i < j => f[i] < f[j]
  BY <1>1, <1>6, <1>7
<1>10. \A i \in J : \E k \in 1..c : f[k] = i
  <2> SUFFICES ASSUME NEW i \in J PROVE \E k \in 1..c : f[k] = i
    OBVIOUS
  <2>1. PICK q \in 1..n : g[q] = i
    BY <1>1, <1>5
  <2>2. q \in Z
    BY <1>1, <1>4, <1>5, <2>1
  <2>3. PICK k \in 1..c : zl[k] = q
    BY <1>6, <2>2
  <2> QED BY <1>7, <2>1, <2>3
<1>11. c = Cardinality(J) /\ f = Ascending(J)
  <2>1. Listed(f, c, J)
    BY <1>8, <1>9, <1>10 DEF Listed
  <2> QED BY <1>2, <1>3, <2>1, AscendingUnique
<1>12. DOMAIN f = 1..c /\ DOMAIN zl = 1..c
  BY <1>6, <1>8
<1>13. PositionsSaid(records, x) = [k \in 1..c |-> records[f[k]].position]
  BY <1>11, <1>12, <1>52
<1>14. \A k \in 1..c : records[f[k]].position = ps[zl[k]]
  BY <1>1, <1>7
<1>15. PositionsSaid(records, x) = [k \in DOMAIN zl |-> ps[zl[k]]]
  BY <1>12, <1>13, <1>14
<1>16. CASE \A k \in 1..n : ps[k] # 0
  <2> DEFINE id == [k \in 1..n |-> k]
  <2>1. Z = 1..n
    BY <1>4, <1>41, <1>16
  <2>2. Listed(id, n, Z)
    BY <1>1, <2>1 DEF Listed
  <2>3. n = c /\ id = zl
    <3> HIDE DEF id
    <3> QED BY <1>1, <1>2, <2>2, AscendingUnique DEF zl, c
  <2>4. ps = [k \in 1..n |-> ps[k]]
    BY <1>1, <1>51
  <2>5. \A k \in 1..n : zl[k] = k
    BY <2>3
  <2> HIDE DEF id
  <2>6. ps = [k \in DOMAIN zl |-> ps[zl[k]]]
    BY <1>12, <2>3, <2>4, <2>5
  <2> QED BY <1>15, <1>16, <1>53, <2>6
<1>17. CASE ~(\A k \in 1..n : ps[k] # 0)
  BY <1>15, <1>17, <1>53
<1> QED BY <1>16, <1>17

\* The posting stores the value of its first record if that has no position
\* and is alone or not 0; otherwise the old value stays.
LEMMA ValueFollows ==
    ASSUME NEW records \in Seq(Record), NEW x, NEW recs, NEW places,
           RecordsListed(records, x, recs, places), RecordsAscend(recs), NEW old
    PROVE  ValueSaid(records, x, old,
              IF OnlyValue(recs) \/ ValueFirst(recs) THEN recs[1].value ELSE old)
<1> DEFINE n     == Len(recs)
           R     == IndexesOf(records, x)
           plain == {i \in R : records[i].position = 0}
           v     == IF OnlyValue(recs) \/ ValueFirst(recs) THEN recs[1].value ELSE old
           first == places[1]
           stored(i) == records[i].value # 0 \/ R = {i}
<1>1. /\ n \in Nat \ {0} /\ \A i \in 1..n : recs[i].position \in Nat
      /\ \A i, j \in 1..n : i < j => recs[i].position <= recs[j].position
  BY DEF RecordsAscend
<1>2. /\ places \in [1..n -> R]
      /\ \A i, j \in 1..n : i < j => places[i] < places[j]
      /\ \A k \in 1..n : recs[k] = records[places[k]]
      /\ \A i \in R : \E k \in 1..n : places[k] = i
  BY DEF RecordsListed
<1>3. 1 \in 1..n /\ first \in R /\ recs[1] = records[first]
  BY <1>1, <1>2
<1>4. CASE plain = {}
  <2>1. recs[1].position # 0
    BY <1>3, <1>4
  <2> QED BY <1>4, <2>1 DEF OnlyValue, ValueFirst, ValueSaid
<1>5. CASE plain # {}
  <2>1. PICK i \in R : records[i].position = 0
    BY <1>5
  <2>2. PICK k \in 1..n : places[k] = i
    BY <1>2
  <2>3. recs[1].position = 0
    <3>1. recs[k].position = 0 /\ (k = 1 \/ 1 < k)
      BY <1>1, <1>2, <2>1, <2>2
    <3>2. recs[1].position \in Nat /\ (1 < k => recs[1].position <= recs[k].position)
      BY <1>1, <1>3
    <3> QED BY <3>1, <3>2
  <2>4. first \in plain
    BY <1>3, <2>3
  <2>5. n = 1 <=> R = {first}
    <3>1. ASSUME n = 1 PROVE R = {first}
      <4>1. 1..n = {1}
        BY <3>1
      <4> QED BY <1>2, <1>3, <4>1
    <3>2. ASSUME n # 1 PROVE R # {first}
      <4>1. 2 \in 1..n /\ 1 < 2
        <5>1. n \in Nat \ {0} /\ n # 1
          BY <1>1, <3>2
        <5> HIDE DEF n
        <5> QED BY ONLY <5>1
      <4>2. places[2] \in R /\ places[1] < places[2]
        BY <1>2, <1>3, <4>1
      <4>3. R \subseteq Int
        BY DEF IndexesOf
      <4>4. places[2] # places[1]
        BY <1>3, <4>2, <4>3
      <4> QED BY <4>2, <4>4
    <3> QED BY <3>1, <3>2
  <2>6. v = IF stored(first) THEN records[first].value ELSE old
    BY <1>3, <2>3, <2>5 DEF OnlyValue, ValueFirst
  <2> QED BY <1>5, <2>4, <2>6 DEF ValueSaid
<1> QED BY <1>4, <1>5

\* The documents that the builder wrote.
BuiltDocument == [given : GivenDocument, document : Seq(Nat)]

\* The i-th key is found in the document x, with what TermMatch says of it.
ReadsAs(x, keys, i, old) ==
    LET a == AdvanceDocumentId(x.document, PlaceIn(x.document, keys, i), old)
    IN  /\ ValueSaid(x.given.records, keys[i], old, a.value)
        /\ Nonzero(Decoded(x.document, a)) = PositionsSaid(x.given.records, keys[i])

\* The merge finds the i-th key.
Hit(m, keys, i) == \E h \in HitsIn(m, keys) : h[1] = i

\* A merge finds the terms that the records have and no others, and decodes
\* what the records say of them.
LEMMA DocumentRead ==
    ASSUME DocumentAt = PrefixSize + 1, NEW x \in BuiltDocument, Written(x),
           DocumentInWidths(x.given), NEW keys \in Seq(Nat), StrictlyUp(keys),
           NEW i \in 1..Len(keys)
    PROVE  /\ Hit(x.document, keys, i) <=> IndexesOf(x.given.records, keys[i]) # {}
           /\ Hit(x.document, keys, i) => \A old \in Nat : ReadsAs(x, keys, i, old)
<1> DEFINE d     == x.given
           m     == x.document
           image == Image(m, DocumentAt)
           S     == LettersOf(d)
           key   == keys[i]
           n     == Len(keys)
<1>1. d \in GivenDocument /\ m \in Seq(Nat) /\ InSortOrder(d) /\ m = Blob(d)
  BY DEF BuiltDocument, Written
<1>2. d.records \in Seq(Record) /\ key \in Nat /\ i \in 1..n
  BY <1>1 DEF InSortOrder
<1>3. image.terms \in Nat /\ image.content \in Nat
  <2> HIDE DEF m
  <2> QED BY <1>1, ImageFacts
<1>4. S \in SUBSET (1..255)
  <2> HIDE DEF d
  <2> QED BY <1>2, LettersFacts
<1> HIDE DEF d, m, image
<1>5. DocumentInWidths(d)
  BY DEF d
<1>6. PICK at, end : Shown(d, Blob(d), Image(Blob(d), DocumentAt), at, end)
  BY <1>1, <1>5, DocumentShown
<1>7. Shown(d, m, image, at, end)
  BY <1>1, <1>6 DEF image
<1>8. Walk(S, m, image.terms, image.content, at, end)
  BY <1>7 DEF Shown
<1> HIDE DEF S, key, n
<1>9. HitsIn(m, keys) = KeyHits(S, at, keys)
  <2>1. Merge(m, image, keys) = KeyHits(S, at, keys)
    <3>1. Mergeable(S, m, image, at, end, keys)
      BY <1>1, <1>3, <1>4, <1>8 DEF Mergeable
    <3> QED BY <3>1, MergeFinds
  <2> QED BY <2>1 DEF HitsIn, image
<1>10. KeyHits(S, at, keys) = {<<j, at[keys[j]] + 2>> : j \in {j \in 1..n : keys[j] \in S}}
  BY DEF KeyHits, Places, n
<1>11. Hit(m, keys, i) <=> key \in S
  <2>1. ASSUME NEW h \in KeyHits(S, at, keys), h[1] = i PROVE key \in S
    <3>1. PICK j \in {j \in 1..n : keys[j] \in S} : h = <<j, at[keys[j]] + 2>>
      BY <1>10
    <3>2. j = i
      BY <2>1, <3>1
    <3> QED BY <3>1, <3>2 DEF key
  <2>2. ASSUME key \in S PROVE \E h \in KeyHits(S, at, keys) : h[1] = i
    <3> DEFINE h == <<i, at[keys[i]] + 2>>
    <3>1. i \in {j \in 1..n : keys[j] \in S}
      BY <1>2, <2>2 DEF key
    <3>2. h \in KeyHits(S, at, keys) /\ h[1] = i
      BY <1>10, <3>1
    <3> QED BY <3>2
  <2> QED BY <1>9, <2>1, <2>2 DEF Hit
<1>12. key \in S <=> IndexesOf(d.records, key) # {}
  <2>1. DOMAIN d.records = 1..Len(d.records)
    BY <1>2
  <2> QED BY <2>1 DEF S, LettersOf, IndexesOf
<1>13. ASSUME key \in S, NEW old \in Nat PROVE ReadsAs(x, keys, i, old)
  <2> DEFINE p    == PlaceIn(m, keys, i)
             a    == AdvanceDocumentId(m, p, old)
             recs == RecordsWith(d, key)
  <2>1. p = at[key] + 2
    <3> DEFINE h == CHOOSE h \in HitsIn(m, keys) : h[1] = i
    <3>1. h \in HitsIn(m, keys) /\ h[1] = i
      BY <1>11, <1>13 DEF Hit
    <3>2. p = h[2]
      BY DEF PlaceIn
    <3> HIDE DEF h, p
    <3>3. PICK j \in {j \in 1..n : keys[j] \in S} : h = <<j, at[keys[j]] + 2>>
      BY <1>9, <1>10, <3>1
    <3>4. j = i
      BY <3>1, <3>3
    <3> QED BY <3>2, <3>3, <3>4 DEF key
  <2>2. p \in Nat
    <3> HIDE DEF p
    <3> QED BY <1>8, <1>13, <2>1 DEF Walk
  <2> HIDE DEF p
  <2>3. StoredAt(m, p, DocumentPosting(recs))
    BY <1>7, <1>13, <2>1 DEF Shown, S
  <2>4. key \in LettersOf(d)
    BY <1>13 DEF S
  <2>5. NarrowPosting(recs) /\ RecordsAscend(recs)
    <3>1. NarrowPosting(recs)
      BY <1>1, <1>5, <2>4, TermIsNarrow
    <3> QED BY <3>1 DEF NarrowPosting
  <2>6. PICK places : RecordsListed(d.records, key, recs, places)
    BY <1>2, PostingRecords
  <2> HIDE DEF recs
  <2>7. ValueSaid(d.records, key, old, a.value)
    <3>1. a.value = IF OnlyValue(recs) \/ ValueFirst(recs) THEN recs[1].value ELSE old
      <4>1. DocumentDecoding(recs, m, a, old, p + Len(DocumentPosting(recs)))
        BY <2>3, <2>5, DocumentPostingBack
      <4> HIDE DEF a
      <4> QED BY <4>1 DEF DocumentDecoding
    <3> HIDE DEF a
    <3> QED BY <1>2, <2>5, <2>6, <3>1, ValueFollows
  <2>8. Nonzero(Decoded(m, a)) = PositionsSaid(d.records, key)
    <3>1. Decoded(m, a) = PositionsOf(recs)
      <4>1. NarrowPosting(recs) /\ StoredAt(m, p, DocumentPosting(recs)) /\ m \in Seq(Nat)
            /\ p \in Nat /\ old \in Nat
        BY <1>1, <2>2, <2>3, <2>5
      <4> DEFINE b == AdvanceDocumentId(m, p, old)
      <4>2. a.wp = AdvanceDocumentId(m, p, old).wp /\ a.p = AdvanceDocumentId(m, p, old).p
            /\ a.first_base = AdvanceDocumentId(m, p, old).first_base
        OBVIOUS
      <4> HIDE DEF a
      <4> QED BY <4>1, <4>2, DocumentPositionsBack
    <3>2. PICK g : Follows(d.records, key, PositionsOf(recs), g)
      BY <2>5, <2>6, PositionsFollow
    <3> QED BY <1>2, <3>1, <3>2, FollowersSaid
  <2> QED BY <2>7, <2>8 DEF ReadsAs, p, m, d, key
<1> QED BY <1>11, <1>12, <1>13 DEF m, d, key
-----------------------------------------------------------------------------
(***************************************************************************)
(* What a client sees of the sets.                                         *)
(***************************************************************************)
\* What is visible of a term, with the buffers as a parameter.
SeenPositions(hp, t, b, i) ==
    IF b = 0 \/ t.end > Len(hp[b][i].cells) THEN <<>>
    ELSE Nonzero(SubSeq(hp[b][i].cells, 1, t.end))
SeenTerm(hp, t, b, i) ==
    [term |-> t.term, query_term_freq |-> t.query_term_freq, freq |-> t.freq,
     match |-> t.match, value |-> t.value, positions |-> SeenPositions(hp, t, b, i)]
SeenSet(hp, set) ==
    [held |-> set.term_positions,
     terms |-> [i \in DOMAIN set.terms |->
                   SeenTerm(hp, set.terms[i], set.term_positions, i)]]

\* What is shown of a term.
Seen(term, q, f, m, v, p) ==
    [term |-> term, query_term_freq |-> q, freq |-> f, match |-> m, value |-> v,
     positions |-> p]

\* A shows the sets ss.
View(A, ss, hp) ==
    /\ Len(A) = Len(ss) /\ DOMAIN A = 1..Len(ss)
    /\ A = [s \in 1..Len(ss) |-> A[s]]
    /\ \A s \in 1..Len(ss) : A[s] = SeenSet(hp, ss[s])

\* The sets shown are the views of the sets.
LEMMA Viewed ==
    ASSUME NEW ss \in Seq(SetRecord), NEW hp, NEW A,
           A = [s \in DOMAIN ss |-> SeenSet(hp, ss[s])]
    PROVE  View(A, ss, hp)
<1> DEFINE n == Len(ss)
           V == {SeenSet(hp, ss[s]) : s \in 1..n}
<1>1. n \in Nat /\ DOMAIN ss = 1..n
  OBVIOUS
<1> HIDE DEF n
<1>2. A \in [1..n -> V]
  BY <1>1
<1>3. A \in Seq(V) /\ Len(A) = n
  <2> HIDE DEF V
  <2> QED BY <1>1, <1>2
<1> QED BY <1>1, <1>2, <1>3 DEF View, n

\* A term of the view.
LEMMA SeenFacts ==
    ASSUME NEW hp, NEW set
    PROVE  /\ SeenSet(hp, set).held = set.term_positions
           /\ DOMAIN SeenSet(hp, set).terms = DOMAIN set.terms
           /\ \A i \in DOMAIN set.terms :
                 SeenSet(hp, set).terms[i]
                   = SeenTerm(hp, set.terms[i], set.term_positions, i)
BY DEF SeenSet

\* It depends on the buffers that the set has.
LEMMA SeenInBuffers ==
    ASSUME NEW hp, NEW hq, NEW set,
           set.term_positions = 0 \/ hq[set.term_positions] = hp[set.term_positions]
    PROVE  SeenSet(hq, set) = SeenSet(hp, set)
<1>1. \A i \in DOMAIN set.terms :
         SeenPositions(hq, set.terms[i], set.term_positions, i)
           = SeenPositions(hp, set.terms[i], set.term_positions, i)
  BY DEF SeenPositions
<1>2. \A i \in DOMAIN set.terms :
         SeenTerm(hq, set.terms[i], set.term_positions, i)
           = SeenTerm(hp, set.terms[i], set.term_positions, i)
  BY <1>1 DEF SeenTerm
<1> QED BY <1>2 DEF SeenSet

\* The views of a state and of the next one.
LEMMA ViewsFacts ==
    ASSUME TermSetInv, TermSetInv'
    PROVE  View(ShownSets, sets, heap) /\ View(ShownSets', sets', heap')
<1>1. sets \in Seq(SetRecord) /\ sets' \in Seq(SetRecord)
  BY DEF TermSetInv, SetsInv
<1>2. ShownSets = [s \in DOMAIN sets |-> SeenSet(heap, sets[s])]
  BY DEF ShownSets, ShownSet, ShownTerm, Visible, SeenSet, SeenTerm, SeenPositions
<1>3. ShownSets' = [s \in DOMAIN sets' |-> SeenSet(heap', sets'[s])]
  BY DEF ShownSets, ShownSet, ShownTerm, Visible, SeenSet, SeenTerm, SeenPositions
<1>4. View(ShownSets, sets, heap)
  BY <1>1, <1>2, Viewed
<1>5. View(ShownSets', sets', heap')
  BY <1>1, <1>3, Viewed
<1> QED BY <1>4, <1>5

\* TermMatch has instances of its own of the library's operators.
LEMMA SameCardinality == ASSUME NEW S PROVE TM!Cardinality(S) = Cardinality(S)
BY Zenon DEF TM!Cardinality, Cardinality

\* So for what sorts a set.
LEMMA SameAscending == ASSUME NEW S PROVE TM!Ascending(S) = Ascending(S)
BY Zenon DEF TM!Ascending, Ascending, TM!Cardinality, Cardinality

\* And for the elements of a sequence.
LEMMA SameToSet == ASSUME NEW S PROVE TM!ToSet(S) = ToSet(S)
BY Zenon DEF TM!ToSet, ToSet

\* What TermMatch says of a document is said of its records.
LEMMA SaidOfRecords ==
    ASSUME NEW d \in DOMAIN documents, NEW x
    PROVE  /\ TM!Has(d, x) <=> IndexesOf(documents[d].given.records, x) # {}
           /\ TM!PositionsFor(d, x) = PositionsSaid(documents[d].given.records, x)
           /\ \A u, v : TM!ValueShown(d, x, u, v)
                           <=> ValueSaid(documents[d].given.records, x, u, v)
<1>1. ShownDocuments[d] = documents[d].given.records
  BY DEF ShownDocuments
<1>2. TM!Places(d, x) = IndexesOf(documents[d].given.records, x)
  BY <1>1, Zenon DEF TM!Places, IndexesOf
<1>3. TM!Has(d, x) <=> IndexesOf(documents[d].given.records, x) # {}
  BY <1>2, Zenon DEF TM!Has
<1>4. TM!PositionsFor(d, x) = PositionsSaid(documents[d].given.records, x)
  <2> DEFINE records == documents[d].given.records
             J == {i \in IndexesOf(records, x) : records[i].position # 0}
             K == {i \in TM!Places(d, x) : ShownDocuments[d][i].position # 0}
  <2>1. J = K
    BY <1>1, <1>2
  <2>2. TM!PositionsFor(d, x) = [k \in DOMAIN TM!Ascending(K)
                                   |-> ShownDocuments[d][TM!Ascending(K)[k]].position]
    BY Zenon DEF TM!PositionsFor
  <2>3. PositionsSaid(records, x) = [k \in DOMAIN Ascending(J)
                                       |-> records[Ascending(J)[k]].position]
    BY Zenon DEF PositionsSaid
  <2>4. TM!Ascending(K) = Ascending(J)
    BY <2>1, SameAscending
  <2> HIDE DEF J, K
  <2> QED BY <1>1, <2>2, <2>3, <2>4
<1>5. ASSUME NEW u, NEW v
      PROVE  TM!ValueShown(d, x, u, v) <=> ValueSaid(documents[d].given.records, x, u, v)
  BY <1>1, <1>2, Zenon DEF TM!ValueShown, ValueSaid
<1> QED BY <1>3, <1>4, <1>5
-----------------------------------------------------------------------------
(***************************************************************************)
(* The steps of TermMatch.                                                 *)
(***************************************************************************)
\* A call of the builder adds a document or shows nothing.
LEMMA BuilderImplements ==
    ASSUME TermSetInv, BuilderNext, UNCHANGED setVars
    PROVE  TM!AddDocument \/ UNCHANGED TM!vars
<1>1. ShownSets' = ShownSets
  BY DEF setVars, ShownSets, ShownSet, ShownTerm, Visible
<1>2. CASE documents' = documents
  <2>1. ShownDocuments' = ShownDocuments
    BY <1>2 DEF ShownDocuments
  <2> QED BY <1>1, <2>1 DEF TM!vars
<1>3. ASSUME NEW x, documents' = Append(documents, x) PROVE TM!AddDocument
  <2> DEFINE n == Len(documents)
             A == ShownDocuments
             B == ShownDocuments'
  <2>1. n \in Nat /\ DOMAIN documents = 1..n /\ documents \in Seq(BuiltDocument)
    BY DEF TermSetInv, DocumentInv, DocumentsInv, BuiltDocument
  <2>2. /\ DOMAIN documents' = 1..(n + 1)
        /\ \A d \in 1..n : documents'[d] = documents[d]
    BY <1>3, <2>1
  <2> HIDE DEF n
  <2>3. /\ A = [d \in 1..n |-> A[d]] /\ B = [d \in 1..(n + 1) |-> B[d]]
        /\ \A d \in 1..n : A[d] = documents[d].given.records
        /\ \A d \in 1..(n + 1) : B[d] = documents'[d].given.records
    BY <2>1, <2>2 DEF ShownDocuments
  <2> HIDE DEF A, B
  <2>4. \A d \in 1..n : d \in 1..(n + 1) /\ B[d] = A[d]
    BY <2>1, <2>2, <2>3
  <2>5. Len(A) = n /\ Len(B) = n + 1
    <3>1. n \in Nat /\ n + 1 \in Nat
      BY <2>1
    <3>2. A = [d \in 1..n |-> A[d]] /\ B = [d \in 1..(n + 1) |-> B[d]]
      BY <2>3
    <3>3. A \in Seq({A[d] : d \in 1..n})
      BY ONLY <3>1, <3>2
    <3>4. B \in Seq({B[d] : d \in 1..(n + 1)})
      BY ONLY <3>1, <3>2
    <3> QED BY <2>1, <2>3, <3>3, <3>4
  <2>6. TM!Grows(A, B)
    BY <2>3, <2>4, <2>5 DEF TM!Grows
  <2> QED BY <1>1, <2>6 DEF TM!AddDocument, A, B
<1>4. ASSUME NEW c \in ContentLengths, NEW e \in EmbeddingCounts, BuildDocument(c, e)
      PROVE  \E x : documents' = Append(documents, x)
  BY <1>4 DEF BuildDocument
<1>5. documents' = documents \/ \E x : documents' = Append(documents, x)
  BY <1>4 DEF BuilderNext, Term, TermPosition, TermValue, Add
<1> QED BY <1>2, <1>3, <1>5

\* The documents that a call of the sets shows are the same.
LEMMA SameDocuments ==
    ASSUME UNCHANGED builderVars
    PROVE  documents' = documents /\ ShownDocuments' = ShownDocuments
BY DEF builderVars, ShownDocuments

\* One set is added to those that are shown.
LEMMA SetAdded ==
    ASSUME TermSetInv, TermSetInv', NEW x, sets' = Append(sets, x), heap' = heap
    PROVE  /\ ShownSets' = Append(ShownSets, SeenSet(heap, x))
           /\ TM!Grows(ShownSets, ShownSets')
           /\ ShownSets'[Len(ShownSets')] = SeenSet(heap, x)
<1> DEFINE A == ShownSets
           B == ShownSets'
           n == Len(sets)
           y == SeenSet(heap, x)
<1>1. View(A, sets, heap) /\ View(B, sets', heap')
  BY ViewsFacts
<1>2. /\ n \in Nat /\ Len(sets') = n + 1 /\ sets'[n + 1] = x
      /\ \A s \in 1..n : sets'[s] = sets[s]
  BY DEF TermSetInv, SetsInv
<1> HIDE DEF A, B, n
<1>3. /\ Len(A) = n /\ DOMAIN A = 1..n /\ A = [s \in 1..n |-> A[s]]
      /\ Len(B) = n + 1 /\ DOMAIN B = 1..(n + 1) /\ B = [s \in 1..(n + 1) |-> B[s]]
  BY <1>1, <1>2 DEF View, n
<1>4. \A s \in 1..n : B[s] = A[s]
  BY <1>1, <1>2 DEF View, n
<1>5. B[n + 1] = y
  BY <1>1, <1>2 DEF View, n
<1> HIDE DEF y
<1>6. A \in Seq({A[s] : s \in 1..n})
  BY <1>2, <1>3
<1>7. Append(A, y) = [s \in 1..(n + 1) |-> IF s = n + 1 THEN y ELSE A[s]]
  BY <1>2, <1>3, <1>6
<1>8. B = Append(A, y)
  <2>1. \A s \in 1..(n + 1) : B[s] = IF s = n + 1 THEN y ELSE A[s]
    BY <1>2, <1>4, <1>5
  <2> QED BY <1>3, <1>7, <2>1
<1>9. TM!Grows(A, B)
  BY <1>3, <1>4 DEF TM!Grows
<1> QED BY <1>3, <1>5, <1>8, <1>9 DEF A, B, y

\* sil_term_set_copy.
LEMMA CopyImplements ==
    ASSUME TermSetInv, TermSetInv', NEW s \in 1..Len(sets), Copy(s)
    PROVE  TM!CopySet(s) /\ s \in DOMAIN ShownSets
<1>1. sets' = Append(sets, sets[s]) /\ heap' = heap /\ UNCHANGED builderVars
  BY DEF Copy
<1>2. ShownSets' = Append(ShownSets, SeenSet(heap, sets[s]))
  BY <1>1, SetAdded
<1>3. s \in DOMAIN ShownSets /\ ShownSets[s] = SeenSet(heap, sets[s])
  BY ViewsFacts DEF View
<1> QED BY <1>1, <1>2, <1>3, SameDocuments DEF TM!CopySet

\* sil_construct_term_set.
LEMMA ConstructImplements ==
    ASSUME TermSetInv, TermSetInv', NEW query \in Queries, Construct(query)
    PROVE  TM!NewSet
<1> DEFINE tokens == query
           K      == {tokens[i] : i \in DOMAIN tokens}
           keys   == UniqueTerms(tokens)
           freq(k) == Cardinality({i \in DOMAIN tokens : tokens[i] = keys[k]})
           terms  == [k \in DOMAIN keys |->
                        [term |-> keys[k], query_term_freq |-> freq(k),
                         freq |-> 0, max_term_size |-> 0,
                         match |-> 0, value |-> 0, end |-> 0]]
           x      == [terms |-> terms, term_positions |-> 0]
           y      == SeenSet(heap, x)
<1>1. sets' = Append(sets, x) /\ heap' = heap /\ UNCHANGED builderVars
  BY DEF Construct
<1>2. /\ TM!Grows(ShownSets, ShownSets') /\ ShownSets'[Len(ShownSets')] = y
  <2> HIDE DEF x
  <2> QED BY <1>1, SetAdded
<1> DEFINE n == Len(query)
<1>3. n \in Nat /\ DOMAIN tokens = 1..n /\ \A i \in 1..n : tokens[i] \in 1..255
  <2> DEFINE L == 1..255
  <2>1. n \in Nat /\ DOMAIN query = 1..n /\ \A i \in 1..n : query[i] \in L
    <3>1. query \in Seq(L)
      BY TermSetAssumption
    <3> HIDE DEF L
    <3> QED BY <3>1
  <2> QED BY <2>1
<1> HIDE DEF tokens, n
<1>4. K \in SUBSET (1..255)
  <2>1. ASSUME NEW k \in K PROVE k \in 1..255
    <3>1. PICK i \in DOMAIN tokens : k = tokens[i]
      OBVIOUS
    <3> QED BY <1>3, <3>1
  <2> QED BY <2>1
<1>5. K \in SUBSET Nat /\ IsFiniteSet(K)
  <2> HIDE DEF K
  <2>1. 255 \in Nat
    OBVIOUS
  <2> QED BY <1>4, <2>1, IndexSets
<1>51. ToSet(tokens) = K
  BY DEF ToSet
<1> DEFINE c == Cardinality(K)
<1>6. /\ c \in Nat /\ keys \in [1..c -> K]
      /\ \A i, j \in 1..c : i < j => keys[i] < keys[j]
      /\ \A k \in K : \E i \in 1..c : keys[i] = k
  <2>1. keys = Ascending(K)
    BY DEF UniqueTerms
  <2> HIDE DEF K, keys
  <2> QED BY <1>5, <2>1, AscendingFacts
<1> HIDE DEF keys, K, c
<1>7. DOMAIN keys = 1..c
  BY <1>6
<1>8. /\ x.term_positions = 0 /\ x.terms = terms /\ DOMAIN terms = 1..c
      /\ \A k \in 1..c : terms[k] = [term |-> keys[k], query_term_freq |-> freq(k),
                                     freq |-> 0, max_term_size |-> 0,
                                     match |-> 0, value |-> 0, end |-> 0]
  <2> HIDE DEF freq
  <2> QED BY <1>7
<1> HIDE DEF x, terms
<1>9. y.held = 0 /\ DOMAIN y.terms = 1..c
  BY <1>8, SeenFacts
<1>10. ASSUME NEW k \in 1..c
       PROVE  /\ y.terms[k].term = keys[k] /\ y.terms[k].query_term_freq = freq(k)
              /\ y.terms[k].freq = 0 /\ y.terms[k].match = 0
  <2> HIDE DEF freq
  <2>1. y.terms[k] = SeenTerm(heap, terms[k], 0, k)
    <3>1. \A i \in DOMAIN x.terms : y.terms[i]
             = SeenTerm(heap, x.terms[i], x.term_positions, i)
      BY SeenFacts
    <3> HIDE DEF y
    <3> QED BY <1>8, <3>1
  <2> HIDE DEF y
  <2> QED BY <1>8, <2>1 DEF SeenTerm
<1> HIDE DEF y
<1>11. {y.terms[k].term : k \in DOMAIN y.terms} = ToSet(tokens)
  <2>1. {y.terms[k].term : k \in DOMAIN y.terms} = {keys[k] : k \in 1..c}
    <3> HIDE DEF freq
    <3> QED BY <1>9, <1>10
  <2>2. {keys[k] : k \in 1..c} = K
    BY <1>6
  <2> QED BY <1>51, <2>1, <2>2
<1>12. TM!IsFresh(y, tokens)
  <2>1. \A i, j \in DOMAIN y.terms : i < j => y.terms[i].term < y.terms[j].term
    <3> HIDE DEF freq
    <3> QED BY <1>6, <1>9, <1>10
  <2>2. \A i \in DOMAIN y.terms :
          /\ y.terms[i].freq = 0 /\ y.terms[i].match = 0
          /\ y.terms[i].query_term_freq =
                Cardinality({k \in DOMAIN tokens : tokens[k] = y.terms[i].term})
    <3> SUFFICES ASSUME NEW i \in 1..c
                 PROVE  /\ y.terms[i].freq = 0 /\ y.terms[i].match = 0
                        /\ y.terms[i].query_term_freq =
                             Cardinality({k \in DOMAIN tokens : tokens[k] = y.terms[i].term})
      BY <1>9
    <3> QED BY <1>10
  <2>3. y.held = 0
    BY <1>9
  <2>4. {y.terms[i].term : i \in DOMAIN y.terms} = TM!ToSet(tokens)
    BY <1>11, SameToSet
  <2>5. ASSUME NEW i \in DOMAIN y.terms
        PROVE  /\ y.terms[i].freq = 0 /\ y.terms[i].match = 0
               /\ y.terms[i].query_term_freq =
                  TM!Cardinality({k \in DOMAIN tokens : tokens[k] = y.terms[i].term})
    BY <2>2, SameCardinality
  <2> HIDE DEF freq
  <2> QED BY ONLY <2>1, <2>3, <2>4, <2>5, Zenon DEF TM!IsFresh
<1>13. tokens \in Queries
  BY DEF tokens
<1> QED BY <1>1, <1>2, <1>12, <1>13, SameDocuments DEF TM!NewSet

\* A set takes the place of another, with the same terms.
LEMMA SetChanged ==
    ASSUME TermSetInv, TermSetInv', NEW s \in 1..Len(sets), NEW x,
           sets' = [sets EXCEPT ![s] = x], DOMAIN x.terms = DOMAIN sets[s].terms,
           UNCHANGED builderVars
    PROVE  /\ TM!SameTerms
           /\ DOMAIN ShownSets = 1..Len(sets) /\ DOMAIN ShownSets' = 1..Len(sets)
           /\ \A q \in 1..Len(sets) : ShownSets[q] = SeenSet(heap, sets[q])
           /\ ShownSets'[s] = SeenSet(heap', x)
           /\ \A q \in 1..Len(sets) : q # s => ShownSets'[q] = SeenSet(heap', sets[q])
<1> DEFINE A == ShownSets
           B == ShownSets'
           n == Len(sets)
<1>1. View(A, sets, heap) /\ View(B, sets', heap')
  BY ViewsFacts
<1>2. /\ n \in Nat /\ Len(sets') = n /\ sets'[s] = x
      /\ \A q \in 1..n : q # s => sets'[q] = sets[q]
  BY DEF TermSetInv, SetsInv
<1> HIDE DEF A, B, n
<1>3. /\ DOMAIN A = 1..n /\ DOMAIN B = 1..n
      /\ \A q \in 1..n : A[q] = SeenSet(heap, sets[q]) /\ B[q] = SeenSet(heap', sets'[q])
  BY <1>1, <1>2 DEF View, n
<1>4. ASSUME NEW q \in 1..n PROVE DOMAIN B[q].terms = DOMAIN A[q].terms
  <2>1. DOMAIN A[q].terms = DOMAIN sets[q].terms
        /\ DOMAIN B[q].terms = DOMAIN sets'[q].terms
    BY <1>3, SeenFacts
  <2>2. CASE q = s
    BY <1>2, <2>1, <2>2
  <2>3. CASE q # s
    BY <1>2, <2>1, <2>3
  <2> QED BY <2>2, <2>3
<1>5. TM!SameTerms
  BY <1>3, <1>4, SameDocuments DEF TM!SameTerms, A, B
<1>6. s \in 1..n
  BY DEF n
<1> QED BY <1>2, <1>3, <1>5, <1>6 DEF A, B, n

\* Every document fits the widths of the format.
AllInWidths == \A d \in DOMAIN documents : DocumentInWidths(documents[d].given)

\* What a set reads in a document is what TermMatch says of it.
SetReadsDocument(s, d, i) ==
    LET t    == sets[s].terms[i]
        m    == documents[d].document
        keys == Keys(sets[s])
        a    == AdvanceDocumentId(m, PlaceIn(m, keys, i), t.value)
    IN  /\ Hit(m, keys, i) <=> TM!Has(d, t.term)
        /\ Hit(m, keys, i) => /\ TM!ValueShown(d, t.term, t.value, a.value)
                              /\ Nonzero(Decoded(m, a)) = TM!PositionsFor(d, t.term)
                              /\ Decoded(m, a) \in Seq(Nat)

\* Every set reads every document of the builder exactly.
LEMMA SetReads ==
    ASSUME TermSetInv, AllInWidths, DocumentAt = PrefixSize + 1,
           NEW s \in 1..Len(sets), NEW d \in 1..Len(documents)
    PROVE  /\ d \in DOMAIN documents
           /\ \A i \in DOMAIN sets[s].terms : SetReadsDocument(s, d, i)
<1> DEFINE x    == documents[d]
           old  == sets[s]
           m    == x.document
           keys == Keys(old)
<1>1. x \in BuiltDocument /\ d \in DOMAIN documents
  <2>1. documents \in Seq(BuiltDocument)
    BY DEF TermSetInv, DocumentInv, DocumentsInv, BuiltDocument
  <2> QED BY <2>1
<1>2. Written(x) /\ DocumentInWidths(x.given)
  BY <1>1 DEF TermSetInv, DocumentInv, DocumentsInv, AllInWidths
<1>3. old \in SetRecord /\ SetAscends(old)
  BY DEF TermSetInv, SetsInv
<1> HIDE DEF old, x
<1>4. /\ keys \in Seq(Nat) /\ Len(keys) = Len(old.terms) /\ DOMAIN old.terms = 1..Len(keys)
      /\ \A i \in DOMAIN old.terms : old.terms[i] \in TermData /\ keys[i] = old.terms[i].term
  <2>1. /\ keys \in Seq(Nat) /\ Len(keys) = Len(old.terms)
        /\ DOMAIN old.terms = 1..Len(old.terms)
        /\ \A i \in DOMAIN old.terms : old.terms[i] \in TermData
    BY <1>3, KeysFacts
  <2> QED BY <2>1 DEF Keys
<1> HIDE DEF keys
<1>5. StrictlyUp(keys)
  BY <1>3, <1>4 DEF SetAscends, StrictlyUp
<1>6. m \in Seq(Nat)
  BY <1>1 DEF BuiltDocument
<1>7. ASSUME NEW i \in DOMAIN old.terms
      PROVE  SetReadsDocument(s, d, i)
  <2> DEFINE t == old.terms[i]
             v == t.value
             a == AdvanceDocumentId(m, PlaceIn(m, keys, i), v)
  <2>1. v \in Nat /\ keys[i] = t.term /\ i \in 1..Len(keys) /\ v = t.value
    BY <1>4 DEF TermData
  <2> HIDE DEF t, v
  <2>2. /\ Hit(m, keys, i) <=> IndexesOf(x.given.records, keys[i]) # {}
        /\ Hit(m, keys, i) => \A o \in Nat : ReadsAs(x, keys, i, o)
    BY <1>1, <1>2, <1>4, <1>5, <2>1, DocumentRead
  <2>3. Hit(m, keys, i) => ReadsAs(x, keys, i, v)
    BY <2>1, <2>2
  <2>4. Hit(m, keys, i) => Decoded(m, a) \in Seq(Nat)
    <3> HIDE DEF m
    <3>1. SUFFICES ASSUME Hit(m, keys, i) PROVE Decoded(m, a) \in Seq(Nat)
      OBVIOUS
    <3>2. \E h \in HitsIn(m, keys) : h[1] = i
      BY <3>1 DEF Hit
    <3> QED BY <1>4, <1>6, <2>1, <3>2, HitFacts
  <2>5. /\ TM!Has(d, t.term) <=> IndexesOf(x.given.records, t.term) # {}
        /\ TM!PositionsFor(d, t.term) = PositionsSaid(x.given.records, t.term)
        /\ TM!ValueShown(d, t.term, t.value, a.value)
              <=> ValueSaid(x.given.records, t.term, t.value, a.value)
    <3> DEFINE y == t.term
               o == t.value
               z == a.value
    <3> HIDE DEF y, o, z
    <3>1. /\ TM!Has(d, y) <=> IndexesOf(x.given.records, y) # {}
          /\ TM!PositionsFor(d, y) = PositionsSaid(x.given.records, y)
          /\ TM!ValueShown(d, y, o, z) <=> ValueSaid(x.given.records, y, o, z)
      BY <1>1, SaidOfRecords DEF x
    <3> QED BY <3>1 DEF y, o, z
  <2>6. Hit(m, keys, i) => /\ ValueSaid(x.given.records, keys[i], v, a.value)
                           /\ Nonzero(Decoded(m, a)) = PositionsSaid(x.given.records, keys[i])
    BY <2>3 DEF ReadsAs
  <2>7. /\ Hit(m, keys, i) <=> TM!Has(d, t.term)
        /\ Hit(m, keys, i) => /\ TM!ValueShown(d, t.term, t.value, a.value)
                              /\ Nonzero(Decoded(m, a)) = TM!PositionsFor(d, t.term)
                              /\ Decoded(m, a) \in Seq(Nat)
    <3> HIDE DEF a
    <3> QED BY <2>1, <2>2, <2>4, <2>5, <2>6
  <2> QED BY <2>7 DEF SetReadsDocument, t, v, m, x, keys, old
<1> QED BY <1>1, <1>7 DEF old

\* update_frequency.
LEMMA UpdateFrequencyImplements ==
    ASSUME TermSetInv, TermSetInv', AllInWidths, DocumentAt = PrefixSize + 1,
           NEW s \in 1..Len(sets), NEW d \in 1..Len(documents), UpdateFrequency(s, d)
    PROVE  TM!Pass(s, d)
<1> DEFINE old  == sets[s]
           m    == documents[d].document
           keys == Keys(old)
           hit(i) == \E h \in HitsIn(m, keys) : h[1] = i
           a(i) == AdvanceDocumentId(m, PlaceIn(m, keys, i), old.terms[i].value)
           new(i) == IF hit(i)
                     THEN [old.terms[i] EXCEPT !.freq = @ + 1, !.value = a(i).value,
                              !.max_term_size = Larger(@, a(i).p - a(i).wp)]
                     ELSE old.terms[i]
           T    == [i \in DOMAIN old.terms |-> new(i)]
           x    == [old EXCEPT !.terms = T]
           A    == SeenSet(heap, old)
           B    == SeenSet(heap', x)
<1>1. /\ sets' = [sets EXCEPT ![s] = x] /\ heap' = heap /\ UNCHANGED builderVars
  <2>1. Hits(s, d) = HitsIn(m, keys)
    BY DEF Hits, HitsIn, Memory, ImageOf, KeysOf, Keys
  <2> HIDE DEF HitsIn
  <2> QED BY <2>1 DEF UpdateFrequency, Memory, PlaceIn
<1>2. old \in SetRecord /\ \A i \in DOMAIN old.terms : old.terms[i] \in TermData
  <2>1. old \in SetRecord
    BY DEF TermSetInv, SetsInv
  <2> HIDE DEF old
  <2> QED BY <2>1, KeysFacts
<1>3. /\ x.terms = T /\ x.term_positions = old.term_positions
      /\ DOMAIN T = DOMAIN old.terms /\ \A i \in DOMAIN old.terms : T[i] = new(i)
  <2>1. DOMAIN T = DOMAIN old.terms /\ \A i \in DOMAIN old.terms : T[i] = new(i)
    OBVIOUS
  <2> HIDE DEF T, old
  <2>2. x.terms = T /\ x.term_positions = old.term_positions
    BY <1>2 DEF SetRecord
  <2> QED BY <2>1, <2>2
<1>4. \A i \in DOMAIN old.terms : SetReadsDocument(s, d, i)
  BY SetReads
<1>5. \A i \in DOMAIN old.terms : hit(i) <=> TM!Has(d, old.terms[i].term)
  <2> SUFFICES ASSUME NEW i \in DOMAIN old.terms
               PROVE  hit(i) <=> TM!Has(d, old.terms[i].term)
    OBVIOUS
  <2>1. SetReadsDocument(s, d, i)
    BY <1>4
  <2> QED BY <2>1 DEF SetReadsDocument, Hit
<1> HIDE DEF hit, x, T
<1>6. /\ TM!SameTerms
      /\ DOMAIN ShownSets = 1..Len(sets) /\ DOMAIN ShownSets' = 1..Len(sets)
      /\ \A q \in 1..Len(sets) : ShownSets[q] = SeenSet(heap, sets[q])
      /\ ShownSets'[s] = SeenSet(heap', x)
      /\ \A q \in 1..Len(sets) : q # s => ShownSets'[q] = SeenSet(heap', sets[q])
  BY <1>1, <1>3, SetChanged
<1>7. TM!OnlySet(s)
  BY <1>1, <1>6 DEF TM!OnlySet
<1>8. A = ShownSets[s] /\ B = ShownSets'[s]
  BY <1>6
<1>9. /\ A.held = B.held /\ DOMAIN A.terms = DOMAIN old.terms
      /\ \A i \in DOMAIN old.terms :
            /\ A.terms[i] = SeenTerm(heap, old.terms[i], old.term_positions, i)
            /\ B.terms[i] = SeenTerm(heap, new(i), old.term_positions, i)
  <2> HIDE DEF new, old
  <2> QED BY <1>1, <1>3, SeenFacts
<1> DEFINE b == old.term_positions
<1> HIDE DEF A, B
<1>10. ASSUME NEW i \in DOMAIN old.terms
       PROVE  TM!Counted(d, A.terms[i], B.terms[i])
  <2> DEFINE t == old.terms[i]
             u == new(i)
             p == SeenPositions(heap, t, b, i)
             v == a(i).value
             w == Larger(t.max_term_size, a(i).p - a(i).wp)
  <2>1. t \in TermData /\ (hit(i) <=> TM!Has(d, t.term))
    BY <1>2, <1>5
  <2>11. hit(i) => TM!ValueShown(d, t.term, t.value, v)
    <3>1. SetReadsDocument(s, d, i)
      BY <1>4
    <3> QED BY <3>1 DEF SetReadsDocument, Hit, hit
  <2>2. u = IF hit(i) THEN [t EXCEPT !.freq = @ + 1, !.value = v, !.max_term_size = w]
            ELSE t
    OBVIOUS
  <2>3. /\ A.terms[i] = SeenTerm(heap, t, b, i) /\ B.terms[i] = SeenTerm(heap, u, b, i)
    BY <1>9
  <2> HIDE DEF t, u, v, w, b
  <2>4. CASE ~hit(i)
    <3>1. A.terms[i].term = t.term
      BY <2>3 DEF SeenTerm
    <3>2. B.terms[i] = A.terms[i]
      BY <2>2, <2>3, <2>4
    <3> QED BY <2>1, <2>4, <3>1, <3>2 DEF TM!Counted
  <2>5. CASE hit(i)
    <3>1. /\ u.term = t.term /\ u.query_term_freq = t.query_term_freq
          /\ u.freq = t.freq + 1 /\ u.match = t.match /\ u.value = v /\ u.end = t.end
      BY <2>1, <2>2, <2>5 DEF TermData
    <3>2. SeenPositions(heap, u, b, i) = p
      BY <3>1 DEF SeenPositions
    <3> HIDE DEF p
    <3>3. A.terms[i] = Seen(t.term, t.query_term_freq, t.freq, t.match, t.value, p)
      BY <2>3 DEF SeenTerm, Seen, p
    <3>4. B.terms[i] = Seen(t.term, t.query_term_freq, t.freq + 1, t.match, v, p)
      BY <2>3, <3>1, <3>2 DEF SeenTerm, Seen
    <3>41. A.terms[i].freq = t.freq /\ B.terms[i].value = v
      BY <3>3, <3>4 DEF Seen
    <3>5. B.terms[i] = [A.terms[i] EXCEPT !.freq = @ + 1, !.value = B.terms[i].value]
      <4> DEFINE r == A.terms[i]
                 f == t.freq + 1
                 w2 == [r EXCEPT !.freq = f]
      <4>1. [r EXCEPT !.freq = @ + 1, !.value = v] = [w2 EXCEPT !.value = v]
        BY <3>41
      <4> HIDE DEF r, f
      <4>2. w2 = Seen(t.term, t.query_term_freq, f, t.match, t.value, p)
        BY <3>3 DEF Seen, r
      <4> HIDE DEF w2
      <4>3. [w2 EXCEPT !.value = v] = Seen(t.term, t.query_term_freq, f, t.match, v, p)
        BY <4>2 DEF Seen
      <4> QED BY <3>4, <3>41, <4>1, <4>3 DEF r, f
    <3>6. A.terms[i].term = t.term /\ A.terms[i].value = t.value
      BY <3>3 DEF Seen
    <3> QED BY <2>1, <2>11, <2>5, <3>41, <3>5, <3>6 DEF TM!Counted
  <2> QED BY <2>4, <2>5
<1> QED BY <1>7, <1>8, <1>9, <1>10 DEF TM!Pass

\* add_set_freq.
LEMMA AddSetFreqImplements ==
    ASSUME TermSetInv, TermSetInv', NEW dest \in 1..Len(sets), NEW src \in 1..Len(sets),
           AddSetFreq(dest, src)
    PROVE  TM!Combine(dest, src) /\ dest # src
<1> DEFINE old == sets[dest]
           oth == sets[src]
           new(i) == [old.terms[i] EXCEPT !.freq = @ + oth.terms[i].freq,
                         !.max_term_size = Larger(@, oth.terms[i].max_term_size)]
           T   == [i \in DOMAIN old.terms |-> new(i)]
           x   == [old EXCEPT !.terms = T]
           A   == SeenSet(heap, old)
           B   == SeenSet(heap', x)
           C   == SeenSet(heap, oth)
           b   == old.term_positions
<1>1. /\ sets' = [sets EXCEPT ![dest] = x] /\ heap' = heap /\ UNCHANGED builderVars
      /\ dest # src /\ Keys(oth) = Keys(old)
  BY DEF AddSetFreq, KeysOf, Keys
<1>2. /\ old \in SetRecord /\ \A i \in DOMAIN old.terms : old.terms[i] \in TermData
      /\ oth \in SetRecord /\ \A i \in DOMAIN oth.terms : oth.terms[i] \in TermData
  <2>1. old \in SetRecord /\ oth \in SetRecord
    BY DEF TermSetInv, SetsInv
  <2> HIDE DEF old, oth
  <2> QED BY <2>1, KeysFacts
<1>3. DOMAIN oth.terms = DOMAIN old.terms
      /\ \A i \in DOMAIN old.terms : oth.terms[i].term = old.terms[i].term
  <2>1. /\ DOMAIN Keys(oth) = DOMAIN oth.terms /\ DOMAIN Keys(old) = DOMAIN old.terms
        /\ \A i \in DOMAIN oth.terms : Keys(oth)[i] = oth.terms[i].term
        /\ \A i \in DOMAIN old.terms : Keys(old)[i] = old.terms[i].term
    BY DEF Keys
  <2> QED BY <1>1, <2>1
<1>4. /\ x.terms = T /\ x.term_positions = b
      /\ DOMAIN T = DOMAIN old.terms /\ \A i \in DOMAIN old.terms : T[i] = new(i)
  <2>1. DOMAIN T = DOMAIN old.terms /\ \A i \in DOMAIN old.terms : T[i] = new(i)
    OBVIOUS
  <2> HIDE DEF T, old
  <2>2. x.terms = T /\ x.term_positions = old.term_positions
    BY <1>2 DEF SetRecord
  <2> QED BY <2>1, <2>2
<1> HIDE DEF x, T
<1>5. /\ TM!SameTerms
      /\ DOMAIN ShownSets = 1..Len(sets) /\ DOMAIN ShownSets' = 1..Len(sets)
      /\ \A q \in 1..Len(sets) : ShownSets[q] = SeenSet(heap, sets[q])
      /\ ShownSets'[dest] = SeenSet(heap', x)
      /\ \A q \in 1..Len(sets) : q # dest => ShownSets'[q] = SeenSet(heap', sets[q])
  BY <1>1, <1>4, SetChanged
<1>6. TM!OnlySet(dest)
  BY <1>1, <1>5 DEF TM!OnlySet
<1>7. A = ShownSets[dest] /\ B = ShownSets'[dest] /\ C = ShownSets[src]
  BY <1>5
<1>8. /\ A.held = B.held /\ DOMAIN A.terms = DOMAIN old.terms
      /\ DOMAIN C.terms = DOMAIN old.terms
      /\ \A i \in DOMAIN old.terms :
            /\ A.terms[i] = SeenTerm(heap, old.terms[i], b, i)
            /\ B.terms[i] = SeenTerm(heap, new(i), b, i)
            /\ C.terms[i] = SeenTerm(heap, oth.terms[i], oth.term_positions, i)
  <2> HIDE DEF new, old, oth
  <2> QED BY <1>1, <1>3, <1>4, SeenFacts
<1> HIDE DEF A, B, C
<1>9. ASSUME NEW i \in DOMAIN old.terms
      PROVE  TM!Combined(src, A.terms[i], B.terms[i])
  <2> DEFINE t == old.terms[i]
             o == oth.terms[i]
             u == new(i)
             p == SeenPositions(heap, t, b, i)
             w == Larger(t.max_term_size, o.max_term_size)
  <2>1. t \in TermData /\ o \in TermData /\ o.term = t.term
    BY <1>2, <1>3
  <2>2. u = [t EXCEPT !.freq = @ + o.freq, !.max_term_size = w]
    OBVIOUS
  <2>3. /\ A.terms[i] = SeenTerm(heap, t, b, i) /\ B.terms[i] = SeenTerm(heap, u, b, i)
        /\ C.terms[i].term = o.term /\ C.terms[i].freq = o.freq /\ i \in DOMAIN C.terms
    <3>1. /\ A.terms[i] = SeenTerm(heap, t, b, i) /\ B.terms[i] = SeenTerm(heap, u, b, i)
          /\ C.terms[i] = SeenTerm(heap, o, oth.term_positions, i)
          /\ i \in DOMAIN C.terms
      BY <1>8
    <3> HIDE DEF t, o, u, w, b
    <3>2. C.terms[i].term = o.term /\ C.terms[i].freq = o.freq
      BY <3>1 DEF SeenTerm
    <3> QED BY <3>1, <3>2
  <2> HIDE DEF t, o, u, w, b
  <2>4. /\ u.term = t.term /\ u.query_term_freq = t.query_term_freq
        /\ u.freq = t.freq + o.freq /\ u.match = t.match /\ u.value = t.value
        /\ u.end = t.end
    BY <2>1, <2>2 DEF TermData
  <2>5. SeenPositions(heap, u, b, i) = p
    BY <2>4 DEF SeenPositions
  <2> HIDE DEF p
  <2>6. A.terms[i] = [term |-> t.term, query_term_freq |-> t.query_term_freq,
                      freq |-> t.freq, match |-> t.match, value |-> t.value,
                      positions |-> p]
    BY <2>3 DEF SeenTerm, p
  <2>7. B.terms[i] = [term |-> t.term, query_term_freq |-> t.query_term_freq,
                      freq |-> t.freq + o.freq, match |-> t.match, value |-> t.value,
                      positions |-> p]
    BY <2>3, <2>4, <2>5 DEF SeenTerm
  <2>8. /\ C.terms[i].term = A.terms[i].term
        /\ B.terms[i] = [A.terms[i] EXCEPT !.freq = @ + C.terms[i].freq]
    BY <2>1, <2>3, <2>6, <2>7
  <2> QED BY <1>7, <2>3, <2>8 DEF TM!Combined
<1> QED BY <1>1, <1>6, <1>7, <1>8, <1>9 DEF TM!Combine

\* Other buffers change nothing but the positions of a term.
LEMMA RepositionedShows ==
    ASSUME NEW hp, NEW hq, NEW t, NEW b, NEW c, NEW i
    PROVE  TM!Repositioned(SeenTerm(hp, t, b, i), SeenTerm(hq, t, c, i))
<1> DEFINE old == SeenTerm(hp, t, b, i)
           new == SeenTerm(hq, t, c, i)
           p   == SeenPositions(hp, t, b, i)
           q   == SeenPositions(hq, t, c, i)
<1> HIDE DEF p, q
<1>1. old = Seen(t.term, t.query_term_freq, t.freq, t.match, t.value, p)
  BY DEF SeenTerm, Seen, p
<1>2. new = Seen(t.term, t.query_term_freq, t.freq, t.match, t.value, q)
  BY DEF SeenTerm, Seen, q
<1> HIDE DEF old, new
<1>3. new.positions = q /\ new = [old EXCEPT !.positions = q]
  BY <1>1, <1>2 DEF Seen
<1>4. TM!Repositioned(old, new)
  BY <1>3 DEF TM!Repositioned
<1> QED BY <1>4 DEF old, new

\* match_prepare_for_set.
LEMMA PrepareImplements ==
    ASSUME TermSetInv, TermSetInv', NEW s \in 1..Len(sets), Prepare(s)
    PROVE  TM!Prepare(s)
<1> DEFINE old == sets[s]
           n   == Len(heap)
           e   == [i \in DOMAIN old.terms |->
                     [capacity |-> old.terms[i].max_term_size + 1, cells |-> <<>>]]
           x   == [old EXCEPT !.term_positions = n + 1]
           A   == SeenSet(heap, old)
           B   == SeenSet(heap', x)
           held(q) == sets[q].term_positions
<1>1. /\ sets' = [sets EXCEPT ![s] = x] /\ heap' = Append(heap, e)
      /\ UNCHANGED builderVars
  BY DEF Prepare
<1>2. n \in Nat /\ heap \in Seq(Seq(Buffer)) /\ old \in SetRecord
  BY DEF TermSetInv, HeapInv, SetsInv
<1> HIDE DEF e
<1>3. ASSUME NEW h \in 1..n PROVE heap'[h] = heap[h]
  BY <1>1, <1>2
<1> HIDE DEF n, old
<1>4. x.terms = old.terms /\ x.term_positions = n + 1
  BY <1>2 DEF SetRecord
<1> HIDE DEF x
<1>5. /\ TM!SameTerms
      /\ DOMAIN ShownSets = 1..Len(sets) /\ DOMAIN ShownSets' = 1..Len(sets)
      /\ \A q \in 1..Len(sets) : ShownSets[q] = SeenSet(heap, sets[q])
      /\ ShownSets'[s] = SeenSet(heap', x)
      /\ \A q \in 1..Len(sets) : q # s => ShownSets'[q] = SeenSet(heap', sets[q])
  BY <1>1, <1>4, SetChanged DEF old
<1>6. ASSUME NEW q \in 1..Len(sets)
      PROVE  /\ held(q) # n + 1 /\ SeenSet(heap', sets[q]) = SeenSet(heap, sets[q])
  <2>1. held(q) \in 0..n
    BY DEF TermSetInv, SetsInv, SetReady, n
  <2> HIDE DEF held
  <2>2. held(q) # n + 1 /\ (held(q) = 0 \/ held(q) \in 1..n)
    BY <1>2, <2>1
  <2>3. held(q) = 0 \/ heap'[held(q)] = heap[held(q)]
    BY <1>3, <2>2
  <2> QED BY <2>2, <2>3, SeenInBuffers DEF held
<1>7. TM!OnlySet(s)
  BY <1>5, <1>6 DEF TM!OnlySet
<1>8. ASSUME NEW q \in DOMAIN ShownSets PROVE ShownSets[q].held # ShownSets'[s].held
  BY <1>4, <1>5, <1>6, SeenFacts
<1>9. A = ShownSets[s] /\ B = ShownSets'[s]
  BY <1>5 DEF old
<1>10. /\ DOMAIN A.terms = DOMAIN old.terms
       /\ \A i \in DOMAIN old.terms :
             /\ A.terms[i] = SeenTerm(heap, old.terms[i], old.term_positions, i)
             /\ B.terms[i] = SeenTerm(heap', old.terms[i], n + 1, i)
  BY <1>4, SeenFacts
<1> HIDE DEF A, B
<1>11. \A i \in DOMAIN A.terms : TM!Repositioned(A.terms[i], B.terms[i])
  BY <1>10, RepositionedShows
<1> QED BY <1>5, <1>7, <1>8, <1>9, <1>11 DEF TM!Prepare


\* What was written over the start of a buffer is read back from it.
LEMMA OverwrittenShows ==
    ASSUME NEW cells \in Seq(Nat), NEW ps \in Seq(Nat)
    PROVE  /\ ~(Len(ps) > Len(Overwritten(cells, ps)))
           /\ SubSeq(Overwritten(cells, ps), 1, Len(ps)) = ps
<1> DEFINE rest == SubSeq(cells, Len(ps) + 1, Len(cells))
           n    == Len(ps)
           w    == ps \o rest
<1>1. n \in Nat /\ rest \in Seq(Nat) /\ Len(rest) \in Nat
  OBVIOUS
<1>2. Overwritten(cells, ps) = w
  BY DEF Overwritten
<1> HIDE DEF rest
<1>3. w \in Seq(Nat) /\ Len(w) = n + Len(rest) /\ \A k \in 1..n : w[k] = ps[k]
  BY <1>1
<1>4. SubSeq(w, 1, n) = [k \in 1..n |-> ps[k]]
  <2> HIDE DEF w, n
  <2>1. SubSeq(w, 1, n) = [k \in 1..n |-> w[k]]
    BY <1>1, <1>3
  <2> QED BY <1>3, <2>1
<1>5. ps = [k \in 1..n |-> ps[k]]
  OBVIOUS
<1> HIDE DEF w, n
<1>6. ~(n > Len(w))
  BY <1>1, <1>3
<1> QED BY <1>2, <1>4, <1>5, <1>6 DEF n

\* A term that was matched shows what the document says of it, and nothing of
\* what the buffer held before.
LEMMA MatchedShows ==
    ASSUME NEW hp, NEW hq, NEW t \in TermData, NEW u, NEW b, NEW i, NEW d, NEW v,
           NEW ps \in Seq(Nat), b # 0,
           u = [t EXCEPT !.match = d, !.value = v, !.end = Len(ps)],
           hp[b][i].cells \in Seq(Nat), hq[b][i].cells = Overwritten(hp[b][i].cells, ps),
           TM!Has(d, t.term), TM!ValueShown(d, t.term, t.value, v),
           Nonzero(ps) = TM!PositionsFor(d, t.term)
    PROVE  TM!Matched(d, SeenTerm(hp, t, b, i), SeenTerm(hq, u, b, i))
<1> DEFINE old == SeenTerm(hp, t, b, i)
           new == SeenTerm(hq, u, b, i)
           p   == SeenPositions(hp, t, b, i)
<1>1. /\ u.term = t.term /\ u.query_term_freq = t.query_term_freq /\ u.freq = t.freq
      /\ u.match = d /\ u.value = v /\ u.end = Len(ps)
  BY DEF TermData
<1>2. SeenPositions(hq, u, b, i) = Nonzero(ps)
  BY <1>1, OverwrittenShows DEF SeenPositions
<1> HIDE DEF p
<1>3. old = Seen(t.term, t.query_term_freq, t.freq, t.match, t.value, p)
  BY DEF SeenTerm, Seen, p
<1>4. new = Seen(t.term, t.query_term_freq, t.freq, d, v, Nonzero(ps))
  BY <1>1, <1>2 DEF SeenTerm, Seen
<1> HIDE DEF old, new
<1>5. old.term = t.term /\ old.value = t.value /\ new.value = v
  BY <1>3, <1>4 DEF Seen
<1>51. new = [old EXCEPT !.match = d, !.value = new.value, !.positions = Nonzero(ps)]
  <2> DEFINE r == [old EXCEPT !.match = d]
             w == [r EXCEPT !.value = v]
             o == Nonzero(ps)
  <2> HIDE DEF o
  <2>1. [old EXCEPT !.match = d, !.value = v, !.positions = o] = [w EXCEPT !.positions = o]
    OBVIOUS
  <2>2. r = Seen(t.term, t.query_term_freq, t.freq, d, t.value, p)
    BY <1>3 DEF Seen
  <2> HIDE DEF r
  <2>3. w = Seen(t.term, t.query_term_freq, t.freq, d, v, p)
    BY <2>2 DEF Seen
  <2> HIDE DEF w
  <2>4. [w EXCEPT !.positions = o] = Seen(t.term, t.query_term_freq, t.freq, d, v, o)
    BY <2>3 DEF Seen
  <2> QED BY <1>4, <1>5, <2>1, <2>4 DEF o
<1>6. TM!Matched(d, old, new)
  BY <1>5, <1>51 DEF TM!Matched
<1> QED BY <1>6 DEF old, new

\* A term that was missed keeps what it showed, but for the match.
LEMMA MissedShows ==
    ASSUME NEW hp, NEW hq, NEW t \in TermData, NEW b, NEW i, NEW d,
           hq[b][i] = hp[b][i], ~TM!Has(d, t.term)
    PROVE  TM!Matched(d, SeenTerm(hp, t, b, i), SeenTerm(hq, Missed(t), b, i))
<1> DEFINE old == SeenTerm(hp, t, b, i)
           u   == Missed(t)
           new == SeenTerm(hq, u, b, i)
           p   == SeenPositions(hp, t, b, i)
<1>1. /\ u.term = t.term /\ u.query_term_freq = t.query_term_freq /\ u.freq = t.freq
      /\ u.match = 0 /\ u.value = t.value /\ u.end = t.end
  BY DEF TermData, Missed
<1> HIDE DEF u
<1>2. SeenPositions(hq, u, b, i) = p
  BY <1>1 DEF SeenPositions
<1> HIDE DEF p
<1>3. old = [term |-> t.term, query_term_freq |-> t.query_term_freq,
             freq |-> t.freq, match |-> t.match, value |-> t.value, positions |-> p]
  BY DEF SeenTerm, p
<1>4. new = [term |-> t.term, query_term_freq |-> t.query_term_freq,
             freq |-> t.freq, match |-> 0, value |-> t.value, positions |-> p]
  BY <1>1, <1>2 DEF SeenTerm
<1> HIDE DEF old, new
<1>5. old.term = t.term /\ new = [old EXCEPT !.match = 0]
  BY <1>3, <1>4
<1>6. TM!Matched(d, old, new)
  BY <1>5 DEF TM!Matched
<1> QED BY <1>6 DEF old, new, u


\* match_set.
LEMMA MatchImplements ==
    ASSUME TermSetInv, TermSetInv', AllInWidths, DocumentAt = PrefixSize + 1,
           NEW s \in 1..Len(sets), NEW d \in 1..Len(documents), MatchSet(s, d)
    PROVE  TM!Match(s, d)
<1> DEFINE old  == sets[s]
           m    == documents[d].document
           keys == Keys(old)
           b    == old.term_positions
           hit(i) == \E h \in HitsIn(m, keys) : h[1] = i
           a(i)   == AdvanceDocumentId(m, PlaceIn(m, keys, i), old.terms[i].value)
           ps(i)  == Decoded(m, a(i))
           new(i) == IF hit(i)
                     THEN [old.terms[i] EXCEPT !.match = d, !.value = a(i).value,
                                               !.end = Len(ps(i))]
                     ELSE Missed(old.terms[i])
           T    == [i \in DOMAIN old.terms |-> new(i)]
           x    == [old EXCEPT !.terms = T]
           buf(i) == IF hit(i)
                     THEN [heap[b][i] EXCEPT !.cells = Overwritten(@, ps(i))]
                     ELSE heap[b][i]
           E    == [i \in DOMAIN heap[b] |-> buf(i)]
           A    == SeenSet(heap, old)
           B    == SeenSet(heap', x)
<1>1. /\ sets' = [sets EXCEPT ![s] = x] /\ heap' = [heap EXCEPT ![b] = E]
      /\ b # 0 /\ UNCHANGED builderVars
  <2>1. Hits(s, d) = HitsIn(m, keys)
    BY DEF Hits, HitsIn, Memory, ImageOf, KeysOf, Keys
  <2> HIDE DEF HitsIn
  <2> QED BY <2>1 DEF MatchSet, Memory, PlaceIn
<1>2. /\ heap \in Seq(Seq(Buffer)) /\ old \in SetRecord /\ SetReady(old)
      /\ \A i \in DOMAIN old.terms : old.terms[i] \in TermData
  <2>1. heap \in Seq(Seq(Buffer)) /\ old \in SetRecord /\ SetReady(old)
    BY DEF TermSetInv, HeapInv, SetsInv
  <2> HIDE DEF old
  <2> QED BY <2>1, KeysFacts
<1>3. b \in 1..Len(heap) /\ DOMAIN heap[b] = DOMAIN old.terms
  <2>1. b \in 0..Len(heap) /\ DOMAIN heap[b] = DOMAIN old.terms
    <3> HIDE DEF old
    <3> QED BY <1>1, <1>2 DEF SetReady
  <2>2. b # 0
    BY <1>1
  <2>3. Len(heap) \in Nat
    BY <1>2
  <2> HIDE DEF b, old
  <2> QED BY ONLY <2>1, <2>2, <2>3
<1>4. /\ x.terms = T /\ x.term_positions = b
      /\ DOMAIN T = DOMAIN old.terms /\ \A i \in DOMAIN old.terms : T[i] = new(i)
  <2>1. DOMAIN T = DOMAIN old.terms /\ \A i \in DOMAIN old.terms : T[i] = new(i)
    OBVIOUS
  <2> HIDE DEF T, old
  <2>2. x.terms = T /\ x.term_positions = old.term_positions
    BY <1>2 DEF SetRecord
  <2> QED BY <2>1, <2>2
<1> HIDE DEF x, T
<1>5. \A i \in DOMAIN old.terms : E[i] = buf(i)
  BY <1>3
<1> HIDE DEF E
<1>6. /\ heap'[b] = E
      /\ \A h \in 1..Len(heap) : h # b => heap'[h] = heap[h]
  <2> HIDE DEF b
  <2> QED BY <1>1, <1>2, <1>3
<1>7. /\ TM!SameTerms
      /\ DOMAIN ShownSets = 1..Len(sets) /\ DOMAIN ShownSets' = 1..Len(sets)
      /\ \A q \in 1..Len(sets) : ShownSets[q] = SeenSet(heap, sets[q])
      /\ ShownSets'[s] = SeenSet(heap', x)
      /\ \A q \in 1..Len(sets) : q # s => ShownSets'[q] = SeenSet(heap', sets[q])
  BY <1>1, <1>4, SetChanged
<1>8. ASSUME NEW i \in DOMAIN old.terms
      PROVE  TM!Matched(d, A.terms[i], B.terms[i])
  <2> DEFINE t == old.terms[i]
             u == new(i)
             v == a(i).value
             w == ps(i)
             c == heap[b][i]
  <2>1. t \in TermData /\ c \in Buffer /\ heap'[b][i] = buf(i)
    <3>1. c \in Buffer
      <4> DEFINE S == Seq(Buffer)
      <4>1. heap[b] \in S
        <5>1. heap \in Seq(S)
          BY <1>2
        <5> HIDE DEF S, b
        <5> QED BY <1>3, <5>1
      <4> DEFINE y == heap[b]
      <4>2. y \in Seq(Buffer) /\ i \in DOMAIN y
        BY <1>3, <4>1
      <4> HIDE DEF y
      <4>3. y[i] \in Buffer
        BY <4>2
      <4> QED BY <4>3 DEF y
    <3> QED BY <1>2, <1>5, <1>6, <3>1
  <2>2. /\ hit(i) <=> TM!Has(d, t.term)
        /\ hit(i) => /\ TM!ValueShown(d, t.term, t.value, v) /\ w \in Seq(Nat)
                      /\ Nonzero(w) = TM!PositionsFor(d, t.term)
    <3>1. SetReadsDocument(s, d, i)
      BY SetReads
    <3> QED BY <3>1 DEF SetReadsDocument, Hit
  <2>3. A.terms[i] = SeenTerm(heap, t, b, i) /\ B.terms[i] = SeenTerm(heap', u, b, i)
    <3> HIDE DEF new, old
    <3> QED BY <1>4, SeenFacts
  <2>4. CASE hit(i)
    <3>1. u = [t EXCEPT !.match = d, !.value = v, !.end = Len(w)]
      BY <2>4
    <3>2. heap'[b][i] = [c EXCEPT !.cells = Overwritten(@, w)]
      BY <2>1, <2>4
    <3> HIDE DEF t, u, v, w, A, B, hit
    <3>3. c.cells \in Seq(Nat) /\ heap'[b][i].cells = Overwritten(c.cells, w)
      <4> HIDE DEF c
      <4> QED BY <2>1, <3>2 DEF Buffer
    <3> HIDE DEF b
    <3>4. TM!Matched(d, SeenTerm(heap, t, b, i), SeenTerm(heap', u, b, i))
      BY <1>1, <2>1, <2>2, <2>4, <3>1, <3>3, MatchedShows
    <3> QED BY <2>3, <3>4
  <2>5. CASE ~hit(i)
    <3>1. u = Missed(t) /\ heap'[b][i] = heap[b][i] /\ ~TM!Has(d, t.term)
      BY <2>1, <2>2, <2>5
    <3> HIDE DEF t, u, b, A, B, hit
    <3>2. TM!Matched(d, SeenTerm(heap, t, b, i), SeenTerm(heap', Missed(t), b, i))
      BY <2>1, <3>1, MissedShows
    <3> QED BY <2>3, <3>1, <3>2
  <2> QED BY <2>4, <2>5
<1>9. DOMAIN A.terms = DOMAIN old.terms /\ A.held = b /\ B.held = b
  <2> HIDE DEF old
  <2> QED BY <1>4, SeenFacts
<1>10. A = ShownSets[s] /\ B = ShownSets'[s]
  BY <1>7
<1> HIDE DEF A, B, b, old
<1>11. ShownSets[s].held = b /\ ShownSets'[s].held = b
       /\ \A i \in DOMAIN ShownSets[s].terms :
              TM!Matched(d, ShownSets[s].terms[i], ShownSets'[s].terms[i])
  BY <1>8, <1>9, <1>10
<1>12. ASSUME NEW q \in 1..Len(sets), q # s, ShownSets[q].held # b
       PROVE  ShownSets'[q] = ShownSets[q]
  <2> DEFINE h == sets[q].term_positions
  <2>1. h # b
    BY <1>7, <1>12, SeenFacts
  <2>2. h \in 0..Len(heap) /\ Len(heap) \in Nat
    BY <1>2 DEF TermSetInv, SetsInv, SetReady
  <2> HIDE DEF h
  <2>3. h = 0 \/ heap'[h] = heap[h]
    BY <1>6, <2>1, <2>2
  <2>4. SeenSet(heap', sets[q]) = SeenSet(heap, sets[q])
    BY <2>3, SeenInBuffers DEF h
  <2> QED BY <1>7, <1>12, <2>4
<1>13. ASSUME NEW q \in 1..Len(sets), q # s
       PROVE  /\ ShownSets'[q].held = ShownSets[q].held
              /\ \A i \in DOMAIN ShownSets[q].terms :
                    TM!Repositioned(ShownSets[q].terms[i], ShownSets'[q].terms[i])
  <2> DEFINE w == sets[q]
  <2>1. ShownSets[q] = SeenSet(heap, w) /\ ShownSets'[q] = SeenSet(heap', w)
    BY <1>7, <1>13
  <2> HIDE DEF w
  <2>2. /\ DOMAIN ShownSets[q].terms = DOMAIN w.terms
        /\ ShownSets'[q].held = ShownSets[q].held
        /\ \A i \in DOMAIN w.terms :
              /\ ShownSets[q].terms[i] = SeenTerm(heap, w.terms[i], w.term_positions, i)
              /\ ShownSets'[q].terms[i] = SeenTerm(heap', w.terms[i], w.term_positions, i)
    BY <2>1, SeenFacts
  <2> QED BY <2>2, RepositionedShows
<1> QED BY <1>1, <1>7, <1>11, <1>12, <1>13 DEF TM!Match

\* Every step is one of TermMatch or shows nothing.
LEMMA StepImplements ==
    ASSUME DocumentAt = PrefixSize + 1
    PROVE  TermSetInv /\ TermSetInv' /\ AllInWidths /\ [Next]_vars
              => [TM!Next]_(TM!vars)
<1> SUFFICES ASSUME TermSetInv, TermSetInv', AllInWidths, [Next]_vars
             PROVE  TM!Next \/ UNCHANGED TM!vars
  OBVIOUS
<1>1. /\ DOMAIN ShownSets = 1..Len(sets) /\ DOMAIN ShownDocuments = 1..Len(documents)
  <2>1. DOMAIN ShownSets = 1..Len(sets)
    BY ViewsFacts DEF View
  <2>2. documents \in Seq(BuiltDocument)
    BY DEF TermSetInv, DocumentInv, DocumentsInv, BuiltDocument
  <2> QED BY <2>1, <2>2 DEF ShownDocuments
<1>2. CASE UNCHANGED vars
  BY <1>2 DEF vars, setVars, builderVars, TM!vars, ShownSets, ShownSet, ShownTerm,
              Visible, ShownDocuments
<1>3. CASE BuilderNext /\ UNCHANGED setVars
  BY <1>3, BuilderImplements DEF TM!Next
<1>4. CASE SetNext
  <2>1. CASE \E query \in Queries : Construct(query)
    BY <2>1, ConstructImplements DEF TM!Next
  <2>2. ASSUME NEW s \in 1..Len(sets), Copy(s) PROVE TM!Next
    BY <2>2, CopyImplements DEF TM!Next
  <2>3. ASSUME NEW s \in 1..Len(sets), Prepare(s) PROVE TM!Next
    BY <1>1, <2>3, PrepareImplements DEF TM!Next
  <2>4. ASSUME NEW s \in 1..Len(sets), NEW src \in 1..Len(sets), AddSetFreq(s, src)
        PROVE  TM!Next
    BY <1>1, <2>4, AddSetFreqImplements DEF TM!Next
  <2>5. ASSUME NEW s \in 1..Len(sets), NEW d \in 1..Len(documents),
               UpdateFrequency(s, d)
        PROVE  TM!Next
    BY <1>1, <2>5, UpdateFrequencyImplements DEF TM!Next
  <2>6. ASSUME NEW s \in 1..Len(sets), NEW d \in 1..Len(documents), MatchSet(s, d)
        PROVE  TM!Next
    BY <1>1, <2>6, MatchImplements DEF TM!Next
  <2> QED BY <1>4, <2>1, <2>2, <2>3, <2>4, <2>5, <2>6 DEF SetNext
<1> QED BY <1>2, <1>3, <1>4 DEF Next

\* No document and no set is shown at first.
LEMMA InitImplements == Init => TM!Init
BY DEF Init, BuilderInit, TM!Init, ShownSets, ShownDocuments

\* Whatever the documents, the queries and the order in which sets are passed,
\* combined, copied, prepared and matched, a client sees what TermMatch says:
\* a match shows the document and nothing of the one before it, and no call
\* changes another set except for positions in buffers they share.  The
\* documents fit the widths of the format, which the builder does not check.
THEOREM TermSetsImplementTermMatch ==
    ASSUME DocumentAt = PrefixSize + 1
    PROVE  Spec /\ []AllInWidths => SetsImplement
<1>1. TermSetInv /\ TermSetInv' /\ AllInWidths /\ [Next]_vars => [TM!Next]_(TM!vars)
  BY StepImplements
<1> QED BY <1>1, InitImplements, TermSetInvAlways, PTL DEF Spec, SetsImplement, TM!Spec

===========================================================================
