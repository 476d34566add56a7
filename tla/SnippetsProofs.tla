--------------------------- MODULE SnippetsProofs ---------------------------
(***************************************************************************)
(* Theorems about Snippets, for every document, every limit and every set  *)
(* of queries, whichever alternatives the scores prefer.                   *)
(*                                                                         *)
(* That the snippets ascend is not inductive: where the next one goes      *)
(* depends on the calls that are pending.  The snippets in bh and the      *)
(* regions of the pending calls are one list, which ascends (QueueInv) and *)
(* ends before the occurrences that no cluster has had yet (PastInv).      *)
(***************************************************************************)
EXTENDS Snippets, SequenceTheorems, DataInduction

\* A pending call has a region, and the append it stands for has the snippet.
Pending == [start : Nat, end : Nat, append : SUBSET SnippetType]

CallsInv ==
    /\ calls \in Seq(Pending)
    /\ phase # "segment" => calls = <<>>
    /\ phase \in {"given", "cluster", "segment"} => chosen = {}
    /\ phase = "given" => bh = <<>> /\ p = 1 /\ cluster = {}
    /\ phase = "segment" => p > 1

RegionOK(c) ==
    /\ c.start <= c.end
    /\ \A s \in c.append :
          s.start = c.start /\ s.end = c.end /\ Fits(s.start, s.end)

Chain(cs) ==
    /\ \A i, j \in DOMAIN cs : i < j => cs[i].end < cs[j].start
    /\ \A j \in DOMAIN cs : RegionOK(cs[j])

QueueInv ==
    /\ SnippetsInOrder
    /\ \A i \in DOMAIN bh, j \in DOMAIN calls : bh[i].end < calls[j].start
    /\ Chain(calls)

PastInv ==
    /\ \A i \in DOMAIN bh : p > 1 /\ bh[i].end <= positions[p - 1].position
    /\ \A j \in DOMAIN calls : calls[j].end <= positions[p - 1].position
    /\ p \in 2..Len(positions) =>
          positions[p - 1].position < positions[p].position

SnippetsInv == TypeOK /\ CallsInv /\ QueueInv /\ PastInv
-----------------------------------------------------------------------------
(***************************************************************************)
(* The operators.                                                          *)
(***************************************************************************)
\* Token positions are numbers.
LEMMA PlacesWithinNat == Places \subseteq Nat
BY PairProximityAssumption, SnippetsAssumption

\* The limit is a whole number of tokens, at least one.
LEMMA LimitIsPositive ==
    ASSUME max_snippet \in MaxSnippets, NEW start \in Nat
    PROVE  AdjustedMaxSnippet(start) \in Nat \ {0}
<1> DEFINE twice == 2 * SummarySnippet
           left  == twice - start
           n     == 2 * max_snippet * left + SummarySnippet
<1>1. max_snippet \in Nat \ {0} /\ SummarySnippet \in Nat \ {0}
  BY SnippetsAssumption
<1>2. CASE start >= SummarySnippet
  BY <1>1, <1>2 DEF AdjustedMaxSnippet
<1>3. CASE ~(start >= SummarySnippet)
  <2>1. left \in Nat /\ left > SummarySnippet
    BY <1>1, <1>3
  <2>2. max_snippet * left \in Nat /\ max_snippet * left >= left
    <3> HIDE DEF left
    <3>1. max_snippet * left = (max_snippet - 1) * left + left
      BY <1>1, <2>1
    <3>2. (max_snippet - 1) * left \in Nat
      BY <1>1, <2>1
    <3> QED BY <2>1, <3>1, <3>2
  <2>3. 2 * max_snippet * left = 2 * (max_snippet * left)
    <3> HIDE DEF left
    <3> QED BY <1>1, <2>1
  <2>4. n \in Nat /\ n >= twice /\ twice \in Nat \ {0}
    <3> DEFINE product == max_snippet * left
    <3>1. n = 2 * product + SummarySnippet
      BY <2>3
    <3> HIDE DEF product, left
    <3> QED BY <1>1, <2>1, <2>2, <3>1 DEF product
  <2>5. n \div twice \in Nat \ {0}
    <3> HIDE DEF n, twice
    <3> QED BY <2>4
  <2> QED BY <1>3, <2>5 DEF AdjustedMaxSnippet
<1> QED BY <1>2, <1>3

\* The sorted occurrences ascend by position.
LEMMA PositionsAscend ==
    ASSUME TypeOK, NEW i \in DOMAIN positions, NEW j \in DOMAIN positions, i <= j
    PROVE  /\ positions[i].position \in Nat /\ positions[j].position \in Nat
           /\ positions[i].position <= positions[j].position
<1>1. positions[i] \in Placed /\ positions[j] \in Placed
  BY DEF TypeOK
<1>2. positions[i].position \in Nat /\ positions[j].position \in Nat
  BY <1>1, PlacesWithinNat, SnippetsAssumption DEF Placed
<1>3. i < j => Before(positions[i], positions[j])
  BY DEF TypeOK
<1>4. i \in Int /\ j \in Int
  BY DEF TypeOK
<1> QED BY <1>2, <1>3, <1>4 DEF Before

\* An occurrence has a place, a term, and queries among the 32 possible ones.
LEMMA OccurrenceFields ==
    ASSUME NEW o \in Occurrence
    PROVE  /\ o = [position |-> o.position, term_index |-> o.term_index,
                   query_mask |-> o.query_mask]
           /\ o.position \in Places /\ o.term_index \in TermIndexes
           /\ o.query_mask \in (SUBSET (0..31)) \ {{}}
<1>1. PICK t \in TermIndexes : o \in [position : Places, term_index : {t},
                                      query_mask : QueryMasks[t]]
  BY DEF Occurrence
<1>2. QueryMasks[t] \subseteq (SUBSET (0..31)) \ {{}}
  BY SnippetsAssumption
<1> QED BY <1>1, <1>2

\* Merging keeps the form of the occurrences, and two that are left differ in
\* place or term.
LEMMA MergeFacts ==
    ASSUME NEW os, os \subseteq Occurrence
    PROVE  /\ MergeEqual(os) \subseteq Placed
           /\ \A r, q \in MergeEqual(os) :
                 r.position = q.position /\ r.term_index = q.term_index => r = q
<1> DEFINE all(o) == UNION {q.query_mask : q \in {r \in os :
                        r.position = o.position /\ r.term_index = o.term_index}}
           merged(o) == [position |-> o.position, term_index |-> o.term_index,
                         query_mask |-> all(o)]
<1>1. ASSUME NEW r \in MergeEqual(os)
      PROVE  \E o \in os : r = merged(o)
  <2>1. PICK o \in os : r = [o EXCEPT !.query_mask = all(o)]
    BY DEF MergeEqual
  <2>2. o = [position |-> o.position, term_index |-> o.term_index,
             query_mask |-> o.query_mask]
    BY OccurrenceFields
  <2> QED BY <2>1, <2>2
<1>2. ASSUME NEW o \in os PROVE merged(o) \in Placed
  <2>1. \A q \in os : q.query_mask \subseteq 0..31
    BY OccurrenceFields
  <2>2. all(o) \subseteq 0..31 /\ all(o) # {}
    <3>1. o.query_mask # {} /\ o.query_mask \subseteq all(o)
      BY OccurrenceFields
    <3> QED BY <2>1, <3>1
  <2>3. o.position \in Places /\ o.term_index \in TermIndexes
    BY OccurrenceFields
  <2> QED BY <2>2, <2>3 DEF Placed
<1>3. ASSUME NEW o \in os, NEW u \in os,
             merged(o).position = merged(u).position,
             merged(o).term_index = merged(u).term_index
      PROVE  merged(o) = merged(u)
  <2>1. o.position = u.position /\ o.term_index = u.term_index
    BY <1>3
  <2> QED BY <2>1
<1> HIDE DEF merged
<1> QED BY <1>1, <1>2, <1>3

\* What the sort leaves is a sequence in strict order.
LEMMA SortedFacts ==
    ASSUME NEW os, os \subseteq Occurrence, NEW s \in Sorted(MergeEqual(os))
    PROVE  /\ s \in Seq(Placed)
           /\ \A i, j \in DOMAIN s : i < j => Before(s[i], s[j])
<1>1. PICK n \in 0..MaxOccurrences : s \in [1..n -> MergeEqual(os)]
  BY DEF Sorted
<1>2. n \in Nat
  BY SnippetsAssumption
<1>3. s \in Seq(Placed)
  <2>1. s \in Seq(MergeEqual(os))
    BY <1>1, <1>2
  <2> QED BY <2>1, <1>1, <1>2, MergeFacts
<1>4. ASSUME NEW i \in DOMAIN s, NEW j \in DOMAIN s, i < j
      PROVE  Before(s[i], s[j])
  <2>1. s[i] # s[j] /\ ~Before(s[j], s[i])
    BY <1>4 DEF Sorted
  <2>2. s[i] \in MergeEqual(os) /\ s[j] \in MergeEqual(os)
    BY <1>1
  <2>3. s[i] \in Placed /\ s[j] \in Placed
    BY <2>2, MergeFacts
  <2>4. ~(s[i].position = s[j].position /\ s[i].term_index = s[j].term_index)
    BY <2>1, <2>2, MergeFacts
  <2>5. s[i].position \in Nat /\ s[j].position \in Nat
    BY <2>3, PlacesWithinNat, SnippetsAssumption DEF Placed
  <2>6. s[i].term_index \in 0..63 /\ s[j].term_index \in 0..63
    BY <2>3, PlacesWithinNat, SnippetsAssumption DEF Placed
  <2> QED BY <2>1, <2>4, <2>5, <2>6 DEF Before
<1> QED BY <1>3, <1>4

\* The terms of some occurrences are among the given ones, and finitely many.
LEMMA MaskFacts ==
    ASSUME TypeOK, NEW is \in SUBSET DOMAIN positions
    PROVE  /\ MaskOf(is) \in SUBSET TermIndexes
           /\ IsFiniteSet(MaskOf(is)) /\ Cardinality(MaskOf(is)) \in 0..64
<1>1. ASSUME NEW i \in is PROVE positions[i].term_index \in TermIndexes
  <2>1. positions[i] \in Placed
    BY DEF TypeOK
  <2> QED BY <2>1 DEF Placed
<1>2. MaskOf(is) \in SUBSET TermIndexes
  BY <1>1 DEF MaskOf
<1>3. ASSUME NEW t \in MaskOf(is) PROVE t \in Nat /\ t <= 63
  <2>1. t \in 0..63
    BY <1>2, SnippetsAssumption
  <2> QED BY <2>1
<1>4. IsFiniteSet(MaskOf(is)) /\ Cardinality(MaskOf(is)) <= 63 + 1
  <2>1. MaskOf(is) \in SUBSET Nat
    BY <1>3
  <2> QED BY <1>3, <2>1, FS_BoundedSetOfNaturals, 63 \in Nat
<1>5. Cardinality(MaskOf(is)) \in Nat
  BY <1>4, FS_CardinalityType
<1> QED BY <1>2, <1>4, <1>5

\* A snippet made of occurrences and a query has the form of one.
LEMMA SnippetIsTyped ==
    ASSUME TypeOK, NEW start \in Nat, NEW end \in Nat, NEW q \in -1..31,
           NEW is \in SUBSET DOMAIN positions, NEW count \in Nat
    PROVE  Snippet(start, end, q, is, count) \in SnippetType
BY MaskFacts DEF Snippet, SnippetType

\* The number of some occurrences, and their count, are natural numbers.
LEMMA CountsAreNat ==
    ASSUME TypeOK, NEW is \in SUBSET DOMAIN positions
    PROVE  /\ Cardinality(is) \in Nat
           /\ CountTwice(is) \in Nat /\ CountTwice(is) <= 128
<1>1. Cardinality(is) \in Nat
  <2>1. DOMAIN positions = 1..Len(positions) /\ Len(positions) \in Nat
    BY DEF TypeOK
  <2>2. IsFiniteSet(1..Len(positions))
    BY <2>1, FS_Interval
  <2> QED BY <2>1, <2>2, FS_Subset, FS_CardinalityType
<1> DEFINE again == {t \in MaskOf(is) : \E i, j \in is :
              i # j /\ positions[i].term_index = t /\ positions[j].term_index = t}
<1>2. Cardinality(again) \in 0..64
  <2>1. again \in SUBSET MaskOf(is)
    OBVIOUS
  <2>2. IsFiniteSet(again) /\ Cardinality(again) <= Cardinality(MaskOf(is))
    BY <2>1, MaskFacts, FS_Subset
  <2> HIDE DEF again
  <2>3. Cardinality(again) \in Nat
    BY <2>2, FS_CardinalityType
  <2> QED BY <2>2, <2>3, MaskFacts
<1>3. CountTwice(is) = Cardinality(MaskOf(is)) + Cardinality(again)
  BY DEF CountTwice
<1> HIDE DEF again
<1> QED BY <1>1, <1>2, <1>3, MaskFacts

\* The places of occurrences are numbers.
LEMMA PlacesAreNat ==
    ASSUME TypeOK, NEW i \in DOMAIN positions
    PROVE  positions[i].position \in Nat
<1>1. positions[i] \in Placed
  BY DEF TypeOK
<1> QED BY <1>1, PlacesWithinNat, SnippetsAssumption DEF Placed

\* What is in a region, and the queries of it.
LEMMA RegionFacts ==
    ASSUME TypeOK, NEW start, NEW end
    PROVE  /\ InRegion(start, end) \in SUBSET DOMAIN positions
           /\ \A i \in InRegion(start, end) : positions[i].position \in start..end
BY DEF TypeOK, InRegion

\* What is known of a query and its mask.
LEMMA QueryFacts ==
    ASSUME TypeOK, NEW is \in SUBSET DOMAIN positions
    PROVE  /\ QueriesIn(is) \subseteq 0..31
           /\ \A q : OfQuery(is, q) \in SUBSET DOMAIN positions
<1>1. ASSUME NEW i \in is PROVE positions[i].query_mask \subseteq 0..31
  <2>1. positions[i] \in Placed
    BY DEF TypeOK
  <2> QED BY <2>1 DEF Placed
<1> QED BY <1>1 DEF QueriesIn, OfQuery

\* A region that fits becomes a snippet of just its extent.
LEMMA WholeRegionFacts ==
    ASSUME TypeOK, NEW start \in Nat, NEW end \in Nat,
           NEW s \in WholeRegion(start, end)
    PROVE  s \in SnippetType /\ s.start = start /\ s.end = end
<1> DEFINE is == InRegion(start, end)
<1>1. is \in SUBSET DOMAIN positions
  BY RegionFacts
<1> HIDE DEF is
<1>2. CASE is = {}
  <2>1. s = Snippet(start, end, -1, {}, 0)
    BY <1>2 DEF WholeRegion, is
  <2>2. -1 \in -1..31 /\ 0 \in Nat /\ {} \in SUBSET DOMAIN positions
    OBVIOUS
  <2>3. s \in SnippetType
    BY <2>1, <2>2, SnippetIsTyped
  <2> QED BY <2>1, <2>3 DEF Snippet
<1>3. CASE is # {}
  <2>1. PICK q \in QueriesIn(is) :
          s = Snippet(start, end, q, OfQuery(is, q), Cardinality(OfQuery(is, q)))
    BY <1>3 DEF WholeRegion, is
  <2>2. q \in -1..31 /\ OfQuery(is, q) \in SUBSET DOMAIN positions
    <3>1. q \in 0..31
      BY <1>1, QueryFacts
    <3> QED BY <1>1, <3>1, QueryFacts
  <2>3. Cardinality(OfQuery(is, q)) \in Nat
    BY <2>2, CountsAreNat
  <2>4. s \in SnippetType
    BY <2>1, <2>2, <2>3, SnippetIsTyped
  <2> QED BY <2>1, <2>4 DEF Snippet
<1> QED BY <1>2, <1>3

\* A window begins and ends inside the region, in order, and fits.
LEMMA WindowFacts ==
    ASSUME TypeOK, NEW start \in Nat, NEW end \in Nat,
           NEW s \in Found(start, end)
    PROVE  /\ s \in SnippetType
           /\ start <= s.start /\ s.start <= s.end /\ s.end <= end
           /\ Fits(s.start, s.end)
<1>1. PICK w \in Windows(start, end) : \E q \in QueriesIn(w[1]..w[2]) :
          s = WindowSnippet(w, q)
  BY DEF Found
<1>2. PICK q \in QueriesIn(w[1]..w[2]) : s = WindowSnippet(w, q)
  BY <1>1
<1> DEFINE first == w[1]
           last  == w[2]
<1>3. /\ first \in InRegion(start, end) /\ last \in InRegion(start, end)
      /\ first <= last
      /\ Fits(positions[first].position, positions[last].position)
  BY DEF Windows
<1>4. /\ first \in DOMAIN positions /\ last \in DOMAIN positions
      /\ positions[first].position \in start..end
      /\ positions[last].position \in start..end
  BY <1>3, RegionFacts
<1>5. /\ positions[first].position \in Nat /\ positions[last].position \in Nat
      /\ positions[first].position <= positions[last].position
  BY <1>3, <1>4, PositionsAscend
<1>6. first..last \in SUBSET DOMAIN positions
  <2>1. DOMAIN positions = 1..Len(positions) /\ Len(positions) \in Nat
    BY DEF TypeOK
  <2> HIDE DEF first, last
  <2> QED BY <1>4, <2>1
<1>7. s = Snippet(positions[first].position, positions[last].position, q,
                  OfQuery(first..last, q), CountTwice(OfQuery(first..last, q)))
  BY <1>2 DEF WindowSnippet
<1>8. q \in QueriesIn(first..last)
  BY <1>2
<1> HIDE DEF first, last
<1>9. q \in -1..31 /\ OfQuery(first..last, q) \in SUBSET DOMAIN positions
  <2>1. q \in 0..31
    BY <1>6, <1>8, QueryFacts
  <2>2. OfQuery(first..last, q) \in SUBSET DOMAIN positions
    BY <1>6, QueryFacts
  <2> QED BY <2>1, <2>2
<1>10. s \in SnippetType
  <2>1. CountTwice(OfQuery(first..last, q)) \in Nat
    BY <1>9, CountsAreNat
  <2> QED BY <1>5, <1>7, <1>9, <2>1, SnippetIsTyped
<1>11. s.start = positions[first].position /\ s.end = positions[last].position
  BY <1>7 DEF Snippet
<1> QED BY <1>3, <1>4, <1>5, <1>10, <1>11

\* The regions of c end before those of d, and e has those of c and d.
Behind(c, d) == \A i \in DOMAIN c, j \in DOMAIN d : c[i].end < d[j].start
Parts(e, c, d) == \A k \in DOMAIN e : \/ \E i \in DOMAIN c : e[k] = c[i]
                                     \/ \E j \in DOMAIN d : e[k] = d[j]

\* Two chains, one behind the other, are a chain.
LEMMA ChainConcat ==
    ASSUME NEW c \in Seq(Pending), NEW d \in Seq(Pending), Chain(c), Chain(d),
           Behind(c, d)
    PROVE  c \o d \in Seq(Pending) /\ Chain(c \o d) /\ Parts(c \o d, c, d)
<1> DEFINE e == c \o d
<1>1. /\ e \in Seq(Pending) /\ Len(e) = Len(c) + Len(d)
      /\ \A k \in 1..(Len(c) + Len(d)) :
            e[k] = IF k <= Len(c) THEN c[k] ELSE d[k - Len(c)]
  BY ConcatProperties
<1> HIDE DEF e
<1>2. /\ DOMAIN e = 1..Len(e) /\ DOMAIN c = 1..Len(c) /\ DOMAIN d = 1..Len(d)
      /\ Len(c) \in Nat /\ Len(d) \in Nat
  BY <1>1
<1>3. ASSUME NEW k \in DOMAIN e
      PROVE  \/ k \in DOMAIN c /\ e[k] = c[k]
             \/ k > Len(c) /\ k - Len(c) \in DOMAIN d /\ e[k] = d[k - Len(c)]
  BY <1>1, <1>2
<1>4. ASSUME NEW i \in DOMAIN e, NEW j \in DOMAIN e, i < j
      PROVE  e[i].end < e[j].start
  <2>1. CASE j \in DOMAIN c /\ e[j] = c[j]
    <3>1. i \in DOMAIN c /\ e[i] = c[i]
      BY <1>2, <1>3, <1>4, <2>1
    <3> QED BY <1>4, <2>1, <3>1 DEF Chain
  <2>2. CASE j > Len(c) /\ j - Len(c) \in DOMAIN d /\ e[j] = d[j - Len(c)]
    <3>1. CASE i \in DOMAIN c /\ e[i] = c[i]
      BY <2>2, <3>1 DEF Behind
    <3>2. CASE i > Len(c) /\ i - Len(c) \in DOMAIN d /\ e[i] = d[i - Len(c)]
      <4>1. i - Len(c) < j - Len(c)
        BY <1>1, <1>2, <1>4
      <4> QED BY <2>2, <3>2, <4>1 DEF Chain
    <3> QED BY <1>3, <3>1, <3>2
  <2> QED BY <1>3, <2>1, <2>2
<1>5. ASSUME NEW k \in DOMAIN e PROVE RegionOK(e[k])
  BY <1>3 DEF Chain
<1>6. Chain(e)
  BY <1>4, <1>5 DEF Chain
<1>7. Parts(e, c, d)
  BY <1>3 DEF Parts
<1> QED BY <1>1, <1>6, <1>7 DEF e

\* What a call becomes when it finds a best snippet: a chain of regions inside
\* its own, around the snippet.
LEMMA AroundFacts ==
    ASSUME NEW start \in Nat, NEW end \in Nat, NEW s \in SnippetType,
           start <= s.start, s.start <= s.end, s.end <= end,
           Fits(s.start, s.end)
    PROVE  /\ Around(start, end, s) \in Seq(Pending)
           /\ Chain(Around(start, end, s))
           /\ \A j \in DOMAIN Around(start, end, s) :
                 /\ start <= Around(start, end, s)[j].start
                 /\ Around(start, end, s)[j].end <= end
<1> DEFINE l == Call(start, s.start - 1)
           m == [start |-> s.start, end |-> s.end, append |-> {s}]
           r == Call(s.end + 1, end)
           left  == IF s.start > start THEN <<l>> ELSE <<>>
           mid   == <<m>>
           right == IF s.end < end THEN <<r>> ELSE <<>>
<1>1. s.start \in Nat /\ s.end \in Nat
  BY DEF SnippetType
<1>2. m \in Pending /\ RegionOK(m) /\ m.start = s.start /\ m.end = s.end
  BY <1>1 DEF Pending, RegionOK
<1>3. ASSUME s.start > start
      PROVE  /\ l \in Pending /\ RegionOK(l)
             /\ l.start = start /\ l.end = s.start - 1
  BY <1>1, <1>3 DEF Pending, RegionOK, Call
<1>4. ASSUME s.end < end
      PROVE  /\ r \in Pending /\ RegionOK(r)
             /\ r.start = s.end + 1 /\ r.end = end
  BY <1>1, <1>4 DEF Pending, RegionOK, Call
<1> HIDE DEF l, m, r
<1>5. /\ left \in Seq(Pending) /\ Chain(left)
      /\ \A j \in DOMAIN left :
            start <= left[j].start /\ left[j].end = s.start - 1
  BY <1>3 DEF Chain
<1>6. /\ mid \in Seq(Pending) /\ Chain(mid)
      /\ \A j \in DOMAIN mid : mid[j].start = s.start /\ mid[j].end = s.end
  BY <1>2 DEF Chain
<1>7. /\ right \in Seq(Pending) /\ Chain(right)
      /\ \A j \in DOMAIN right :
            right[j].start = s.end + 1 /\ right[j].end <= end
  BY <1>4 DEF Chain
<1>8. Around(start, end, s) = left \o mid \o right
  BY DEF Around, l, m, r
<1> HIDE DEF left, mid, right
<1> DEFINE half == left \o mid
<1>9. /\ half \in Seq(Pending) /\ Chain(half)
      /\ \A k \in DOMAIN half : start <= half[k].start /\ half[k].end <= s.end
  <2>1. Behind(left, mid)
    BY <1>1, <1>5, <1>6 DEF Behind
  <2>2. half \in Seq(Pending) /\ Chain(half) /\ Parts(half, left, mid)
    BY <1>5, <1>6, <2>1, ChainConcat
  <2> HIDE DEF half
  <2> QED BY <1>1, <1>5, <1>6, <2>2 DEF Parts
<1> HIDE DEF half
<1> DEFINE whole == half \o right
<1>10. /\ whole \in Seq(Pending) /\ Chain(whole)
       /\ \A k \in DOMAIN whole : start <= whole[k].start /\ whole[k].end <= end
  <2>1. ASSUME NEW i \in DOMAIN half PROVE half[i].end \in Nat
    <3>1. half[i] \in Pending
      BY <1>9
    <3> QED BY <3>1 DEF Pending
  <2>2. Behind(half, right)
    BY <1>1, <1>7, <1>9, <2>1 DEF Behind
  <2>3. whole \in Seq(Pending) /\ Chain(whole) /\ Parts(whole, half, right)
    BY <1>7, <1>9, <2>2, ChainConcat
  <2> HIDE DEF whole
  <2> QED BY <1>1, <1>7, <1>9, <2>1, <2>3 DEF Parts
<1> QED BY <1>8, <1>10 DEF half

\* The same of whatever a call that does not fit becomes.
LEMMA SplitFacts ==
    ASSUME TypeOK, NEW start \in Nat, NEW end \in Nat, NEW c \in Split(start, end)
    PROVE  /\ c \in Seq(Pending) /\ Chain(c)
           /\ \A j \in DOMAIN c : start <= c[j].start /\ c[j].end <= end
<1>1. CASE FindBest(start, end) = {}
  <2>1. c = <<>>
    BY <1>1 DEF Split
  <2> QED BY <2>1 DEF Chain
<1>2. CASE FindBest(start, end) # {}
  <2>1. PICK s \in FindBest(start, end) : c = Around(start, end, s)
    BY <1>2 DEF Split
  <2>2. s \in Found(start, end)
    BY DEF FindBest
  <2> QED BY <2>1, <2>2, WindowFacts, AroundFacts
<1> QED BY <1>1, <1>2

-----------------------------------------------------------------------------
(***************************************************************************)
(* The steps.                                                              *)
(***************************************************************************)
\* The first pending call is a region, and behind it are the others.
LEMMA FirstCall ==
    ASSUME CallsInv, calls # <<>>
    PROVE  /\ 1 \in DOMAIN calls /\ calls[1] \in Pending
           /\ calls[1].start \in Nat /\ calls[1].end \in Nat
           /\ Tail(calls) \in Seq(Pending)
           /\ \A j \in DOMAIN Tail(calls) :
                 /\ j + 1 \in DOMAIN calls /\ j + 1 > 1
                 /\ Tail(calls)[j] = calls[j + 1]
<1>1. calls \in Seq(Pending) /\ Len(calls) \in Nat /\ Len(calls) > 0
  BY DEF CallsInv
<1>2. /\ Tail(calls) \in Seq(Pending) /\ Len(Tail(calls)) = Len(calls) - 1
      /\ \A j \in 1..(Len(calls) - 1) : Tail(calls)[j] = calls[j + 1]
  BY <1>1
<1>3. 1 \in DOMAIN calls /\ calls[1] \in Pending
  BY <1>1
<1>4. calls[1].start \in Nat /\ calls[1].end \in Nat
  BY <1>3 DEF Pending
<1>5. DOMAIN Tail(calls) = 1..(Len(calls) - 1) /\ DOMAIN calls = 1..Len(calls)
  BY <1>1, <1>2
<1>6. ASSUME NEW j \in 1..(Len(calls) - 1)
      PROVE  j + 1 \in 1..Len(calls) /\ j + 1 > 1
  BY <1>1
<1> QED BY <1>2, <1>3, <1>4, <1>5, <1>6

\* A snippet of just the extent of the first pending call is appended.
LEMMA AppendStep ==
    ASSUME SnippetsInv, phase = "segment", calls # <<>>,
           NEW s \in SnippetType, s.start = calls[1].start,
           s.end = calls[1].end, Fits(s.start, s.end),
           bh' = Append(bh, s), calls' = Tail(calls),
           UNCHANGED <<given, max_snippet, phase, positions, p, cluster, begun,
                       topVars>>
    PROVE  SnippetsInv'
<1> USE DEF SnippetsInv
<1>1. /\ given' = given /\ max_snippet' = max_snippet /\ phase' = phase
      /\ positions' = positions /\ p' = p /\ cluster' = cluster
      /\ begun' = begun /\ rest' = rest /\ chosen' = chosen
  BY DEF topVars
<1>2. /\ bh' \in Seq(SnippetType) /\ Len(bh') = Len(bh) + 1
      /\ DOMAIN bh = 1..Len(bh) /\ Len(bh) \in Nat
      /\ DOMAIN bh' = 1..(Len(bh) + 1) /\ bh'[Len(bh) + 1] = s
      /\ \A k \in 1..Len(bh) : k \in DOMAIN bh /\ bh'[k] = bh[k]
  BY DEF TypeOK
<1>3. ASSUME NEW i \in DOMAIN bh'
      PROVE  \/ i \in DOMAIN bh /\ bh'[i] = bh[i]
             \/ i = Len(bh) + 1 /\ bh'[i] = s
  <2>1. i \in 1..(Len(bh) + 1) /\ Len(bh) \in Nat
    BY <1>2
  <2>2. i \in 1..Len(bh) \/ i = Len(bh) + 1
    BY <2>1
  <2>3. CASE i \in 1..Len(bh)
    BY <1>2, <2>3
  <2>4. CASE i = Len(bh) + 1
    BY <1>2, <2>4
  <2> QED BY <2>2, <2>3, <2>4
<1>4. /\ s.start \in Nat /\ s.end \in Nat /\ s.start <= s.end
  <2>1. RegionOK(calls[1])
    BY FirstCall DEF QueueInv, Chain
  <2> QED BY <2>1 DEF RegionOK, SnippetType
<1>5. TypeOK'
  BY <1>1, <1>2 DEF TypeOK, Before
<1>6. CallsInv'
  BY <1>1, FirstCall DEF CallsInv
<1>7. SnippetsInOrder'
  <2>1. ASSUME NEW i \in DOMAIN bh', NEW j \in DOMAIN bh', i < j
        PROVE  bh'[i].end < bh'[j].start
    <3>1. i \in DOMAIN bh /\ bh'[i] = bh[i]
      BY <1>2, <1>3, <2>1
    <3>2. CASE j \in DOMAIN bh /\ bh'[j] = bh[j]
      BY <2>1, <3>1, <3>2 DEF QueueInv, SnippetsInOrder
    <3>3. CASE j = Len(bh) + 1 /\ bh'[j] = s
      BY <3>1, <3>3, FirstCall DEF QueueInv
    <3> QED BY <1>3, <3>2, <3>3
  <2>2. ASSUME NEW i \in DOMAIN bh'
        PROVE  bh'[i].start <= bh'[i].end /\ Fits(bh'[i].start, bh'[i].end)
    <3>1. CASE i \in DOMAIN bh /\ bh'[i] = bh[i]
      BY <3>1 DEF QueueInv, SnippetsInOrder
    <3>2. CASE bh'[i] = s
      BY <1>4, <3>2
    <3> QED BY <1>3, <3>1, <3>2
  <2> QED BY <1>1, <2>1, <2>2 DEF SnippetsInOrder, Fits, AdjustedMaxSnippet
<1>8. ASSUME NEW i \in DOMAIN bh', NEW j \in DOMAIN calls'
      PROVE  bh'[i].end < calls'[j].start
  <2>1. j + 1 \in DOMAIN calls /\ 1 < j + 1 /\ calls'[j] = calls[j + 1]
    BY FirstCall
  <2>2. CASE i \in DOMAIN bh /\ bh'[i] = bh[i]
    BY <2>1, <2>2 DEF QueueInv
  <2>3. CASE bh'[i] = s
    BY <2>1, <2>3, FirstCall DEF QueueInv, Chain
  <2> QED BY <1>3, <2>2, <2>3
<1>9. Chain(calls)'
  <2>1. ASSUME NEW i \in DOMAIN calls', NEW j \in DOMAIN calls', i < j
        PROVE  calls'[i].end < calls'[j].start
    <3>1. /\ i + 1 \in DOMAIN calls /\ calls'[i] = calls[i + 1]
          /\ j + 1 \in DOMAIN calls /\ calls'[j] = calls[j + 1]
      BY FirstCall
    <3>2. i + 1 < j + 1
      BY <2>1, FirstCall
    <3> QED BY <3>1, <3>2 DEF QueueInv, Chain
  <2>2. ASSUME NEW j \in DOMAIN calls' PROVE RegionOK(calls'[j])
    BY FirstCall DEF QueueInv, Chain
  <2> QED BY <1>1, <2>1, <2>2 DEF Chain, RegionOK, Fits, AdjustedMaxSnippet
<1>10. QueueInv'
  BY <1>7, <1>8, <1>9 DEF QueueInv
<1>11. PastInv'
  <2>1. ASSUME NEW i \in DOMAIN bh'
        PROVE  p > 1 /\ bh'[i].end <= positions[p - 1].position
    <3>1. CASE i \in DOMAIN bh /\ bh'[i] = bh[i]
      BY <3>1 DEF PastInv
    <3>2. CASE bh'[i] = s
      BY <3>2, FirstCall DEF PastInv, CallsInv
    <3> QED BY <1>3, <3>1, <3>2
  <2>2. ASSUME NEW j \in DOMAIN calls'
        PROVE  calls'[j].end <= positions[p - 1].position
    BY FirstCall DEF PastInv
  <2> QED BY <1>1, <2>1, <2>2 DEF PastInv
<1> QED BY <1>5, <1>6, <1>10, <1>11

\* The first pending call becomes the calls it makes.
LEMMA SplitStep ==
    ASSUME SnippetsInv, phase = "segment", calls # <<>>,
           NEW c \in Split(calls[1].start, calls[1].end),
           calls' = c \o Tail(calls), bh' = bh,
           UNCHANGED <<given, max_snippet, phase, positions, p, cluster, begun,
                       topVars>>
    PROVE  SnippetsInv'
<1> USE DEF SnippetsInv
<1>1. /\ given' = given /\ max_snippet' = max_snippet /\ phase' = phase
      /\ positions' = positions /\ p' = p /\ cluster' = cluster
      /\ begun' = begun /\ rest' = rest /\ chosen' = chosen
  BY DEF topVars
<1> DEFINE d == Tail(calls)
           e == c \o d
<1>2. /\ c \in Seq(Pending) /\ Chain(c)
      /\ \A j \in DOMAIN c : calls[1].start <= c[j].start /\ c[j].end <= calls[1].end
  BY FirstCall, SplitFacts
<1>3. /\ d \in Seq(Pending)
      /\ \A j \in DOMAIN d : /\ j + 1 \in DOMAIN calls /\ j + 1 > 1
                             /\ d[j] = calls[j + 1]
  BY FirstCall
<1>4. 1 \in DOMAIN calls /\ calls[1].start \in Nat /\ calls[1].end \in Nat
  BY FirstCall
<1>5. calls' = e
  OBVIOUS
<1> HIDE DEF d
<1>6. Chain(d)
  <2>1. ASSUME NEW i \in DOMAIN d, NEW j \in DOMAIN d, i < j
        PROVE  d[i].end < d[j].start
    <3>1. i + 1 < j + 1
      BY <1>3, <2>1
    <3> QED BY <1>3, <3>1 DEF QueueInv, Chain
  <2>2. ASSUME NEW j \in DOMAIN d PROVE RegionOK(d[j])
    BY <1>3 DEF QueueInv, Chain
  <2> QED BY <2>1, <2>2 DEF Chain
<1>7. ASSUME NEW j \in DOMAIN c PROVE c[j].start \in Nat /\ c[j].end \in Nat
  <2>1. c[j] \in Pending
    BY <1>2
  <2> QED BY <2>1 DEF Pending
<1>8. ASSUME NEW j \in DOMAIN d
      PROVE  /\ d[j].start \in Nat /\ d[j].end \in Nat
             /\ calls[1].end < d[j].start
  <2>1. d[j] \in Pending
    BY <1>3
  <2>2. calls[1].end < d[j].start
    BY <1>3, <1>4 DEF QueueInv, Chain
  <2> QED BY <2>1, <2>2 DEF Pending
<1>9. Behind(c, d)
  BY <1>2, <1>4, <1>7, <1>8 DEF Behind
<1>10. e \in Seq(Pending) /\ Chain(e) /\ Parts(e, c, d)
  BY <1>2, <1>3, <1>6, <1>9, ChainConcat
<1> HIDE DEF e
<1>11. ASSUME NEW k \in DOMAIN e
       PROVE  /\ e[k].start \in Nat /\ e[k].end \in Nat
              /\ calls[1].start <= e[k].start
              /\ \/ e[k].end <= calls[1].end
                 \/ \E j \in DOMAIN calls : e[k].end = calls[j].end
  <2>0. calls[1].start <= calls[1].end
    BY <1>4 DEF QueueInv, Chain, RegionOK
  <2>1. CASE \E i \in DOMAIN c : e[k] = c[i]
    BY <1>2, <1>7, <2>1
  <2>2. CASE \E j \in DOMAIN d : e[k] = d[j]
    BY <1>3, <1>4, <1>8, <2>0, <2>2
  <2> QED BY <1>10, <2>1, <2>2 DEF Parts
<1>12. TypeOK'
  BY <1>1 DEF TypeOK, Before
<1>13. CallsInv'
  BY <1>1, <1>5, <1>10 DEF CallsInv
<1>14. SnippetsInOrder'
  BY <1>1 DEF QueueInv, SnippetsInOrder, Fits, AdjustedMaxSnippet
<1>15. ASSUME NEW i \in DOMAIN bh, NEW j \in DOMAIN e
       PROVE  bh[i].end < e[j].start
  <2>1. bh[i].end < calls[1].start
    BY <1>4 DEF QueueInv
  <2>2. bh[i] \in SnippetType
    BY DEF TypeOK
  <2>3. bh[i].end \in Nat
    BY <2>2 DEF SnippetType
  <2> QED BY <1>4, <1>11, <2>1, <2>3
<1>16. Chain(calls)'
  BY <1>1, <1>5, <1>10 DEF Chain, RegionOK, Fits, AdjustedMaxSnippet
<1>17. QueueInv'
  BY <1>5, <1>14, <1>15, <1>16 DEF QueueInv
<1>18. PastInv'
  <2>1. ASSUME NEW k \in DOMAIN e PROVE e[k].end <= positions[p - 1].position
    <3>1. CASE \E j \in DOMAIN calls : e[k].end = calls[j].end
      BY <3>1 DEF PastInv
    <3>2. CASE e[k].end <= calls[1].end
      <4>1. calls[1].end <= positions[p - 1].position
        BY <1>4 DEF PastInv
      <4>2. p - 1 \in DOMAIN positions
        BY DEF CallsInv, TypeOK
      <4>3. positions[p - 1].position \in Nat
        BY <4>2, PlacesAreNat
      <4> QED BY <1>4, <1>11, <3>2, <4>1, <4>3
    <3> QED BY <1>11, <3>1, <3>2
  <2> QED BY <1>1, <1>5, <2>1 DEF PastInv
<1> QED BY <1>12, <1>13, <1>17, <1>18

\* The sort puts the occurrences into strict order; nothing else is there yet.
LEMMA SortStep ==
    ASSUME SnippetsInv, SortPositions
    PROVE  SnippetsInv'
<1> USE DEF SnippetsInv
<1>1. /\ phase = "given" /\ phase' = "cluster" /\ given' = given
      /\ max_snippet' = max_snippet /\ p' = p /\ cluster' = cluster
      /\ begun' = begun /\ calls' = calls /\ bh' = bh
      /\ rest' = rest /\ chosen' = chosen
  BY DEF SortPositions, topVars
<1>2. bh = <<>> /\ p = 1 /\ calls = <<>> /\ cluster = {}
  BY <1>1 DEF CallsInv
<1>3. /\ positions' \in Seq(Placed)
      /\ \A i, j \in DOMAIN positions' :
            i < j => Before(positions'[i], positions'[j])
  BY SortedFacts DEF SortPositions, TypeOK
<1>4. TypeOK'
  <2>1. p' \in 1..(Len(positions') + 1) /\ cluster' \subseteq DOMAIN positions'
    BY <1>1, <1>2, <1>3
  <2>2. (\A i, j \in DOMAIN positions : i < j => Before(positions[i], positions[j]))'
    BY <1>3 DEF Before
  <2> QED BY <1>1, <1>3, <2>1, <2>2 DEF TypeOK
<1>5. CallsInv'
  BY <1>1, <1>2 DEF CallsInv
<1>6. QueueInv'
  BY <1>1, <1>2 DEF QueueInv, SnippetsInOrder, Chain
<1>7. PastInv'
  BY <1>1, <1>2 DEF PastInv
<1> QED BY <1>4, <1>5, <1>6, <1>7

\* The next cluster begins behind everything so far, and the occurrence behind
\* it is at least the limit away.
LEMMA ClusterStep ==
    ASSUME SnippetsInv, StartCluster
    PROVE  SnippetsInv'
<1> USE DEF SnippetsInv
<1>1. /\ phase = "cluster" /\ phase' = "segment" /\ p <= Len(positions)
      /\ given' = given /\ max_snippet' = max_snippet
      /\ positions' = positions /\ bh' = bh /\ begun' = Len(bh)
      /\ rest' = rest /\ chosen' = chosen
  BY DEF StartCluster, topVars
<1>2. PICK last \in p..Len(positions) :
        /\ IsCluster(p, last) /\ cluster' = p..last /\ p' = last + 1
        /\ calls' = <<Call(positions[p].position, positions[last].position)>>
  BY DEF StartCluster
<1>3. /\ DOMAIN positions = 1..Len(positions) /\ Len(positions) \in Nat
      /\ p \in Nat \ {0} /\ p \in DOMAIN positions
      /\ last \in Nat \ {0} /\ last \in DOMAIN positions /\ p <= last
  BY <1>1 DEF TypeOK
<1> DEFINE from  == positions[p].position
           until == positions[last].position
<1>4. from \in Nat /\ until \in Nat /\ from <= until
  BY <1>3, PositionsAscend
<1>5. /\ calls' \in Seq(Pending) /\ DOMAIN calls' = 1..1
      /\ calls'[1].start = from /\ calls'[1].end = until
      /\ calls'[1].append = {}
  <2> HIDE DEF from, until
  <2>1. calls' = <<Call(from, until)>>
    BY <1>2 DEF from, until
  <2>2. Call(from, until) \in Pending
    BY <1>4 DEF Call, Pending
  <2> QED BY <2>1, <2>2 DEF Call
<1> HIDE DEF from, until
<1>6. \A j \in 1..1 : j = 1
  OBVIOUS
<1>7. TypeOK'
  <2>1. /\ p' \in 1..(Len(positions') + 1)
        /\ cluster' \subseteq DOMAIN positions' /\ begun' \in 0..Len(bh')
    BY <1>1, <1>2, <1>3 DEF TypeOK
  <2> QED BY <1>1, <2>1 DEF TypeOK, Before
<1>8. CallsInv'
  BY <1>1, <1>2, <1>3, <1>5 DEF CallsInv
<1>9. ASSUME NEW i \in DOMAIN bh PROVE bh[i].end < from /\ bh[i].end \in Nat
  <2>1. bh[i] \in SnippetType
    BY DEF TypeOK
  <2>2. p > 1 /\ bh[i].end <= positions[p - 1].position
    BY DEF PastInv
  <2>3. positions[p - 1].position < from
    BY <1>1, <1>3, <2>2 DEF PastInv, from
  <2>4. p - 1 \in DOMAIN positions
    BY <1>3, <2>2
  <2>5. positions[p - 1].position \in Nat
    BY <2>4, PlacesAreNat
  <2> QED BY <1>4, <2>1, <2>2, <2>3, <2>5 DEF SnippetType
<1>10. QueueInv'
  <2>1. SnippetsInOrder'
    BY <1>1 DEF QueueInv, SnippetsInOrder, Fits, AdjustedMaxSnippet
  <2>2. (\A i \in DOMAIN bh, j \in DOMAIN calls : bh[i].end < calls[j].start)'
    BY <1>1, <1>5, <1>6, <1>9
  <2>3. Chain(calls)'
    BY <1>4, <1>5, <1>6 DEF Chain, RegionOK
  <2> QED BY <2>1, <2>2, <2>3 DEF QueueInv
<1>11. PastInv'
  <2>1. p' - 1 = last /\ p' > 1
    BY <1>2, <1>3
  <2>2. ASSUME NEW i \in DOMAIN bh PROVE bh[i].end <= until
    BY <1>4, <1>9
  <2>3. \A j \in DOMAIN calls' : calls'[j].end <= until
    BY <1>4, <1>5, <1>6
  <2>4. ASSUME last < Len(positions)
        PROVE  until < positions[last + 1].position
    <3>1. ~(positions[last + 1].position - until < AdjustedMaxSnippet(until))
      BY <1>2, <2>4 DEF IsCluster, NearNext, until
    <3>2. AdjustedMaxSnippet(until) \in Nat \ {0}
      BY <1>4, LimitIsPositive DEF TypeOK
    <3>3. last + 1 \in DOMAIN positions
      BY <1>3, <2>4
    <3>4. positions[last + 1].position \in Nat
      BY <3>3, PlacesAreNat
    <3> QED BY <1>4, <3>1, <3>2, <3>4
  <2>5. p' \in 2..Len(positions') =>
          positions'[p' - 1].position < positions'[p'].position
    <3>1. ASSUME p' \in 2..Len(positions')
          PROVE  positions'[p' - 1].position < positions'[p'].position
      <4>1. last < Len(positions)
        BY <1>1, <1>2, <1>3, <3>1
      <4> QED BY <1>1, <1>2, <2>1, <2>4, <4>1 DEF until
    <3> QED BY <3>1
  <2>6. positions'[p' - 1].position = until
    BY <1>1, <2>1 DEF until
  <2> QED BY <1>1, <2>1, <2>2, <2>3, <2>5, <2>6 DEF PastInv
<1> QED BY <1>7, <1>8, <1>10, <1>11

\* The first pending call is replaced by a snippet or by the calls it makes.
LEMMA SegmentStep ==
    ASSUME SnippetsInv, SegmentDocument
    PROVE  SnippetsInv'
<1> DEFINE start == calls[1].start
           end   == calls[1].end
<1>1. /\ phase = "segment" /\ calls # <<>>
      /\ UNCHANGED <<given, max_snippet, phase, positions, p, cluster, begun,
                     topVars>>
  BY DEF SegmentDocument
<1>2. start \in Nat /\ end \in Nat
  BY <1>1, FirstCall DEF SnippetsInv
<1>3. \/ /\ Fits(start, end) /\ calls' = Tail(calls)
         /\ \E s \in WholeRegion(start, end) : bh' = Append(bh, s)
      \/ bh' = bh /\ \E c \in Split(start, end) : calls' = c \o Tail(calls)
  BY DEF SegmentDocument
<1>4. ASSUME Fits(start, end), calls' = Tail(calls),
             NEW s \in WholeRegion(start, end), bh' = Append(bh, s)
      PROVE  SnippetsInv'
  <2>1. s \in SnippetType /\ s.start = start /\ s.end = end
    BY <1>2, WholeRegionFacts DEF SnippetsInv
  <2>2. Fits(s.start, s.end)
    BY <1>4, <2>1
  <2> QED BY <1>1, <1>4, <2>1, <2>2, AppendStep
<1>5. ASSUME bh' = bh, NEW c \in Split(start, end), calls' = c \o Tail(calls)
      PROVE  SnippetsInv'
  BY <1>1, <1>5, SplitStep
<1> QED BY <1>3, <1>4, <1>5

\* The best snippet of a call comes between what the calls around it append.
LEMMA AppendBestStep ==
    ASSUME SnippetsInv, AppendBest
    PROVE  SnippetsInv'
<1>1. /\ phase = "segment" /\ calls # <<>> /\ calls' = Tail(calls)
      /\ UNCHANGED <<given, max_snippet, phase, positions, p, cluster, begun,
                     topVars>>
  BY DEF AppendBest
<1>2. PICK s \in calls[1].append : bh' = Append(bh, s)
  BY DEF AppendBest
<1>3. 1 \in DOMAIN calls /\ calls[1] \in Pending
  BY <1>1, FirstCall DEF SnippetsInv
<1>4. s \in SnippetType
  BY <1>3 DEF Pending
<1>5. s.start = calls[1].start /\ s.end = calls[1].end /\ Fits(s.start, s.end)
  BY <1>3 DEF SnippetsInv, QueueInv, Chain, RegionOK
<1> QED BY <1>1, <1>2, <1>4, <1>5, AppendStep

\* Marking the last snippet of a cluster leaves its range alone.
LEMMA RangesStay ==
    ASSUME SnippetsInv, FinishCluster
    PROVE  /\ bh' \in Seq(SnippetType) /\ DOMAIN bh' = DOMAIN bh
           /\ \A i \in DOMAIN bh :
                 bh'[i].start = bh[i].start /\ bh'[i].end = bh[i].end
<1> USE DEF SnippetsInv
<1>1. CASE Len(bh) > begun
  <2>1. bh \in Seq(SnippetType) /\ Len(bh) \in DOMAIN bh
    BY <1>1 DEF TypeOK
  <2> DEFINE last == bh[Len(bh)]
             new  == [last EXCEPT !.next_in_cluster = FALSE]
  <2>2. bh' = [bh EXCEPT ![Len(bh)] = new]
    <3>1. bh' = [bh EXCEPT ![Len(bh)].next_in_cluster = FALSE]
      BY <1>1 DEF FinishCluster
    <3> QED BY <3>1, Zenon
  <2>3. new \in SnippetType /\ new.start = last.start /\ new.end = last.end
    <3>1. last \in SnippetType
      BY <2>1
    <3> HIDE DEF last
    <3> QED BY <3>1 DEF SnippetType
  <2> HIDE DEF new
  <2> QED BY <2>1, <2>2, <2>3
<1>2. CASE ~(Len(bh) > begun)
  BY <1>2 DEF FinishCluster, TypeOK
<1> QED BY <1>1, <1>2

\* The end of a cluster.
LEMMA FinishStep ==
    ASSUME SnippetsInv, FinishCluster
    PROVE  SnippetsInv'
<1> USE DEF SnippetsInv
<1>1. /\ phase = "segment" /\ phase' = "cluster" /\ calls = <<>>
      /\ given' = given /\ max_snippet' = max_snippet
      /\ positions' = positions /\ p' = p /\ cluster' = {} /\ begun' = 0
      /\ calls' = calls /\ rest' = rest /\ chosen' = chosen
  BY DEF FinishCluster, topVars
<1>2. /\ bh' \in Seq(SnippetType) /\ DOMAIN bh' = DOMAIN bh
      /\ \A i \in DOMAIN bh : bh'[i].start = bh[i].start /\ bh'[i].end = bh[i].end
  BY RangesStay
<1>3. TypeOK'
  BY <1>1, <1>2 DEF TypeOK, Before
<1>4. CallsInv'
  BY <1>1 DEF CallsInv
<1>5. QueueInv'
  BY <1>1, <1>2 DEF QueueInv, SnippetsInOrder, Chain, Fits, AdjustedMaxSnippet
<1>6. PastInv'
  BY <1>1, <1>2 DEF PastInv
<1> QED BY <1>3, <1>4, <1>5, <1>6

\* Choosing snippets moves them from the rest to the chosen ones.
LEMMA TopSteps ==
    ASSUME SnippetsInv, Created \/ TopStep \/ TopEnd
    PROVE  SnippetsInv'
<1> USE DEF SnippetsInv
<1>1. /\ given' = given /\ max_snippet' = max_snippet
      /\ positions' = positions /\ p' = p /\ cluster' = cluster
      /\ begun' = begun /\ calls' = calls /\ bh' = bh
  BY DEF Created, TopStep, TopEnd, createVars
<1>2. /\ phase \in {"cluster", "top"} /\ phase' \in {"top", "done"}
      /\ rest' \subseteq DOMAIN bh /\ chosen' \subseteq DOMAIN bh \ rest'
  <2>1. CASE Created
    BY <2>1 DEF Created, CallsInv
  <2>2. CASE TopStep
    BY <2>2 DEF TopStep, TypeOK
  <2>3. CASE TopEnd
    BY <2>3 DEF TopEnd, topVars, TypeOK
  <2> QED BY <2>1, <2>2, <2>3
<1>3. TypeOK'
  BY <1>1, <1>2 DEF TypeOK, Before
<1>4. CallsInv'
  BY <1>1, <1>2 DEF CallsInv
<1>5. QueueInv'
  BY <1>1 DEF QueueInv, SnippetsInOrder, Chain, RegionOK, Fits, AdjustedMaxSnippet
<1>6. PastInv'
  BY <1>1 DEF PastInv
<1> QED BY <1>3, <1>4, <1>5, <1>6
-----------------------------------------------------------------------------
(***************************************************************************)
(* The theorems.                                                           *)
(***************************************************************************)
\* Before anything is sorted there is nothing in the lists.
LEMMA InitSnippetsInv == Init => SnippetsInv
<1> SUFFICES ASSUME Init PROVE SnippetsInv
  OBVIOUS
<1>1. given \subseteq Occurrence /\ max_snippet \in MaxSnippets
  BY DEF Init, kSubset
<1>2. TypeOK
  BY <1>1 DEF Init, TypeOK
<1>3. CallsInv /\ QueueInv /\ PastInv
  BY DEF Init, CallsInv, QueueInv, PastInv, SnippetsInOrder, Chain
<1> QED BY <1>2, <1>3 DEF SnippetsInv

\* Every step keeps the invariant.
LEMMA NextSnippetsInv == SnippetsInv /\ [Next]_vars => SnippetsInv'
<1> SUFFICES ASSUME SnippetsInv, [Next]_vars PROVE SnippetsInv'
  OBVIOUS
<1>1. CASE SortPositions
  BY <1>1, SortStep
<1>2. CASE StartCluster
  BY <1>2, ClusterStep
<1>3. CASE SegmentDocument
  BY <1>3, SegmentStep
<1>4. CASE AppendBest
  BY <1>4, AppendBestStep
<1>5. CASE FinishCluster
  BY <1>5, FinishStep
<1>6. CASE Created \/ TopStep \/ TopEnd
  BY <1>6, TopSteps
<1>7. CASE UNCHANGED vars
  BY <1>7 DEF vars, createVars, topVars, SnippetsInv, TypeOK, CallsInv, QueueInv,
              PastInv, SnippetsInOrder, Chain, RegionOK, Before, Fits,
              AdjustedMaxSnippet
<1> QED BY <1>1, <1>2, <1>3, <1>4, <1>5, <1>6, <1>7 DEF Next

\* The strengthened invariant holds in every run of the three calls.
THEOREM SnippetsInvariant == Spec => []SnippetsInv
<1>1. Init => SnippetsInv
  BY InitSnippetsInv
<1>2. SnippetsInv /\ [Next]_vars => SnippetsInv'
  BY NextSnippetsInv
<1> QED BY <1>1, <1>2, PTL DEF Spec

\* The fields keep their types, and the sorted occurrences a strict order.
THEOREM SnippetsTypeCorrect == Spec => []TypeOK
<1>1. SnippetsInv => TypeOK
  BY DEF SnippetsInv
<1> QED BY <1>1, SnippetsInvariant, PTL

\* Whatever the document, the limit and the scores, snippets_create returns
\* snippets that ascend, do not overlap, and respect the limit that holds where
\* they start; so does every partial result of the recursion.
THEOREM SnippetsAlwaysInOrder == Spec => []SnippetsInOrder
<1>1. SnippetsInv => SnippetsInOrder
  BY DEF SnippetsInv, QueueInv
<1> QED BY <1>1, SnippetsInvariant, PTL
-----------------------------------------------------------------------------
(***************************************************************************)
(* That snippets_top shows each term of a query once, for every document   *)
(* and whichever snippets the scores prefer.                               *)
(*                                                                         *)
(* A step takes the terms of the snippet it keeps from those still to look *)
(* at.  So no term is lost (TermsInv), a chosen snippet shares none with   *)
(* any other of its query (DisjointInv), and what is left at the end has   *)
(* no terms (StateInv).                                                    *)
(***************************************************************************)
SameQuery(i, j) == bh[i].query_index = bh[j].query_index

StateInv ==
    /\ DOMAIN mask = DOMAIN bh
    /\ DOMAIN bh = rest \cup chosen
    /\ \A i \in chosen : mask[i] # {}
    /\ phase = "done" => \A h \in rest : mask[h] = {}

TermsInv ==
    \A i \in DOMAIN bh :
        /\ mask[i] \subseteq bh[i].mask
        /\ \A t \in bh[i].mask :
              \E j \in DOMAIN bh : SameQuery(i, j) /\ t \in mask[j]

DisjointInv ==
    \A i \in chosen, j \in DOMAIN bh :
        i # j /\ SameQuery(i, j) => mask[i] \cap mask[j] = {}

TopInv == phase \in {"top", "done"} => StateInv /\ TermsInv /\ DisjointInv
-----------------------------------------------------------------------------
\* Before the first choice every snippet has all its terms.
LEMMA CreatedStep ==
    ASSUME SnippetsInv, Created
    PROVE  TopInv'
<1>1. /\ phase = "cluster" /\ phase' = "top" /\ bh' = bh /\ chosen' = chosen
      /\ mask' = [i \in DOMAIN bh |-> bh[i].mask] /\ rest' = DOMAIN bh
  BY DEF Created, createVars
<1>2. chosen' = {}
  BY <1>1 DEF SnippetsInv, CallsInv
<1>3. StateInv'
  BY <1>1, <1>2 DEF StateInv
<1>4. TermsInv'
  BY <1>1 DEF TermsInv, SameQuery
<1>5. DisjointInv'
  BY <1>2 DEF DisjointInv
<1> QED BY <1>3, <1>4, <1>5 DEF TopInv

\* Keeping h moves its terms out of the others of its query.
LEMMA TopStepStep ==
    ASSUME SnippetsInv, TopInv, TopStep
    PROVE  TopInv'
<1>1. /\ phase = "top" /\ bh' = bh
      /\ phase' = IF rest' = {} THEN "done" ELSE "top"
  BY DEF TopStep, createVars
<1>2. PICK h \in rest :
        /\ mask[h] # {} /\ chosen' = chosen \cup {h} /\ rest' = rest \ {h}
        /\ mask' = [i \in DOMAIN mask |->
                       IF i \in rest' THEN Unmask(i, h) ELSE mask[i]]
  BY DEF TopStep
<1>3. /\ DOMAIN mask = DOMAIN bh /\ DOMAIN bh = rest \cup chosen
      /\ \A i \in chosen : mask[i] # {}
  BY <1>1 DEF TopInv, StateInv
<1>4. TermsInv /\ DisjointInv
  BY <1>1 DEF TopInv
<1>5. rest \cap chosen = {}
  BY DEF SnippetsInv, TypeOK
<1>6. ASSUME NEW i \in DOMAIN bh
      PROVE  /\ mask'[i] \subseteq mask[i]
             /\ i = h \/ i \in chosen => mask'[i] = mask[i]
             /\ i \in rest /\ i # h /\ SameQuery(i, h) => mask'[i] = mask[i] \ mask[h]
             /\ ~SameQuery(i, h) => mask'[i] = mask[i]
  BY <1>2, <1>3, <1>5 DEF Unmask, SameQuery
<1>7. h \in DOMAIN bh
  BY <1>3
<1>8. StateInv'
  BY <1>1, <1>2, <1>3, <1>6, <1>7 DEF StateInv
<1>9. ASSUME NEW i \in DOMAIN bh
      PROVE  /\ mask'[i] \subseteq bh[i].mask
             /\ \A t \in bh[i].mask :
                   \E j \in DOMAIN bh : SameQuery(i, j) /\ t \in mask'[j]
  <2>1. mask'[i] \subseteq bh[i].mask
    BY <1>4, <1>6 DEF TermsInv
  <2>2. ASSUME NEW t \in bh[i].mask
        PROVE  \E j \in DOMAIN bh : SameQuery(i, j) /\ t \in mask'[j]
    <3>1. PICK j \in DOMAIN bh : SameQuery(i, j) /\ t \in mask[j]
      BY <1>4 DEF TermsInv
    <3>2. CASE t \in mask'[j]
      BY <3>1, <3>2
    <3>3. CASE t \notin mask'[j]
      <4>1. SameQuery(j, h) /\ t \in mask[h]
        BY <1>3, <1>6, <3>1, <3>3
      <4>2. t \in mask'[h] /\ SameQuery(i, h)
        BY <1>6, <1>7, <3>1, <4>1 DEF SameQuery
      <4> QED BY <1>7, <4>2
    <3> QED BY <3>2, <3>3
  <2> QED BY <2>1, <2>2
<1>10. TermsInv'
  BY <1>1, <1>9 DEF TermsInv, SameQuery
<1>11. ASSUME NEW i \in chosen', NEW j \in DOMAIN bh, i # j, SameQuery(i, j)
       PROVE  mask'[i] \cap mask'[j] = {}
  <2>1. i \in DOMAIN bh
    BY <1>2, <1>3
  <2>2. CASE i \in chosen
    BY <1>4, <1>6, <1>11, <2>1, <2>2 DEF DisjointInv
  <2>3. CASE i = h /\ j \in chosen
    <3>1. mask[j] \cap mask[i] = {}
      BY <1>4, <1>11, <2>1, <2>3 DEF DisjointInv, SameQuery
    <3> QED BY <1>6, <1>11, <2>1, <3>1
  <2>4. CASE i = h /\ j \in rest
    <3>1. mask'[j] = mask[j] \ mask[h] /\ mask'[i] = mask[h]
      BY <1>6, <1>7, <1>11, <2>4 DEF SameQuery
    <3> QED BY <3>1
  <2> QED BY <1>2, <1>3, <2>2, <2>3, <2>4
<1>12. DisjointInv'
  BY <1>1, <1>11 DEF DisjointInv, SameQuery
<1> QED BY <1>8, <1>10, <1>12 DEF TopInv

\* The recursion also ends when no snippet has a term left.
LEMMA TopEndStep ==
    ASSUME TopInv, TopEnd
    PROVE  TopInv'
<1>1. /\ phase = "top" /\ bh' = bh /\ mask' = mask /\ rest' = rest
      /\ chosen' = chosen /\ \A h \in rest : mask[h] = {}
  BY DEF TopEnd, createVars, topVars
<1> QED BY <1>1 DEF TopInv, StateInv, TermsInv, DisjointInv, SameQuery

\* The steps of snippets_create come before the choice.
LEMMA NextTopInv == SnippetsInv /\ TopInv /\ [Next]_vars => TopInv'
<1> SUFFICES ASSUME SnippetsInv, TopInv, [Next]_vars PROVE TopInv'
  OBVIOUS
<1>1. CASE SortPositions \/ StartCluster \/ SegmentDocument \/ AppendBest
              \/ FinishCluster
  <2>1. phase' \in {"cluster", "segment"}
    BY <1>1 DEF SortPositions, StartCluster, SegmentDocument, AppendBest,
                FinishCluster
  <2> QED BY <2>1 DEF TopInv
<1>2. CASE Created
  BY <1>2, CreatedStep
<1>3. CASE TopStep
  BY <1>3, TopStepStep
<1>4. CASE TopEnd
  BY <1>4, TopEndStep
<1>5. CASE UNCHANGED vars
  BY <1>5 DEF vars, createVars, topVars, TopInv, StateInv, TermsInv,
              DisjointInv, SameQuery
<1> QED BY <1>1, <1>2, <1>3, <1>4, <1>5 DEF Next

\* At the end the terms of a query are those of its chosen snippets.
LEMMA TopInvSuffices == SnippetsInv /\ TopInv => TopCoversOnce
<1> DEFINE of(is, q) == {i \in is : bh[i].query_index = q}
<1> SUFFICES ASSUME SnippetsInv, TopInv, phase = "done", NEW q
             PROVE  /\ UNION {bh[i].mask : i \in of(DOMAIN bh, q)}
                           = UNION {mask[i] : i \in of(chosen, q)}
                    /\ \A i, j \in of(chosen, q) :
                          i # j => mask[i] \cap mask[j] = {}
                    /\ \A i \in of(chosen, q) : mask[i] # {}
  BY DEF TopCoversOnce
<1>1. StateInv /\ TermsInv /\ DisjointInv
  BY DEF TopInv
<1>2. chosen \subseteq DOMAIN bh
  BY <1>1 DEF StateInv
<1>3. ASSUME NEW i \in of(DOMAIN bh, q), NEW t \in bh[i].mask
      PROVE  \E j \in of(chosen, q) : t \in mask[j]
  <2>1. PICK j \in DOMAIN bh : SameQuery(i, j) /\ t \in mask[j]
    BY <1>1 DEF TermsInv
  <2>2. j \in chosen
    BY <1>1, <2>1 DEF StateInv
  <2> QED BY <2>1, <2>2 DEF SameQuery
<1>4. ASSUME NEW i \in of(chosen, q), NEW t \in mask[i]
      PROVE  t \in bh[i].mask /\ i \in of(DOMAIN bh, q)
  BY <1>1, <1>2 DEF TermsInv
<1>5. UNION {bh[i].mask : i \in of(DOMAIN bh, q)}
          = UNION {mask[i] : i \in of(chosen, q)}
  BY <1>3, <1>4
<1>6. \A i, j \in of(chosen, q) : i # j => mask[i] \cap mask[j] = {}
  BY <1>1, <1>2 DEF DisjointInv, SameQuery
<1>7. \A i \in of(chosen, q) : mask[i] # {}
  BY <1>1 DEF StateInv
<1> QED BY <1>5, <1>6, <1>7

\* Whatever the document and the scores: the snippets that snippets_top
\* returns show every term that snippets_create found for a query, each in
\* exactly one of that query's snippets, and none of them for no term.
THEOREM TopAlwaysCoversOnce == Spec => []TopCoversOnce
<1>1. Init => TopInv
  BY DEF Init, TopInv
<1>2. SnippetsInv /\ TopInv /\ [Next]_vars => TopInv'
  BY NextTopInv
<1>3. SnippetsInv /\ TopInv => TopCoversOnce
  BY TopInvSuffices
<1> QED BY <1>1, <1>2, <1>3, SnippetsInvariant, PTL DEF Spec
-----------------------------------------------------------------------------
(***************************************************************************)
(* That snippets_create loses no occurrence, for every document, limit and *)
(* set of queries, and that the distance of two terms is what the walk     *)
(* over their positions finds.                                             *)
(*                                                                         *)
(* While it runs, the place of an occurrence of an earlier cluster is in a *)
(* snippet or in the region of a pending call (PlacesInv).  A region is    *)
(* dropped when no window is found in it, which only happens where no      *)
(* occurrence of the current cluster is; that no other occurrence is there *)
(* either needs ClusterInv: the regions begin with the cluster.            *)
(***************************************************************************)

\* Some of the ranges in cs has the place x.
Has(cs, x) == \E j \in DOMAIN cs : cs[j].start <= x /\ x <= cs[j].end

Kept(o) == \E k \in DOMAIN positions :
              /\ positions[k].position = o.position
              /\ positions[k].term_index = o.term_index
              /\ o.query_mask \subseteq positions[k].query_mask

GivenInv == phase # "given" => \A o \in given : Kept(o)

PlacesInv == \A k \in 1..(p - 1) :
                Has(bh, positions[k].position) \/ Has(calls, positions[k].position)

ClusterFrom(f) ==
    /\ cluster = f..(p - 1)
    /\ \A k \in 1..(f - 1) : positions[k].position < positions[f].position
    /\ \A j \in DOMAIN calls : positions[f].position <= calls[j].start

ClusterInv ==
    /\ phase = "segment" => \E f \in 1..(p - 1) : ClusterFrom(f)
    /\ phase \in {"top", "done"} => p = Len(positions) + 1

CoverInv == GivenInv /\ PlacesInv /\ ClusterInv
-----------------------------------------------------------------------------
\* Where a term occurs, a best snippet is found: the occurrence alone is a
\* window, and the counts have a bound.
LEMMA BestIsFound ==
    ASSUME TypeOK, NEW start \in Nat, NEW end \in Nat,
           InRegion(start, end) # {}
    PROVE  FindBest(start, end) # {}
<1> DEFINE found == Found(start, end)
<1>1. PICK i \in InRegion(start, end) : TRUE
  OBVIOUS
<1>2. i \in DOMAIN positions /\ i \in Int /\ positions[i].position \in Nat
  BY RegionFacts, PlacesAreNat DEF TypeOK
<1>3. <<i, i>> \in Windows(start, end)
  <2>1. AdjustedMaxSnippet(positions[i].position) \in Nat \ {0}
    BY <1>2, LimitIsPositive DEF TypeOK
  <2>2. Fits(positions[i].position, positions[i].position)
    BY <1>2, <2>1 DEF Fits
  <2> QED BY <1>1, <1>2, <2>2 DEF Windows
<1>4. i \in i..i
  BY <1>2
<1>5. PICK q : q \in positions[i].query_mask
  <2>1. positions[i] \in Placed
    BY <1>2 DEF TypeOK
  <2> QED BY <2>1 DEF Placed
<1>6. q \in QueriesIn(i..i)
  <2> DEFINE is == i..i
  <2>1. i \in is
    BY <1>4
  <2> HIDE DEF is
  <2>2. q \in QueriesIn(is)
    BY <1>5, <2>1 DEF QueriesIn
  <2> QED BY <2>2 DEF is
<1>7. WindowSnippet(<<i, i>>, q) \in found
  <2> DEFINE w == <<i, i>>
  <2>1. w \in Windows(start, end) /\ w[1]..w[2] = i..i
    BY <1>3
  <2> HIDE DEF w
  <2>2. q \in QueriesIn(w[1]..w[2])
    BY <1>6, <2>1
  <2>3. WindowSnippet(w, q) \in found
    BY <2>1, <2>2 DEF Found
  <2> QED BY <2>3 DEF w
<1>8. ASSUME NEW s \in found
      PROVE  s.match_count \in Nat /\ s.match_count <= 128
  <2>1. PICK w \in Windows(start, end) : \E r \in QueriesIn(w[1]..w[2]) :
          s = WindowSnippet(w, r)
    BY DEF Found
  <2>2. PICK r : s = WindowSnippet(w, r)
    BY <2>1
  <2>3. w[1] \in DOMAIN positions /\ w[2] \in DOMAIN positions
    BY RegionFacts DEF Windows
  <2>4. w[1]..w[2] \in SUBSET DOMAIN positions
    <3>1. DOMAIN positions = 1..Len(positions) /\ Len(positions) \in Nat
      BY DEF TypeOK
    <3> QED BY <2>3, <3>1
  <2>5. OfQuery(w[1]..w[2], r) \in SUBSET DOMAIN positions
    BY <2>4, QueryFacts
  <2>6. s.match_count = CountTwice(OfQuery(w[1]..w[2], r))
    BY <2>2 DEF WindowSnippet, Snippet
  <2> QED BY <2>5, <2>6, CountsAreNat
<1> DEFINE counts == {s.match_count : s \in found}
<1> HIDE DEF found
<1>9. counts \in SUBSET Nat /\ counts # {} /\ \A x \in counts : x <= 128
  BY <1>7, <1>8
<1>10. PICK m \in counts : \A x \in counts : x <= m
  <2> HIDE DEF counts
  <2> QED BY <1>9, MaximumExists, 128 \in Nat
<1>11. PICK s \in found : s.match_count = m
  BY <1>10
<1>12. s \in FindBest(start, end)
  BY <1>10, <1>11 DEF FindBest, found
<1> QED BY <1>12

\* Concatenation has the ranges of both sequences.
LEMMA HasConcat ==
    ASSUME NEW c \in Seq(Pending), NEW d \in Seq(Pending), NEW x,
           Has(c, x) \/ Has(d, x)
    PROVE  Has(c \o d, x)
<1> DEFINE e == c \o d
<1>1. /\ Len(e) = Len(c) + Len(d) /\ e \in Seq(Pending)
      /\ \A k \in 1..(Len(c) + Len(d)) :
            e[k] = IF k <= Len(c) THEN c[k] ELSE d[k - Len(c)]
  BY ConcatProperties
<1> HIDE DEF e
<1>2. /\ DOMAIN e = 1..Len(e) /\ DOMAIN c = 1..Len(c) /\ DOMAIN d = 1..Len(d)
      /\ Len(c) \in Nat /\ Len(d) \in Nat
  BY <1>1
<1>3. ASSUME NEW i \in DOMAIN c PROVE i \in DOMAIN e /\ e[i] = c[i]
  BY <1>1, <1>2
<1>4. ASSUME NEW i \in DOMAIN d
      PROVE  Len(c) + i \in DOMAIN e /\ e[Len(c) + i] = d[i]
  <2>1. Len(c) + i \in 1..(Len(c) + Len(d)) /\ ~(Len(c) + i <= Len(c))
    BY <1>2
  <2>2. Len(c) + i - Len(c) = i
    BY <1>2
  <2> QED BY <1>1, <1>2, <2>1, <2>2
<1>5. Has(e, x)
  BY <1>3, <1>4 DEF Has
<1> QED BY <1>5 DEF e

\* The range is the first one or in the rest.
LEMMA HasTail ==
    ASSUME CallsInv, calls # <<>>, NEW x, Has(calls, x)
    PROVE  \/ calls[1].start <= x /\ x <= calls[1].end
           \/ Has(Tail(calls), x)
<1>1. /\ calls \in Seq(Pending) /\ Len(calls) \in Nat /\ Len(calls) > 0
      /\ DOMAIN calls = 1..Len(calls) /\ DOMAIN Tail(calls) = 1..(Len(calls) - 1)
      /\ \A j \in 1..(Len(calls) - 1) : Tail(calls)[j] = calls[j + 1]
  BY DEF CallsInv
<1>2. PICK j \in DOMAIN calls : calls[j].start <= x /\ x <= calls[j].end
  BY DEF Has
<1>3. CASE j = 1
  BY <1>2, <1>3
<1>4. CASE j # 1
  <2>1. j - 1 \in 1..(Len(calls) - 1) /\ j - 1 + 1 = j
    BY <1>1, <1>4
  <2>2. Tail(calls)[j - 1] = calls[j]
    BY <1>1, <2>1
  <2> QED BY <1>1, <1>2, <2>1, <2>2 DEF Has
<1> QED BY <1>3, <1>4

\* The calls around a best snippet leave no place of the region out.
LEMMA AroundCovers ==
    ASSUME NEW start \in Nat, NEW end \in Nat, NEW s \in SnippetType,
           NEW x \in Nat, start <= x, x <= end
    PROVE  Has(Around(start, end, s), x)
<1> DEFINE left  == IF s.start > start THEN <<Call(start, s.start - 1)>> ELSE <<>>
           m     == [start |-> s.start, end |-> s.end, append |-> {s}]
           mid   == <<m>>
           right == IF s.end < end THEN <<Call(s.end + 1, end)>> ELSE <<>>
<1>1. s.start \in Nat /\ s.end \in Nat
  BY DEF SnippetType
<1>2. Has(left, x) \/ Has(mid, x) \/ Has(right, x)
  <2>1. CASE x < s.start
    <3>1. left = <<Call(start, s.start - 1)>>
      BY <1>1, <2>1
    <3>2. 1 \in DOMAIN left /\ left[1] = Call(start, s.start - 1)
      BY <3>1
    <3>3. left[1].start <= x /\ x <= left[1].end
      BY <1>1, <2>1, <3>2 DEF Call
    <3> QED BY <3>2, <3>3 DEF Has
  <2>2. CASE s.start <= x /\ x <= s.end
    <3>1. 1 \in DOMAIN mid /\ mid[1].start = s.start /\ mid[1].end = s.end
      OBVIOUS
    <3> QED BY <2>2, <3>1 DEF Has
  <2>3. CASE s.end < x
    <3>1. right = <<Call(s.end + 1, end)>>
      BY <1>1, <2>3
    <3>2. 1 \in DOMAIN right /\ right[1] = Call(s.end + 1, end)
      BY <3>1
    <3>3. right[1].start <= x /\ x <= right[1].end
      BY <1>1, <2>3, <3>2 DEF Call
    <3> QED BY <3>2, <3>3 DEF Has
  <2> QED BY <1>1, <2>1, <2>2, <2>3
<1>3. Around(start, end, s) = (left \o mid) \o right
  BY DEF Around
<1>4. left \in Seq(Pending) /\ mid \in Seq(Pending) /\ right \in Seq(Pending)
  <2>1. s.start > start => Call(start, s.start - 1) \in Pending
    BY <1>1 DEF Call, Pending
  <2>2. m \in Pending
    BY <1>1 DEF Pending
  <2>3. s.end < end => Call(s.end + 1, end) \in Pending
    BY <1>1 DEF Call, Pending
  <2> HIDE DEF m
  <2> QED BY <2>1, <2>2, <2>3
<1>5. left \o mid \in Seq(Pending)
  BY <1>4
<1> HIDE DEF left, mid, right
<1> QED BY <1>2, <1>3, <1>4, <1>5, HasConcat
-----------------------------------------------------------------------------
(***************************************************************************)
(* The steps.                                                              *)
(***************************************************************************)
\* What a step that leaves the sorted occurrences alone keeps.
LEMMA KeptStays ==
    ASSUME GivenInv, phase # "given", given' = given, positions' = positions
    PROVE  GivenInv'
BY DEF GivenInv, Kept

\* The sort keeps each occurrence, with its queries.
LEMMA SortKeeps ==
    ASSUME SnippetsInv, SortPositions
    PROVE  CoverInv'
<1>1. /\ phase = "given" /\ phase' = "cluster" /\ given' = given
      /\ p' = p /\ calls' = calls /\ bh' = bh
      /\ positions' \in Sorted(MergeEqual(given))
  BY DEF SortPositions
<1>2. p = 1
  BY <1>1 DEF SnippetsInv, CallsInv
<1>3. ASSUME NEW o \in given PROVE Kept(o)'
  <2> DEFINE all == UNION {q.query_mask : q \in {r \in given :
                       r.position = o.position /\ r.term_index = o.term_index}}
             m == [o EXCEPT !.query_mask = all]
  <2>1. m \in MergeEqual(given)
    BY DEF MergeEqual
  <2>2. PICK k \in DOMAIN positions' : positions'[k] = m
    BY <1>1, <2>1 DEF Sorted
  <2>3. o = [position |-> o.position, term_index |-> o.term_index,
             query_mask |-> o.query_mask]
    BY OccurrenceFields DEF SnippetsInv, TypeOK
  <2>4. o.query_mask \subseteq all
    OBVIOUS
  <2> HIDE DEF all
  <2>5. /\ m.position = o.position /\ m.term_index = o.term_index
        /\ m.query_mask = all
    BY <2>3
  <2> QED BY <2>2, <2>4, <2>5 DEF Kept
<1>4. GivenInv'
  BY <1>1, <1>3 DEF GivenInv
<1>5. PlacesInv'
  BY <1>1, <1>2 DEF PlacesInv
<1>6. ClusterInv'
  BY <1>1 DEF ClusterInv
<1> QED BY <1>4, <1>5, <1>6 DEF CoverInv

\* The call for a cluster has the places of all its occurrences.
LEMMA ClusterKeeps ==
    ASSUME SnippetsInv, CoverInv, StartCluster
    PROVE  CoverInv'
<1>1. /\ phase = "cluster" /\ phase' = "segment" /\ p <= Len(positions)
      /\ given' = given /\ positions' = positions /\ bh' = bh
  BY DEF StartCluster
<1>2. PICK last \in p..Len(positions) :
        /\ cluster' = p..last /\ p' = last + 1
        /\ calls' = <<Call(positions[p].position, positions[last].position)>>
  BY DEF StartCluster
<1>3. /\ DOMAIN positions = 1..Len(positions) /\ Len(positions) \in Nat
      /\ p \in Nat \ {0} /\ p \in DOMAIN positions
      /\ last \in Nat \ {0} /\ last \in DOMAIN positions /\ p <= last
  BY <1>1 DEF SnippetsInv, TypeOK
<1>4. /\ 1 \in DOMAIN calls' /\ \A j \in DOMAIN calls' : j = 1
      /\ calls'[1].start = positions[p].position
      /\ calls'[1].end = positions[last].position
  BY <1>2 DEF Call
<1>5. calls = <<>>
  BY <1>1 DEF SnippetsInv, CallsInv
<1>6. GivenInv'
  BY <1>1, KeptStays DEF CoverInv
<1>7. ASSUME NEW k \in 1..last
      PROVE  Has(bh, positions[k].position) \/ Has(calls', positions[k].position)
  <2>1. CASE k < p
    <3>1. k \in 1..(p - 1)
      BY <1>3, <2>1
    <3>2. ~Has(calls, positions[k].position)
      BY <1>5 DEF Has
    <3> QED BY <3>1, <3>2 DEF CoverInv, PlacesInv
  <2>2. CASE k >= p
    <3>1. k \in DOMAIN positions /\ p <= k /\ k <= last
      BY <1>3, <2>2
    <3>2. positions[p].position <= positions[k].position
      BY <1>3, <3>1, PositionsAscend DEF SnippetsInv
    <3>3. positions[k].position <= positions[last].position
      BY <1>3, <3>1, PositionsAscend DEF SnippetsInv
    <3> QED BY <1>4, <3>2, <3>3 DEF Has
  <2> QED BY <1>3, <2>1, <2>2
<1>8. p' - 1 = last
  BY <1>2, <1>3
<1>9. PlacesInv'
  BY <1>1, <1>7, <1>8 DEF PlacesInv, Has
<1>10. \E f \in 1..last : ClusterFrom(f)'
  <2>1. ASSUME NEW k \in 1..(p - 1)
        PROVE  positions[k].position < positions[p].position
    <3>1. /\ k \in DOMAIN positions /\ p - 1 \in DOMAIN positions /\ k <= p - 1
          /\ p \in 2..Len(positions)
      BY <1>1, <1>3
    <3>2. /\ positions[k].position \in Nat /\ positions[p - 1].position \in Nat
          /\ positions[k].position <= positions[p - 1].position
      BY <3>1, PositionsAscend DEF SnippetsInv
    <3>3. positions[p - 1].position < positions[p].position
      BY <3>1 DEF SnippetsInv, PastInv
    <3>4. positions[p].position \in Nat
      BY <1>3, PlacesAreNat DEF SnippetsInv
    <3> QED BY <3>2, <3>3, <3>4
  <2>2. PICK f \in 1..last : f = p
    BY <1>3
  <2>3. \A j \in DOMAIN calls' : positions[f].position <= calls'[j].start
    <3>1. positions[f].position \in Nat
      BY <1>3, <2>2, PlacesAreNat DEF SnippetsInv
    <3> QED BY <1>4, <2>2, <3>1
  <2>4. ClusterFrom(f)'
    BY <1>1, <1>2, <1>8, <2>1, <2>2, <2>3 DEF ClusterFrom
  <2> QED BY <2>4
<1>11. ClusterInv'
  BY <1>1, <1>3, <1>8, <1>10 DEF ClusterInv
<1> QED BY <1>6, <1>9, <1>11 DEF CoverInv

\* A snippet of just the extent of the first pending call takes its place.
LEMMA AppendKeeps ==
    ASSUME SnippetsInv, CoverInv, phase = "segment", calls # <<>>,
           NEW s \in SnippetType, s.start = calls[1].start,
           s.end = calls[1].end, bh' = Append(bh, s), calls' = Tail(calls),
           UNCHANGED <<given, phase, positions, p, cluster>>
    PROVE  CoverInv'
<1>1. CallsInv
  BY DEF SnippetsInv
<1>2. /\ Len(bh) + 1 \in DOMAIN bh' /\ bh'[Len(bh) + 1] = s
      /\ \A i \in DOMAIN bh : i \in DOMAIN bh' /\ bh'[i] = bh[i]
  BY DEF SnippetsInv, TypeOK
<1>3. ASSUME NEW x, Has(bh, x) \/ Has(calls, x)
      PROVE  Has(bh', x) \/ Has(calls', x)
  <2>1. CASE Has(bh, x)
    BY <1>2, <2>1 DEF Has
  <2>2. CASE Has(calls, x)
    <3>1. CASE calls[1].start <= x /\ x <= calls[1].end
      BY <1>2, <3>1 DEF Has
    <3>2. CASE Has(Tail(calls), x)
      BY <3>2
    <3> QED BY <1>1, <2>2, <3>1, <3>2, HasTail
  <2> QED BY <1>3, <2>1, <2>2
<1>4. GivenInv'
  BY KeptStays DEF CoverInv
<1>5. PlacesInv'
  BY <1>3 DEF CoverInv, PlacesInv, Has
<1>6. ClusterInv'
  <2>1. PICK f \in 1..(p - 1) : ClusterFrom(f)
    BY DEF CoverInv, ClusterInv
  <2>2. \A j \in DOMAIN calls' : positions[f].position <= calls'[j].start
    BY <1>1, <2>1, FirstCall DEF ClusterFrom
  <2>3. ClusterFrom(f)'
    BY <2>1, <2>2 DEF ClusterFrom
  <2> QED BY <2>3 DEF ClusterInv
<1> QED BY <1>4, <1>5, <1>6 DEF CoverInv

\* When no window is found in the first pending call, no occurrence that has
\* been in a cluster is in its region.
LEMMA NothingDropped ==
    ASSUME SnippetsInv, CoverInv, phase = "segment", calls # <<>>,
           FindBest(calls[1].start, calls[1].end) = {}, NEW k \in 1..(p - 1)
    PROVE  ~(/\ calls[1].start <= positions[k].position
             /\ positions[k].position <= calls[1].end)
<1> DEFINE start == calls[1].start
           end   == calls[1].end
<1>1. TypeOK /\ CallsInv
  BY DEF SnippetsInv
<1>2. 1 \in DOMAIN calls /\ start \in Nat /\ end \in Nat
  BY <1>1, FirstCall
<1>3. InRegion(start, end) = {}
  BY <1>1, <1>2, BestIsFound
<1>4. PICK f \in 1..(p - 1) : ClusterFrom(f)
  BY DEF CoverInv, ClusterInv
<1>5. /\ k \in DOMAIN positions /\ f \in DOMAIN positions
      /\ k \in Int /\ f \in Int /\ p \in Int
  BY <1>1 DEF TypeOK
<1>6. positions[k].position \in Nat /\ positions[f].position \in Nat
  BY <1>1, <1>5, PlacesAreNat
<1>7. SUFFICES ASSUME start <= positions[k].position, positions[k].position <= end
               PROVE  FALSE
  OBVIOUS
<1>8. CASE k < f
  <2>1. positions[k].position < positions[f].position
    BY <1>4, <1>5, <1>8 DEF ClusterFrom
  <2>2. positions[f].position <= start
    BY <1>2, <1>4 DEF ClusterFrom
  <2> HIDE DEF start
  <2> QED BY <1>2, <1>6, <1>7, <2>1, <2>2
<1>9. CASE f <= k
  <2>1. k \in cluster
    BY <1>4, <1>5, <1>9 DEF ClusterFrom
  <2>2. positions[k].position \in start..end
    BY <1>2, <1>6, <1>7
  <2>3. k \in InRegion(start, end)
    BY <2>1, <2>2 DEF InRegion
  <2> QED BY <1>3, <2>3
<1> QED BY <1>5, <1>8, <1>9

\* The calls that replace the first one have every place of it where there is
\* an occurrence.
LEMMA SplitKeeps ==
    ASSUME SnippetsInv, CoverInv, phase = "segment", calls # <<>>,
           NEW c \in Split(calls[1].start, calls[1].end),
           calls' = c \o Tail(calls), bh' = bh,
           UNCHANGED <<given, phase, positions, p, cluster>>
    PROVE  CoverInv'
<1> DEFINE start == calls[1].start
           end   == calls[1].end
           d     == Tail(calls)
           e     == c \o d
<1>1. TypeOK /\ CallsInv
  BY DEF SnippetsInv
<1>2. 1 \in DOMAIN calls /\ start \in Nat /\ end \in Nat /\ d \in Seq(Pending)
  BY <1>1, FirstCall
<1>3. c \in Seq(Pending) /\ \A j \in DOMAIN c : start <= c[j].start
  BY <1>1, <1>2, SplitFacts
<1>4. ASSUME NEW x \in Nat, Has(calls, x),
             FindBest(start, end) # {} \/ ~(start <= x /\ x <= end)
      PROVE  Has(calls', x)
  <2>1. CASE Has(d, x)
    <3> HIDE DEF d
    <3> QED BY <1>2, <1>3, <2>1, HasConcat DEF d
  <2>2. CASE start <= x /\ x <= end
    <3>1. PICK s \in FindBest(start, end) : c = Around(start, end, s)
      BY <1>4, <2>2 DEF Split
    <3>2. s \in SnippetType
      <4>1. s \in Found(start, end)
        BY DEF FindBest
      <4> QED BY <1>1, <1>2, <4>1, WindowFacts
    <3>3. Has(c, x)
      BY <1>2, <1>4, <2>2, <3>1, <3>2, AroundCovers
    <3> HIDE DEF d
    <3> QED BY <1>2, <1>3, <3>3, HasConcat DEF d
  <2> QED BY <1>1, <1>4, <2>1, <2>2, HasTail
<1>5. ASSUME NEW k \in 1..(p - 1)
      PROVE  Has(bh, positions[k].position) \/ Has(calls', positions[k].position)
  <2>1. k \in DOMAIN positions
    BY <1>1 DEF TypeOK
  <2>2. positions[k].position \in Nat
    BY <1>1, <2>1, PlacesAreNat
  <2>3. \/ Has(bh, positions[k].position)
        \/ Has(calls, positions[k].position)
    BY DEF CoverInv, PlacesInv
  <2>4. \/ FindBest(start, end) # {}
        \/ ~(start <= positions[k].position /\ positions[k].position <= end)
    BY NothingDropped
  <2> QED BY <1>4, <2>2, <2>3, <2>4
<1>6. GivenInv'
  BY KeptStays DEF CoverInv
<1>7. PlacesInv'
  BY <1>5 DEF PlacesInv, Has
<1>8. ClusterInv'
  <2>1. PICK f \in 1..(p - 1) : ClusterFrom(f)
    BY DEF CoverInv, ClusterInv
  <2>2. f \in DOMAIN positions
    BY <1>1 DEF TypeOK
  <2>3. positions[f].position \in Nat /\ positions[f].position <= start
    BY <1>1, <1>2, <2>1, <2>2, PlacesAreNat DEF ClusterFrom
  <2>4. ASSUME NEW j \in DOMAIN c PROVE positions[f].position <= c[j].start
    <3>1. c[j] \in Pending /\ start <= c[j].start
      BY <1>3
    <3> QED BY <1>2, <2>3, <3>1 DEF Pending
  <2>5. ASSUME NEW j \in DOMAIN d PROVE positions[f].position <= d[j].start
    BY <1>1, <2>1, FirstCall DEF ClusterFrom
  <2>6. /\ Len(e) = Len(c) + Len(d) /\ DOMAIN e = 1..Len(e)
        /\ \A j \in 1..(Len(c) + Len(d)) :
              e[j] = IF j <= Len(c) THEN c[j] ELSE d[j - Len(c)]
    <3> HIDE DEF d
    <3> QED BY <1>2, <1>3, ConcatProperties
  <2>7. /\ DOMAIN c = 1..Len(c) /\ DOMAIN d = 1..Len(d)
        /\ Len(c) \in Nat /\ Len(d) \in Nat
    <3> HIDE DEF d
    <3> QED BY <1>2, <1>3
  <2>8. ASSUME NEW j \in DOMAIN e PROVE positions[f].position <= e[j].start
    <3> HIDE DEF d, e
    <3>1. CASE j \in DOMAIN c /\ e[j] = c[j]
      BY <2>4, <3>1
    <3>2. CASE j - Len(c) \in DOMAIN d /\ e[j] = d[j - Len(c)]
      BY <2>5, <3>2
    <3> QED BY <2>6, <2>7, <3>1, <3>2
  <2>9. ClusterFrom(f)'
    BY <2>1, <2>8 DEF ClusterFrom
  <2> QED BY <2>9 DEF ClusterInv
<1> QED BY <1>6, <1>7, <1>8 DEF CoverInv

\* A call is replaced by the snippet of its region or by the calls around one.
LEMMA SegmentKeeps ==
    ASSUME SnippetsInv, CoverInv, SegmentDocument
    PROVE  CoverInv'
<1> DEFINE start == calls[1].start
           end   == calls[1].end
<1>1. /\ phase = "segment" /\ calls # <<>>
      /\ UNCHANGED <<given, phase, positions, p, cluster>>
  BY DEF SegmentDocument
<1>2. start \in Nat /\ end \in Nat
  BY <1>1, FirstCall DEF SnippetsInv
<1>3. \/ /\ calls' = Tail(calls)
         /\ \E s \in WholeRegion(start, end) : bh' = Append(bh, s)
      \/ bh' = bh /\ \E c \in Split(start, end) : calls' = c \o Tail(calls)
  BY DEF SegmentDocument
<1>4. ASSUME calls' = Tail(calls),
             NEW s \in WholeRegion(start, end), bh' = Append(bh, s)
      PROVE  CoverInv'
  <2>1. s \in SnippetType /\ s.start = start /\ s.end = end
    BY <1>2, WholeRegionFacts DEF SnippetsInv
  <2> QED BY <1>1, <1>4, <2>1, AppendKeeps
<1>5. ASSUME bh' = bh, NEW c \in Split(start, end), calls' = c \o Tail(calls)
      PROVE  CoverInv'
  BY <1>1, <1>5, SplitKeeps
<1> QED BY <1>3, <1>4, <1>5

\* The best snippet of a call replaces the pending append that stands for it.
LEMMA AppendBestKeeps ==
    ASSUME SnippetsInv, CoverInv, AppendBest
    PROVE  CoverInv'
<1>1. /\ phase = "segment" /\ calls # <<>> /\ calls' = Tail(calls)
      /\ UNCHANGED <<given, phase, positions, p, cluster>>
  BY DEF AppendBest
<1>2. PICK s \in calls[1].append : bh' = Append(bh, s)
  BY DEF AppendBest
<1>3. 1 \in DOMAIN calls /\ calls[1] \in Pending
  BY <1>1, FirstCall DEF SnippetsInv
<1>4. s \in SnippetType
  BY <1>3 DEF Pending
<1>5. s.start = calls[1].start /\ s.end = calls[1].end
  BY <1>3 DEF SnippetsInv, QueueInv, Chain, RegionOK
<1> QED BY <1>1, <1>2, <1>4, <1>5, AppendKeeps

\* Marking the last snippet of a cluster leaves its range alone.
LEMMA FinishKeeps ==
    ASSUME SnippetsInv, CoverInv, FinishCluster
    PROVE  CoverInv'
<1>1. /\ phase = "segment" /\ phase' = "cluster" /\ given' = given
      /\ positions' = positions /\ p' = p /\ calls' = calls
  BY DEF FinishCluster
<1>2. /\ DOMAIN bh' = DOMAIN bh
      /\ \A i \in DOMAIN bh : bh'[i].start = bh[i].start /\ bh'[i].end = bh[i].end
  BY RangesStay
<1>3. GivenInv'
  BY <1>1, KeptStays DEF CoverInv
<1>4. PlacesInv'
  BY <1>1, <1>2 DEF CoverInv, PlacesInv, Has
<1>5. ClusterInv'
  BY <1>1 DEF ClusterInv
<1> QED BY <1>3, <1>4, <1>5 DEF CoverInv

\* All occurrences have been in a cluster when the choice begins.
LEMMA TopKeeps ==
    ASSUME SnippetsInv, CoverInv, Created \/ TopStep \/ TopEnd
    PROVE  CoverInv'
<1>1. /\ given' = given /\ positions' = positions /\ p' = p /\ bh' = bh
      /\ calls' = calls
  BY DEF Created, TopStep, TopEnd, createVars
<1>2. phase \in {"cluster", "top"} /\ phase' \in {"top", "done"}
  BY DEF Created, TopStep, TopEnd
<1>3. p = Len(positions) + 1
  <2>1. CASE Created
    BY <2>1 DEF Created, SnippetsInv, TypeOK
  <2>2. CASE TopStep \/ TopEnd
    BY <2>2 DEF TopStep, TopEnd, CoverInv, ClusterInv
  <2> QED BY <2>1, <2>2
<1>4. GivenInv'
  BY <1>1, <1>2, KeptStays DEF CoverInv
<1>5. PlacesInv' /\ ClusterInv'
  BY <1>1, <1>2, <1>3 DEF CoverInv, PlacesInv, ClusterInv, Has
<1> QED BY <1>4, <1>5 DEF CoverInv
-----------------------------------------------------------------------------
(***************************************************************************)
(* The theorem.                                                            *)
(***************************************************************************)
\* Every step keeps the second invariant, given the first.
LEMMA NextCoverInv == SnippetsInv /\ CoverInv /\ [Next]_vars => CoverInv'
<1> SUFFICES ASSUME SnippetsInv, CoverInv, [Next]_vars PROVE CoverInv'
  OBVIOUS
<1>1. CASE SortPositions
  BY <1>1, SortKeeps
<1>2. CASE StartCluster
  BY <1>2, ClusterKeeps
<1>3. CASE SegmentDocument
  BY <1>3, SegmentKeeps
<1>4. CASE AppendBest
  BY <1>4, AppendBestKeeps
<1>5. CASE FinishCluster
  BY <1>5, FinishKeeps
<1>6. CASE Created \/ TopStep \/ TopEnd
  BY <1>6, TopKeeps
<1>7. CASE UNCHANGED vars
  BY <1>7 DEF vars, createVars, topVars, CoverInv, GivenInv, PlacesInv,
              ClusterInv, ClusterFrom, Kept, Has
<1> QED BY <1>1, <1>2, <1>3, <1>4, <1>5, <1>6, <1>7 DEF Next

\* A place in one of the snippets is in no other one.
LEMMA InOneSnippet ==
    ASSUME SnippetsInv, NEW x \in Nat, Has(bh, x)
    PROVE  Cardinality({i \in DOMAIN bh : x \in bh[i].start..bh[i].end}) = 1
<1> DEFINE having == {i \in DOMAIN bh : x \in bh[i].start..bh[i].end}
<1>1. ASSUME NEW i \in DOMAIN bh PROVE bh[i].start \in Nat /\ bh[i].end \in Nat
  <2>1. bh[i] \in SnippetType
    BY DEF SnippetsInv, TypeOK
  <2> QED BY <2>1 DEF SnippetType
<1>2. PICK i \in DOMAIN bh : bh[i].start <= x /\ x <= bh[i].end
  BY DEF Has
<1>3. i \in having
  BY <1>1, <1>2
<1>4. ASSUME NEW j \in having PROVE j = i
  <2>1. j \in DOMAIN bh /\ bh[j].start <= x /\ x <= bh[j].end
    BY <1>1
  <2>2. ~(i < j) /\ ~(j < i)
    BY <1>1, <1>2, <2>1 DEF SnippetsInv, QueueInv, SnippetsInOrder
  <2>3. i \in Int /\ j \in Int
    BY <1>2, <2>1 DEF SnippetsInv, TypeOK
  <2> QED BY <2>2, <2>3
<1>5. having = {i}
  BY <1>3, <1>4
<1> HIDE DEF having
<1>6. Cardinality(having) = 1
  BY <1>5, FS_Singleton
<1> QED BY <1>6 DEF having

\* The two invariants at the end of snippets_create.
LEMMA CoverInvSuffices == SnippetsInv /\ CoverInv => OccurrencesCovered
<1> SUFFICES ASSUME SnippetsInv, CoverInv, phase = "top", NEW o \in given
             PROVE  /\ Kept(o)
                    /\ Cardinality({i \in DOMAIN bh :
                          o.position \in bh[i].start..bh[i].end}) = 1
  BY DEF OccurrencesCovered, Kept
<1>1. Kept(o)
  BY DEF CoverInv, GivenInv
<1>2. PICK k \in DOMAIN positions : positions[k].position = o.position
  BY <1>1 DEF Kept
<1>3. k \in 1..(p - 1) /\ calls = <<>>
  BY DEF CoverInv, ClusterInv, SnippetsInv, CallsInv, TypeOK
<1>4. ~Has(calls, positions[k].position)
  BY <1>3 DEF Has
<1>5. Has(bh, o.position)
  BY <1>2, <1>3, <1>4 DEF CoverInv, PlacesInv
<1>6. o.position \in Nat
  BY <1>2, PlacesAreNat DEF SnippetsInv
<1> QED BY <1>1, <1>5, <1>6, InOneSnippet

\* Whatever the document, the limit and the scores: when snippets_create
\* returns, every occurrence the client gave was kept by the merging, for each
\* of its queries, and its place is in exactly one snippet.
THEOREM OccurrencesAlwaysCovered == Spec => []OccurrencesCovered
<1>1. Init => CoverInv
  BY DEF Init, CoverInv, GivenInv, PlacesInv, ClusterInv
<1>2. SnippetsInv /\ CoverInv /\ [Next]_vars => CoverInv'
  BY NextCoverInv
<1>3. SnippetsInv /\ CoverInv => OccurrencesCovered
  BY CoverInvSuffices
<1> QED BY <1>1, <1>2, <1>3, SnippetsInvariant, PTL DEF Spec
-----------------------------------------------------------------------------
(***************************************************************************)
(* What the fields of a snippet say of the document: its mask has just the *)
(* terms of its query in its range, and next_in_cluster is false just at   *)
(* the end of a cluster.                                                   *)
(*                                                                         *)
(* The mask of a best window may only count some of the occurrences at the *)
(* places where it begins and ends.  A window with all of them is a        *)
(* candidate too; as it does not count more, it has no other terms.        *)
(***************************************************************************)
InRange(s) == {k \in DOMAIN positions : positions[k].position \in s.start..s.end}

Exact(s) ==
    /\ (s.query_index = -1) = (InRange(s) = {})
    /\ s.mask = MaskOf(OfQuery(InRange(s), s.query_index))

Fresh(s) == Exact(s) /\ s.next_in_cluster = TRUE

PendingInv == \A j \in DOMAIN calls : \A s \in calls[j].append : Fresh(s)

MaskInv == \A i \in DOMAIN bh : Exact(bh[i])

LastUntil(x) == Max({k \in DOMAIN positions : positions[k].position <= x})
Marked(s) == s.next_in_cluster = NearNext(LastUntil(s.end))

\* Snippets of earlier clusters, and of the current one.
Earlier(s) == Marked(s) /\ \A k \in cluster : s.end < positions[k].position
Current(s) == /\ s.next_in_cluster = TRUE
              /\ \E k \in cluster : positions[k].position <= s.start

MarkInv ==
    /\ phase # "segment" => \A i \in DOMAIN bh : Marked(bh[i])
    /\ phase = "segment" =>
          /\ \A k \in cluster : k # p - 1 => NearNext(k)
          /\ ~NearNext(p - 1)
          /\ \A i \in DOMAIN bh : IF i <= begun THEN Earlier(bh[i])
                                                ELSE Current(bh[i])

FieldInv == PendingInv /\ MaskInv /\ MarkInv
AllInv   == SnippetsInv /\ CoverInv /\ FieldInv
-----------------------------------------------------------------------------
(***************************************************************************)
(* The operators.                                                          *)
(***************************************************************************)
\* More occurrences that do not count more have no other terms.
LEMMA CountGrows ==
    ASSUME TypeOK, NEW A, NEW B \in SUBSET DOMAIN positions, A \subseteq B,
           CountTwice(B) <= CountTwice(A)
    PROVE  MaskOf(A) = MaskOf(B)
<1> DEFINE again(is) == {t \in MaskOf(is) : \E i, j \in is :
              i # j /\ positions[i].term_index = t /\ positions[j].term_index = t}
<1>1. A \in SUBSET DOMAIN positions
  OBVIOUS
<1>2. MaskOf(A) \subseteq MaskOf(B)
  BY DEF MaskOf
<1>3. again(A) \subseteq again(B)
  BY <1>2
<1>4. /\ again(A) \subseteq MaskOf(A) /\ again(B) \subseteq MaskOf(B)
      /\ CountTwice(A) = Cardinality(MaskOf(A)) + Cardinality(again(A))
      /\ CountTwice(B) = Cardinality(MaskOf(B)) + Cardinality(again(B))
  BY DEF CountTwice
<1> HIDE DEF again
<1>5. IsFiniteSet(MaskOf(A)) /\ IsFiniteSet(MaskOf(B))
  BY <1>1, MaskFacts
<1>6. IsFiniteSet(again(A)) /\ IsFiniteSet(again(B))
  BY <1>4, <1>5, FS_Subset
<1>7. /\ Cardinality(MaskOf(A)) <= Cardinality(MaskOf(B))
      /\ Cardinality(again(A)) <= Cardinality(again(B))
      /\ Cardinality(MaskOf(A)) = Cardinality(MaskOf(B)) => MaskOf(A) = MaskOf(B)
  BY <1>2, <1>3, <1>5, <1>6, FS_Subset
<1>8. /\ Cardinality(MaskOf(A)) \in Nat /\ Cardinality(MaskOf(B)) \in Nat
      /\ Cardinality(again(A)) \in Nat /\ Cardinality(again(B)) \in Nat
  BY <1>5, <1>6, FS_CardinalityType
<1> QED BY <1>4, <1>7, <1>8

\* All the occurrences in the region of the first pending call belong to the
\* current cluster.
LEMMA RegionIsWhole ==
    ASSUME SnippetsInv, CoverInv, phase = "segment", calls # <<>>,
           NEW k \in DOMAIN positions,
           positions[k].position \in calls[1].start..calls[1].end
    PROVE  k \in InRegion(calls[1].start, calls[1].end)
<1>1. TypeOK /\ CallsInv /\ PastInv
  BY DEF SnippetsInv
<1>2. 1 \in DOMAIN calls /\ calls[1].start \in Nat /\ calls[1].end \in Nat
  BY <1>1, FirstCall
<1>3. PICK f \in 1..(p - 1) : ClusterFrom(f)
  BY DEF CoverInv, ClusterInv
<1>4. /\ f \in DOMAIN positions /\ p - 1 \in DOMAIN positions
      /\ k \in Int /\ f \in Int /\ p \in Int /\ p > 1
  BY <1>1, <1>3 DEF TypeOK
<1>5. /\ positions[k].position \in Nat /\ positions[f].position \in Nat
      /\ positions[p - 1].position \in Nat
  BY <1>1, <1>4, PlacesAreNat
<1>6. ~(k < f)
  <2>1. ASSUME k < f PROVE FALSE
    <3>1. positions[k].position < positions[f].position
      BY <1>3, <1>4, <2>1, <1>1 DEF ClusterFrom, TypeOK
    <3>2. positions[f].position <= calls[1].start
      BY <1>2, <1>3 DEF ClusterFrom
    <3> QED BY <1>2, <1>5, <3>1, <3>2
  <2> QED BY <2>1
<1>7. ~(p <= k)
  <2>1. ASSUME p <= k PROVE FALSE
    <3>1. p \in DOMAIN positions /\ p \in 2..Len(positions)
      BY <1>1, <1>4, <2>1 DEF TypeOK
    <3>2. /\ positions[p].position \in Nat
          /\ positions[p].position <= positions[k].position
      BY <1>1, <2>1, <3>1, PositionsAscend
    <3>3. positions[p - 1].position < positions[p].position
      BY <1>1, <3>1 DEF PastInv
    <3>4. calls[1].end <= positions[p - 1].position
      BY <1>1, <1>2 DEF PastInv
    <3> QED BY <1>2, <1>5, <3>2, <3>3, <3>4
  <2> QED BY <2>1
<1>8. k \in cluster
  BY <1>3, <1>4, <1>6, <1>7 DEF ClusterFrom
<1> QED BY <1>8 DEF InRegion

\* A region that fits becomes an exact snippet.
LEMMA WholeIsFresh ==
    ASSUME SnippetsInv, CoverInv, phase = "segment", calls # <<>>,
           NEW s \in WholeRegion(calls[1].start, calls[1].end)
    PROVE  Fresh(s)
<1> DEFINE start == calls[1].start
           end   == calls[1].end
           is    == InRegion(start, end)
<1>1. TypeOK /\ start \in Nat /\ end \in Nat
  BY FirstCall DEF SnippetsInv
<1>2. s.start = start /\ s.end = end
  BY <1>1, WholeRegionFacts
<1>3. InRange(s) = is
  BY <1>1, <1>2, RegionIsWhole, RegionFacts DEF InRange
<1>4. is \in SUBSET DOMAIN positions
  BY <1>1, RegionFacts
<1> HIDE DEF is
<1>5. CASE is = {}
  <2>1. s = Snippet(start, end, -1, {}, 0)
    BY <1>5 DEF WholeRegion, is
  <2>2. s.query_index = -1 /\ s.mask = MaskOf({}) /\ s.next_in_cluster = TRUE
    BY <2>1 DEF Snippet
  <2>3. OfQuery({}, -1) = {}
    BY DEF OfQuery
  <2> QED BY <1>3, <1>5, <2>2, <2>3 DEF Fresh, Exact
<1>6. CASE is # {}
  <2>1. PICK q \in QueriesIn(is) :
          s = Snippet(start, end, q, OfQuery(is, q), Cardinality(OfQuery(is, q)))
    BY <1>6 DEF WholeRegion, is
  <2>2. q # -1
    <3>1. q \in 0..31
      BY <1>1, <1>4, QueryFacts
    <3> QED BY <3>1
  <2>3. /\ s.query_index = q /\ s.mask = MaskOf(OfQuery(is, q))
        /\ s.next_in_cluster = TRUE
    BY <2>1 DEF Snippet
  <2> QED BY <1>3, <1>6, <2>2, <2>3 DEF Fresh, Exact
<1> QED BY <1>5, <1>6

\* So does the best window: one with all the occurrences at the places of its
\* ends is a candidate too.
LEMMA BestIsFresh ==
    ASSUME SnippetsInv, CoverInv, phase = "segment", calls # <<>>,
           NEW s \in FindBest(calls[1].start, calls[1].end)
    PROVE  Fresh(s)
<1> DEFINE start == calls[1].start
           end   == calls[1].end
           is    == InRange(s)
<1>1. TypeOK /\ start \in Nat /\ end \in Nat
  BY FirstCall DEF SnippetsInv
<1>2. s \in Found(start, end) /\ \A r \in Found(start, end) : r.match_count <= s.match_count
  BY DEF FindBest
<1>3. PICK w \in Windows(start, end) : \E q \in QueriesIn(w[1]..w[2]) :
          s = WindowSnippet(w, q)
  BY <1>2 DEF Found
<1>4. PICK q \in QueriesIn(w[1]..w[2]) : s = WindowSnippet(w, q)
  BY <1>3
<1> DEFINE first == w[1]
           last  == w[2]
<1>5. /\ first \in InRegion(start, end) /\ last \in InRegion(start, end)
      /\ first <= last
      /\ Fits(positions[first].position, positions[last].position)
  BY DEF Windows
<1>6. /\ first \in DOMAIN positions /\ last \in DOMAIN positions
      /\ positions[first].position \in start..end
      /\ positions[last].position \in start..end
  BY <1>1, <1>5, RegionFacts
<1>7. s = Snippet(positions[first].position, positions[last].position, q,
                  OfQuery(first..last, q), CountTwice(OfQuery(first..last, q)))
  BY <1>4 DEF WindowSnippet
<1>8. q \in QueriesIn(first..last)
  BY <1>4
<1> HIDE DEF first, last
<1>9. /\ s.start = positions[first].position /\ s.end = positions[last].position
      /\ s.query_index = q /\ s.mask = MaskOf(OfQuery(first..last, q))
      /\ s.match_count = CountTwice(OfQuery(first..last, q))
      /\ s.next_in_cluster = TRUE
  BY <1>7 DEF Snippet
<1>10. DOMAIN positions = 1..Len(positions) /\ Len(positions) \in Nat
  BY <1>1 DEF TypeOK
<1>11. ASSUME NEW k \in first..last PROVE k \in is
  <2>1. k \in DOMAIN positions /\ first <= k /\ k <= last
    BY <1>6, <1>10
  <2>2. /\ positions[k].position \in Nat
        /\ positions[first].position <= positions[k].position
        /\ positions[k].position <= positions[last].position
    BY <1>1, <1>6, <2>1, PositionsAscend
  <2> QED BY <1>6, <1>9, <2>1, <2>2 DEF InRange
<1>12. is \in SUBSET DOMAIN positions
  BY DEF InRange
<1>13. ASSUME NEW k \in is
       PROVE  /\ k \in InRegion(start, end) /\ positions[k].position \in Nat
              /\ positions[first].position <= positions[k].position
              /\ positions[k].position <= positions[last].position
  <2>1. /\ k \in DOMAIN positions
        /\ positions[k].position \in positions[first].position..positions[last].position
    BY <1>9 DEF InRange
  <2>2. positions[k].position \in start..end
    BY <1>1, <1>6, <2>1
  <2>3. k \in InRegion(start, end)
    BY <2>1, <2>2, RegionIsWhole
  <2>4. /\ positions[k].position \in Nat /\ positions[first].position \in Nat
        /\ positions[last].position \in Nat
    BY <1>1, <1>6, <2>1, PlacesAreNat
  <2> QED BY <2>1, <2>3, <2>4
<1> HIDE DEF is
<1>14. first \in is /\ last \in is /\ is \in SUBSET Nat
  <2>1. first \in first..last /\ last \in first..last
    BY <1>5, <1>6, <1>10
  <2> QED BY <1>10, <1>11, <1>12, <2>1
<1>15. PICK a \in is : \A k \in is : a <= k
  BY <1>14, MinimumExists
<1>16. PICK b \in is : \A k \in is : k <= b
  <2>1. \A k \in is : k <= Len(positions)
    BY <1>10, <1>12
  <2> QED BY <1>10, <1>14, <2>1, MaximumExists
<1>17. a \in DOMAIN positions /\ b \in DOMAIN positions /\ a \in Nat /\ b \in Nat
  BY <1>12, <1>14
<1>18. /\ positions[a].position = positions[first].position
       /\ positions[b].position = positions[last].position
  <2>1. a <= first /\ last <= b
    BY <1>14, <1>15, <1>16
  <2>2. /\ positions[a].position <= positions[first].position
        /\ positions[last].position <= positions[b].position
    BY <1>1, <1>6, <1>17, <2>1, PositionsAscend
  <2>3. /\ positions[first].position \in Nat /\ positions[last].position \in Nat
    BY <1>1, <1>6, PlacesAreNat
  <2> QED BY <1>13, <2>2, <2>3
<1>19. is = a..b
  <2>1. ASSUME NEW k \in a..b PROVE k \in is
    <3>1. k \in DOMAIN positions /\ a <= k /\ k <= b
      BY <1>10, <1>17
    <3>2. /\ positions[k].position \in Nat
          /\ positions[a].position <= positions[k].position
          /\ positions[k].position <= positions[b].position
      BY <1>1, <1>17, <3>1, PositionsAscend
    <3>3. positions[k].position \in s.start..s.end
      BY <1>1, <1>6, <1>9, <1>18, <3>2
    <3> QED BY <3>1, <3>3 DEF InRange, is
  <2>2. ASSUME NEW k \in is PROVE k \in a..b
    BY <1>14, <1>15, <1>16
  <2> QED BY <2>1, <2>2
<1>20. first..last \subseteq a..b
  BY <1>11, <1>19
<1> DEFINE wide == <<a, b>>
           A    == OfQuery(first..last, q)
           B    == OfQuery(a..b, q)
<1>21. wide \in Windows(start, end) /\ wide[1] = a /\ wide[2] = b
  <2>1. a <= b
    BY <1>16, <1>15
  <2> QED BY <1>5, <1>13, <1>18, <2>1 DEF Windows
<1> HIDE DEF wide
<1>22. WindowSnippet(wide, q) \in Found(start, end)
  <2>1. q \in QueriesIn(a..b)
    BY <1>8, <1>20 DEF QueriesIn
  <2> QED BY <1>21, <2>1 DEF Found
<1>23. WindowSnippet(wide, q).match_count = CountTwice(B)
  BY <1>21 DEF WindowSnippet, Snippet
<1>24. CountTwice(B) <= CountTwice(A)
  BY <1>2, <1>9, <1>22, <1>23
<1>25. B \in SUBSET DOMAIN positions /\ A \subseteq B
  BY <1>12, <1>19, <1>20 DEF OfQuery
<1> HIDE DEF A, B
<1>26. MaskOf(A) = MaskOf(B)
  BY <1>1, <1>24, <1>25, CountGrows
<1>27. s.mask = MaskOf(OfQuery(is, q))
  BY <1>9, <1>19, <1>26 DEF A, B
<1>28. q # -1
  <2>1. first..last \in SUBSET DOMAIN positions
    BY <1>12, <1>19, <1>20
  <2>2. q \in 0..31
    BY <1>1, <1>8, <2>1, QueryFacts
  <2> QED BY <2>2
<1>29. Exact(s)
  BY <1>9, <1>14, <1>27, <1>28 DEF Exact, is
<1> QED BY <1>9, <1>29 DEF Fresh

\* Concatenation has the elements of both sequences.
LEMMA ConcatParts ==
    ASSUME NEW c \in Seq(Pending), NEW d \in Seq(Pending)
    PROVE  c \o d \in Seq(Pending) /\ Parts(c \o d, c, d)
<1> DEFINE e == c \o d
<1>1. /\ Len(e) = Len(c) + Len(d) /\ e \in Seq(Pending)
      /\ \A k \in 1..(Len(c) + Len(d)) :
            e[k] = IF k <= Len(c) THEN c[k] ELSE d[k - Len(c)]
  BY ConcatProperties
<1> HIDE DEF e
<1>2. /\ DOMAIN e = 1..Len(e) /\ DOMAIN c = 1..Len(c) /\ DOMAIN d = 1..Len(d)
      /\ Len(c) \in Nat /\ Len(d) \in Nat
  BY <1>1
<1>3. ASSUME NEW k \in DOMAIN e
      PROVE  \/ k \in DOMAIN c /\ e[k] = c[k]
             \/ k - Len(c) \in DOMAIN d /\ e[k] = d[k - Len(c)]
  BY <1>1, <1>2
<1>4. Parts(e, c, d)
  BY <1>3 DEF Parts
<1> QED BY <1>1, <1>4 DEF e

\* The appends among the calls around a best snippet are of that snippet.
LEMMA AroundAppends ==
    ASSUME NEW start \in Nat, NEW end \in Nat, NEW s \in SnippetType,
           NEW j \in DOMAIN Around(start, end, s),
           NEW r \in Around(start, end, s)[j].append
    PROVE  r = s
<1> DEFINE left  == IF s.start > start THEN <<Call(start, s.start - 1)>> ELSE <<>>
           m     == [start |-> s.start, end |-> s.end, append |-> {s}]
           mid   == <<m>>
           right == IF s.end < end THEN <<Call(s.end + 1, end)>> ELSE <<>>
           e     == (left \o mid) \o right
<1>1. s.start \in Nat /\ s.end \in Nat
  BY DEF SnippetType
<1>2. left \in Seq(Pending) /\ \A i \in DOMAIN left : left[i].append = {}
  <2>1. s.start > start => Call(start, s.start - 1) \in Pending
    BY <1>1 DEF Call, Pending
  <2>2. Call(start, s.start - 1).append = {}
    BY DEF Call
  <2> QED BY <2>1, <2>2
<1>3. mid \in Seq(Pending) /\ \A i \in DOMAIN mid : mid[i].append = {s}
  <2>1. m \in Pending /\ m.append = {s}
    BY <1>1 DEF Pending
  <2> HIDE DEF m
  <2> QED BY <2>1
<1>4. right \in Seq(Pending) /\ \A i \in DOMAIN right : right[i].append = {}
  <2>1. s.end < end => Call(s.end + 1, end) \in Pending
    BY <1>1 DEF Call, Pending
  <2>2. Call(s.end + 1, end).append = {}
    BY DEF Call
  <2> QED BY <2>1, <2>2
<1>5. Around(start, end, s) = e
  BY DEF Around
<1> HIDE DEF left, mid, right
<1>6. left \o mid \in Seq(Pending) /\ Parts(left \o mid, left, mid)
  BY <1>2, <1>3, ConcatParts
<1>7. Parts(e, left \o mid, right)
  BY <1>4, <1>6, ConcatParts
<1>8. j \in DOMAIN e /\ r \in e[j].append
  BY <1>5
<1> HIDE DEF e
<1>9. CASE \E i \in DOMAIN right : e[j] = right[i]
  BY <1>4, <1>8, <1>9
<1>10. CASE \E i \in DOMAIN (left \o mid) : e[j] = (left \o mid)[i]
  <2>1. PICK i \in DOMAIN (left \o mid) : e[j] = (left \o mid)[i]
    BY <1>10
  <2>2. \/ \E k \in DOMAIN left : e[j] = left[k]
        \/ \E k \in DOMAIN mid : e[j] = mid[k]
    BY <1>6, <2>1 DEF Parts
  <2> QED BY <1>2, <1>3, <1>8, <2>2
<1> QED BY <1>7, <1>8, <1>9, <1>10 DEF Parts
-----------------------------------------------------------------------------
(***************************************************************************)
(* The steps.                                                              *)
(***************************************************************************)
\* Before the sort there is no snippet and no call.
LEMMA SortFields ==
    ASSUME AllInv, SortPositions
    PROVE  FieldInv'
<1>1. /\ phase = "given" /\ phase' = "cluster" /\ calls' = calls /\ bh' = bh
  BY DEF SortPositions
<1>2. calls' = <<>> /\ bh' = <<>>
  BY <1>1 DEF AllInv, SnippetsInv, CallsInv
<1> QED BY <1>1, <1>2 DEF FieldInv, PendingInv, MaskInv, MarkInv

\* What depends on the sorted occurrences only.
LEMMA FieldsStay ==
    ASSUME positions' = positions, max_snippet' = max_snippet
    PROVE  /\ \A s : Exact(s)' = Exact(s) /\ Fresh(s)' = Fresh(s)
           /\ \A s : Marked(s)' = Marked(s)
           /\ \A k : NearNext(k)' = NearNext(k)
BY DEF Exact, Fresh, Marked, InRange, MaskOf, OfQuery, NearNext, LastUntil,
       AdjustedMaxSnippet

\* The snippets so far are of clusters before the one that begins.
LEMMA ClusterFields ==
    ASSUME AllInv, StartCluster
    PROVE  FieldInv'
<1>1. /\ phase = "cluster" /\ phase' = "segment" /\ p <= Len(positions)
      /\ positions' = positions /\ max_snippet' = max_snippet
      /\ bh' = bh /\ begun' = Len(bh)
  BY DEF StartCluster
<1>2. PICK last \in p..Len(positions) :
        /\ IsCluster(p, last) /\ cluster' = p..last /\ p' = last + 1
        /\ calls' = <<Call(positions[p].position, positions[last].position)>>
  BY DEF StartCluster
<1>3. TypeOK /\ PastInv /\ CoverInv /\ FieldInv
  BY DEF AllInv, SnippetsInv
<1>4. /\ DOMAIN positions = 1..Len(positions) /\ Len(positions) \in Nat
      /\ p \in Nat \ {0} /\ p \in DOMAIN positions
      /\ last \in Nat \ {0} /\ last \in DOMAIN positions /\ p <= last
  BY <1>1, <1>3 DEF TypeOK
<1>5. PendingInv'
  <2>1. \A j \in DOMAIN calls' : calls'[j].append = {}
    BY <1>2 DEF Call
  <2> QED BY <2>1 DEF PendingInv
<1>6. MaskInv'
  BY <1>1, <1>3, FieldsStay DEF FieldInv, MaskInv
<1>7. \A k \in p..last : k # last => NearNext(k)
  BY <1>2, <1>4 DEF IsCluster
<1>8. ~NearNext(last)
  BY <1>2 DEF IsCluster
<1>9. ASSUME NEW i \in DOMAIN bh, NEW k \in p..last
      PROVE  bh[i].end < positions[k].position
  <2>1. bh[i] \in SnippetType
    BY <1>3 DEF TypeOK
  <2>2. p > 1 /\ bh[i].end <= positions[p - 1].position
    BY <1>3 DEF PastInv
  <2>3. p - 1 \in DOMAIN positions /\ p \in 2..Len(positions) /\ k \in DOMAIN positions
    BY <1>4, <2>2
  <2>4. positions[p - 1].position < positions[p].position
    BY <1>3, <2>3 DEF PastInv
  <2>5. positions[p].position <= positions[k].position
    BY <1>3, <1>4, <2>3, PositionsAscend
  <2>6. /\ positions[p - 1].position \in Nat /\ positions[p].position \in Nat
        /\ positions[k].position \in Nat
    BY <1>3, <1>4, <2>3, PlacesAreNat
  <2>7. bh[i].end \in Nat
    BY <2>1 DEF SnippetType
  <2> QED BY <2>2, <2>4, <2>5, <2>6, <2>7
<1>10. \A i \in DOMAIN bh : Marked(bh[i]) /\ i <= Len(bh)
  BY <1>1, <1>3 DEF FieldInv, MarkInv, TypeOK
<1>11. MarkInv'
  <2>1. p' - 1 = last
    BY <1>2, <1>4
  <2>2. \A k \in cluster' : k # p' - 1 => NearNext(k)'
    BY <1>1, <1>2, <1>7, <2>1, FieldsStay
  <2>3. ~NearNext(p - 1)'
    BY <1>1, <1>8, <2>1, FieldsStay
  <2>4. \A i \in DOMAIN bh' : i <= begun' /\ Earlier(bh[i])'
    BY <1>1, <1>2, <1>9, <1>10, FieldsStay DEF Earlier
  <2> QED BY <1>1, <2>2, <2>3, <2>4 DEF MarkInv
<1> QED BY <1>5, <1>6, <1>11 DEF FieldInv

\* The snippet that takes the place of the first pending call.
LEMMA AppendFields ==
    ASSUME AllInv, phase = "segment", calls # <<>>,
           NEW s, Fresh(s), s.start = calls[1].start,
           bh' = Append(bh, s), calls' = Tail(calls),
           UNCHANGED <<max_snippet, phase, positions, p, cluster, begun>>
    PROVE  FieldInv'
<1>1. TypeOK /\ CallsInv /\ CoverInv /\ FieldInv
  BY DEF AllInv, SnippetsInv
<1>2. /\ DOMAIN bh = 1..Len(bh) /\ Len(bh) \in Nat /\ begun \in 0..Len(bh)
      /\ DOMAIN bh' = 1..(Len(bh) + 1) /\ bh'[Len(bh) + 1] = s
      /\ \A k \in 1..Len(bh) : bh'[k] = bh[k]
  BY <1>1 DEF TypeOK
<1>3. ASSUME NEW i \in DOMAIN bh'
      PROVE  \/ i \in DOMAIN bh /\ bh'[i] = bh[i]
             \/ i > begun /\ bh'[i] = s
  <2>1. i \in 1..Len(bh) \/ i = Len(bh) + 1
    BY <1>2
  <2> QED BY <1>2, <2>1
<1>4. PendingInv'
  <2>1. ASSUME NEW j \in DOMAIN calls', NEW r \in calls'[j].append PROVE Fresh(r)
    BY <1>1, FirstCall DEF FieldInv, PendingInv
  <2> QED BY <2>1, FieldsStay DEF PendingInv
<1>5. MaskInv'
  <2>1. ASSUME NEW i \in DOMAIN bh' PROVE Exact(bh'[i])
    BY <1>1, <1>3 DEF FieldInv, MaskInv, Fresh
  <2> QED BY <2>1, FieldsStay DEF MaskInv
<1>6. Current(s)
  <2>1. PICK f \in 1..(p - 1) : ClusterFrom(f)
    BY <1>1 DEF CoverInv, ClusterInv
  <2>2. f \in cluster
    BY <1>1, <2>1 DEF ClusterFrom, TypeOK
  <2>3. positions[f].position <= s.start
    BY <1>1, <2>1, FirstCall DEF ClusterFrom
  <2> QED BY <2>2, <2>3 DEF Fresh, Current
<1>7. MarkInv'
  <2>1. /\ \A k \in cluster : k # p - 1 => NearNext(k)'
        /\ ~NearNext(p - 1)'
    BY <1>1, FieldsStay DEF FieldInv, MarkInv
  <2>2. ASSUME NEW r PROVE Earlier(r)' = Earlier(r) /\ Current(r)' = Current(r)
    BY FieldsStay DEF Earlier, Current
  <2>3. ASSUME NEW i \in DOMAIN bh'
        PROVE  IF i <= begun THEN Earlier(bh'[i]) ELSE Current(bh'[i])
    <3>1. CASE i \in DOMAIN bh /\ bh'[i] = bh[i]
      BY <1>1, <3>1 DEF FieldInv, MarkInv
    <3>2. CASE i > begun /\ bh'[i] = s
      <4>1. ~(i <= begun)
        BY <1>2, <3>2
      <4> QED BY <1>6, <3>2, <4>1
    <3> QED BY <1>3, <3>1, <3>2
  <2> QED BY <2>1, <2>2, <2>3 DEF MarkInv
<1> QED BY <1>4, <1>5, <1>7 DEF FieldInv

\* The calls that replace the first one have an exact snippet among them.
LEMMA SplitFields ==
    ASSUME AllInv, phase = "segment", calls # <<>>,
           NEW c \in Split(calls[1].start, calls[1].end),
           calls' = c \o Tail(calls), bh' = bh,
           UNCHANGED <<max_snippet, phase, positions, p, cluster, begun>>
    PROVE  FieldInv'
<1> DEFINE start == calls[1].start
           end   == calls[1].end
           d     == Tail(calls)
<1>1. TypeOK /\ CallsInv /\ CoverInv /\ FieldInv /\ SnippetsInv
  BY DEF AllInv, SnippetsInv
<1>2. start \in Nat /\ end \in Nat /\ d \in Seq(Pending)
  BY <1>1, FirstCall
<1>3. c \in Seq(Pending)
  BY <1>1, <1>2, SplitFacts
<1>4. ASSUME NEW i \in DOMAIN c, NEW r \in c[i].append PROVE Fresh(r)
  <2>1. FindBest(start, end) # {}
    BY <1>4 DEF Split
  <2>2. PICK s \in FindBest(start, end) : c = Around(start, end, s)
    BY <2>1 DEF Split
  <2>3. s \in SnippetType
    <3>1. s \in Found(start, end)
      BY DEF FindBest
    <3> QED BY <1>1, <1>2, <3>1, WindowFacts
  <2>4. r = s
    BY <1>2, <1>4, <2>2, <2>3, AroundAppends
  <2> QED BY <1>1, <2>4, BestIsFresh
<1>5. ASSUME NEW i \in DOMAIN d, NEW r \in d[i].append PROVE Fresh(r)
  BY <1>1, FirstCall DEF FieldInv, PendingInv
<1> HIDE DEF d
<1>6. Parts(c \o d, c, d)
  BY <1>2, <1>3, ConcatParts
<1>7. ASSUME NEW j \in DOMAIN calls', NEW r \in calls'[j].append PROVE Fresh(r)
  BY <1>4, <1>5, <1>6 DEF Parts, d
<1>8. PendingInv'
  BY <1>7, FieldsStay DEF PendingInv
<1>9. MaskInv'
  BY <1>1, FieldsStay DEF FieldInv, MaskInv
<1>10. MarkInv'
  BY <1>1, FieldsStay DEF FieldInv, MarkInv, Earlier, Current
<1> QED BY <1>8, <1>9, <1>10 DEF FieldInv

\* A call is replaced by the snippet of its region or by the calls around one.
LEMMA SegmentFields ==
    ASSUME AllInv, SegmentDocument
    PROVE  FieldInv'
<1> DEFINE start == calls[1].start
           end   == calls[1].end
<1>1. /\ phase = "segment" /\ calls # <<>>
      /\ UNCHANGED <<max_snippet, phase, positions, p, cluster, begun>>
  BY DEF SegmentDocument
<1>2. SnippetsInv /\ CoverInv
  BY DEF AllInv
<1>3. \/ /\ calls' = Tail(calls)
         /\ \E s \in WholeRegion(start, end) : bh' = Append(bh, s)
      \/ bh' = bh /\ \E c \in Split(start, end) : calls' = c \o Tail(calls)
  BY DEF SegmentDocument
<1>4. ASSUME calls' = Tail(calls),
             NEW s \in WholeRegion(start, end), bh' = Append(bh, s)
      PROVE  FieldInv'
  <2>1. start \in Nat /\ end \in Nat /\ TypeOK
    BY <1>1, <1>2, FirstCall DEF SnippetsInv
  <2>2. s.start = start
    BY <2>1, WholeRegionFacts
  <2>3. Fresh(s)
    BY <1>1, <1>2, WholeIsFresh
  <2> QED BY <1>1, <1>4, <2>2, <2>3, AppendFields
<1>5. ASSUME bh' = bh, NEW c \in Split(start, end), calls' = c \o Tail(calls)
      PROVE  FieldInv'
  BY <1>1, <1>5, SplitFields
<1> QED BY <1>3, <1>4, <1>5

\* The best snippet of a call, appended after what is before it.
LEMMA AppendBestFields ==
    ASSUME AllInv, AppendBest
    PROVE  FieldInv'
<1>1. /\ phase = "segment" /\ calls # <<>> /\ calls' = Tail(calls)
      /\ UNCHANGED <<max_snippet, phase, positions, p, cluster, begun>>
  BY DEF AppendBest
<1>2. PICK s \in calls[1].append : bh' = Append(bh, s)
  BY DEF AppendBest
<1>3. 1 \in DOMAIN calls
  BY <1>1, FirstCall DEF AllInv, SnippetsInv
<1>4. s.start = calls[1].start
  BY <1>3 DEF AllInv, SnippetsInv, QueueInv, Chain, RegionOK
<1>5. Fresh(s)
  BY <1>3 DEF AllInv, FieldInv, PendingInv
<1> QED BY <1>1, <1>2, <1>4, <1>5, AppendFields

\* The last occurrence until a place of the document.
LEMMA LastUntilFacts ==
    ASSUME TypeOK, NEW x \in Nat,
           NEW f \in DOMAIN positions, positions[f].position <= x
    PROVE  /\ LastUntil(x) \in DOMAIN positions /\ f <= LastUntil(x)
           /\ positions[LastUntil(x)].position <= x
<1> DEFINE S == {k \in DOMAIN positions : positions[k].position <= x}
<1>1. DOMAIN positions = 1..Len(positions) /\ Len(positions) \in Nat
  BY DEF TypeOK
<1>2. f \in S /\ S \in SUBSET Nat /\ \A k \in S : k <= Len(positions)
  BY <1>1
<1>3. PICK m \in S : \A k \in S : k <= m
  <2> HIDE DEF S
  <2> QED BY <1>1, <1>2, MaximumExists
<1>4. \A k \in S : m >= k
  BY <1>1, <1>3
<1>5. LastUntil(x) \in S /\ \A k \in S : LastUntil(x) >= k
  <2>1. LastUntil(x) = CHOOSE y \in S : \A k \in S : y >= k
    BY DEF LastUntil, Max
  <2> HIDE DEF S
  <2> QED BY <1>4, <2>1
<1> QED BY <1>1, <1>2, <1>5

\* The last snippet ends at the last occurrence of the cluster, every other
\* one before it.
LEMMA FinishFields ==
    ASSUME AllInv, FinishCluster
    PROVE  FieldInv'
<1>1. /\ phase = "segment" /\ phase' = "cluster" /\ calls = <<>>
      /\ max_snippet' = max_snippet /\ positions' = positions
      /\ calls' = calls
      /\ bh' = IF Len(bh) > begun
               THEN [bh EXCEPT ![Len(bh)].next_in_cluster = FALSE] ELSE bh
  BY DEF FinishCluster
<1>2. TypeOK /\ CallsInv /\ PastInv /\ SnippetsInOrder /\ SnippetsInv
  BY DEF AllInv, SnippetsInv, QueueInv
<1>3. CoverInv /\ FieldInv
  BY DEF AllInv
<1>4. PICK f \in 1..(p - 1) : ClusterFrom(f)
  BY <1>1, <1>3 DEF CoverInv, ClusterInv
<1> DEFINE n == Len(bh)
           x == positions[p - 1].position
<1>5. /\ DOMAIN positions = 1..Len(positions) /\ Len(positions) \in Nat
      /\ p \in Nat /\ p > 1 /\ p - 1 \in DOMAIN positions /\ f \in DOMAIN positions
      /\ f <= p - 1 /\ p - 1 \in cluster /\ cluster = f..(p - 1)
  BY <1>2, <1>4 DEF TypeOK, ClusterFrom
<1>6. x \in Nat
  BY <1>2, <1>5, PlacesAreNat
<1>7. DOMAIN bh = 1..n /\ n \in Nat /\ begun \in 0..n
  BY <1>2 DEF TypeOK
<1>8. ASSUME NEW i \in DOMAIN bh
      PROVE  /\ bh[i] \in SnippetType /\ bh[i].start \in Nat /\ bh[i].end \in Nat
             /\ bh[i].start <= bh[i].end /\ bh[i].end <= x
  <2>1. bh[i] \in SnippetType
    BY <1>2 DEF TypeOK
  <2> QED BY <1>2, <2>1 DEF SnippetType, SnippetsInOrder, PastInv
<1>9. ASSUME NEW i \in DOMAIN bh
      PROVE  IF i <= begun THEN Earlier(bh[i]) ELSE Current(bh[i])
  BY <1>1, <1>3 DEF FieldInv, MarkInv
<1>10. n \in DOMAIN bh /\ n > begun /\ bh[n].end = x
  <2>1. ~Has(calls, x)
    BY <1>1 DEF Has
  <2>2. Has(bh, x)
    <3>1. p - 1 \in 1..(p - 1)
      BY <1>5
    <3> QED BY <1>3, <2>1, <3>1 DEF CoverInv, PlacesInv
  <2>3. PICK i \in DOMAIN bh : bh[i].start <= x /\ x <= bh[i].end
    BY <2>2 DEF Has
  <2>4. bh[i].end = x
    BY <1>6, <1>8, <2>3
  <2>5. n \in DOMAIN bh /\ i \in Nat /\ i <= n
    BY <1>7
  <2>6. ~(i < n)
    <3>1. ASSUME i < n PROVE FALSE
      <4>1. bh[i].end < bh[n].start
        BY <1>2, <2>5, <3>1 DEF SnippetsInOrder
      <4> HIDE DEF x, n
      <4> QED BY <1>6, <1>8, <2>4, <2>5, <4>1
    <3> QED BY <3>1
  <2>7. i = n
    BY <1>7, <2>5, <2>6
  <2>8. ~(i <= begun)
    <3>1. ASSUME i <= begun PROVE FALSE
      <4>1. bh[i].end < x
        BY <1>5, <1>9, <3>1 DEF Earlier
      <4> HIDE DEF x
      <4> QED BY <1>6, <2>4, <4>1
    <3> QED BY <3>1
  <2> QED BY <1>7, <2>4, <2>5, <2>7, <2>8
<1> HIDE DEF n, x
<1>11. ASSUME NEW i \in DOMAIN bh, i > begun
       PROVE  /\ LastUntil(bh[i].end) \in cluster
              /\ positions[LastUntil(bh[i].end)].position <= bh[i].end
              /\ bh[i].next_in_cluster = TRUE
  <2> DEFINE m == LastUntil(bh[i].end)
  <2>1. ~(i <= begun)
    BY <1>7, <1>11
  <2>2. Current(bh[i])
    BY <1>9, <2>1
  <2>3. PICK k \in cluster : positions[k].position <= bh[i].start
    BY <2>2 DEF Current
  <2>4. k \in DOMAIN positions /\ k \in Nat /\ f <= k
    BY <1>5
  <2>5. positions[k].position \in Nat
    BY <1>2, <2>4, PlacesAreNat
  <2>6. positions[k].position <= bh[i].end
    BY <1>8, <2>3, <2>5
  <2>7. m \in DOMAIN positions /\ k <= m /\ positions[m].position <= bh[i].end
    BY <1>2, <1>8, <2>4, <2>6, LastUntilFacts
  <2> HIDE DEF m
  <2>8. ~(p <= m)
    <3>1. ASSUME p <= m PROVE FALSE
      <4>1. p \in DOMAIN positions /\ p \in 2..Len(positions)
        BY <1>5, <2>7, <3>1
      <4>2. x < positions[p].position
        BY <1>2, <4>1 DEF PastInv, x
      <4>3. /\ positions[p].position \in Nat /\ positions[m].position \in Nat
            /\ positions[p].position <= positions[m].position
        BY <1>2, <2>7, <3>1, <4>1, PositionsAscend
      <4> QED BY <1>6, <1>8, <2>7, <4>2, <4>3
    <3> QED BY <3>1
  <2>9. m \in cluster
    BY <1>5, <2>4, <2>7, <2>8
  <2> QED BY <2>2, <2>7, <2>9 DEF Current, m
<1>12. ASSUME NEW i \in DOMAIN bh, i # n PROVE Marked(bh[i])
  <2>1. CASE i <= begun
    BY <1>9, <2>1 DEF Earlier
  <2>2. CASE i > begun
    <3> DEFINE m == LastUntil(bh[i].end)
    <3>1. m \in cluster /\ positions[m].position <= bh[i].end
      BY <1>11, <2>2
    <3> HIDE DEF m
    <3>2. bh[i].end < x
      <4>1. i < n
        BY <1>7, <1>12
      <4>2. bh[i].end < bh[n].start
        BY <1>2, <1>10, <4>1 DEF SnippetsInOrder
      <4> QED BY <1>6, <1>8, <1>10, <4>2
    <3>3. m # p - 1
      <4>1. ASSUME m = p - 1 PROVE FALSE
        <5>1. x <= bh[i].end
          BY <3>1, <4>1 DEF x
        <5> QED BY <1>6, <1>8, <3>2, <5>1
      <4> QED BY <4>1
    <3>4. NearNext(m)
      BY <1>1, <1>3, <3>1, <3>3 DEF FieldInv, MarkInv
    <3>5. bh[i].next_in_cluster = TRUE
      BY <1>11, <2>2
    <3>6. NearNext(m) = TRUE
      BY <3>4 DEF NearNext
    <3> QED BY <3>5, <3>6 DEF Marked, m
  <2> QED BY <1>7, <2>1, <2>2
<1>13. NearNext(LastUntil(x)) = FALSE
  <2> DEFINE m == LastUntil(x)
  <2>1. m \in DOMAIN positions /\ p - 1 <= m
    BY <1>2, <1>5, <1>6, LastUntilFacts DEF x
  <2>2. m \in cluster
    BY <1>10, <1>11
  <2> HIDE DEF m
  <2>3. m = p - 1
    BY <1>5, <2>1, <2>2
  <2>4. ~NearNext(m)
    BY <1>1, <1>3, <2>3 DEF FieldInv, MarkInv
  <2> QED BY <2>4 DEF NearNext, m
<1> DEFINE last == [bh[n] EXCEPT !.next_in_cluster = FALSE]
<1>14. bh' = [bh EXCEPT ![n] = last]
  <2>1. bh' = [bh EXCEPT ![n].next_in_cluster = FALSE]
    BY <1>1, <1>10 DEF n
  <2> QED BY <2>1, Zenon
<1>15. /\ last.end = x /\ last.start = bh[n].start /\ last.next_in_cluster = FALSE
       /\ last.query_index = bh[n].query_index /\ last.mask = bh[n].mask
  <2> DEFINE s == bh[n]
  <2>1. s \in SnippetType /\ s.end = x
    BY <1>8, <1>10
  <2> HIDE DEF s
  <2>2. LET l == [s EXCEPT !.next_in_cluster = FALSE]
        IN  /\ l.end = x /\ l.start = s.start /\ l.next_in_cluster = FALSE
            /\ l.query_index = s.query_index /\ l.mask = s.mask
    BY <2>1 DEF SnippetType
  <2> QED BY <2>2 DEF s
<1> HIDE DEF last
<1>16. DOMAIN bh' = DOMAIN bh /\ bh'[n] = last
  BY <1>10, <1>14
<1>17. ASSUME NEW i \in DOMAIN bh, i # n PROVE bh'[i] = bh[i]
  BY <1>14, <1>17
<1>18. PendingInv'
  BY <1>1 DEF PendingInv
<1>19. MaskInv'
  <2>1. ASSUME NEW i \in DOMAIN bh' PROVE Exact(bh'[i])
    <3>1. Exact(bh[i])
      BY <1>3, <1>16 DEF FieldInv, MaskInv
    <3>2. CASE i # n
      BY <1>16, <1>17, <3>1, <3>2
    <3>3. CASE i = n
      <4>1. InRange(last) = InRange(bh[n])
        BY <1>10, <1>15 DEF InRange
      <4> QED BY <1>15, <1>16, <3>1, <3>3, <4>1 DEF Exact
    <3> QED BY <3>2, <3>3
  <2> QED BY <1>1, <2>1, FieldsStay DEF MaskInv
<1>20. MarkInv'
  <2>1. Marked(last)
    BY <1>13, <1>15 DEF Marked
  <2>2. ASSUME NEW i \in DOMAIN bh' PROVE Marked(bh'[i])
    BY <1>12, <1>16, <1>17, <2>1
  <2> QED BY <1>1, <2>2, FieldsStay DEF MarkInv
<1> QED BY <1>18, <1>19, <1>20 DEF FieldInv

\* Choosing snippets leaves them as they are.
LEMMA TopFields ==
    ASSUME AllInv, Created \/ TopStep \/ TopEnd
    PROVE  FieldInv'
<1>1. /\ max_snippet' = max_snippet /\ positions' = positions
      /\ bh' = bh /\ calls' = calls
  BY DEF Created, TopStep, TopEnd, createVars
<1>2. phase # "segment" /\ phase' # "segment"
  BY DEF Created, TopStep, TopEnd
<1>3. FieldInv
  BY DEF AllInv
<1>4. \A i \in DOMAIN bh : Exact(bh[i]) /\ Marked(bh[i])
  BY <1>2, <1>3 DEF FieldInv, MaskInv, MarkInv
<1>5. \A j \in DOMAIN calls : \A s \in calls[j].append : Fresh(s)
  BY <1>3 DEF FieldInv, PendingInv
<1> QED BY <1>1, <1>2, <1>4, <1>5, FieldsStay
        DEF FieldInv, PendingInv, MaskInv, MarkInv
-----------------------------------------------------------------------------
(***************************************************************************)
(* The theorems.                                                           *)
(***************************************************************************)
\* Every step keeps the third invariant, given the first two.
LEMMA NextFieldInv == AllInv /\ [Next]_vars => FieldInv'
<1> SUFFICES ASSUME AllInv, [Next]_vars PROVE FieldInv'
  OBVIOUS
<1>1. CASE SortPositions
  BY <1>1, SortFields
<1>2. CASE StartCluster
  BY <1>2, ClusterFields
<1>3. CASE SegmentDocument
  BY <1>3, SegmentFields
<1>4. CASE AppendBest
  BY <1>4, AppendBestFields
<1>5. CASE FinishCluster
  BY <1>5, FinishFields
<1>6. CASE Created \/ TopStep \/ TopEnd
  BY <1>6, TopFields
<1>7. CASE UNCHANGED vars
  <2>1. /\ max_snippet' = max_snippet /\ positions' = positions /\ bh' = bh
        /\ calls' = calls /\ phase' = phase /\ cluster' = cluster /\ p' = p
        /\ begun' = begun
    BY <1>7 DEF vars, createVars
  <2>2. FieldInv
    BY DEF AllInv
  <2> QED BY <2>1, <2>2, FieldsStay
          DEF FieldInv, PendingInv, MaskInv, MarkInv, Earlier, Current
<1> QED BY <1>1, <1>2, <1>3, <1>4, <1>5, <1>6, <1>7 DEF Next

\* The three invariants together.
LEMMA AllInvariant == Spec => []AllInv
<1>1. Init => AllInv
  <2>1. Init => CoverInv
    BY DEF Init, CoverInv, GivenInv, PlacesInv, ClusterInv
  <2>2. Init => FieldInv
    BY DEF Init, FieldInv, PendingInv, MaskInv, MarkInv
  <2> QED BY <2>1, <2>2, InitSnippetsInv DEF AllInv
<1>2. AllInv /\ [Next]_vars => AllInv'
  BY NextSnippetsInv, NextCoverInv, NextFieldInv DEF AllInv
<1> QED BY <1>1, <1>2, PTL DEF Spec

\* Whatever the document, the limit and the scores: the mask of every snippet
\* has exactly the terms of its query between its start and its end.
THEOREM MaskIsAlwaysOfRange == Spec => []MaskIsOfRange
<1>1. AllInv => MaskIsOfRange
  BY DEF AllInv, FieldInv, MaskInv, Exact, InRange, MaskIsOfRange
<1> QED BY <1>1, AllInvariant, PTL

\* Whatever the document, the limit and the scores: next_in_cluster is false
\* just where a gap that is too long for a snippet follows.
THEOREM ClustersAlwaysMarked == Spec => []ClustersMarked
<1>1. AllInv => ClustersMarked
  BY DEF AllInv, FieldInv, MarkInv, Marked, LastUntil, NearNext, ClustersMarked
<1> QED BY <1>1, AllInvariant, PTL

-----------------------------------------------------------------------------
(***************************************************************************)
(* That the walk over two position lists finds their distance.             *)
(*                                                                         *)
(* The walk drops the pairs with the smaller of the two positions it looks *)
(* at.  Those with larger positions in the other list are farther apart,   *)
(* which is why one distance stands for all that are dropped; not so when  *)
(* the two are equal, and then the walk can miss the closest pair.         *)
(***************************************************************************)
States(x, y)   == (1..(Len(x) + 1)) \X (1..(Len(y) + 1))
Left(x, y)     == [s \in States(x, y) |-> (Len(x) + 1 - s[1]) + (Len(y) + 1 - s[2])]
Distance(a, b) == IF a < b THEN b - a ELSE a - b + 1

\* met is what the loop collects from each state of its pointers on.
IsWalk(x, y, met) ==
    \A i \in 1..(Len(x) + 1), j \in 1..(Len(y) + 1) :
        met[<<i, j>>] =
            IF i > Len(x) \/ j > Len(y) THEN {}
            ELSE IF x[i] > y[j] THEN {x[i] - y[j] + 1} \cup met[<<i, j + 1>>]
            ELSE IF x[i] < y[j] THEN {y[j] - x[i]} \cup met[<<i + 1, j>>]
            ELSE met[<<i, j + 1>>]

\* Each step of a pointer leaves less.
LEMMA LeftDescends ==
    ASSUME NEW x \in Seq(Nat), NEW y \in Seq(Nat)
    PROVE  /\ Left(x, y) \in [States(x, y) -> Nat]
           /\ \A i \in 1..Len(x), j \in 1..Len(y) :
                 /\ <<i, j>> \in States(x, y) /\ <<i + 1, j>> \in States(x, y)
                 /\ <<i, j + 1>> \in States(x, y)
                 /\ Left(x, y)[<<i + 1, j>>] < Left(x, y)[<<i, j>>]
                 /\ Left(x, y)[<<i, j + 1>>] < Left(x, y)[<<i, j>>]
<1> DEFINE n    == Len(x)
           m    == Len(y)
           D    == States(x, y)
           mu   == Left(x, y)
<1>1. n \in Nat /\ m \in Nat
  OBVIOUS
<1> HIDE DEF n, m
<1>2. ASSUME NEW i \in 1..(n + 1), NEW j \in 1..(m + 1)
      PROVE  <<i, j>> \in D /\ mu[<<i, j>>] = (n + 1 - i) + (m + 1 - j)
  BY DEF States, Left, n, m
<1>3. ASSUME NEW s \in D PROVE mu[s] \in Nat
  <2>1. s[1] \in 1..(n + 1) /\ s[2] \in 1..(m + 1) /\ s = <<s[1], s[2]>>
    BY DEF States, n, m
  <2>2. mu[s] = (n + 1 - s[1]) + (m + 1 - s[2])
    <3>1. mu[<<s[1], s[2]>>] = (n + 1 - s[1]) + (m + 1 - s[2])
      BY <1>2, <2>1
    <3> QED BY <2>1, <3>1
  <2>3. n + 1 - s[1] \in Nat /\ m + 1 - s[2] \in Nat
    BY <1>1, <2>1
  <2> QED BY <2>2, <2>3
<1>4. mu = [s \in D |-> mu[s]]
  BY DEF Left
<1>5. ASSUME NEW i \in 1..n, NEW j \in 1..m
      PROVE  /\ <<i, j>> \in D /\ <<i + 1, j>> \in D /\ <<i, j + 1>> \in D
             /\ mu[<<i + 1, j>>] < mu[<<i, j>>] /\ mu[<<i, j + 1>>] < mu[<<i, j>>]
  <2>1. i \in 1..(n + 1) /\ i + 1 \in 1..(n + 1) /\ j \in 1..(m + 1)
        /\ j + 1 \in 1..(m + 1)
    BY <1>1
  <2>2. /\ mu[<<i, j>>] = (n + 1 - i) + (m + 1 - j)
        /\ mu[<<i + 1, j>>] = (n + 1 - (i + 1)) + (m + 1 - j)
        /\ mu[<<i, j + 1>>] = (n + 1 - i) + (m + 1 - (j + 1))
        /\ <<i, j>> \in D /\ <<i + 1, j>> \in D /\ <<i, j + 1>> \in D
    BY <1>2, <2>1
  <2> HIDE DEF mu, D
  <2>3. i \in Nat /\ j \in Nat
    OBVIOUS
  <2>4. /\ (n + 1 - (i + 1)) + (m + 1 - j) < (n + 1 - i) + (m + 1 - j)
        /\ (n + 1 - i) + (m + 1 - (j + 1)) < (n + 1 - i) + (m + 1 - j)
    BY <1>1, <2>3
  <2> QED BY <2>2, <2>4
<1> HIDE DEF mu, D
<1>6. mu \in [D -> Nat]
  BY <1>3, <1>4
<1> QED BY <1>5, <1>6 DEF mu, D, n, m

\* So the loop has a result.
LEMMA WalkExists ==
    ASSUME NEW x \in Seq(Nat), NEW y \in Seq(Nat)
    PROVE  \E met : IsWalk(x, y, met) /\ DistancesMet(x, y) = met[<<1, 1>>]
<1> DEFINE D    == States(x, y)
           V    == SUBSET Int
           n    == Len(x)
           m    == Len(y)
           mu   == Left(x, y)
           over(s) == s[1] > n \/ s[2] > m
           step == [s \in D |-> IF over(s) THEN s
                                ELSE IF x[s[1]] < y[s[2]] THEN <<s[1] + 1, s[2]>>
                                ELSE <<s[1], s[2] + 1>>]
           stop == {s \in D : over(s)}
           base == [s \in D |-> {}]
           new(s) == IF over(s) \/ x[s[1]] = y[s[2]] THEN {}
                     ELSE {Distance(x[s[1]], y[s[2]])}
           g    == [z \in D \X V |-> new(z[1]) \cup z[2]]
           rec(f, i, j) ==
             IF i > Len(x) \/ j > Len(y) THEN {}
             ELSE IF x[i] > y[j] THEN {x[i] - y[j] + 1} \cup f[<<i, j + 1>>]
             ELSE IF x[i] < y[j] THEN {y[j] - x[i]} \cup f[<<i + 1, j>>]
             ELSE f[<<i, j + 1>>]
           body(f) == [s \in D |-> rec(f, s[1], s[2])]
           F    == CHOOSE f : f = body(f)
<1>1. n \in Nat /\ m \in Nat
  OBVIOUS
<1>2. ASSUME NEW s \in D, ~over(s)
      PROVE  /\ s[1] \in 1..n /\ s[2] \in 1..m /\ s = <<s[1], s[2]>>
             /\ x[s[1]] \in Nat /\ y[s[2]] \in Nat
             /\ <<s[1] + 1, s[2]>> \in D /\ <<s[1], s[2] + 1>> \in D
             /\ mu[<<s[1] + 1, s[2]>>] < mu[s] /\ mu[<<s[1], s[2] + 1>>] < mu[s]
  <2>1. s[1] \in 1..(n + 1) /\ s[2] \in 1..(m + 1) /\ s = <<s[1], s[2]>>
    BY DEF States
  <2>2. s[1] \in 1..n /\ s[2] \in 1..m
    BY <1>1, <1>2, <2>1
  <2>3. x[s[1]] \in Nat /\ y[s[2]] \in Nat
    BY <2>2
  <2> HIDE DEF D, mu
  <2>4. /\ <<s[1] + 1, s[2]>> \in D /\ <<s[1], s[2] + 1>> \in D
        /\ mu[<<s[1] + 1, s[2]>>] < mu[<<s[1], s[2]>>]
        /\ mu[<<s[1], s[2] + 1>>] < mu[<<s[1], s[2]>>]
    BY <2>2, LeftDescends DEF D, mu
  <2> QED BY <2>1, <2>2, <2>3, <2>4
<1>3. PICK f \in [D -> V] : \A s \in D :
         f[s] = IF s \in stop THEN base[s] ELSE g[<<s, f[step[s]]>>]
  <2>1. mu \in [D -> Nat]
    BY LeftDescends
  <2>2. step \in [D -> D] /\ stop \in SUBSET D /\ base \in [D -> V]
    <3> HIDE DEF D, mu
    <3> QED BY <1>2
  <2>3. g \in [D \X V -> V]
    <3>1. ASSUME NEW z \in D \X V PROVE new(z[1]) \cup z[2] \in V
      <4>1. z[1] \in D /\ z[2] \in V
        OBVIOUS
      <4>2. new(z[1]) \in V
        <5>1. CASE over(z[1])
          BY <5>1
        <5>2. CASE ~over(z[1])
          <6>1. x[z[1][1]] \in Nat /\ y[z[1][2]] \in Nat
            BY <1>2, <4>1, <5>2
          <6>2. Distance(x[z[1][1]], y[z[1][2]]) \in Int
            BY <6>1 DEF Distance
          <6> QED BY <6>2
        <5> QED BY <5>1, <5>2
      <4> QED BY <4>1, <4>2
    <3> HIDE DEF D, V, new
    <3> QED BY <3>1
  <2>4. ASSUME NEW s \in D \ stop PROVE mu[step[s]] < mu[s]
    <3> HIDE DEF D, mu
    <3>1. s \in D /\ ~over(s)
      OBVIOUS
    <3>2. step[s] = <<s[1] + 1, s[2]>> \/ step[s] = <<s[1], s[2] + 1>>
      BY <3>1
    <3> QED BY <1>2, <3>1, <3>2
  <2>5. Descends(D, V, mu, step, stop, base, g)
    <3> HIDE DEF D, V, mu, step, stop, base, g
    <3> QED BY <2>1, <2>2, <2>3, <2>4 DEF Descends
  <2> HIDE DEF D, V, mu, step, stop, base, g
  <2> QED BY <2>5, DescendingFunction
<1>4. ASSUME NEW s \in D PROVE f[s] = rec(f, s[1], s[2])
  <2>1. CASE over(s)
    BY <1>3, <2>1
  <2>2. CASE ~over(s)
    <3> HIDE DEF mu
    <3>1. step[s] \in D
      <4> HIDE DEF D
      <4> QED BY <1>2, <2>2
    <3>2. f[s] = new(s) \cup f[step[s]]
      <4> HIDE DEF D, step, new
      <4>1. f[step[s]] \in V
        BY <3>1
      <4> QED BY <1>3, <2>2, <3>1, <4>1
    <3>3. x[s[1]] \in Nat /\ y[s[2]] \in Nat
      BY <1>2, <2>2
    <3>4. step[s] = IF x[s[1]] < y[s[2]] THEN <<s[1] + 1, s[2]>> ELSE <<s[1], s[2] + 1>>
      BY <2>2
    <3>5. new(s) = IF x[s[1]] = y[s[2]] THEN {} ELSE {Distance(x[s[1]], y[s[2]])}
      BY <2>2
    <3> HIDE DEF step, new, D
    <3> QED BY <2>2, <3>2, <3>3, <3>4, <3>5 DEF Distance
  <2> QED BY <2>1, <2>2
<1>5. f = body(f)
  <2>1. f = [s \in D |-> f[s]]
    OBVIOUS
  <2> HIDE DEF rec, D
  <2> QED BY <1>4, <2>1
<1>6. F = body(F)
  <2> HIDE DEF body
  <2> QED BY <1>5
<1>7. DistancesMet(x, y) = F[<<1, 1>>]
  BY DEF DistancesMet, States
<1> HIDE DEF F
<1>8. IsWalk(x, y, F)
  <2>1. ASSUME NEW i \in 1..(Len(x) + 1), NEW j \in 1..(Len(y) + 1)
        PROVE  F[<<i, j>>] = rec(F, i, j)
    <3>1. <<i, j>> \in D
      BY DEF States
    <3> HIDE DEF rec, D
    <3>2. body(F)[<<i, j>>] = rec(F, i, j)
      BY <3>1
    <3> QED BY <1>6, <3>2
  <2> QED BY <2>1 DEF IsWalk
<1> QED BY <1>7, <1>8

Rising(x) == x \in Seq(Nat) /\ \A i, j \in 1..Len(x) : i < j => x[i] < x[j]

\* What is collected from i and j on are distances of pairs from there on, and
\* for lists with nothing in common there is one for each pair.
Sound(x, y, i, j, ds) ==
    \A d \in ds : \E a \in i..Len(x), b \in j..Len(y) :
                    x[a] # y[b] /\ d = Distance(x[a], y[b])
Complete(x, y, i, j, ds) ==
    \A a \in i..Len(x), b \in j..Len(y) : \E d \in ds : d <= Distance(x[a], y[b])
NoneShared(x, y) == \A i \in 1..Len(x), j \in 1..Len(y) : x[i] # y[j]

\* One step of the loop.
LEMMA WalkStep ==
    ASSUME NEW x, Rising(x), NEW y, Rising(y), NEW met, IsWalk(x, y, met),
           NEW i \in 1..Len(x), NEW j \in 1..Len(y),
           x[i] < y[j] => Sound(x, y, i + 1, j, met[<<i + 1, j>>]),
           ~(x[i] < y[j]) => Sound(x, y, i, j + 1, met[<<i, j + 1>>]),
           NoneShared(x, y) /\ x[i] < y[j] => Complete(x, y, i + 1, j, met[<<i + 1, j>>]),
           NoneShared(x, y) /\ ~(x[i] < y[j]) => Complete(x, y, i, j + 1, met[<<i, j + 1>>])
    PROVE  /\ Sound(x, y, i, j, met[<<i, j>>])
           /\ NoneShared(x, y) => Complete(x, y, i, j, met[<<i, j>>])
<1> DEFINE n   == Len(x)
           m   == Len(y)
           now == met[<<i, j>>]
<1>1. /\ n \in Nat /\ m \in Nat
      /\ \A a \in 1..n : x[a] \in Nat /\ \A b \in 1..m : y[b] \in Nat
  <2>1. x \in Seq(Nat) /\ y \in Seq(Nat)
    BY DEF Rising
  <2> QED BY ONLY <2>1
<1>2. /\ i \in 1..(Len(x) + 1) /\ j \in 1..(Len(y) + 1)
      /\ ~(i > Len(x)) /\ ~(j > Len(y)) /\ i \in Nat /\ j \in Nat
      /\ x[i] \in Nat /\ y[j] \in Nat
  BY <1>1
<1>3. now = IF x[i] > y[j] THEN {x[i] - y[j] + 1} \cup met[<<i, j + 1>>]
            ELSE IF x[i] < y[j] THEN {y[j] - x[i]} \cup met[<<i + 1, j>>]
            ELSE met[<<i, j + 1>>]
  BY <1>2 DEF IsWalk
<1>4. i..n \subseteq 1..n /\ j..m \subseteq 1..m /\ i \in i..n /\ j \in j..m
      /\ (i + 1)..n \subseteq i..n /\ (j + 1)..m \subseteq j..m
  BY <1>1, <1>2
<1>5. (\A a \in i..n : a = i \/ (a \in (i + 1)..n /\ x[i] < x[a]))
      /\ (\A b \in j..m : b = j \/ (b \in (j + 1)..m /\ y[j] < y[b]))
  <2>1. ASSUME NEW a \in i..n, a # i PROVE a \in (i + 1)..n /\ x[i] < x[a]
    <3>1. a \in (i + 1)..n /\ i < a /\ a \in 1..Len(x)
      BY <1>1, <1>2, <1>4, <2>1
    <3> QED BY <3>1 DEF Rising
  <2>2. ASSUME NEW b \in j..m, b # j PROVE b \in (j + 1)..m /\ y[j] < y[b]
    <3>1. b \in (j + 1)..m /\ j < b /\ b \in 1..Len(y)
      BY <1>1, <1>2, <1>4, <2>2
    <3> QED BY <3>1 DEF Rising
  <2> QED BY <2>1, <2>2
<1> HIDE DEF now, n, m
<1>6. Sound(x, y, i, j, now)
  <2>1. ASSUME NEW d \in now
        PROVE  \E a \in i..n, b \in j..m : x[a] # y[b] /\ d = Distance(x[a], y[b])
    <3>1. CASE x[i] # y[j] /\ d = Distance(x[i], y[j])
      BY <1>4, <3>1
    <3>2. CASE x[i] < y[j] /\ d \in met[<<i + 1, j>>]
      <4>1. \E a \in (i + 1)..n, b \in j..m : x[a] # y[b] /\ d = Distance(x[a], y[b])
        BY <3>2 DEF Sound, n, m
      <4> QED BY <1>4, <4>1
    <3>3. CASE ~(x[i] < y[j]) /\ d \in met[<<i, j + 1>>]
      <4>1. \E a \in i..n, b \in (j + 1)..m : x[a] # y[b] /\ d = Distance(x[a], y[b])
        BY <3>3 DEF Sound, n, m
      <4> QED BY <1>4, <4>1
    <3> QED BY <1>2, <1>3, <3>1, <3>2, <3>3 DEF Distance
  <2> QED BY <2>1 DEF Sound, n, m
<1>7. ASSUME NoneShared(x, y) PROVE Complete(x, y, i, j, now)
  <2>1. x[i] # y[j]
    BY <1>7 DEF NoneShared
  <2>2. ASSUME NEW a \in i..n, NEW b \in j..m
        PROVE  \E d \in now : d <= Distance(x[a], y[b])
    <3>1. x[a] \in Nat /\ y[b] \in Nat
      BY <1>1, <1>4
    <3>2. CASE x[i] < y[j]
      <4>1. y[j] - x[i] \in now /\ met[<<i + 1, j>>] \subseteq now
        BY <1>2, <1>3, <3>2
      <4>2. CASE a = i
        <5>1. y[j] - x[i] <= Distance(x[a], y[b])
          BY <1>2, <1>5, <3>1, <3>2, <4>2 DEF Distance
        <5> QED BY <4>1, <5>1
      <4>3. CASE a # i
        <5>1. a \in (i + 1)..n
          BY <1>5, <4>3
        <5>2. \E d \in met[<<i + 1, j>>] : d <= Distance(x[a], y[b])
          BY <1>7, <3>2, <5>1 DEF Complete, n, m
        <5> QED BY <4>1, <5>2
      <4> QED BY <4>2, <4>3
    <3>3. CASE ~(x[i] < y[j])
      <4>1. x[i] - y[j] + 1 \in now /\ met[<<i, j + 1>>] \subseteq now
        BY <1>2, <1>3, <2>1, <3>3
      <4>2. CASE b = j
        <5>1. x[i] <= x[a] /\ y[j] < x[i]
          BY <1>2, <1>5, <2>1, <3>1, <3>3
        <5>2. x[i] - y[j] + 1 <= Distance(x[a], y[b])
          BY <1>2, <3>1, <4>2, <5>1 DEF Distance
        <5> QED BY <4>1, <5>2
      <4>3. CASE b # j
        <5>1. b \in (j + 1)..m
          BY <1>5, <4>3
        <5>2. \E d \in met[<<i, j + 1>>] : d <= Distance(x[a], y[b])
          BY <1>7, <3>3, <5>1 DEF Complete, n, m
        <5> QED BY <4>1, <5>2
      <4> QED BY <4>2, <4>3
    <3> QED BY <3>2, <3>3
  <2> QED BY <2>2 DEF Complete, n, m
<1> QED BY <1>6, <1>7 DEF now

\* All of the loop.
LEMMA WalkFacts ==
    ASSUME NEW x, Rising(x), NEW y, Rising(y), NEW met, IsWalk(x, y, met)
    PROVE  /\ Sound(x, y, 1, 1, met[<<1, 1>>])
           /\ NoneShared(x, y) => Complete(x, y, 1, 1, met[<<1, 1>>])
<1> DEFINE D    == States(x, y)
           mu   == Left(x, y)
           ok(i, j) == /\ Sound(x, y, i, j, met[<<i, j>>])
                       /\ NoneShared(x, y) => Complete(x, y, i, j, met[<<i, j>>])
           Good == {s \in D : ok(s[1], s[2])}
<1>1. x \in Seq(Nat) /\ y \in Seq(Nat) /\ Len(x) \in Nat /\ Len(y) \in Nat
  BY DEF Rising
<1>2. mu \in [D -> Nat] /\ Good \in SUBSET D
  BY <1>1, LeftDescends
<1>3. ASSUME NEW i \in 1..(Len(x) + 1), NEW j \in 1..(Len(y) + 1),
             i > Len(x) \/ j > Len(y)
      PROVE  ok(i, j)
  <2>1. met[<<i, j>>] = {}
    BY <1>3 DEF IsWalk
  <2>2. i..Len(x) = {} \/ j..Len(y) = {}
    BY <1>1, <1>3
  <2> QED BY <2>1, <2>2 DEF Sound, Complete
<1>4. ASSUME NEW s \in D, \A u \in D : mu[u] < mu[s] => u \in Good
      PROVE  s \in Good
  <2> DEFINE i == s[1]
             j == s[2]
  <2>1. i \in 1..(Len(x) + 1) /\ j \in 1..(Len(y) + 1) /\ s = <<i, j>>
    BY DEF States
  <2>2. CASE i > Len(x) \/ j > Len(y)
    <3>1. ok(i, j)
      <4> HIDE DEF ok, i, j
      <4> QED BY <1>3, <2>1, <2>2
    <3> QED BY <3>1
  <2>3. CASE ~(i > Len(x) \/ j > Len(y))
    <3> HIDE DEF i, j
    <3>1. i \in 1..Len(x) /\ j \in 1..Len(y)
      BY <1>1, <2>1, <2>3
    <3>2. /\ <<i + 1, j>> \in D /\ <<i, j + 1>> \in D
          /\ mu[<<i + 1, j>>] < mu[s] /\ mu[<<i, j + 1>>] < mu[s]
      BY <1>1, <2>1, <3>1, LeftDescends
    <3>3. <<i + 1, j>> \in Good /\ <<i, j + 1>> \in Good
      <4> HIDE DEF Good, D, mu
      <4> QED BY <1>4, <3>2
    <3>4. ok(i + 1, j) /\ ok(i, j + 1)
      BY <3>3
    <3>5. ok(i, j)
      BY <3>1, <3>4, WalkStep
    <3> QED BY <2>1, <3>5 DEF i, j
  <2> QED BY <2>2, <2>3
<1>5. Inductive(D, mu, Good)
  <2> HIDE DEF D, mu, Good
  <2> QED BY <1>2, <1>4 DEF Inductive
<1>6. Good = D
  <2> HIDE DEF D, mu, Good
  <2> QED BY <1>5, DescentInduction
<1>7. <<1, 1>> \in D
  BY <1>1 DEF States
<1>8. <<1, 1>> \in Good
  <2> HIDE DEF D, Good
  <2> QED BY <1>6, <1>7
<1> QED BY <1>8

\* The least of the distances, and what stands for none.
LEMMA ClosestFacts ==
    ASSUME NEW ds \in SUBSET Nat
    PROVE  /\ ds = {} => Closest(ds) = NoProximity
           /\ ds # {} => Closest(ds) \in ds /\ \A d \in ds : Closest(ds) <= d
<1>1. CASE ds = {}
  BY <1>1 DEF Closest
<1>2. CASE ds # {}
  <2>1. \E d \in ds : \A e \in ds : d <= e
    BY <1>2, MinimumExists
  <2>2. Closest(ds) = CHOOSE d \in ds : \A e \in ds : d <= e
    BY <1>2 DEF Closest, Min
  <2> QED BY <1>2, <2>1, <2>2
<1> QED BY <1>1, <1>2

\* The proximity of two lists of positions below NoProximity.
LEMMA ProximityFacts ==
    ASSUME NEW x, Rising(x), NEW y, Rising(y),
           \A i \in 1..Len(x) : x[i] < NoProximity, \A j \in 1..Len(y) : y[j] < NoProximity
    PROVE  /\ Proximity(x, y) >= Closest(PairDistances(x, y))
           /\ NoneShared(x, y) => Proximity(x, y) = Closest(PairDistances(x, y))
<1> DEFINE P == PairDistances(x, y)
           M == DistancesMet(x, y)
<1>1. /\ x \in Seq(Nat) /\ y \in Seq(Nat) /\ Len(x) \in Nat /\ Len(y) \in Nat
      /\ DOMAIN x = 1..Len(x) /\ DOMAIN y = 1..Len(y) /\ NoProximity \in Nat
  BY PairProximityAssumption DEF Rising
<1>2. PICK met : IsWalk(x, y, met) /\ M = met[<<1, 1>>]
  BY <1>1, WalkExists
<1>3. Sound(x, y, 1, 1, M) /\ (NoneShared(x, y) => Complete(x, y, 1, 1, M))
  BY <1>2, WalkFacts
<1>4. \A d : d \in P <=> \E a \in 1..Len(x), b \in 1..Len(y) :
                              x[a] # y[b] /\ d = Distance(x[a], y[b])
  <2>1. ASSUME NEW a \in 1..Len(x), NEW b \in 1..Len(y), x[a] # y[b]
        PROVE  Distance(x[a], y[b]) \in P
    <3>1. <<a, b>> \in {k \in (DOMAIN x) \X (DOMAIN y) : x[k[1]] # y[k[2]]}
      BY <1>1, <2>1
    <3> QED BY <3>1 DEF PairDistances, Distance
  <2>2. ASSUME NEW d \in P
        PROVE  \E a \in 1..Len(x), b \in 1..Len(y) : x[a] # y[b] /\ d = Distance(x[a], y[b])
    <3>1. PICK k \in (DOMAIN x) \X (DOMAIN y) :
              x[k[1]] # y[k[2]] /\ d = Distance(x[k[1]], y[k[2]])
      BY DEF PairDistances, Distance
    <3> QED BY <1>1, <3>1
  <2> QED BY <2>1, <2>2
<1>5. ASSUME NEW a \in 1..Len(x), NEW b \in 1..Len(y)
      PROVE  Distance(x[a], y[b]) \in Nat /\ Distance(x[a], y[b]) <= NoProximity
  <2>1. x[a] \in Nat /\ y[b] \in Nat /\ x[a] < NoProximity /\ y[b] < NoProximity
    BY <1>1
  <2> QED BY <1>1, <2>1 DEF Distance
<1> HIDE DEF P, M
<1>6. M \subseteq P
  BY <1>3, <1>4 DEF Sound
<1>7. P \in SUBSET Nat /\ \A d \in P : d <= NoProximity
  BY <1>4, <1>5
<1>8. M \in SUBSET Nat
  BY <1>6, <1>7
<1>9. Proximity(x, y) = Closest(M)
  BY DEF Proximity, M
<1>10. Closest(M) >= Closest(P)
  <2>1. CASE M = {} /\ P = {}
    BY <1>1, <1>7, <2>1, ClosestFacts
  <2>2. CASE M = {} /\ P # {}
    <3>1. Closest(M) = NoProximity /\ Closest(P) \in P
      BY <1>7, <1>8, <2>2, ClosestFacts
    <3> QED BY <1>1, <1>7, <3>1
  <2>3. CASE M # {}
    <3>1. Closest(M) \in M /\ P # {}
      BY <1>6, <1>8, <2>3, ClosestFacts
    <3>2. Closest(P) \in P /\ \A d \in P : Closest(P) <= d
      BY <1>7, <3>1, ClosestFacts
    <3> QED BY <1>6, <1>7, <3>1, <3>2
  <2> QED BY <2>1, <2>2, <2>3
<1>11. ASSUME NoneShared(x, y) PROVE Closest(M) = Closest(P)
  <2>1. CASE P = {}
    <3>1. M = {}
      BY <1>6, <2>1
    <3> QED BY <2>1, <3>1
  <2>2. CASE P # {}
    <3>1. Closest(P) \in P
      BY <1>7, <2>2, ClosestFacts
    <3>2. PICK a \in 1..Len(x), b \in 1..Len(y) : Closest(P) = Distance(x[a], y[b])
      BY <1>4, <3>1
    <3>3. PICK d \in M : d <= Distance(x[a], y[b])
      BY <1>3, <1>11 DEF Complete
    <3>4. Closest(M) \in M /\ Closest(M) <= d
      BY <1>8, <3>3, ClosestFacts
    <3>5. Closest(M) \in Nat /\ Closest(P) \in Nat /\ d \in Nat
      BY <1>7, <1>8, <3>1, <3>4
    <3> QED BY <1>10, <3>2, <3>3, <3>4, <3>5
  <2> QED BY <2>1, <2>2
<1> QED BY <1>9, <1>10, <1>11 DEF P

\* For the position lists of any two terms of any document, the walk never
\* claims that the terms are closer than they are, and finds the smallest
\* distance when they have no position in common.
THEOREM ProximityIsAlwaysExact == Spec => []ProximityIsExact
<1>1. ASSUME TypeOK, NEW t PROVE /\ Rising(ListOf(t))
                                 /\ \A i \in 1..Len(ListOf(t)) : ListOf(t)[i] < NoProximity
  <2> DEFINE I == {k \in DOMAIN positions : positions[k].term_index = t}
             h == [i \in DOMAIN positions |-> positions[i].position]
             S == {positions[i].position : i \in I}
             A == Ascending(S)
  <2>1. positions \in Seq(Placed) /\ DOMAIN positions = 1..Len(positions)
        /\ Len(positions) \in Nat
    BY <1>1 DEF TypeOK
  <2>2. IsFiniteSet(DOMAIN positions)
    BY <2>1, FS_Interval
  <2>3. S = Mapped(h, I)
    BY DEF Mapped
  <2>4. S \in SUBSET Places
    <3>1. ASSUME NEW i \in I PROVE positions[i].position \in Places
      <4>1. positions[i] \in Placed
        BY <2>1, <3>1
      <4> QED BY <4>1 DEF Placed
    <3> QED BY <3>1
  <2>5. I \in SUBSET DOMAIN positions
    OBVIOUS
  <2> HIDE DEF I, S, h
  <2>6. IsFiniteSet(S)
    BY <2>2, <2>3, <2>5, MappedSets
  <2>7. S \in SUBSET Nat
    BY <2>4, PlacesWithinNat
  <2>8. /\ Cardinality(S) \in Nat /\ A \in [1..Cardinality(S) -> S]
        /\ \A i, j \in 1..Cardinality(S) : i < j => A[i] < A[j]
    BY <2>6, <2>7, AscendingFacts
  <2>9. ListOf(t) = A
    BY DEF ListOf, S, I
  <2> HIDE DEF A
  <2> DEFINE n == Cardinality(S)
  <2>10. A \in Seq(Nat) /\ Len(A) = n
    <3>1. n \in Nat /\ A \in [1..n -> S]
      BY <2>8
    <3> HIDE DEF n
    <3>2. A \in [1..n -> Nat]
      BY <2>7, <3>1
    <3> QED BY <3>1, <3>2
  <2>11. \A i \in 1..Len(A) : A[i] < NoProximity
    <3>1. ASSUME NEW i \in 1..Len(A) PROVE A[i] < NoProximity
      <4>1. A[i] \in Places
        BY <2>4, <2>8, <2>10
      <4>2. A[i] \in 0..(NoProximity - 1)
        BY <4>1, SnippetsAssumption
      <4>3. NoProximity \in Nat
        BY SnippetsAssumption, PairProximityAssumption
      <4> QED BY <4>2, <4>3
    <3> QED BY <3>1
  <2> QED BY <2>8, <2>9, <2>10, <2>11 DEF Rising
<1>2. ASSUME TypeOK, NEW t, NEW u
      PROVE  LET closest == Closest(PairDistances(ListOf(t), ListOf(u)))
             IN  /\ Proximity(ListOf(t), ListOf(u)) >= closest
                 /\ ToSet(ListOf(t)) \cap ToSet(ListOf(u)) = {} =>
                       Proximity(ListOf(t), ListOf(u)) = closest
  <2> DEFINE x == ListOf(t)
             y == ListOf(u)
  <2>1. /\ Rising(x) /\ Rising(y)
        /\ \A i \in 1..Len(x) : x[i] < NoProximity
        /\ \A i \in 1..Len(y) : y[i] < NoProximity
    BY <1>1, <1>2
  <2> HIDE DEF x, y
  <2>2. ASSUME ToSet(x) \cap ToSet(y) = {} PROVE NoneShared(x, y)
    <3>1. DOMAIN x = 1..Len(x) /\ DOMAIN y = 1..Len(y)
      BY <2>1 DEF Rising
    <3> QED BY <2>2, <3>1 DEF ToSet, NoneShared
  <2>3. /\ Proximity(x, y) >= Closest(PairDistances(x, y))
        /\ NoneShared(x, y) => Proximity(x, y) = Closest(PairDistances(x, y))
    BY <2>1, ProximityFacts
  <2> QED BY <2>2, <2>3 DEF x, y
<1>3. SnippetsInv => ProximityIsExact
  BY <1>2 DEF SnippetsInv, ProximityIsExact
<1> QED BY <1>3, SnippetsInvariant, PTL
=============================================================================
