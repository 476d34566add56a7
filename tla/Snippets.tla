------------------------------ MODULE Snippets ------------------------------
(***************************************************************************)
(* snippets.c: which parts of a document to show for some queries.         *)
(*                                                                         *)
(* snippet_position_sort puts the occurrences of the queries' terms in     *)
(* order; snippets_create splits them into clusters and segments the       *)
(* region of each cluster into snippets, recursively; snippets_top keeps   *)
(* the best ones, no term twice.  One action is one call of a function, or *)
(* one iteration of the loop of snippets_create.                           *)
(*                                                                         *)
(* The scores are logarithms and quotients of the client's weights: where  *)
(* they decide between alternatives, any may win.  Weights are positive,   *)
(* so a snippet has a score above zero just when its mask is not empty.    *)
(***************************************************************************)
EXTENDS PairProximity

CONSTANTS
    Places,            \* token positions
    TermIndexes,
    QueryMasks,        \* the sets of queries a term may belong to, by term
    MaxSnippets,       \* values of the argument max_snippet
    SummarySnippet,    \* SUMMARY_SNIPPET, 250 in the code
    MaxOccurrences     \* bound

ASSUME SnippetsAssumption ==
    /\ Places \subseteq 0..(NoProximity - 1) /\ TermIndexes \subseteq 0..63
    /\ QueryMasks \in [TermIndexes -> SUBSET ((SUBSET (0..31)) \ {{}})]
    /\ MaxSnippets \subseteq Nat \ {0}
    /\ SummarySnippet \in Nat \ {0} /\ MaxOccurrences \in Nat

Occurrence == UNION {[position : Places, term_index : {t},
                      query_mask : QueryMasks[t]] : t \in TermIndexes}

VARIABLES
    given,        \* the occurrences the client collected
    max_snippet,
    phase,        \* "given", "cluster", "segment", "top", "done"
    positions,    \* the occurrences in order
    p,            \* the next occurrence for a cluster
    cluster,      \* the occurrences of the current cluster, as indices
    begun,        \* the length of bh when the cluster was begun
    calls,        \* pending calls of segment_document and appends, a stack
    bh,           \* the snippets
    mask,         \* their masks as snippets_top leaves them
    rest,         \* the snippets _snippets_top has still to look at
    chosen        \* those it keeps

createVars == <<positions, p, cluster, begun, calls, bh>>
topVars    == <<mask, rest, chosen>>
vars       == <<given, max_snippet, phase, createVars, topVars>>

Init ==
    /\ \E n \in 0..MaxOccurrences : given \in kSubset(n, Occurrence)
    /\ max_snippet \in MaxSnippets
    /\ phase = "given" /\ positions = <<>> /\ p = 1 /\ cluster = {}
    /\ begun = 0 /\ calls = <<>> /\ bh = <<>>
    /\ mask = <<>> /\ rest = {} /\ chosen = {}

\* adjusted_max_snippet, rounded as round() does.
AdjustedMaxSnippet(start) ==
    IF start >= SummarySnippet THEN max_snippet
    ELSE (2 * max_snippet * (2 * SummarySnippet - start) + SummarySnippet)
            \div (2 * SummarySnippet)

Fits(start, end) == end - start + 1 <= AdjustedMaxSnippet(start)

(***************************************************************************)
(* snippet_position_sort.                                                  *)
(***************************************************************************)
Before(a, b) == \/ a.position < b.position
                \/ a.position = b.position /\ a.term_index < b.term_index

\* Occurrences of one term at one position become one, for all their queries.
MergeEqual_ByPosition(os) ==
    {[o EXCEPT !.query_mask =
         UNION {q.query_mask : q \in {r \in os : r.position = o.position}}] :
       o \in {r \in os : \A q \in os : q.position = r.position
                                          => r.term_index <= q.term_index}}
MergeEqual_NoMerge(os) == os
MergeEqual(os) ==
    {[o EXCEPT !.query_mask =
         UNION {q.query_mask : q \in {r \in os :
                   r.position = o.position /\ r.term_index = o.term_index}}] :
       o \in os}

Sorted(os) ==
    {s \in UNION {[1..n -> os] : n \in 0..MaxOccurrences} :
        /\ \A o \in os : \E i \in DOMAIN s : s[i] = o
        /\ \A i, j \in DOMAIN s :
              i < j => s[i] # s[j] /\ ~Before(s[j], s[i])}

SortPositions ==
    /\ phase = "given"
    /\ positions' \in Sorted(MergeEqual(given))
    /\ phase' = "cluster"
    /\ UNCHANGED <<given, max_snippet, p, cluster, begun, calls, bh, topVars>>

(***************************************************************************)
(* snippets_create.                                                        *)
(***************************************************************************)
\* The loop that extends a cluster from occurrence i while the next one is
\* close enough; its last occurrence.
NearNext_LimitOfNext(i) ==
    /\ i < Len(positions)
    /\ positions[i + 1].position - positions[i].position
          < AdjustedMaxSnippet(positions[i + 1].position)
NearNext(i) ==
    /\ i < Len(positions)
    /\ positions[i + 1].position - positions[i].position
          < AdjustedMaxSnippet(positions[i].position)
IsCluster(i, last) ==
    ~NearNext(last) /\ \A k \in i..(last - 1) : NearNext(k)

Call(start, end) == [start |-> start, end |-> end, append |-> {}]

StartCluster ==
    /\ phase = "cluster" /\ p <= Len(positions)
    /\ \E last \in p..Len(positions) :
          /\ IsCluster(p, last)
          /\ cluster' = p..last
          /\ p' = last + 1
          /\ calls' = <<Call(positions[p].position, positions[last].position)>>
    /\ begun' = Len(bh)
    /\ phase' = "segment"
    /\ UNCHANGED <<given, max_snippet, positions, bh, topVars>>

\* The occurrences i..k and those of them that belong to query q.
OfQuery(is, q) == {i \in is : q \in positions[i].query_mask}
MaskOf(is)     == {positions[i].term_index : i \in is}
\* The first and the second occurrence of each term count.
CountTwice(is) ==
    Cardinality(MaskOf(is))
        + Cardinality({t \in MaskOf(is) : \E i, j \in is :
              i # j /\ positions[i].term_index = t /\ positions[j].term_index = t})

Snippet(start, end, q, is, count) ==
    [start |-> start, end |-> end, match_count |-> count,
     distinct_match_count |-> Cardinality(MaskOf(is)), mask |-> MaskOf(is),
     query_index |-> q, next_in_cluster |-> TRUE]

InRegion(start, end) == {i \in cluster : positions[i].position \in start..end}
QueriesIn(is) == UNION {positions[i].query_mask : i \in is}

\* The base case: the region is a snippet of one of the queries in it, or of
\* none when no term occurs in it.
WholeRegion(start, end) ==
    LET is == InRegion(start, end)
    IN  IF is = {} THEN {Snippet(start, end, -1, {}, 0)}
        ELSE {Snippet(start, end, q, OfQuery(is, q),
                      Cardinality(OfQuery(is, q))) : q \in QueriesIn(is)}

\* find_best_snippet_for_range_multi: of the windows from one occurrence of
\* the region to another, for each query, one with the most matches.
Windows(start, end) ==
    LET is == InRegion(start, end)
    IN  {w \in is \X is : w[1] <= w[2] /\ Fits(positions[w[1]].position,
                                              positions[w[2]].position)}
WindowSnippet(w, q) ==
    Snippet(positions[w[1]].position, positions[w[2]].position, q,
            OfQuery(w[1]..w[2], q), CountTwice(OfQuery(w[1]..w[2], q)))
Found(start, end) == UNION {{WindowSnippet(w, q) : q \in QueriesIn(w[1]..w[2])} :
                               w \in Windows(start, end)}
FindBest_Any(start, end) == Found(start, end)
FindBest(start, end) ==
    LET found == Found(start, end)
    IN  {s \in found : \A r \in found : r.match_count <= s.match_count}

\* The calls that segment_document makes around the best snippet s.
Around_BestTwice(start, end, s) ==
    (IF s.start > start THEN <<Call(start, s.start - 1)>> ELSE <<>>)
    \o <<[start |-> s.start, end |-> s.end, append |-> {s}]>>
    \o (IF s.end < end THEN <<Call(s.end, end)>> ELSE <<>>)
Around(start, end, s) ==
    (IF s.start > start THEN <<Call(start, s.start - 1)>> ELSE <<>>)
    \o <<[start |-> s.start, end |-> s.end, append |-> {s}]>>
    \o (IF s.end < end THEN <<Call(s.end + 1, end)>> ELSE <<>>)

\* What a call becomes: nothing when no window is found.
Split_Again(start, end) ==
    IF FindBest(start, end) = {} THEN {<<Call(start, end)>>}
    ELSE {Around(start, end, s) : s \in FindBest(start, end)}
Split(start, end) ==
    IF FindBest(start, end) = {} THEN {<<>>}
    ELSE {Around(start, end, s) : s \in FindBest(start, end)}

SegmentDocument ==
    LET start == calls[1].start
        end   == calls[1].end
    IN  /\ phase = "segment" /\ calls # <<>> /\ calls[1].append = {}
        /\ \/ /\ Fits(start, end)
              /\ \E s \in WholeRegion(start, end) : bh' = Append(bh, s)
              /\ calls' = Tail(calls)
           \/ /\ ~Fits(start, end)
              /\ \E c \in Split(start, end) : calls' = c \o Tail(calls)
              /\ UNCHANGED bh
        /\ UNCHANGED <<given, max_snippet, phase, positions, p, cluster,
                       begun, topVars>>

AppendBest ==
    /\ phase = "segment" /\ calls # <<>> /\ calls[1].append # {}
    /\ \E s \in calls[1].append : bh' = Append(bh, s)
    /\ calls' = Tail(calls)
    /\ UNCHANGED <<given, max_snippet, phase, positions, p, cluster, begun,
                   topVars>>

FinishCluster ==
    /\ phase = "segment" /\ calls = <<>>
    /\ bh' = IF Len(bh) > begun
             THEN [bh EXCEPT ![Len(bh)].next_in_cluster = FALSE] ELSE bh
    /\ phase' = "cluster" /\ cluster' = {} /\ begun' = 0
    /\ UNCHANGED <<given, max_snippet, positions, p, calls, topVars>>

\* The end of snippets_create; a snippet's index is its place in bh.
Created ==
    /\ phase = "cluster" /\ p > Len(positions)
    /\ phase' = "top"
    /\ mask' = [i \in DOMAIN bh |-> bh[i].mask] /\ rest' = DOMAIN bh
    /\ UNCHANGED <<given, max_snippet, createVars, chosen>>

(***************************************************************************)
(* snippets_top: a call of _snippets_top keeps the snippet h that scores   *)
(* best of the rest, and takes its terms from those of the same query.     *)
(* The kept ones are returned in the order of their indices.               *)
(***************************************************************************)
Unmask_AnyQuery(i, h) == mask[i] \ mask[h]
Unmask(i, h) == IF bh[i].query_index = bh[h].query_index
                THEN mask[i] \ mask[h] ELSE mask[i]

TopStep ==
    /\ phase = "top"
    /\ \E h \in rest :
          /\ mask[h] # {}
          /\ chosen' = chosen \cup {h}
          /\ rest' = rest \ {h}
          /\ mask' = [i \in DOMAIN mask |->
                         IF i \in rest' THEN Unmask(i, h) ELSE mask[i]]
    /\ phase' = IF rest' = {} THEN "done" ELSE "top"
    /\ UNCHANGED <<given, max_snippet, createVars>>

TopEnd ==
    /\ phase = "top" /\ \A h \in rest : mask[h] = {}
    /\ phase' = "done"
    /\ UNCHANGED <<given, max_snippet, createVars, topVars>>

Next == \/ SortPositions \/ StartCluster \/ SegmentDocument \/ AppendBest
        \/ FinishCluster \/ Created \/ TopStep \/ TopEnd

Spec == Init /\ [][Next]_vars /\ WF_vars(Next)
-----------------------------------------------------------------------------
(***************************************************************************)
(* Properties.                                                             *)
(***************************************************************************)
Placed == [position : Places, term_index : TermIndexes,
           query_mask : (SUBSET (0..31)) \ {{}}]
SnippetType == [start : Nat, end : Nat, match_count : Nat,
                distinct_match_count : Nat, mask : SUBSET TermIndexes,
                query_index : -1..31, next_in_cluster : BOOLEAN]

\* The sorted occurrences are strictly ordered, as the scans for clusters and
\* windows take for granted.
TypeOK ==
    /\ given \subseteq Occurrence /\ max_snippet \in MaxSnippets
    /\ phase \in {"given", "cluster", "segment", "top", "done"}
    /\ positions \in Seq(Placed)
    /\ p \in 1..(Len(positions) + 1) /\ cluster \subseteq DOMAIN positions
    /\ \A i, j \in DOMAIN positions : i < j => Before(positions[i], positions[j])
    /\ bh \in Seq(SnippetType) /\ begun \in 0..Len(bh)
    /\ rest \subseteq DOMAIN bh /\ chosen \subseteq DOMAIN bh \ rest

\* The snippets ascend and do not overlap, although they are appended by a
\* recursion that starts in the middle, and none is longer than the limit for
\* a snippet that starts where it does.
SnippetsInOrder ==
    /\ \A i, j \in DOMAIN bh : i < j => bh[i].end < bh[j].start
    /\ \A i \in DOMAIN bh : bh[i].start <= bh[i].end
                             /\ Fits(bh[i].start, bh[i].end)

\* The snippets that snippets_create returns have every occurrence the client
\* gave, for each of its queries: merging loses none, and its position is in
\* exactly one snippet.
OccurrencesCovered ==
    phase = "top" =>
        \A o \in given :
            /\ \E k \in DOMAIN positions :
                  /\ positions[k].position = o.position
                  /\ positions[k].term_index = o.term_index
                  /\ o.query_mask \subseteq positions[k].query_mask
            /\ Cardinality({i \in DOMAIN bh :
                               o.position \in bh[i].start..bh[i].end}) = 1

\* A snippet's mask has exactly the terms of its query that occur from its
\* start to its end, although the winning window may begin or end between
\* two occurrences at one position; -1 says that no term occurs there.
MaskIsOfRange ==
    \A i \in DOMAIN bh :
        LET is == {k \in DOMAIN positions :
                      positions[k].position \in bh[i].start..bh[i].end}
        IN  /\ (bh[i].query_index = -1) = (is = {})
            /\ bh[i].mask = MaskOf(OfQuery(is, bh[i].query_index))

\* next_in_cluster is false just where the text leaves out a gap that ends a
\* cluster: after the last snippet, and where the occurrence before the end of
\* a snippet and the next one are too far from each other.
ClustersMarked ==
    phase = "top" =>
        \A i \in DOMAIN bh :
            LET at(k) == positions[k].position
                last  == Max({k \in DOMAIN positions : at(k) <= bh[i].end})
            IN  bh[i].next_in_cluster =
                    (/\ last < Len(positions)
                     /\ at(last + 1) - at(last) < AdjustedMaxSnippet(at(last)))

\* The chosen snippets show all the terms that the snippets of a query have,
\* each in exactly one chosen snippet of that query.
TopCoversOnce ==
    phase = "done" =>
        \A q \in {bh[i].query_index : i \in DOMAIN bh} :
            LET of(is) == {i \in is : bh[i].query_index = q}
            IN  /\ UNION {bh[i].mask : i \in of(DOMAIN bh)}
                      = UNION {mask[i] : i \in of(chosen)}
                /\ \A i, j \in of(chosen) : i # j => mask[i] \cap mask[j] = {}
                /\ \A i \in of(chosen) : mask[i] # {}

\* Segmenting a document and choosing its snippets comes to an end: every
\* region is smaller than the one it is a part of.
SnippetsEnd == <>(phase = "done")

\* For the position lists of two terms of the document, the walk never claims
\* that the terms are closer than they are, and finds the smallest distance
\* when the terms have no position in common.
ListOf(t) == Ascending({positions[i].position :
                 i \in {k \in DOMAIN positions : positions[k].term_index = t}})
ProximityIsExact ==
    phase = "cluster" /\ p = 1 =>
        \A t, u \in TermIndexes :
            LET closest == Closest(PairDistances(ListOf(t), ListOf(u)))
            IN  /\ Proximity(ListOf(t), ListOf(u)) >= closest
                /\ ToSet(ListOf(t)) \cap ToSet(ListOf(u)) = {} =>
                      Proximity(ListOf(t), ListOf(u)) = closest
=============================================================================
