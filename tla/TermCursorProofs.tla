-------------------------- MODULE TermCursorProofs --------------------------
(***************************************************************************)
(* That the term cursor keeps the promise of sil_term.h, PostingCursor,    *)
(* for every index the format holds and every sequence of calls.           *)
(*                                                                         *)
(* The layout that the writer gave a term (PostingFormatProofs!Layout)     *)
(* says where each posting and each group of both levels starts and ends.  *)
(* The invariant (CursorInv) puts an open cursor on a posting in this      *)
(* layout.  How each function of the cursor moves it is proved in          *)
(* PostingFormatProofs, for any term.                                      *)
(*                                                                         *)
(* What an index must be for this is Readable, in TermCursor.              *)
(***************************************************************************)
EXTENDS TermCursor, PostingFormatProofs
-----------------------------------------------------------------------------
(***************************************************************************)
(* The postings a list of records means.                                   *)
(***************************************************************************)
LEMMA ListFacts ==
    ASSUME NEW R, IdsInRange(R)
    PROVE  LET l == StoredList(R)
           IN  /\ Len(l) \in Nat
               /\ \A i \in 1..Len(l) : /\ l[i].id \in IdsOf(R) /\ l[i].id \in Nat
                                       /\ l[i] = StoredPosting(R, l[i].id)
               /\ \A i, j \in 1..Len(l) : i < j => l[i].id < l[j].id
               /\ \A x \in IdsOf(R) : \E i \in 1..Len(l) : l[i].id = x
<1> DEFINE ids == Ascending(IdsOf(R))
           n   == Cardinality(IdsOf(R))
           l   == [i \in 1..n |-> StoredPosting(R, ids[i])]
<1>1. /\ n \in Nat /\ ids \in [1..n -> IdsOf(R)]
      /\ \A i, j \in 1..n : i < j => ids[i] < ids[j]
      /\ \A x \in IdsOf(R) : \E i \in 1..n : ids[i] = x
  BY AscendingFacts DEF IdsInRange
<1>2. Len(ids) = n
  BY <1>1
<1>3. StoredList(R) = l
  BY <1>2 DEF StoredList
<1> HIDE DEF ids, n
<1>4. Len(l) = n
  BY <1>1
<1>5. \A i \in 1..n : l[i] = StoredPosting(R, ids[i]) /\ l[i].id = ids[i]
  BY DEF StoredPosting
<1>6. \A i \in 1..n : ids[i] \in IdsOf(R) /\ ids[i] \in Nat
  BY <1>1 DEF IdsInRange
<1> HIDE DEF l
<1> QED BY <1>1, <1>3, <1>4, <1>5, <1>6

\* The posting of an id in a list.
Where(l, x) == CHOOSE i \in {j \in 1..Len(l) : l[j].id = x} : TRUE

\* Where the ids of a term are in its list, in order.
LEMMA WhereFacts ==
    ASSUME NEW R, IdsInRange(R), NEW l, l = StoredList(R)
    PROVE  /\ Len(l) \in Nat
           /\ \A x \in IdsOf(R) : /\ Where(l, x) \in 1..Len(l)
                                  /\ l[Where(l, x)] = StoredPosting(R, x)
                                  /\ {j \in 1..Len(l) : l[j].id = x} # {}
           /\ \A x, y \in IdsOf(R) : /\ x <= y => Where(l, x) <= Where(l, y)
                                     /\ x < y => Where(l, x) < Where(l, y)
           /\ \A i \in 1..Len(l) : /\ l[i].id \in IdsOf(R) /\ l[i].id \in Nat
                                   /\ Where(l, l[i].id) = i
<1>1. /\ Len(l) \in Nat
      /\ \A i \in 1..Len(l) : /\ l[i].id \in IdsOf(R) /\ l[i].id \in Nat
                              /\ l[i] = StoredPosting(R, l[i].id)
      /\ \A i, j \in 1..Len(l) : i < j => l[i].id < l[j].id
      /\ \A x \in IdsOf(R) : \E i \in 1..Len(l) : l[i].id = x
  BY ListFacts
<1>2. ASSUME NEW x \in IdsOf(R)
      PROVE  /\ {j \in 1..Len(l) : l[j].id = x} # {}
             /\ Where(l, x) \in 1..Len(l) /\ l[Where(l, x)].id = x
  <2> DEFINE W == {j \in 1..Len(l) : l[j].id = x}
  <2>1. W # {} /\ \A j \in W : j \in 1..Len(l) /\ l[j].id = x
    BY <1>1
  <2>2. Where(l, x) \in W
    <3>1. Where(l, x) = CHOOSE i \in W : TRUE
      BY DEF Where
    <3> HIDE DEF W
    <3> QED BY <2>1, <3>1
  <2> QED BY <2>1, <2>2
<1>3. \A i, j \in 1..Len(l) : l[i].id <= l[j].id => i <= j
  <2>1. TAKE i, j \in 1..Len(l)
  <2>2. j < i => l[j].id < l[i].id
    BY <1>1
  <2>3. l[i].id \in Nat /\ l[j].id \in Nat /\ i \in Nat /\ j \in Nat
    BY <1>1
  <2> QED BY <2>2, <2>3
<1>4. \A x \in IdsOf(R) : l[Where(l, x)] = StoredPosting(R, x)
  BY <1>1, <1>2
<1>5. \A x, y \in IdsOf(R) : /\ x <= y => Where(l, x) <= Where(l, y)
                             /\ x < y => Where(l, x) < Where(l, y)
  <2>1. TAKE x, y \in IdsOf(R)
  <2> DEFINE i == Where(l, x)
             j == Where(l, y)
  <2>2. i \in 1..Len(l) /\ j \in 1..Len(l) /\ l[i].id = x /\ l[j].id = y
    BY <1>2
  <2>3. x \in Nat /\ y \in Nat
    BY <1>1, <2>2
  <2> HIDE DEF i, j
  <2>4. x <= y => i <= j
    BY <1>3, <2>2
  <2>5. i = j => x = y
    BY <2>2
  <2>6. i \in Nat /\ j \in Nat
    BY <1>1, <2>2
  <2>7. x < y => x <= y /\ x # y
    BY <2>3
  <2>8. x < y => i < j
    BY <2>4, <2>5, <2>6, <2>7
  <2> QED BY <2>4, <2>8 DEF i, j
<1>6. ASSUME NEW i \in 1..Len(l) PROVE Where(l, l[i].id) = i
  <2> DEFINE x == l[i].id
             j == Where(l, x)
  <2>1. x \in IdsOf(R) /\ x \in Nat
    BY <1>1
  <2>2. j \in 1..Len(l) /\ l[j].id = x
    BY <1>2, <2>1
  <2> HIDE DEF j
  <2>3. j <= i /\ i <= j
    BY <1>3, <2>1, <2>2
  <2> QED BY <1>1, <2>2, <2>3 DEF j
<1> QED BY <1>1, <1>2, <1>4, <1>5, <1>6

-----------------------------------------------------------------------------
(***************************************************************************)
(* The invariant: an open cursor that has not returned false is on a       *)
(* posting of its term, in the layout the writer gave the term.            *)
(***************************************************************************)
ReadsIndex(ix, tail) ==
    /\ lists = [k \in 1..Len(ix) |-> StoredList(ix[k])]
    /\ mem = FileMemory(ix, tail)
    /\ idx = [k \in 1..Len(ix) |-> HeaderAt(ix, k)]

InTerm(ix) ==
    /\ term \in 1..Len(ix) /\ t \in Cursor /\ t.etp # 0
    /\ t.id \in IdsOf(ix[term])
    /\ t.max_term_size = MaxPositions(ix[term])
    /\ Len(t.positions) <= t.max_term_size
    /\ ret # "false" => StandsOn(ix[term], mem, GroupsAt(ix, term), GroupsEnd(ix, term), t)
    /\ ret = "none" => t.fresh

InvFor(ix, tail) == /\ ReadsIndex(ix, tail)
                    /\ term = 0 => t = NoCursor /\ ret = "none"
                    /\ term # 0 => InTerm(ix)

CursorInv == /\ ret \in Words /\ hits \in {0, 1}
             /\ call \in {"none", "open", "advance", "advance_to", "decode"}
             /\ \E ix \in Indexes, tail \in Tails : InvFor(ix, tail)

\* What Readable says of an index and of its terms.
LEMMA ReadableParts ==
    ASSUME Readable(Indexes, Tails), NEW ix \in Indexes, NEW tail \in Tails
    PROVE  /\ ReadableIndex(ix, tail) /\ Len(ix) \in Nat
           /\ \A k \in 1..Len(ix) : /\ IdsInRange(ix[k]) /\ Storable(ix[k])
                                    /\ ix[k] \in SUBSET PostingRecord /\ ReadableTerm(ix[k])
<1>1. ReadableIndex(ix, tail)
  BY DEF Readable, ReadableIndex
<1>2. Len(ix) \in Nat /\ \A k \in 1..Len(ix) : ix[k] \in SUBSET PostingRecord /\ ReadableTerm(ix[k])
  BY <1>1 DEF ReadableIndex
<1>3. \A k \in 1..Len(ix) : Storable(ix[k])
  BY <1>2, ReadableIsStorable
<1> QED BY <1>1, <1>2, <1>3 DEF Storable, Encodable

\* Before the first lookup.
LEMMA CursorInvInit ==
    ASSUME Init
    PROVE  CursorInv
<1>1. PICK ix \in Indexes, tail \in Tails :
         /\ lists = [k \in 1..Len(ix) |-> StoredList(ix[k])]
         /\ mem = TermFile(ix) \o tail
         /\ idx = [k \in 1..Len(ix) |-> HeaderAt(ix, k)]
  BY DEF Init
<1>2. term = 0 /\ t = NoCursor /\ hits = 0 /\ ret = "none" /\ call = "none"
  BY DEF Init
<1>3. InvFor(ix, tail)
  BY <1>1, <1>2 DEF InvFor, ReadsIndex, FileMemory
<1> QED BY <1>2, <1>3 DEF CursorInv, Words

\* A lookup.
LEMMA OpenKeeps ==
    ASSUME Readable(Indexes, Tails), NEW ix \in Indexes, NEW tail \in Tails,
           InvFor(ix, tail), NEW k \in 1..Len(idx), Open(k)
    PROVE  /\ InvFor(ix, tail)' /\ ret' = "none" /\ call' = "open"
           /\ term' = k /\ k \in 1..Len(ix)
           /\ \A z \in IdsOf(ix[k]) : t'.id <= z
           /\ t'.fresh = TRUE /\ t'.positions = <<>>
           /\ \/ OnlyValue(RecordsOf(ix[k], t'.id)) \/ ValueFirst(RecordsOf(ix[k], t'.id))
              \/ t'.value = 0
<1> DEFINE c  == FillTerm(FileMemory(ix, tail), HeaderAt(ix, k))
           R  == ix[k]
           lo == GroupsAt(ix, k)
           hi == GroupsEnd(ix, k)
           m  == FileMemory(ix, tail)
<1>1. ReadableIndex(ix, tail) /\ Len(ix) \in Nat /\ Storable(R)
  <2>1. k \in 1..Len(ix)
    <3>1. Len(ix) \in Nat
      BY ReadableParts
    <3>2. Len(idx) = Len(ix)
      BY <3>1 DEF InvFor, ReadsIndex
    <3> QED BY <3>2
  <2> QED BY <2>1, ReadableParts
<1>2. k \in 1..Len(ix) /\ idx[k] = HeaderAt(ix, k) /\ mem = m
  <2>1. Len(idx) = Len(ix)
    BY <1>1 DEF InvFor, ReadsIndex
  <2>2. k \in 1..Len(ix)
    BY <2>1
  <2> QED BY <2>2 DEF InvFor, ReadsIndex
<1>3. /\ t' = c /\ term' = k /\ ret' = "none" /\ call' = "open"
      /\ lists' = lists /\ mem' = mem /\ idx' = idx
  <2>1. t' = FillTerm(mem, idx[k])
    BY DEF Open
  <2> QED BY <1>2, <2>1 DEF Open
<1>4. /\ StandsOn(R, m, lo, hi, c)
      /\ \A z \in IdsOf(R) : c.id <= z
      /\ c.fresh = TRUE /\ c.positions = <<>>
      /\ c.max_term_size = MaxPositions(R)
      /\ \/ OnlyValue(RecordsOf(R, c.id)) \/ ValueFirst(RecordsOf(R, c.id))
         \/ c.value = 0
  BY <1>1, <1>2, LookupStands
<1>5. c \in Cursor /\ c.id \in IdsOf(R) /\ c.etp # 0
  <2> HIDE DEF c, R, lo, hi, m
  <2> QED BY <1>4, StandsFacts
<1>6. Len(c.positions) <= c.max_term_size
  <2>1. MaxPositions(R) \in Nat
    BY <1>1, PositionsBounded
  <2>2. Len(<<>>) = 0
    OBVIOUS
  <2> HIDE DEF c, R
  <2> QED BY <1>4, <2>1, <2>2
<1> HIDE DEF c
<1>7. InTerm(ix)'
  BY <1>2, <1>3, <1>4, <1>5, <1>6 DEF InTerm
<1>8. ReadsIndex(ix, tail)' /\ k # 0
  BY <1>1, <1>2, <1>3 DEF InvFor, ReadsIndex
<1>9. InvFor(ix, tail)'
  BY <1>3, <1>7, <1>8 DEF InvFor
<1> QED BY <1>2, <1>3, <1>4, <1>9

\* A call that moves the cursor, or finds the end.
LEMMA MovesKeep ==
    ASSUME NEW ix, NEW tail, InvFor(ix, tail), term # 0, NEW A, NEW r,
           A \in SUBSET IdsOf(ix[term]),
           Moves(ix[term], mem, GroupsAt(ix, term), GroupsEnd(ix, term), t, A, r),
           Returns(r)
    PROVE  InvFor(ix, tail)' /\ ret' \in Words
<1>1. InTerm(ix) /\ ReadsIndex(ix, tail)
  BY DEF InvFor
<1>2. /\ t' = r.t /\ ret' = (IF r.ok THEN "true" ELSE "false")
      /\ lists' = lists /\ mem' = mem /\ idx' = idx /\ term' = term
  BY DEF Returns
<1>3. r.t \in Cursor /\ r.t.etp # 0 /\ r.t.max_term_size = MaxPositions(ix[term])
      /\ Len(r.t.positions) <= r.t.max_term_size
  BY <1>1 DEF Moves, Results, Same, InTerm
<1>4. r.t.id \in IdsOf(ix[term])
  BY DEF Moves
<1>5. r.ok => StandsOn(ix[term], mem, GroupsAt(ix, term), GroupsEnd(ix, term), r.t)
  BY DEF Moves
<1>6. ret' \in Words /\ (ret' # "false" => r.ok)
  BY <1>2 DEF Words
<1>7. InTerm(ix)'
  BY <1>1, <1>2, <1>3, <1>4, <1>5, <1>6 DEF InTerm
<1>8. ReadsIndex(ix, tail)'
  BY <1>1, <1>2 DEF ReadsIndex
<1> QED BY <1>2, <1>6, <1>7, <1>8 DEF InvFor

-----------------------------------------------------------------------------
\* What the calls of a client do to an open cursor.
LEMMA LiveCalls ==
    ASSUME Readable(Indexes, Tails), NEW ix \in Indexes, NEW tail \in Tails,
           InvFor(ix, tail), Live
    PROVE  LET R  == ix[term]
               lo == GroupsAt(ix, term)
               hi == GroupsEnd(ix, term)
           IN  /\ InTerm(ix) /\ ReadsIndex(ix, tail) /\ term # 0
               /\ StandsOn(R, mem, lo, hi, t) /\ IdsInRange(R) /\ lists[term] = StoredList(R)
               /\ ~t.fresh => Moves(R, mem, lo, hi, t, IdsBehind(R, t.id), ImageAdvance(mem, t))
               /\ \A id \in Targets : CoversTarget(id) =>
                    Moves(R, mem, lo, hi, t, IdsFrom(R, t.id, id), ImageAdvanceTo(mem, t, id))
<1> DEFINE R  == ix[term]
           lo == GroupsAt(ix, term)
           hi == GroupsEnd(ix, term)
<1>1. InTerm(ix) /\ ReadsIndex(ix, tail) /\ term # 0 /\ ret # "false"
  BY DEF InvFor, Live
<1>2. term \in 1..Len(ix) /\ StandsOn(R, mem, lo, hi, t)
  BY <1>1 DEF InTerm
<1>3. ReadableIndex(ix, tail) /\ IdsInRange(R)
  BY <1>2, ReadableParts
<1>4. Quiet(mem, hi)
  BY <1>1, <1>2, <1>3, TermInFile DEF ReadsIndex
<1>5. lists[term] = StoredList(R)
  BY <1>1, <1>2 DEF ReadsIndex
<1> HIDE DEF R, lo, hi
<1>6. ~t.fresh => Moves(R, mem, lo, hi, t, IdsBehind(R, t.id), ImageAdvance(mem, t))
  BY <1>2, <1>4, AdvanceMoves
<1>7. ASSUME NEW id \in Targets, CoversTarget(id)
      PROVE  Moves(R, mem, lo, hi, t, IdsFrom(R, t.id, id), ImageAdvanceTo(mem, t, id))
  <2>1. id \in Nat /\ id < IdLimit
    <3>1. id \in 0..(IdLimit - 1)
      BY CursorAssumption
    <3>2. IdLimit \in Nat
      BY SMT DEF IdLimit
    <3> QED BY <3>1, <3>2
  <2>2. Covers(R, t.id, id)
    <3>1. CASE HighBase(id) <= HighBase(t.id)
      BY <3>1 DEF Covers
    <3>2. CASE ~(HighBase(id) <= HighBase(t.id))
      <4>1. PICK i \in 1..Len(lists[term]) : HighBase(lists[term][i].id) = HighBase(id)
        BY <1>7, <3>2 DEF CoversTarget
      <4>2. lists[term][i].id \in IdsOf(R)
        <5> DEFINE l == StoredList(R)
        <5>1. i \in 1..Len(l)
          BY <1>5, <4>1
        <5>2. l[i].id \in IdsOf(R)
          BY <1>3, <5>1, ListFacts
        <5> QED BY <1>5, <5>2
      <4>3. MidOf(id) # 0
        BY <1>7, <3>2 DEF CoversTarget
      <4> QED BY <4>1, <4>2, <4>3 DEF Covers
    <3> QED BY <3>1, <3>2
  <2> QED BY <1>2, <1>4, <2>1, <2>2, ToMoves
<1> QED BY <1>1, <1>2, <1>3, <1>5, <1>6, <1>7 DEF R, lo, hi

\* The first advance does not move.
LEMMA FirstAdvanceKeeps ==
    ASSUME Readable(Indexes, Tails), NEW ix \in Indexes, NEW tail \in Tails,
           InvFor(ix, tail), Advance, t.fresh
    PROVE  /\ InvFor(ix, tail)' /\ ret' = "true"
           /\ t' = [t EXCEPT !.fresh = FALSE]
<1>1. Live /\ Returns(ImageAdvance(mem, t))
  BY DEF Advance
<1>2. ImageAdvance(mem, t) = Yes([t EXCEPT !.fresh = FALSE])
  BY DEF ImageAdvance
<1> DEFINE d == [t EXCEPT !.fresh = FALSE]
<1>3. /\ t' = d /\ ret' = "true" /\ lists' = lists /\ mem' = mem
      /\ idx' = idx /\ term' = term
  BY <1>1, <1>2 DEF Returns, Yes
<1>4. InTerm(ix) /\ ReadsIndex(ix, tail) /\ term # 0
      /\ StandsOn(ix[term], mem, GroupsAt(ix, term), GroupsEnd(ix, term), t)
  BY <1>1, LiveCalls
<1>5. StandsOn(ix[term], mem, GroupsAt(ix, term), GroupsEnd(ix, term), d)
  <2>1. FALSE \in BOOLEAN
    OBVIOUS
  <2> HIDE DEF d
  <2>2. \A b \in BOOLEAN : StandsOn(ix[term], mem, GroupsAt(ix, term), GroupsEnd(ix, term),
                                    [t EXCEPT !.fresh = b])
    BY <1>4, StandsFacts
  <2> QED BY <2>1, <2>2 DEF d
<1>6. /\ d \in Cursor /\ d.etp = t.etp /\ d.id = t.id
      /\ d.max_term_size = t.max_term_size /\ d.positions = t.positions
  BY <1>4 DEF InTerm, Cursor
<1> HIDE DEF d
<1>7. InTerm(ix)'
  BY <1>3, <1>4, <1>5, <1>6 DEF InTerm
<1>8. ReadsIndex(ix, tail)'
  BY <1>3, <1>4 DEF ReadsIndex
<1>9. InvFor(ix, tail)'
  BY <1>3, <1>4, <1>7, <1>8 DEF InvFor
<1> QED BY <1>3, <1>9 DEF d

\* The positions that were decoded fit.
LEMMA DecodeKeeps ==
    ASSUME Readable(Indexes, Tails), NEW ix \in Indexes, NEW tail \in Tails,
           InvFor(ix, tail), DecodePositions
    PROVE  /\ InvFor(ix, tail)'
           /\ t'.positions = PositionsOf(RecordsOf(ix[term], t.id))
           /\ t'.fresh = t.fresh /\ t'.value = t.value /\ t'.id = t.id
<1> DEFINE R  == ix[term]
           ps == Decoded(mem, t)
           d  == [t EXCEPT !.positions = ps]
<1>1. /\ Live /\ t' = d /\ ret' = ret /\ lists' = lists /\ mem' = mem
      /\ idx' = idx /\ term' = term
  BY DEF DecodePositions
<1>2. /\ InTerm(ix) /\ ReadsIndex(ix, tail) /\ term # 0
      /\ StandsOn(R, mem, GroupsAt(ix, term), GroupsEnd(ix, term), t)
  BY <1>1, LiveCalls
<1>3. term \in 1..Len(ix) /\ t \in Cursor /\ t.id \in IdsOf(R)
  BY <1>2 DEF InTerm
<1>4. Storable(R)
  BY <1>3, ReadableParts
<1> HIDE DEF R
<1>5. ps = PositionsOf(RecordsOf(R, t.id))
  BY <1>2, StandsFacts
<1>6. Len(ps) <= MaxPositions(R)
  BY <1>3, <1>4, <1>5, PositionsBounded
<1>7. ps \in Seq(Nat)
  <2> DEFINE recs == RecordsOf(R, t.id)
  <2>1. NarrowPosting(recs)
    BY <1>3, <1>4 DEF Storable, Encodable
  <2>2. CASE OnlyValue(recs)
    BY <1>5, <2>2 DEF PositionsOf
  <2>3. CASE ~OnlyValue(recs)
    BY <1>5, <2>1, <2>3 DEF NarrowPosting, Narrow
  <2> QED BY <2>2, <2>3
<1> HIDE DEF ps
<1>8. StandsOn(R, mem, GroupsAt(ix, term), GroupsEnd(ix, term), d)
  <2>1. \A s \in Seq(Nat) : StandsOn(R, mem, GroupsAt(ix, term), GroupsEnd(ix, term),
                                     [t EXCEPT !.positions = s])
    BY <1>2, StandsFacts
  <2> QED BY <1>7, <2>1
<1>9. /\ d \in Cursor /\ d.etp = t.etp /\ d.id = t.id /\ d.fresh = t.fresh
      /\ d.value = t.value /\ d.max_term_size = t.max_term_size /\ d.positions = ps
  BY <1>3, <1>7 DEF Cursor
<1> HIDE DEF d
<1>10. InTerm(ix)'
  BY <1>1, <1>2, <1>6, <1>8, <1>9 DEF InTerm, R
<1>11. ReadsIndex(ix, tail)'
  BY <1>1, <1>2 DEF ReadsIndex
<1> QED BY <1>1, <1>2, <1>5, <1>9, <1>10, <1>11 DEF InvFor, R

-----------------------------------------------------------------------------
\* A call keeps the invariant.
LEMMA CursorInvNext ==
    ASSUME Readable(Indexes, Tails), SkipAnywhere = FALSE, CursorInv, [Next]_vars
    PROVE  CursorInv'
<1>1. PICK ix \in Indexes, tail \in Tails : InvFor(ix, tail)
  BY DEF CursorInv
<1>2. ret \in Words /\ call \in {"none", "open", "advance", "advance_to", "decode"}
  BY DEF CursorInv
<1>0. hits' \in {0, 1}
  BY DEF CursorInv, Next, Open, Advance, AdvanceTo, DecodePositions, vars
<1>3. ASSUME NEW k \in 1..Len(idx), Open(k) PROVE CursorInv'
  <2>1. InvFor(ix, tail)' /\ ret' = "none" /\ call' = "open"
    BY <1>1, <1>3, OpenKeeps
  <2> QED BY <1>0, <2>1 DEF CursorInv, Words
<1>4. CASE Advance
  <2>1. call' = "advance" /\ Live /\ Returns(ImageAdvance(mem, t))
    BY <1>4 DEF Advance
  <2>2. CASE t.fresh
    <3>1. InvFor(ix, tail)' /\ ret' = "true"
      BY <1>1, <1>4, <2>2, FirstAdvanceKeeps
    <3> QED BY <1>0, <2>1, <3>1 DEF CursorInv, Words
  <2>3. CASE ~t.fresh
    <3>1. /\ term # 0
          /\ Moves(ix[term], mem, GroupsAt(ix, term), GroupsEnd(ix, term), t,
                   IdsBehind(ix[term], t.id), ImageAdvance(mem, t))
      BY <1>1, <2>1, <2>3, LiveCalls
    <3>2. IdsBehind(ix[term], t.id) \in SUBSET IdsOf(ix[term])
      BY DEF IdsBehind
    <3>3. InvFor(ix, tail)' /\ ret' \in Words
      BY <1>1, <2>1, <3>1, <3>2, MovesKeep
    <3> QED BY <1>0, <2>1, <3>3 DEF CursorInv
  <2> QED BY <2>2, <2>3
<1>5. ASSUME NEW id \in Targets, SkipAnywhere \/ (Live /\ CoversTarget(id)), AdvanceTo(id)
      PROVE  CursorInv'
  <2>1. Live /\ CoversTarget(id) /\ Returns(ImageAdvanceTo(mem, t, id)) /\ call' = "advance_to"
    BY <1>5 DEF AdvanceTo
  <2>2. /\ term # 0
        /\ Moves(ix[term], mem, GroupsAt(ix, term), GroupsEnd(ix, term), t,
                 IdsFrom(ix[term], t.id, id), ImageAdvanceTo(mem, t, id))
    BY <1>1, <2>1, LiveCalls
  <2>3. IdsFrom(ix[term], t.id, id) \in SUBSET IdsOf(ix[term])
    BY DEF IdsFrom
  <2>4. InvFor(ix, tail)' /\ ret' \in Words
    BY <1>1, <2>1, <2>2, <2>3, MovesKeep
  <2> QED BY <1>0, <2>1, <2>4 DEF CursorInv
<1>6. CASE DecodePositions
  <2>1. InvFor(ix, tail)'
    BY <1>1, <1>6, DecodeKeeps
  <2>2. ret' = ret /\ call' = "decode"
    BY <1>6 DEF DecodePositions
  <2> QED BY <1>2, <1>0, <2>1, <2>2 DEF CursorInv
<1>7. CASE UNCHANGED vars
  <2>1. /\ lists' = lists /\ mem' = mem /\ idx' = idx /\ term' = term /\ t' = t
        /\ ret' = ret /\ call' = call
    BY <1>7 DEF vars
  <2>2. InvFor(ix, tail)'
    BY <1>1, <2>1 DEF InvFor, ReadsIndex, InTerm
  <2> QED BY <1>2, <1>0, <2>1, <2>2 DEF CursorInv
<1> QED BY <1>3, <1>4, <1>5, <1>6, <1>7 DEF Next

\* An open cursor is always on a posting of its term, laid out as written.
THEOREM CursorInvAlways ==
    ASSUME Readable(Indexes, Tails), SkipAnywhere = FALSE
    PROVE  Spec => []CursorInv
<1>1. Init => CursorInv
  BY CursorInvInit
<1>2. CursorInv /\ [Next]_vars => CursorInv'
  BY CursorInvNext
<1> QED BY <1>1, <1>2, PTL DEF Spec

\* The fields of the cursor keep the types of the C struct over every call.
THEOREM CursorTypeOK ==
    ASSUME Readable(Indexes, Tails), SkipAnywhere = FALSE
    PROVE  Spec => []TypeOK
<1>1. CursorInv => TypeOK
  <2> SUFFICES ASSUME CursorInv PROVE TypeOK
    OBVIOUS
  <2>1. PICK ix \in Indexes, tail \in Tails : InvFor(ix, tail)
    BY DEF CursorInv
  <2>2. Len(idx) = Len(ix) /\ Len(ix) \in Nat
    <3>1. Len(ix) \in Nat
      BY ReadableParts
    <3> QED BY <2>1, <3>1 DEF InvFor, ReadsIndex
  <2>3. CASE term = 0
    <3>1. t = NoCursor
      BY <2>1, <2>3 DEF InvFor
    <3>2. NoCursor \in Cursor
      BY DEF NoCursor, Cursor
    <3> QED BY <2>2, <2>3, <3>1, <3>2 DEF TypeOK, CursorInv
  <2>4. CASE term # 0
    <3>1. term \in 1..Len(ix) /\ t \in Cursor /\ t.etp # 0
      BY <2>1, <2>4 DEF InvFor, InTerm
    <3>2. t # NoCursor
      BY <3>1 DEF NoCursor
    <3> QED BY <2>2, <2>4, <3>1, <3>2 DEF TypeOK, CursorInv
  <2> QED BY <2>3, <2>4
<1> QED BY <1>1, CursorInvAlways, PTL

\* advance, advance_to and the lookup keep the three windows of the cursor
\* inside each other and inside the bytes of its own term.
THEOREM WindowsAlwaysNested ==
    ASSUME Readable(Indexes, Tails), SkipAnywhere = FALSE
    PROVE  Spec => []WindowsNested
<1>1. CursorInv => WindowsNested
  <2> SUFFICES ASSUME CursorInv, Live PROVE /\ idx[term] + HeaderSize < t.wp
                                            /\ t.wp <= t.p /\ t.p <= t.ep /\ t.ep <= t.tp
                                            /\ t.tp <= idx[term] + U32At(mem, idx[term] - 4)
    BY DEF WindowsNested
  <2>1. PICK ix \in Indexes, tail \in Tails : InvFor(ix, tail)
    BY DEF CursorInv
  <2> DEFINE lo == GroupsAt(ix, term)
             hi == GroupsEnd(ix, term)
             h  == HeaderAt(ix, term)
  <2>2. InTerm(ix) /\ ReadsIndex(ix, tail) /\ StandsOn(ix[term], mem, lo, hi, t)
    BY <2>1, LiveCalls
  <2>3. term \in 1..Len(ix) /\ ReadableIndex(ix, tail)
    BY <2>2, ReadableParts DEF InTerm
  <2>4. idx[term] = h /\ mem = FileMemory(ix, tail)
    BY <2>2, <2>3 DEF ReadsIndex
  <2>5. h \in Nat /\ U32At(mem, h - 4) = hi - lo + HeaderSize
    BY <2>3, <2>4, TermInFile
  <2>6. lo = h + HeaderSize
    BY DEF GroupsAt
  <2>7. PICK L : LaidTerm(ix[term], mem, lo, hi, L)
    BY <2>2 DEF StandsOn
  <2>8. hi \in Nat /\ lo \in Nat /\ HeaderSize \in Nat
    BY <2>7 DEF LaidTerm, HeaderSize
  <2>9. lo < t.wp /\ t.wp <= t.p /\ t.p <= t.ep /\ t.ep <= t.tp /\ t.tp <= hi
    BY <2>2, StandsFacts
  <2> HIDE DEF lo, hi, h
  <2>10. h + U32At(mem, h - 4) = hi
    BY <2>5, <2>6, <2>8
  <2> QED BY <2>4, <2>6, <2>9, <2>10
<1> QED BY <1>1, CursorInvAlways, PTL

\* Decoding any posting of the term fits the buffer fill_term sized from the
\* header.
THEOREM PositionsAlwaysFit ==
    ASSUME Readable(Indexes, Tails), SkipAnywhere = FALSE
    PROVE  Spec => []PositionsFitBuffer
<1>1. CursorInv => PositionsFitBuffer
  <2> SUFFICES ASSUME CursorInv PROVE Len(t.positions) <= t.max_term_size
    BY DEF PositionsFitBuffer
  <2>1. PICK ix \in Indexes, tail \in Tails : InvFor(ix, tail)
    BY DEF CursorInv
  <2>2. CASE term = 0
    BY <2>1, <2>2 DEF InvFor, NoCursor
  <2>3. CASE term # 0
    BY <2>1, <2>3 DEF InvFor, InTerm
  <2> QED BY <2>2, <2>3
<1> QED BY <1>1, CursorInvAlways, PTL

-----------------------------------------------------------------------------
(***************************************************************************)
(* The refinement.                                                         *)
(***************************************************************************)
\* The posting PostingCursor says a cursor is on.
PostingAt(ls, k, x) ==
    IF k = 0 \/ {i \in 1..Len(ls[k]) : ls[k][i].id = x} = {} THEN 0
    ELSE CHOOSE i \in {i \in 1..Len(ls[k]) : ls[k][i].id = x} : TRUE

\* It is where the id of the cursor is in the list.
LEMMA PostingAtIs ==
    ASSUME NEW R, IdsInRange(R), NEW ls, NEW k, k # 0, ls[k] = StoredList(R), NEW x \in IdsOf(R)
    PROVE  PostingAt(ls, k, x) = Where(ls[k], x)
<1> DEFINE l == ls[k]
<1>1. {i \in 1..Len(l) : l[i].id = x} # {}
  BY WhereFacts
<1> QED BY <1>1 DEF PostingAt, Where

\* What is stored for a posting that has a value, and for one that has none.
LEMMA StoredValue ==
    ASSUME NEW R, Storable(R), NEW x \in IdsOf(R)
    PROVE  LET recs == RecordsOf(R, x)
               p    == StoredPosting(R, x)
           IN  /\ p.id = x /\ p.positions = PositionsOf(recs)
               /\ p.value # NoValue <=> (OnlyValue(recs) \/ ValueFirst(recs))
               /\ p.value # NoValue => p.value = recs[1].value
<1> DEFINE recs == RecordsOf(R, x)
<1>1. recs[1].value \in Nat
  <2>1. RecordsAscend(recs)
    BY DEF Storable, Encodable, NarrowPosting
  <2> HIDE DEF recs
  <2>2. 1 \in 1..Len(recs)
    <3>1. Len(recs) \in Nat /\ Len(recs) # 0
      BY <2>1 DEF RecordsAscend
    <3> QED BY <3>1
  <2> QED BY <2>1, <2>2 DEF RecordsAscend
<1>2. recs[1].value # NoValue
  BY <1>1 DEF NoValue
<1> QED BY <1>2 DEF StoredPosting

\* The first cursor is the one the promise starts with.
LEMMA RefinesInit ==
    ASSUME Readable(Indexes, Tails), Init
    PROVE  Promise!Init
<1>1. PICK ix \in Indexes, tail \in Tails : InvFor(ix, tail)
  BY CursorInvInit DEF CursorInv
<1>2. lists = [k \in 1..Len(ix) |-> StoredList(ix[k])]
  BY <1>1 DEF InvFor, ReadsIndex
<1>3. term = 0 /\ t = NoCursor /\ hits = 0 /\ ret = "none"
  BY DEF Init
<1>4. Len(ix) \in Nat /\ \A k \in 1..Len(ix) : IdsInRange(ix[k])
  BY ReadableParts
<1>5. ASSUME NEW k \in 1..Len(lists) PROVE Promise!IsPostingList(lists[k])
  <2>1. k \in 1..Len(ix)
    BY <1>2, <1>4
  <2> DEFINE R == ix[k]
             l == StoredList(R)
  <2>2. lists[k] = l /\ IdsInRange(R)
    BY <1>2, <1>4, <2>1
  <2> HIDE DEF R
  <2>3. \A i, j \in 1..Len(l) : i < j => l[i].id < l[j].id
    BY <2>2, ListFacts
  <2>4. l # <<>>
    <3>1. PICK x \in IdsOf(R) : TRUE
      BY <2>2 DEF IdsInRange
    <3>2. \E i \in 1..Len(l) : l[i].id = x
      BY <2>2, ListFacts
    <3> QED BY <3>2
  <2> QED BY <2>2, <2>3, <2>4 DEF Promise!IsPostingList
<1>6. t.value = 0 /\ t.positions = <<>>
  BY <1>3 DEF NoCursor
<1> QED BY <1>3, <1>5, <1>6 DEF Promise!Init

-----------------------------------------------------------------------------
\* Behind a posting comes the next one of the list.
LEMMA NextInList ==
    ASSUME NEW R, IdsInRange(R), NEW l, l = StoredList(R), NEW x \in IdsOf(R)
    PROVE  /\ IdsBehind(R, x) = {} => Where(l, x) = Len(l)
           /\ \A y \in IdsBehind(R, x) : (\A z \in IdsBehind(R, x) : y <= z) =>
                 Where(l, y) = Where(l, x) + 1 /\ Where(l, x) < Len(l)
<1> DEFINE i == Where(l, x)
           n == Len(l)
<1>1. /\ n \in Nat /\ i \in 1..n
      /\ \A y \in IdsOf(R) : Where(l, y) \in 1..n
      /\ \A y, z \in IdsOf(R) : /\ y <= z => Where(l, y) <= Where(l, z)
                                /\ y < z => Where(l, y) < Where(l, z)
      /\ \A j \in 1..n : l[j].id \in IdsOf(R) /\ l[j].id \in Nat /\ Where(l, l[j].id) = j
  BY WhereFacts
<1>2. \A y \in IdsOf(R) : y \in Nat
  BY DEF IdsInRange
<1> HIDE DEF n, i
<1>3. ASSUME i # n PROVE /\ i + 1 \in 1..n /\ l[i + 1].id \in IdsBehind(R, x)
                         /\ Where(l, l[i + 1].id) = i + 1
  <2> DEFINE z == l[i + 1].id
  <2>1. i + 1 \in 1..n
    BY <1>1, <1>3
  <2>2. z \in IdsOf(R) /\ z \in Nat /\ Where(l, z) = i + 1
    BY <1>1, <2>1
  <2> HIDE DEF z
  <2>3. ~(z <= x)
    <3>1. z <= x => Where(l, z) <= i
      BY <1>1, <2>2 DEF i
    <3> QED BY <1>1, <2>2, <3>1
  <2>4. x < z
    BY <1>2, <2>2, <2>3
  <2> QED BY <2>1, <2>2, <2>4 DEF IdsBehind, z
<1>4. IdsBehind(R, x) = {} => i = n
  BY <1>3
<1>5. ASSUME NEW y \in IdsBehind(R, x), \A z \in IdsBehind(R, x) : y <= z
      PROVE  Where(l, y) = i + 1 /\ i < n
  <2> DEFINE j == Where(l, y)
  <2>1. y \in IdsOf(R) /\ x < y
    BY DEF IdsBehind
  <2>2. j \in 1..n /\ i < j
    BY <1>1, <2>1 DEF i
  <2>3. i # n
    BY <1>1, <2>2
  <2>4. y <= l[i + 1].id /\ l[i + 1].id \in IdsOf(R) /\ Where(l, l[i + 1].id) = i + 1
    BY <1>3, <1>5, <2>3 DEF IdsBehind
  <2>5. j <= i + 1
    BY <1>1, <2>1, <2>4
  <2> HIDE DEF j
  <2>6. j = i + 1 /\ i < n
    BY <1>1, <2>2, <2>5
  <2> QED BY <2>6 DEF j
<1> QED BY <1>4, <1>5 DEF i, n

\* The postings of a list from x on that are not before id.
Ahead(l, x, id) == {k \in Where(l, x)..Len(l) : l[k].id >= id}

\* The first of them is the first id of the term that is not before id.
LEMMA AheadInList ==
    ASSUME NEW R, IdsInRange(R), NEW l, l = StoredList(R), NEW x \in IdsOf(R), NEW id \in Nat
    PROVE  /\ IdsFrom(R, x, id) = {} => Ahead(l, x, id) = {}
           /\ \A y \in IdsFrom(R, x, id) : (\A z \in IdsFrom(R, x, id) : y <= z) =>
                 /\ Where(l, y) \in Ahead(l, x, id)
                 /\ \A k \in Ahead(l, x, id) : Where(l, y) <= k
<1> DEFINE i == Where(l, x)
           n == Len(l)
           A == Ahead(l, x, id)
           F == IdsFrom(R, x, id)
<1>1. /\ n \in Nat /\ i \in 1..n
      /\ \A y \in IdsOf(R) : Where(l, y) \in 1..n /\ l[Where(l, y)] = StoredPosting(R, y)
      /\ \A y, z \in IdsOf(R) : /\ y <= z => Where(l, y) <= Where(l, z)
                                /\ y < z => Where(l, y) < Where(l, z)
      /\ \A j \in 1..n : l[j].id \in IdsOf(R) /\ l[j].id \in Nat /\ Where(l, l[j].id) = j
  BY WhereFacts
<1>2. \A y \in IdsOf(R) : y \in Nat
  BY DEF IdsInRange
<1> HIDE DEF n, i
<1>3. ASSUME NEW k \in A PROVE k \in 1..n /\ l[k].id \in F /\ Where(l, l[k].id) = k
  <2>1. k \in i..n /\ l[k].id >= id
    BY DEF Ahead, i, n
  <2>2. k \in 1..n
    BY <1>1, <2>1
  <2> DEFINE z == l[k].id
  <2>3. z \in IdsOf(R) /\ z \in Nat /\ Where(l, z) = k
    BY <1>1, <2>2
  <2> HIDE DEF z
  <2>4. x <= z
    <3>1. z < x => Where(l, z) < i
      BY <1>1, <2>3 DEF i
    <3>2. i <= k /\ i \in Nat /\ k \in Nat
      BY <1>1, <2>1
    <3>3. ~(z < x)
      BY <2>3, <3>1, <3>2
    <3> QED BY <1>2, <2>3, <3>3
  <2>5. id <= z
    BY <2>1, <2>3 DEF z
  <2> QED BY <2>2, <2>3, <2>4, <2>5 DEF IdsFrom, z
<1>4. F = {} => A = {}
  BY <1>3
<1>5. ASSUME NEW y \in F, \A z \in F : y <= z
      PROVE  Where(l, y) \in A /\ \A k \in A : Where(l, y) <= k
  <2>1. y \in IdsOf(R) /\ x <= y /\ id <= y
    BY DEF IdsFrom
  <2> DEFINE j == Where(l, y)
  <2>2. j \in 1..n /\ i <= j /\ l[j].id = y
    <3>1. j \in 1..n /\ l[j] = StoredPosting(R, y)
      BY <1>1, <2>1
    <3>2. i <= j
      BY <1>1, <2>1 DEF i
    <3> HIDE DEF j
    <3> QED BY <3>1, <3>2 DEF StoredPosting
  <2>3. j \in A
    <3> HIDE DEF j
    <3>1. j \in i..n /\ l[j].id >= id
      BY <1>1, <1>2, <2>1, <2>2
    <3> QED BY <3>1 DEF Ahead, i, n
  <2>4. ASSUME NEW k \in A PROVE j <= k
    <3> DEFINE z == l[k].id
    <3>1. z \in F /\ z \in IdsOf(R) /\ Where(l, z) = k
      BY <1>3 DEF IdsFrom
    <3> HIDE DEF z
    <3>2. y <= z
      BY <1>5, <3>1
    <3> QED BY <1>1, <2>1, <3>1, <3>2
  <2> QED BY <2>3, <2>4
<1> QED BY <1>4, <1>5

\* A cursor on a posting has its value, when it has one.
LEMMA ValueInList ==
    ASSUME NEW R, Storable(R), NEW m, NEW lo, NEW hi, NEW c, StandsOn(R, m, lo, hi, c)
    PROVE  c.value \in (IF StoredPosting(R, c.id).value = NoValue THEN Nat
                        ELSE {StoredPosting(R, c.id).value})
<1>1. c \in Cursor /\ c.id \in IdsOf(R)
      /\ (OnlyValue(RecordsOf(R, c.id)) \/ ValueFirst(RecordsOf(R, c.id))
             => c.value = RecordsOf(R, c.id)[1].value)
  BY StandsFacts
<1>2. c.value \in Nat
  BY <1>1 DEF Cursor
<1> DEFINE p == StoredPosting(R, c.id)
<1>3. p.value # NoValue => p.value = RecordsOf(R, c.id)[1].value
      /\ (OnlyValue(RecordsOf(R, c.id)) \/ ValueFirst(RecordsOf(R, c.id)))
  BY <1>1, StoredValue
<1> HIDE DEF p
<1> QED BY <1>1, <1>2, <1>3 DEF p

-----------------------------------------------------------------------------
\* A lookup is the lookup of the promise.
LEMMA RefinesOpen ==
    ASSUME Readable(Indexes, Tails), NEW ix \in Indexes, NEW tail \in Tails,
           InvFor(ix, tail), NEW k \in 1..Len(idx), Open(k)
    PROVE  Promise!Next
<1> DEFINE R == ix[k]
           l == lists[k]
           x == t'.id
<1>1. /\ InvFor(ix, tail)' /\ ret' = "none" /\ term' = k /\ k \in 1..Len(ix)
      /\ \A z \in IdsOf(R) : x <= z
      /\ t'.fresh = TRUE /\ t'.positions = <<>>
      /\ \/ OnlyValue(RecordsOf(R, x)) \/ ValueFirst(RecordsOf(R, x)) \/ t'.value = 0
  BY OpenKeeps
<1>2. lists' = lists /\ lists[k] = StoredList(R) /\ Len(lists) = Len(ix)
  <2>1. Len(ix) \in Nat
    BY ReadableParts
  <2> QED BY <1>1, <2>1 DEF Open, InvFor, ReadsIndex
<1>3. IdsInRange(R) /\ Storable(R) /\ k # 0 /\ k \in 1..Len(lists)
  <2>1. Len(ix) \in Nat
    BY ReadableParts
  <2> QED BY <1>1, <1>2, <2>1, ReadableParts
<1>4. /\ x \in IdsOf(R)
      /\ StandsOn(R, mem', GroupsAt(ix, k), GroupsEnd(ix, k), t')
  <2>1. InTerm(ix)'
    BY <1>1, <1>3 DEF InvFor
  <2> QED BY <1>1, <2>1 DEF InTerm
<1> HIDE DEF R, l
<1>5. Where(l, x) = 1 /\ l[1] = StoredPosting(R, x)
  <2> DEFINE i == Where(l, x)
  <2>1. Len(l) \in Nat /\ i \in 1..Len(l) /\ l[i] = StoredPosting(R, x)
    BY <1>2, <1>3, <1>4, WhereFacts DEF l
  <2>2. 1 \in 1..Len(l)
    BY <2>1
  <2>3. l[1].id \in IdsOf(R) /\ Where(l, l[1].id) = 1
    BY <1>2, <1>3, <2>2, WhereFacts DEF l
  <2>4. i <= 1
    <3>1. x <= l[1].id
      BY <1>1, <2>3
    <3> QED BY <1>2, <1>3, <1>4, <2>3, <3>1, WhereFacts DEF l
  <2> HIDE DEF i
  <2>5. i = 1
    BY <2>1, <2>4
  <2> QED BY <2>1, <2>5 DEF i
<1>6. PostingAt(lists', term', t'.id) = 1
  BY <1>1, <1>2, <1>3, <1>4, <1>5, PostingAtIs DEF l
<1>7. t'.value = IF l[1].value = NoValue THEN 0 ELSE l[1].value
  <2> DEFINE p == StoredPosting(R, x)
  <2>1. t'.value \in (IF p.value = NoValue THEN Nat ELSE {p.value})
    BY <1>3, <1>4, ValueInList
  <2>2. p.value = NoValue => t'.value = 0
    BY <1>1, <1>3, <1>4, StoredValue
  <2> HIDE DEF p
  <2>3. t'.value = IF p.value = NoValue THEN 0 ELSE p.value
    BY <2>1, <2>2
  <2> QED BY <1>5, <2>3 DEF p
<1> HIDE DEF x
<1>0. hits' = 0
  BY DEF Open
<1>8. Promise!Open(k)
  BY <1>1, <1>0, <1>2, <1>6, <1>7 DEF Promise!Open, PostingAt, Here, l
<1> QED BY <1>3, <1>8 DEF Promise!Next

\* Where an open cursor is in the list of its term.
LEMMA LiveAt ==
    ASSUME Readable(Indexes, Tails), NEW ix \in Indexes, NEW tail \in Tails,
           InvFor(ix, tail), term # 0
    PROVE  LET R == ix[term]
               l == lists[term]
           IN  /\ IdsInRange(R) /\ Storable(R) /\ l = StoredList(R) /\ t.id \in IdsOf(R)
               /\ PostingAt(lists, term, t.id) = Where(l, t.id)
               /\ Where(l, t.id) \in 1..Len(l) /\ l[Where(l, t.id)] = StoredPosting(R, t.id)
               /\ t \in Cursor
<1> DEFINE R == ix[term]
           l == lists[term]
<1>1. term \in 1..Len(ix) /\ t.id \in IdsOf(R) /\ t \in Cursor
  BY DEF InvFor, InTerm
<1>2. IdsInRange(R) /\ Storable(R)
  BY <1>1, ReadableParts
<1>3. l = StoredList(R)
  BY <1>1 DEF InvFor, ReadsIndex
<1> HIDE DEF R
<1>4. PostingAt(lists, term, t.id) = Where(l, t.id)
  BY <1>1, <1>2, <1>3, PostingAtIs
<1> QED BY <1>1, <1>2, <1>3, <1>4, WhereFacts DEF R

\* The call moved the cursor from x in the list l of R to y.
LandsIn(R, l, x, A, c, d) ==
    /\ d.id \in A /\ \A z \in A : d.id <= z
    /\ d.id \in IdsOf(R) /\ Where(l, d.id) \in 1..Len(l)
    /\ d.value \in (IF Where(l, d.id) = Where(l, x) THEN {c.value}
                    ELSE IF l[Where(l, d.id)].value = NoValue THEN Nat
                    ELSE {l[Where(l, d.id)].value})

\* A call that moves the cursor lands in the list, with the value stored there.
LEMMA MovesInList ==
    ASSUME NEW R, Storable(R), NEW l, l = StoredList(R), NEW m, NEW lo, NEW hi,
           NEW c, c.id \in IdsOf(R), NEW A, A \in SUBSET IdsOf(R), NEW r,
           Moves(R, m, lo, hi, c, A, r), r.ok
    PROVE  LandsIn(R, l, c.id, A, c, r.t)
<1> DEFINE d == r.t
           y == d.id
<1>1. /\ StandsOn(R, m, lo, hi, d) /\ y \in A /\ \A z \in A : y <= z
      /\ y = c.id => d.value = c.value
  BY DEF Moves
<1>2. y \in IdsOf(R) /\ IdsInRange(R)
  BY <1>1 DEF Storable, Encodable
<1> HIDE DEF d
<1>3. /\ Where(l, y) \in 1..Len(l) /\ l[Where(l, y)] = StoredPosting(R, y)
      /\ l[Where(l, c.id)] = StoredPosting(R, c.id)
  BY <1>2, WhereFacts
<1>4. Where(l, y) = Where(l, c.id) => y = c.id
  <2>1. StoredPosting(R, y).id = y /\ StoredPosting(R, c.id).id = c.id
    BY DEF StoredPosting
  <2> QED BY <1>3, <2>1
<1>5. d.value \in (IF l[Where(l, y)].value = NoValue THEN Nat ELSE {l[Where(l, y)].value})
  <2> DEFINE p == StoredPosting(R, d.id)
  <2>1. d.value \in (IF p.value = NoValue THEN Nat ELSE {p.value})
    BY <1>1, ValueInList
  <2>2. l[Where(l, y)] = p
    BY <1>3
  <2> HIDE DEF p, y
  <2> QED BY <2>1, <2>2
<1>6. d.value \in (IF Where(l, y) = Where(l, c.id) THEN {c.value}
                   ELSE IF l[Where(l, y)].value = NoValue THEN Nat
                   ELSE {l[Where(l, y)].value})
  BY <1>1, <1>4, <1>5
<1> QED BY <1>1, <1>2, <1>3, <1>6 DEF LandsIn, d

-----------------------------------------------------------------------------
\* A call that moves the cursor onto the first posting of A: what the promise
\* sees of it.
LEMMA CallInList ==
    ASSUME Readable(Indexes, Tails), NEW ix \in Indexes, NEW tail \in Tails,
           InvFor(ix, tail), term # 0, NEW A, A \in SUBSET IdsOf(ix[term]), NEW r,
           Moves(ix[term], mem, GroupsAt(ix, term), GroupsEnd(ix, term), t, A, r), Returns(r)
    PROVE  LET l == lists[term]
               i == Where(l, t.id)
               j == Where(l, t'.id)
           IN  /\ lists' = lists /\ term' = term
               /\ t'.fresh = t.fresh /\ t'.positions = t.positions /\ t'.value \in Nat
               /\ PostingAt(lists, term, t.id) = i /\ PostingAt(lists', term', t'.id) = j
               /\ \/ r.ok /\ ret' = "true" /\ LandsIn(ix[term], l, t.id, A, t, t')
                  \/ ~r.ok /\ ret' = "false" /\ A = {} /\ j \in i..Len(l)
<1> DEFINE R == ix[term]
           l == lists[term]
           i == Where(l, t.id)
           j == Where(l, t'.id)
<1>1. /\ t' = r.t /\ ret' = (IF r.ok THEN "true" ELSE "false")
      /\ lists' = lists /\ term' = term
  BY DEF Returns
<1>2. /\ IdsInRange(R) /\ Storable(R) /\ l = StoredList(R) /\ t.id \in IdsOf(R)
      /\ PostingAt(lists, term, t.id) = i /\ i \in 1..Len(l)
  BY LiveAt
<1>3. r \in Results /\ Same(t, r.t) /\ r.t.id \in IdsOf(R)
  BY DEF Moves
<1>4. t'.fresh = t.fresh /\ t'.positions = t.positions /\ t'.value \in Nat
  BY <1>1, <1>3 DEF Same, Results, Cursor
<1>5. PostingAt(lists', term', t'.id) = j /\ j \in 1..Len(l)
  <2>1. t'.id \in IdsOf(R)
    BY <1>1, <1>3
  <2> HIDE DEF R
  <2> QED BY <1>1, <1>2, <2>1, PostingAtIs, WhereFacts
<1>6. CASE r.ok
  <2>1. LandsIn(R, l, t.id, A, t, r.t)
    <3> DEFINE lo == GroupsAt(ix, term)
               hi == GroupsEnd(ix, term)
    <3>1. Moves(R, mem, lo, hi, t, A, r) /\ A \in SUBSET IdsOf(R)
      OBVIOUS
    <3> HIDE DEF R, l, lo, hi
    <3> QED BY <1>2, <1>6, <3>1, MovesInList
  <2> QED BY <1>1, <1>2, <1>4, <1>5, <1>6, <2>1
<1>7. CASE ~r.ok
  <2>1. A = {} /\ t.id <= r.t.id
    BY <1>7 DEF Moves
  <2>2. i <= j
    BY <1>1, <1>2, <1>3, <2>1, WhereFacts
  <2>3. Len(l) \in Nat
    BY <1>2, WhereFacts
  <2> HIDE DEF i, j
  <2>4. j \in i..Len(l)
    BY <1>2, <1>5, <2>2, <2>3
  <2> QED BY <1>1, <1>2, <1>4, <1>5, <1>7, <2>1, <2>4 DEF i, j
<1> QED BY <1>6, <1>7

\* An advance is the advance of the promise.
LEMMA RefinesAdvance ==
    ASSUME Readable(Indexes, Tails), NEW ix \in Indexes, NEW tail \in Tails,
           InvFor(ix, tail), ret \in Words, ~SkippedFirst, Advance
    PROVE  Promise!Next
<1> DEFINE R == ix[term]
           l == lists[term]
           i == Where(l, t.id)
           j == Where(l, t'.id)
           A == IdsBehind(R, t.id)
<1>1. /\ Live /\ Returns(ImageAdvance(mem, t)) /\ term # 0 /\ ret # "false"
      /\ hits' = IF ret' = "true" THEN (hits + 1) % 2 ELSE hits
  BY DEF Advance, Live
<1>2. /\ IdsInRange(R) /\ l = StoredList(R) /\ t.id \in IdsOf(R) /\ t \in Cursor
      /\ PostingAt(lists, term, t.id) = i /\ i \in 1..Len(l) /\ Len(l) \in Nat
  BY <1>1, LiveAt, WhereFacts
<1>3. CASE t.fresh
  <2>1. ret' = "true" /\ t' = [t EXCEPT !.fresh = FALSE]
    BY <1>3, FirstAdvanceKeeps
  <2>2. /\ t'.id = t.id /\ t'.value = t.value /\ t'.positions = t.positions
    BY <1>2, <2>1 DEF Cursor
  <2>3. lists' = lists /\ term' = term
    BY <1>1 DEF Returns
  <2>4. PostingAt(lists', term', t'.id) = i
    BY <1>2, <2>2, <2>3
  <2>5. Promise!Advance
    <3> DEFINE k  == PostingAt(lists, term, t.id)
               kk == PostingAt(lists', term', t'.id)
    <3>1. kk = k /\ t'.value \in (IF k = k THEN {t.value} ELSE Promise!ValueAt(k))
      BY <1>2, <2>2, <2>4
    <3>2. /\ term # 0 /\ ret = "none" /\ ret' = "true"
          /\ lists' = lists /\ term' = term /\ t'.positions = t.positions
      BY <1>1, <1>3, <2>1, <2>2, <2>3 DEF SkippedFirst, Words
    <3> QED BY <1>1, <3>1, <3>2 DEF Promise!Advance, Promise!LandOn, PostingAt, Here
  <2> QED BY <2>5 DEF Promise!Next
<1>4. CASE ~t.fresh
  <2> DEFINE r == ImageAdvance(mem, t)
  <2>1. Moves(R, mem, GroupsAt(ix, term), GroupsEnd(ix, term), t, A, r)
    BY <1>1, <1>4, LiveCalls
  <2>2. A \in SUBSET IdsOf(R)
    BY DEF IdsBehind
  <2> HIDE DEF A, r
  <2>3. /\ lists' = lists /\ term' = term
        /\ t'.fresh = t.fresh /\ t'.positions = t.positions /\ t'.value \in Nat
        /\ PostingAt(lists', term', t'.id) = j
        /\ \/ r.ok /\ ret' = "true" /\ LandsIn(R, l, t.id, A, t, t')
           \/ ~r.ok /\ ret' = "false" /\ A = {} /\ j \in i..Len(l)
    BY <1>1, <2>1, <2>2, CallInList DEF r
  <2>4. ret = "true"
    BY <1>1, <1>4 DEF InvFor, InTerm, Words
  <2> HIDE DEF R
  <2>5. CASE r.ok
    <3>1. /\ ret' = "true" /\ t'.id \in A /\ \A z \in A : t'.id <= z
          /\ t'.value \in (IF j = i THEN {t.value}
                           ELSE IF l[j].value = NoValue THEN Nat ELSE {l[j].value})
      BY <2>3, <2>5 DEF LandsIn
    <3>2. j = i + 1 /\ i < Len(l)
      BY <1>2, <3>1, NextInList DEF A
    <3> HIDE DEF i, j, l
    <3>3. Promise!Advance
      <4> DEFINE k  == PostingAt(lists, term, t.id)
                 kk == PostingAt(lists', term', t'.id)
      <4>1. k = i /\ kk = i + 1 /\ k < Len(lists[term])
        BY <1>2, <2>3, <3>2 DEF l
      <4>2. t'.value \in (IF k + 1 = k THEN {t.value}
                          ELSE IF lists[term][k + 1].value = NoValue THEN Nat
                          ELSE {lists[term][k + 1].value})
        BY <3>1, <3>2, <4>1 DEF l
      <4>3. term # 0 /\ ret = "true" /\ ret' = "true"
            /\ lists' = lists /\ term' = term /\ t'.positions = t.positions
        BY <1>1, <1>4, <2>3, <2>4, <3>1
      <4> QED BY <1>1, <4>1, <4>2, <4>3
              DEF Promise!Advance, Promise!LandOn, Promise!ValueAt, Promise!Posting,
                  Promise!Last, PostingAt, Here
    <3> QED BY <3>3 DEF Promise!Next
  <2>6. CASE ~r.ok
    <3>1. ret' = "false" /\ A = {} /\ j \in i..Len(l)
      BY <2>3, <2>6
    <3>2. i = Len(l)
      BY <1>2, <3>1, NextInList DEF A
    <3> HIDE DEF i, j
    <3>3. Promise!Advance
      BY <1>1, <1>2, <1>4, <2>3, <2>4, <3>1, <3>2
         DEF Promise!Advance, Promise!Exhaust, Promise!Last, PostingAt, Here
    <3> QED BY <3>3 DEF Promise!Next
  <2> QED BY <2>5, <2>6
<1> QED BY <1>3, <1>4

-----------------------------------------------------------------------------
\* An advance_to is the advance_to of the promise.
LEMMA RefinesAdvanceTo ==
    ASSUME Readable(Indexes, Tails), NEW ix \in Indexes, NEW tail \in Tails,
           InvFor(ix, tail), NEW id \in Targets, Live, CoversTarget(id), AdvanceTo(id)
    PROVE  Promise!Next
<1> DEFINE R == ix[term]
           l == lists[term]
           i == Where(l, t.id)
           j == Where(l, t'.id)
           A == IdsFrom(R, t.id, id)
           r == ImageAdvanceTo(mem, t, id)
           k  == PostingAt(lists, term, t.id)
           kk == PostingAt(lists', term', t'.id)
<1>1. Returns(r) /\ term # 0 /\ ret # "false" /\ hits' = hits
  BY DEF AdvanceTo, Live
<1>2. /\ IdsInRange(R) /\ l = StoredList(R) /\ t.id \in IdsOf(R)
      /\ k = i /\ i \in 1..Len(l) /\ Len(l) \in Nat
  BY <1>1, LiveAt, WhereFacts
<1>3. Moves(R, mem, GroupsAt(ix, term), GroupsEnd(ix, term), t, A, r)
  BY LiveCalls
<1>4. A \in SUBSET IdsOf(R)
  BY DEF IdsFrom
<1>5. id \in Nat
  BY CursorAssumption
<1> HIDE DEF A, r
<1>6. /\ lists' = lists /\ term' = term
      /\ t'.fresh = t.fresh /\ t'.positions = t.positions /\ t'.value \in Nat
      /\ kk = j
      /\ \/ r.ok /\ ret' = "true" /\ LandsIn(R, l, t.id, A, t, t')
         \/ ~r.ok /\ ret' = "false" /\ A = {} /\ j \in i..Len(l)
  BY <1>1, <1>3, <1>4, CallInList
<1> HIDE DEF R
<1> DEFINE ahead == {n \in k..Len(lists[term]) : lists[term][n].id >= id}
<1>7. ahead = Ahead(l, t.id, id)
  BY <1>2 DEF Ahead
<1>8. CASE r.ok
  <2>1. /\ ret' = "true" /\ t'.id \in A /\ \A z \in A : t'.id <= z
        /\ t'.value \in (IF j = i THEN {t.value}
                         ELSE IF l[j].value = NoValue THEN Nat ELSE {l[j].value})
    BY <1>6, <1>8 DEF LandsIn
  <2>2. j \in Ahead(l, t.id, id) /\ \A n \in Ahead(l, t.id, id) : j <= n
    BY <1>2, <1>5, <2>1, AheadInList DEF A
  <2>3. kk \in ahead /\ \A n \in ahead : kk <= n
    BY <1>6, <1>7, <2>2
  <2>4. t'.value \in (IF kk = k THEN {t.value}
                      ELSE IF lists[term][kk].value = NoValue THEN Nat
                      ELSE {lists[term][kk].value})
    BY <1>2, <1>6, <2>1
  <2> HIDE DEF i, j, l
  <2>5. Promise!LandOn(kk)
    BY <2>1, <2>4
       DEF Promise!LandOn, Promise!ValueAt, Promise!Posting, PostingAt, Here
  <2>6. \E n \in ahead : (\A o \in ahead : n <= o) /\ Promise!LandOn(n)
    <3> HIDE DEF ahead, kk
    <3> QED BY <2>3, <2>5
  <2>7. Promise!AdvanceTo(id)
    BY <1>1, <1>6, <2>6
       DEF Promise!AdvanceTo, Promise!Posting, Promise!Last, PostingAt, Here
  <2> QED BY <2>7 DEF Promise!Next
<1>9. CASE ~r.ok
  <2>1. ret' = "false" /\ A = {} /\ j \in i..Len(l)
    BY <1>6, <1>9
  <2>2. Ahead(l, t.id, id) = {}
    BY <1>2, <1>5, <2>1, AheadInList DEF A
  <2>3. ahead = {} /\ kk \in k..Len(lists[term])
    BY <1>2, <1>6, <1>7, <2>1, <2>2
  <2> HIDE DEF i, j, l
  <2>4. Promise!AdvanceTo(id)
    BY <1>1, <1>6, <2>1, <2>3
       DEF Promise!AdvanceTo, Promise!Exhaust, Promise!Posting, Promise!Last, PostingAt, Here
  <2> QED BY <2>4 DEF Promise!Next
<1> QED BY <1>6, <1>8, <1>9

\* Decoding is the decoding of the promise.
LEMMA RefinesDecode ==
    ASSUME Readable(Indexes, Tails), NEW ix \in Indexes, NEW tail \in Tails,
           InvFor(ix, tail), DecodePositions
    PROVE  Promise!Next
<1> DEFINE R == ix[term]
           l == lists[term]
           i == Where(l, t.id)
           k  == PostingAt(lists, term, t.id)
           kk == PostingAt(lists', term', t'.id)
<1>1. /\ term # 0 /\ ret # "false"
      /\ lists' = lists /\ term' = term /\ hits' = hits /\ ret' = ret
  BY DEF DecodePositions, Live
<1>2. /\ t'.positions = PositionsOf(RecordsOf(R, t.id))
      /\ t'.fresh = t.fresh /\ t'.value = t.value /\ t'.id = t.id
  BY DecodeKeeps
<1>3. k = i /\ l[i] = StoredPosting(R, t.id)
  BY <1>1, LiveAt
<1>4. kk = k
  BY <1>1, <1>2
<1>5. t'.positions = lists[term][k].positions
  BY <1>2, <1>3 DEF StoredPosting
<1> HIDE DEF R, l, i
<1>6. Promise!DecodePositions
  BY <1>1, <1>2, <1>4, <1>5 DEF Promise!DecodePositions, Promise!Posting, PostingAt, Here
<1> QED BY <1>6 DEF Promise!Next

\* Every step of the cursor over bytes is a step of the promise, or none.
LEMMA RefinesNext ==
    ASSUME Readable(Indexes, Tails), SkipAnywhere = FALSE, CursorInv, [Next]_vars
    PROVE  [Promise!Next]_(Promise!vars)
<1>1. PICK ix \in Indexes, tail \in Tails : InvFor(ix, tail)
  BY DEF CursorInv
<1>2. ASSUME NEW k \in 1..Len(idx), Open(k) PROVE Promise!Next
  BY <1>1, <1>2, RefinesOpen
<1>3. CASE (SkipAnywhere \/ ~SkippedFirst) /\ Advance
  <2>1. ret \in Words /\ ~SkippedFirst /\ Advance
    BY <1>3 DEF CursorInv
  <2> QED BY <1>1, <2>1, RefinesAdvance
<1>4. ASSUME NEW id \in Targets, SkipAnywhere \/ (Live /\ CoversTarget(id)), AdvanceTo(id)
      PROVE  Promise!Next
  BY <1>1, <1>4, RefinesAdvanceTo
<1>5. CASE DecodePositions
  BY <1>1, <1>5, RefinesDecode
<1>6. CASE UNCHANGED vars
  <2>1. lists' = lists /\ term' = term /\ t' = t /\ hits' = hits /\ ret' = ret
    BY <1>6 DEF vars
  <2>2. UNCHANGED Promise!vars
    BY <2>1 DEF Promise!vars, Here
  <2> QED BY <2>2
<1> QED BY <1>2, <1>3, <1>4, <1>5, <1>6 DEF Next

\* The cursor over bytes implements the promise of sil_term.h, PostingCursor:
\* whatever readable index it is, no posting is lost, invented, repeated or
\* reordered, and values and positions are read back, by clients that skip
\* where CoversTarget allows it and call no advance when their first call was
\* an advance_to (SkipAnywhere = FALSE; for others the code repeats an id).
THEOREM CursorKeepsPromise ==
    ASSUME Readable(Indexes, Tails), SkipAnywhere = FALSE
    PROVE  Spec => Implements
<1>1. Init => Promise!Init
  BY RefinesInit
<1>2. CursorInv /\ [Next]_vars => [Promise!Next]_(Promise!vars)
  BY RefinesNext
<1> QED BY <1>1, <1>2, CursorInvAlways, PTL DEF Spec, Implements, Promise!Spec
=============================================================================
