------------------------------ MODULE TermImpl ------------------------------
(***************************************************************************)
(* The functions of the term cursor: sil_term_impl.h and the cursor of     *)
(* sil_search_image.c, as operators on a cursor (sil_term_ext_t) and the   *)
(* memory m it points into.  TermCursor and SearchIndex are the state      *)
(* machines that call them.                                                *)
(*                                                                         *)
(* The window p..ep is the rest of a small group, ep..tp the rest of its   *)
(* high level group, tp..etp the rest of the term, and wp..p the bytes of  *)
(* the positions of the posting under the cursor.  "fresh" stands for "the *)
(* advance callback is first_advance".                                     *)
(*                                                                         *)
(* A definition Name_Something is Name with a bug a programmer could have  *)
(* made; nothing uses it.  It shows what a property would catch.           *)
(***************************************************************************)
EXTENDS PostingFormat

Cursor == [id : Nat, value : Nat, gid : Nat, first_base : Nat,
           wp : Nat, p : Nat, ep : Nat, tp : Nat, etp : Nat,
           max_term_size : Nat, document_frequency : Nat,
           positions : Seq(Nat), fresh : BOOLEAN]
NoCursor == [id |-> 0, value |-> 0, gid |-> 0, first_base |-> 0,
             wp |-> 0, p |-> 0, ep |-> 0, tp |-> 0, etp |-> 0,
             max_term_size |-> 0, document_frequency |-> 0,
             positions |-> <<>>, fresh |-> FALSE]

\* The end of the term is taken len bytes after the header, but len counts
\* the header too: etp is HeaderSize bytes too far.
FillTerm(m, header) ==
    LET len  == U32At(m, header - 4)
        tp   == header + HeaderSize
        high == ExtractGroup(m, tp + 1)
        mid  == ExtractGroup(m, high.start + 1)
    IN  AdvanceId(m, [NoCursor EXCEPT
            !.gid = At(m, tp) * HighSpan + At(m, high.start) * SmallSpan,
            !.p = mid.start, !.ep = mid.end, !.tp = high.end,
            !.etp = tp + len,
            !.max_term_size = U32At(m, header),
            !.document_frequency = U32At(m, header + 4),
            !.fresh = TRUE])

Yes(c) == [t |-> c, ok |-> TRUE]
No(c)  == [t |-> c, ok |-> FALSE]

\* Open the small group whose header is at c.ep, or the high level group
\* whose header is at c.tp; gid is left to the caller.
EnterSmall_StaysPut(m, c) == LET g == ExtractGroup(m, c.ep + 1)
                             IN  [c EXCEPT !.p = g.start]
EnterSmall(m, c) == LET g == ExtractGroup(m, c.ep + 1)
                    IN  [c EXCEPT !.p = g.start, !.ep = g.end]
EnterHigh(m, c)  == LET g == ExtractGroup(m, c.tp + 1)
                    IN  [c EXCEPT !.ep = g.start, !.tp = g.end]

\* The next small group, in this high level group or in the next one that
\* is not empty.
AdvanceGroup(m, c0) ==
    LET next[c \in Cursor] ==
          IF c.ep < c.tp
          THEN Yes([EnterSmall(m, c) EXCEPT
                      !.gid = HighBase(c.gid) + At(m, c.ep) * SmallSpan])
          ELSE IF c.tp < c.etp
          THEN next[[EnterHigh(m, c) EXCEPT !.gid = At(m, c.tp) * HighSpan]]
          ELSE No(c)
    IN  next[c0]

\* The first small group of this high level group that is not before gid;
\* t.gid keeps its old value over the groups that are passed.
ScanSmall(m, c0, gid) ==
    LET scan[c \in Cursor] ==
          IF c.ep >= c.tp THEN AdvanceGroup(m, c)
          ELSE IF At(m, c.ep) >= MidOf(gid)
          THEN Yes([EnterSmall(m, c) EXCEPT
                      !.gid = HighBase(c.gid) + At(m, c.ep) * SmallSpan])
          ELSE scan[EnterSmall(m, c)]
    IN  scan[c0]

\* The first high level group that is not before gid.  It is entered with p
\* still in the group the cursor comes from; the recursive call of the code
\* then returns at once when the group is past gid or gid is its first id.
ScanHigh(m, c0, gid) ==
    LET scan[c \in Cursor] ==
          IF c.tp >= c.etp THEN No(c)
          ELSE IF At(m, c.tp) >= HighOf(gid)
          THEN LET e == [EnterHigh(m, c) EXCEPT !.gid = At(m, c.tp) * HighSpan]
               IN  IF e.gid >= gid THEN Yes(e) ELSE ScanSmall(m, e, gid)
          ELSE scan[EnterHigh(m, c)]
    IN  scan[c0]

AdvanceGroupTo(m, c, gid) ==
    IF c.gid >= gid THEN Yes(c)
    ELSE IF HighBase(c.gid) = HighBase(gid) THEN ScanSmall(m, c, gid)
    ELSE ScanHigh(m, c, gid)

\* The posting of the next group, when there is one.
NextGroup_NotDecoded(m, c) == LET g == AdvanceGroup(m, c)
                              IN  IF g.ok THEN Yes(g.t) ELSE No(g.t)
NextGroup(m, c) == LET g == AdvanceGroup(m, c)
                   IN  IF g.ok THEN Yes(AdvanceId(m, g.t)) ELSE No(g.t)

ImageAdvance(m, c) ==
    IF c.fresh THEN Yes([c EXCEPT !.fresh = FALSE])
    ELSE IF c.p < c.ep THEN Yes(AdvanceId(m, c))
    ELSE NextGroup(m, c)

ScanIds(m, c0, id) ==
    LET scan[c \in Cursor] ==
          IF id > c.id /\ c.p < c.ep THEN scan[AdvanceId(m, c)] ELSE c
    IN  scan[c0]

\* From a cursor in the group of id, or past it.
FinishAdvanceTo(m, c, id) ==
    LET s == ScanIds(m, c, id)
    IN  IF id <= s.id THEN Yes(s) ELSE NextGroup(m, s)

ImageAdvanceTo(m, c, id) ==
    LET g       == AdvanceGroupTo(m, c, GroupOf(id))
        entered == AdvanceId(m, g.t)
    IN  IF id <= c.id THEN Yes(c)
        ELSE IF c.gid >= GroupOf(id) THEN FinishAdvanceTo(m, c, id)
        ELSE IF ~g.ok THEN No(g.t)
        ELSE IF GroupOf(id) < entered.gid THEN Yes(entered)
        ELSE FinishAdvanceTo(m, entered, id)

\* sil_term_decode_positions: the positions in the bytes wp..p.
Decoded(m, c) ==
    LET from[s \in Nat \X Nat] ==
          IF s[1] >= c.p THEN <<>>
          ELSE LET d == DecodeHighBit(m, s[1])
               IN  <<s[2] + d.value>> \o from[<<d.next, s[2] + d.value>>]
    IN  from[<<c.wp, c.first_base>>]
=============================================================================
