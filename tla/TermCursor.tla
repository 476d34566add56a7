----------------------------- MODULE TermCursor -----------------------------
(***************************************************************************)
(* The term cursor of a search image (sil_search_image.c over              *)
(* sil_term_impl.h), reading the bytes the builder wrote.  One action per  *)
(* call of a client: the lookup of a term, advance, advance_to and         *)
(* sil_term_decode_positions.                                              *)
(*                                                                         *)
(* t is the sil_term_ext_t.  Indexes, Tails and Targets choose the bytes   *)
(* and the calls of an instance.                                           *)
(***************************************************************************)
EXTENDS TermImpl

CONSTANTS
    Indexes,       \* term data to read: sequences of record sets, one a term
    Tails,         \* what the memory beyond term_data may hold
    Targets,       \* the ids clients pass to advance_to
    SkipAnywhere   \* FALSE: clients keep to CoversTarget and SkippedFirst

ASSUME CursorAssumption == /\ Targets \subseteq 0..(IdLimit - 1)
                           /\ SkipAnywhere \in BOOLEAN

VARIABLES
    lists,   \* what the builder was given, as the postings of each term
    mem,     \* term_data and the bytes that follow it
    idx,     \* term_idx: where the header of each term is in mem
    term,    \* the term of the open cursor, 0 before the first lookup
    t,       \* the cursor
    hits,    \* how often advance has returned true since the lookup, mod 2
    ret,     \* the last advance or advance_to: "none", "true" or "false"
    call     \* the last call made

vars == <<lists, mem, idx, term, t, hits, ret, call>>

\* The records of a term as the postings [id, value, positions] they mean.
NoValue == -1
StoredPosting(R, id) ==
    LET recs == RecordsOf(R, id)
    IN  [id |-> id,
         value |-> IF OnlyValue(recs) \/ ValueFirst(recs)
                   THEN recs[1].value ELSE NoValue,
         positions |-> PositionsOf(recs)]
StoredList(R) == LET ids == Ascending(IdsOf(R))
                 IN  [i \in 1..Len(ids) |-> StoredPosting(R, ids[i])]

(***************************************************************************)
(* The clients.  They stop with a cursor that has returned false, as the   *)
(* loops of sil_term.h and the README do, and may look up a term again.    *)
(***************************************************************************)
Init == /\ \E ix \in Indexes, tail \in Tails :
              /\ lists = [k \in 1..Len(ix) |-> StoredList(ix[k])]
              /\ mem = TermFile(ix) \o tail
              /\ idx = [k \in 1..Len(ix) |-> HeaderAt(ix, k)]
        /\ term = 0 /\ t = NoCursor /\ hits = 0 /\ ret = "none" /\ call = "none"

Open(k) ==
    /\ t' = FillTerm(mem, idx[k])
    /\ term' = k /\ hits' = 0 /\ ret' = "none" /\ call' = "open"
    /\ UNCHANGED <<lists, mem, idx>>

Live == term # 0 /\ ret # "false"

Returns(r) == /\ t' = r.t
              /\ ret' = IF r.ok THEN "true" ELSE "false"
              /\ UNCHANGED <<lists, mem, idx, term>>

Advance ==
    /\ Live /\ Returns(ImageAdvance(mem, t)) /\ call' = "advance"
    /\ hits' = IF ret' = "true" THEN (hits + 1) % 2 ELSE hits

AdvanceTo(id) ==
    /\ Live /\ Returns(ImageAdvanceTo(mem, t, id)) /\ call' = "advance_to"
    /\ UNCHANGED hits

DecodePositions ==
    /\ Live
    /\ t' = [t EXCEPT !.positions = Decoded(mem, t)]
    /\ call' = "decode"
    /\ UNCHANGED <<lists, mem, idx, term, hits, ret>>

\* The targets for which advance_to finds its group: in the high level group
\* of the cursor, or, in another one, past its first 1024 ids and only when
\* the term has a posting in that high level group.
CoversTarget(id) ==
    \/ HighBase(id) <= HighBase(t.id)
    \/ /\ \E i \in 1..Len(lists[term]) :
             HighBase(lists[term][i].id) = HighBase(id)
       /\ MidOf(id) # 0

\* The client's first call was advance_to, which leaves the callback of the
\* lookup, sil_search_image_first_advance, in place: an advance would return
\* the id again that advance_to has returned, where sil_term.h has it go to the
\* next one.  Clients that begin with advance_to go on with it.
SkippedFirst == t.fresh /\ ret = "true"

Next == \/ \E k \in 1..Len(idx) : Open(k)
        \/ (SkipAnywhere \/ ~SkippedFirst) /\ Advance
        \/ \E id \in Targets :
              (SkipAnywhere \/ (Live /\ CoversTarget(id))) /\ AdvanceTo(id)
        \/ DecodePositions

Spec == Init /\ [][Next]_vars
-----------------------------------------------------------------------------
(***************************************************************************)
(* Properties.                                                             *)
(***************************************************************************)
Words == {"none", "true", "false"}

\* The cursor's fields have the types of the C struct, and a cursor is open
\* exactly when a term is.
TypeOK ==
    /\ term \in 0..Len(idx)
    /\ t \in Cursor
    /\ hits \in {0, 1} /\ ret \in Words
    /\ call \in {"none", "open", "advance", "advance_to", "decode"}
    /\ (term = 0) = (t = NoCursor)

\* The reader's windows stay nested inside the bytes of its own term: the
\* positions before the small group's rest, that before the high level
\* group's rest, that before the end of the block.  (advance, advance_to and
\* fill_term move five pointers independently; etp alone runs past the end.)
WindowsNested ==
    Live => /\ idx[term] + HeaderSize < t.wp
            /\ t.wp <= t.p /\ t.p <= t.ep /\ t.ep <= t.tp
            /\ t.tp <= idx[term] + U32At(mem, idx[term] - 4)

\* fill_term sizes the buffer of the positions from the header the builder
\* wrote; decoding any posting of the term must fit into it.
PositionsFitBuffer == Len(t.positions) <= t.max_term_size

\* The cursor over bytes does what PostingCursor promises of the records the
\* bytes were built from: no posting lost, invented, repeated or reordered,
\* every stored value and position read back, the end reported at the end.
\* That holds for clients which, after a lookup, call advance first or only
\* advance_to (SkippedFirst): for others the code repeats a posting.
Here == {i \in 1..Len(lists[term]) : lists[term][i].id = t.id}
Promise == INSTANCE PostingCursor WITH
    cur <- IF term = 0 \/ Here = {} THEN 0 ELSE CHOOSE i \in Here : TRUE,
    value <- t.value, positions <- t.positions
Implements == Promise!Spec
-----------------------------------------------------------------------------
(***************************************************************************)
(* What sil_term.h says of the cursor and the code does not always do.     *)
(***************************************************************************)

\* sil_term_decode_positions fills in the positions of the current posting.
DecodedAsStored ==
    call = "decode" =>
        \E i \in Here : t.positions = lists[term][i].positions

\* advance updates value along with id: a posting without a value reads 0,
\* as it does when it is the first of its list.
ValueOfPosting ==
    call = "advance" /\ ret = "true" =>
        \A i \in Here : t.value = IF lists[term][i].value = NoValue THEN 0
                                  ELSE lists[term][i].value

\* advance_to that returns true stands on an id of the term.
SkipLandsOnPosting == call = "advance_to" /\ ret = "true" => Here # {}

\* advance returns false when there is no other id of the term.
EndIsReported == call = "advance" /\ ret = "true" => Here # {}
-----------------------------------------------------------------------------
\* The indexes the reader can read back, for which TermCursorProofs proves
\* the properties above.  The four runs that expect a violation each leave
\* one of the conditions of ReadableIndex, or those of clients, out, or check
\* a claim that the format cannot keep.
Readable(indexes, tails) ==
    \A ix \in indexes, tail \in tails : ReadableIndex(ix, tail)
=============================================================================
