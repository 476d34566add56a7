--------------------------- MODULE PostingCursor ---------------------------
(***************************************************************************)
(* What the term cursor of sil_term.h promises, with no bytes in it: a     *)
(* term is a list of postings with ascending ids; a lookup puts a cursor   *)
(* on the first posting; "advance" goes to the next posting and            *)
(* "advance_to" to the first one whose id is not below a target; the       *)
(* positions of the posting under the cursor are there once decoded.       *)
(*                                                                         *)
(* The lookup already stands on the first posting, which the first call of *)
(* a loop returns: "advance" stays there when nothing was returned yet,    *)
(* and goes to the next posting after every call that returned true,       *)
(* whether that was an "advance" or an "advance_to".  "hits" changes with  *)
(* each id that advance returns, so that returning one again is a step of  *)
(* its own and not a stutter.  A posting that stores no value leaves       *)
(* "value" open.                                                           *)
(***************************************************************************)
EXTENDS Integers, Sequences

CONSTANT NoValue   \* the value of a posting that stores none, not a number >= 0

VARIABLES
    lists,       \* lists[k]: the postings [id, value, positions] of term k
    term,        \* the term that was looked up, 0 before the first lookup
    cur,         \* the posting under the cursor, an index of lists[term]
    value,       \* sil_term_t.value
    positions,   \* term_positions .. term_positions_end
    hits,        \* how often advance returned true since the lookup, modulo 2
    ret          \* the last advance or advance_to since the lookup: "none",
                 \* "true" or "false"

vars == <<lists, term, cur, value, positions, hits, ret>>

Posting(k) == lists[term][k]
Last       == Len(lists[term])

IsPostingList(l) ==
    /\ l # <<>>
    /\ \A i, j \in 1..Len(l) : i < j => l[i].id < l[j].id

Init == /\ \A k \in 1..Len(lists) : IsPostingList(lists[k])
        /\ term = 0 /\ cur = 0
        /\ value = 0 /\ positions = <<>> /\ hits = 0 /\ ret = "none"

\* sil_search_image_term for a term of the index.
Open(k) ==
    LET first == lists[k][1]
    IN  /\ term' = k /\ cur' = 1
        /\ value' = IF first.value = NoValue THEN 0 ELSE first.value
        /\ positions' = <<>> /\ hits' = 0 /\ ret' = "none"
        /\ UNCHANGED lists

ValueAt(k) == IF Posting(k).value = NoValue THEN Nat ELSE {Posting(k).value}

\* The cursor moves to posting k, or stays when it is there.
LandOn(k) == /\ cur' = k
             /\ value' \in (IF k = cur THEN {value} ELSE ValueAt(k))
             /\ ret' = "true"

\* There is nothing left; where the cursor rests is not promised.
Exhaust == /\ cur' \in cur..Last
           /\ value' \in Nat
           /\ ret' = "false"

Advance ==
    /\ term # 0
    /\ \/ ret = "none" /\ LandOn(cur)
       \/ ret = "true" /\ cur < Last /\ LandOn(cur + 1)
       \/ ret = "true" /\ cur = Last /\ Exhaust
    /\ hits' = IF ret' = "true" THEN (hits + 1) % 2 ELSE hits
    /\ UNCHANGED <<lists, term, positions>>

AdvanceTo(target) ==
    LET ahead == {k \in cur..Last : Posting(k).id >= target}
    IN  /\ term # 0 /\ ret # "false"
        /\ \/ \E k \in ahead : (\A j \in ahead : k <= j) /\ LandOn(k)
           \/ ahead = {} /\ Exhaust
        /\ UNCHANGED <<lists, term, positions, hits>>

DecodePositions ==
    /\ term # 0 /\ ret # "false"
    /\ positions' = Posting(cur).positions
    /\ UNCHANGED <<lists, term, cur, value, hits, ret>>

CONSTANT Targets   \* the ids a client may ask advance_to for

Next == \/ \E k \in 1..Len(lists) : Open(k)
        \/ Advance
        \/ \E target \in Targets : AdvanceTo(target)
        \/ DecodePositions

Spec == Init /\ [][Next]_vars
=============================================================================
