---------------------------- MODULE MCTermCursor ----------------------------
(***************************************************************************)
(* Instances of TermCursor.  An index has two terms: the posting list      *)
(* under test and a short one, in either order, so that a cursor ends at   *)
(* another term or at the end of the file.                                 *)
(***************************************************************************)
EXTENDS TermCursor, TLC

\* A posting as its records without the id: <<position, value>> pairs.
Plain(v)   == {<<0, v>>}
At1(ps)    == {<<p, 0>> : p \in ps}
Both(v, ps) == {<<0, v>>} \cup At1(ps)

\* A posting list: a function from ids to postings, as a set of records.
List(f) == UNION {{[id |-> id, position |-> r[1], value |-> r[2]] : r \in f[id]}
                  : id \in DOMAIN f}

\* Every length of every field: values at the edges of 1, 2 and 4 bytes,
\* position blocks of 1 to 9 bytes, first positions with bits 7, 8 and 9.
Values == {0, 28, 29, 255, 256, 65535, 65536, 2147483647}
Blocks == {{1}, {127, 128}, {383, 384, 511}, {512}, {1, 2, 16400},
           {5, 6, 7, 8, 9}, {3, 2097160}, {7, 300, 40000, 90000, 3000000},
           {0, 5}}
Shapes == {Plain(v) : v \in Values}
          \cup {At1(b) : b \in Blocks}
          \cup {Both(v, {1, 2}) : v \in {1, 253, 254, 255, 70000}}
          \cup {Both(9, {5, 6, 7, 8, 9})}

Short == List(3 :> Plain(0) @@ 262145 :> Plain(7))

Pairs(ls) == {<<l, Short>> : l \in ls} \cup {<<Short, l>> : l \in ls}

\* Any two shapes next to each other.
TwoShapes == {List(2 :> s @@ 3 :> u) : s, u \in Shapes}

\* Ids that share and change groups of both levels, at the first and the
\* last id of a group, and at the last id the three levels can hold.
EdgeIds == {1, 1023, 1024, 262143, 262144, 263168, 524288, 67108863}
Mixed(id) == IF id \in {1, 262143} THEN At1({id % 500, 600})
             ELSE IF id \in {1024, 263168} THEN Both(id % 300, {4})
             ELSE Plain(id % 70000)
ManyGroups == {List([id \in ids |-> Mixed(id)]) :
                 ids \in {s \in SUBSET EdgeIds : Cardinality(s) \in 3..5}}

\* A small group of more than 253 bytes: its length takes three bytes, and
\* so does that of the high level group around it.
LongGroup == {List([id \in 1..90 |-> Plain(100)] @@ 5000 :> At1({1, 2, 3}))}

\* LongGroup is never second: a term of 256 bytes or more makes the cursor of
\* the term before it run on (cursor_end shows it).
MCIndexes == Pairs(TwoShapes) \cup Pairs(ManyGroups)
             \cup {<<l, Short>> : l \in LongGroup}
MCTargets == {0, 2, 60, 1023, 1025, 2047, 5000, 262143, 263169, 400000, 67108863}

\* Zeros, as a zeroed allocation leaves behind the file.
ZeroTail  == {[i \in 1..8 |-> 0]}

\* What the theorems ask of an index holds of these.
ASSUME InstanceReadable == Readable(MCIndexes, ZeroTail)

(***************************************************************************)
(* Instances for the disagreements with sil_term.h.                        *)
(***************************************************************************)
\* Two positions 2^28 or more apart.
WideIndexes  == Pairs({List(2 :> At1({5, 268435656}))})
\* A posting without a value after one that has a value.
StaleIndexes == Pairs({List(2 :> Plain(42) @@ 3 :> At1({5}))})
\* Postings in two high level groups; the target is the start of the second.
SkipIndexes  == Pairs({List(2 :> Plain(0) @@ 3 :> Plain(0) @@ 262150 :> Plain(0))})
SkipTargets  == {262144}
\* A short term in front of a term of 256 bytes or more.
EndIndexes   == {<<Short, l>> : l \in LongGroup}
NoTargets    == {}
=============================================================================
