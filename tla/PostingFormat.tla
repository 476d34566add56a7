--------------------------- MODULE PostingFormat ---------------------------
(***************************************************************************)
(* The byte format of a posting list: what sil_search_builder.c writes to  *)
(* <base>_term_data and what sil_term_impl.h and sil_search_image.c read   *)
(* back.  Everything here is a pure operator on byte sequences; the state  *)
(* machines are SearchBuilder (the writer) and TermCursor (the reader).    *)
(*                                                                         *)
(* Memory is a sequence of bytes and a C pointer is an index into it.      *)
(* Bits are taken apart with \div and %: every mask of sil_constants.h is  *)
(* a run of adjacent bits, and every "|" of the encoder joins fields that  *)
(* do not overlap, so "|" is "+".  Values are below 2^31 in every checked  *)
(* instance (TLC's integers); the proofs have no such bound.               *)
(*                                                                         *)
(* A definition Name_Something is Name with a bug a programmer could have  *)
(* made; nothing uses it.  It shows what a property would catch.           *)
(***************************************************************************)
EXTENDS Sorting


(***************************************************************************)
(* sil_constants.h: the fields of a control word and its escape values.    *)
(***************************************************************************)
POS_PRESENT     == 32      \* SMALL_GROUP_POS_MASK
VALUE_PRESENT   == 16      \* SMALL_GROUP_VALUE_PRESENT_MASK
VALUE_1BYTE     == 29      \* SMALL_GROUP_1BYTE_VALUE
VALUE_2BYTE     == 30      \* SMALL_GROUP_2BYTE_VALUE
VALUE_4BYTE     == 31      \* SMALL_GROUP_4BYTE_VALUE
POS_VALUE_2BYTE == 254     \* SMALL_GROUP_2BYTE_POS_VALUE
POS_VALUE_4BYTE == 255     \* SMALL_GROUP_4BYTE_POS_VALUE
GROUP_2BYTE     == 254     \* GROUP_2BYTE_LENGTH
GROUP_4BYTE     == 255     \* GROUP_4BYTE_LENGTH
IdShift         == 64      \* 1 << SMALL_GROUP_SHIFT
SmallSpan       == 1024    \* ids of one small group
HighSpan        == 262144  \* ids of one high level group
IdLimit         == 67108864 \* the three levels hold 26 bits of an id
HeaderSize      == 8       \* sizeof(sil_term_header_t)

HasFlag(flags, bit) == (flags \div bit) % 2 = 1

\* The id with its lower 10 bits masked off, the "gid" of the cursor.
GroupOf(id)  == (id \div SmallSpan) * SmallSpan
HighBase(id) == (id \div HighSpan) * HighSpan
MidOf(id)    == (id \div SmallSpan) % 256
HighOf(id)   == (id \div HighSpan) % 256

(***************************************************************************)
(* Little-endian machine integers.                                         *)
(***************************************************************************)
U16(v) == <<v % 256, (v \div 256) % 256>>
U32(v) == <<v % 256, (v \div 256) % 256,
            (v \div 65536) % 256, (v \div 16777216) % 256>>

\* A read outside the modelled bytes gives 0; TermCursor's Tails choose what
\* lies beyond the end of a file.
At(m, i)    == IF i \in 1..Len(m) THEN m[i] ELSE 0
U16At(m, i) == At(m, i) + 256 * At(m, i + 1)
U32At(m, i) == U16At(m, i) + 65536 * U16At(m, i + 2)

(***************************************************************************)
(* Variable-length integers: 7 bits a byte, low bits first, the high bit   *)
(* of a byte set when another one follows.                                 *)
(***************************************************************************)
Weight == <<1, 128, 16384, 2097152, 268435456>>

HighBitLen(v) == IF v < 128 THEN 1
                 ELSE IF v < 16384 THEN 2
                 ELSE IF v < 2097152 THEN 3
                 ELSE IF v < 268435456 THEN 4 ELSE 5

EncodeHighBit(v) ==
    [i \in 1..HighBitLen(v) |->
        ((v \div Weight[i]) % 128) + (IF i < HighBitLen(v) THEN 128 ELSE 0)]

\* The fifth byte is combined with the first one only, as in the code: the
\* three bytes between them are dropped.
DecodeHighBit(m, p) ==
    LET b(i)   == At(m, p + i - 1)
        low(i) == (b(i) % 128) * Weight[i]
    IN  IF b(1) < 128 THEN [value |-> b(1), next |-> p + 1]
        ELSE IF b(2) < 128
             THEN [value |-> low(1) + low(2), next |-> p + 2]
        ELSE IF b(3) < 128
             THEN [value |-> low(1) + low(2) + low(3), next |-> p + 3]
        ELSE IF b(4) < 128
             THEN [value |-> low(1) + low(2) + low(3) + low(4), next |-> p + 4]
        ELSE [value |-> low(1) + b(5) * Weight[5], next |-> p + 5]

(***************************************************************************)
(* The value of a posting: in the flags when it is small and alone, else   *)
(* in the bytes that follow the control word.                              *)
(***************************************************************************)
EncodeSingleValue(v) ==
    IF v < VALUE_1BYTE THEN [flags |-> v, payload |-> <<>>]
    ELSE IF v < 256    THEN [flags |-> VALUE_1BYTE, payload |-> <<v>>]
    ELSE IF v < 65536  THEN [flags |-> VALUE_2BYTE, payload |-> U16(v)]
    ELSE                    [flags |-> VALUE_4BYTE, payload |-> U32(v)]

DecodeSingleValue_OneBased(m, flags, p) ==
    IF flags < VALUE_1BYTE THEN [value |-> flags - 1, next |-> p]
    ELSE IF flags = VALUE_1BYTE THEN [value |-> At(m, p), next |-> p + 1]
    ELSE IF flags = VALUE_2BYTE THEN [value |-> U16At(m, p), next |-> p + 2]
    ELSE [value |-> U32At(m, p), next |-> p + 4]
DecodeSingleValue(m, flags, p) ==
    IF flags < VALUE_1BYTE THEN [value |-> flags, next |-> p]
    ELSE IF flags = VALUE_1BYTE THEN [value |-> At(m, p), next |-> p + 1]
    ELSE IF flags = VALUE_2BYTE THEN [value |-> U16At(m, p), next |-> p + 2]
    ELSE [value |-> U32At(m, p), next |-> p + 4]

\* The two-byte form can only ever hold the value 254: the test compares the
\* value with the escape byte 255, not with 65536.
EncodePositionValue(v) ==
    IF v < POS_VALUE_2BYTE THEN <<v>>
    ELSE IF v < POS_VALUE_4BYTE THEN <<POS_VALUE_2BYTE>> \o U16(v)
    ELSE <<POS_VALUE_4BYTE>> \o U32(v)

DecodePositionValue(m, p) ==
    IF At(m, p) < POS_VALUE_2BYTE THEN [value |-> At(m, p), next |-> p + 1]
    ELSE IF At(m, p) < POS_VALUE_4BYTE
         THEN [value |-> U16At(m, p + 1), next |-> p + 3]
    ELSE [value |-> U32At(m, p + 1), next |-> p + 5]

(***************************************************************************)
(* The positions of a posting: the first one relative to its bits 7 and 8, *)
(* which travel in the flags, the others relative to the one before.       *)
(***************************************************************************)
FirstBase(pos) == ((pos \div 128) % 4) * 128

EncodeTermPositions_NotRebased(ps) ==
    FlattenSeq([i \in 1..Len(ps) |->
        EncodeHighBit(ps[i] - (IF i = 1 THEN 0 ELSE ps[i-1]))])
EncodeTermPositions(ps) ==
    FlattenSeq([i \in 1..Len(ps) |->
        EncodeHighBit(ps[i] - (IF i = 1 THEN FirstBase(ps[1]) ELSE ps[i-1]))])

\* Where the position bytes start and end, and the base of the first one.
DecodeTermPositions_StalePointer(m, flags, p) ==
    LET size == (flags \div 4) % 4
        long == DecodeHighBit(m, p)
    IN  IF size < 3
        THEN [base |-> (flags % 4) * 128, start |-> p, end |-> p + size + 1]
        ELSE [base |-> (flags % 4) * 128, start |-> long.next,
              end |-> p + long.value + 1]
DecodeTermPositions(m, flags, p) ==
    LET size == (flags \div 4) % 4
        long == DecodeHighBit(m, p)
    IN  IF size < 3
        THEN [base |-> (flags % 4) * 128, start |-> p, end |-> p + size + 1]
        ELSE [base |-> (flags % 4) * 128, start |-> long.next,
              end |-> long.next + long.value + 1]

(***************************************************************************)
(* One posting: all the records [position, value] one term has in one      *)
(* document, sorted by position.  A record at position 0 carries a value;  *)
(* alone, it is the whole posting.                                         *)
(***************************************************************************)
OnlyValue(recs)   == Len(recs) = 1 /\ recs[1].position = 0
ValueFirst(recs)  == recs[1].position = 0 /\ recs[1].value # 0
PositionsOf(recs) ==
    IF OnlyValue(recs) THEN <<>>
    ELSE LET q == IF ValueFirst(recs) THEN Tail(recs) ELSE recs
         IN  [i \in 1..Len(q) |-> q[i].position]

\* compress_single_id without the id: the flags to put beside it and the
\* bytes that follow the control word.
EncodePosting(recs) ==
    IF OnlyValue(recs) THEN EncodeSingleValue(recs[1].value)
    ELSE
      LET ps    == PositionsOf(recs)
          body  == EncodeTermPositions(ps)
          size  == Len(body) - 1
          value == IF ValueFirst(recs) THEN EncodePositionValue(recs[1].value)
                   ELSE <<>>
      IN  [flags   |-> POS_PRESENT
                       + (IF ValueFirst(recs) THEN VALUE_PRESENT ELSE 0)
                       + (IF size < 3 THEN 4 * size ELSE 12)
                       + FirstBase(ps[1]) \div 128,
           payload |-> value
                       \o (IF size < 3 THEN <<>> ELSE EncodeHighBit(size))
                       \o body]

(***************************************************************************)
(* The posting list of a term: a set R of records [id, position, value],   *)
(* with one value for each (id, position), as the sorted and reduced       *)
(* stream of records gives it.  Ids are below IdLimit.                     *)
(***************************************************************************)
IdsOf(R) == {r.id : r \in R}
RecordsOf(R, id) ==
    LET ps == Ascending({r.position : r \in {s \in R : s.id = id}})
    IN  [i \in 1..Len(ps) |->
            CHOOSE r \in R : r.id = id /\ r.position = ps[i]]

\* A group: its 8 bits of the id, the length of its bytes, and the bytes.
EncodeGroup(gid, body) ==
    LET len == Len(body)
    IN  <<gid>> \o (IF len < GROUP_2BYTE THEN <<len>>
                    ELSE IF len < 65536 THEN <<GROUP_2BYTE>> \o U16(len)
                    ELSE <<GROUP_4BYTE>> \o U32(len))
                \o body

\* The start and the end of the bytes of a group whose length is at p.
ExtractGroup(m, p) ==
    LET control == At(m, p)
    IN  IF control < GROUP_2BYTE
        THEN [start |-> p + 1, end |-> p + 1 + control]
        ELSE IF control = GROUP_2BYTE
        THEN [start |-> p + 3, end |-> p + 3 + U16At(m, p + 1)]
        ELSE [start |-> p + 5, end |-> p + 5 + U32At(m, p + 1)]

EncodeSmallGroup(R, gid) ==
    LET ids == Ascending({id \in IdsOf(R) : GroupOf(id) = gid})
        one(id) == LET c == EncodePosting(RecordsOf(R, id))
                   IN  U16(IdShift * (id % SmallSpan) + c.flags) \o c.payload
    IN  FlattenSeq([i \in 1..Len(ids) |-> one(ids[i])])

CompressGroups(R) ==
    LET gids  == {GroupOf(id) : id \in IdsOf(R)}
        highs == Ascending({HighBase(g) : g \in gids})
        mids(h) == Ascending({g \in gids : HighBase(g) = h})
        level2(h) ==
            FlattenSeq([i \in 1..Len(mids(h)) |->
                EncodeGroup(MidOf(mids(h)[i]), EncodeSmallGroup(R, mids(h)[i]))])
    IN  FlattenSeq([i \in 1..Len(highs) |->
            EncodeGroup(HighOf(highs[i]), level2(highs[i]))])

DocumentFrequency(R) == Cardinality(IdsOf(R))
MaxPositions_OfLastId(R) ==
    Len(PositionsOf(RecordsOf(R, Max(IdsOf(R)))))
MaxPositions(R) == Max({0} \cup {Len(PositionsOf(RecordsOf(R, id))) : id \in IdsOf(R)})

\* What the builder writes to term_data for one term: the length, the
\* header, the groups.  The index keeps the offset of the header.
TermBlock(R) ==
    LET body == CompressGroups(R)
    IN  U32(Len(body) + HeaderSize)
        \o U32(MaxPositions(R)) \o U32(DocumentFrequency(R)) \o body

\* term_data: one block a term, and where the header of term k is in it.
TermFile(ix)    == FlattenSeq([k \in 1..Len(ix) |-> TermBlock(ix[k])])
HeaderAt_LengthSkipped(ix, k) == Len(TermFile(SubSeq(ix, 1, k - 1))) + 1
HeaderAt(ix, k) == Len(TermFile(SubSeq(ix, 1, k - 1))) + 4 + 1

(***************************************************************************)
(* advance_id: decode one posting at t.p.  t is the cursor of TermCursor.  *)
(* The value is assigned only when the posting stores one.                 *)
(***************************************************************************)
AdvanceId(m, t) ==
    LET control == U16At(m, t.p)
        flags   == control % IdShift
        value   == IF ~HasFlag(flags, POS_PRESENT)
                   THEN DecodeSingleValue(m, flags, t.p + 2)
                   ELSE IF HasFlag(flags, VALUE_PRESENT)
                   THEN DecodePositionValue(m, t.p + 2)
                   ELSE [value |-> t.value, next |-> t.p + 2]
        pos     == IF HasFlag(flags, POS_PRESENT)
                   THEN DecodeTermPositions(m, flags, value.next)
                   ELSE [base |-> t.first_base, start |-> value.next,
                         end |-> value.next]
    IN  [t EXCEPT !.id = control \div IdShift + t.gid,
                  !.value = value.value,
                  !.first_base = pos.base,
                  !.wp = pos.start,
                  !.p = pos.end]
(***************************************************************************)
(* What the format can hold and the reader reads back.  The theorems about *)
(* cursors and indexes are about these.                                    *)
(***************************************************************************)
\* The records of one term.
PostingRecord == [id : 0..(IdLimit - 1), position : Nat, value : Nat]

\* A number of 32 bits.
Fits32(v) == v \div 65536 < 65536

\* decode_high_bit32 reads back the distances and the length of ps: both are
\* below 2^28.
NearPositions(ps) ==
    /\ \A i \in 1..Len(ps) :
          ps[i] - (IF i = 1 THEN FirstBase(ps[1]) ELSE ps[i - 1]) < 268435456
    /\ Len(EncodeTermPositions(ps)) < 268435456

\* The values, positions and bytes of a term are in the widths of the format.
InWidths(R) ==
    /\ \A r \in R : Fits32(r.value)
    /\ \A id \in IdsOf(R) : NearPositions(PositionsOf(RecordsOf(R, id)))
    /\ Fits32(Len(CompressGroups(R)) + HeaderSize)

\* A term as the sorted and reduced records give it.
ReadableTerm(R) ==
    /\ R # {} /\ IsFiniteSet(R)
    /\ \A r, s \in R : r.id = s.id /\ r.position = s.position => r = s
    /\ InWidths(R)

\* The 8 bytes that etp takes in too many read as empty groups.
EmptyBehind(ix, tail) ==
    \A k \in 1..Len(ix) :
        LET end == HeaderAt(ix, k) - 4 + Len(TermBlock(ix[k]))
        IN  \A i \in {1, 3, 5, 7} : At(TermFile(ix) \o tail, end + i) = 0

\* An index whose terms the cursor reads back, with tail behind it in memory.
ReadableIndex(ix, tail) ==
    /\ ix \in Seq(SUBSET PostingRecord) /\ tail \in Seq(Nat)
    /\ \A k \in 1..Len(ix) : ReadableTerm(ix[k])
    /\ EmptyBehind(ix, tail)
=============================================================================
