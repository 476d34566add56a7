------------------------ MODULE PostingFormatProofs ------------------------
(***************************************************************************)
(* What the writer puts into a posting list the reader takes out again,    *)
(* for every value the format is meant to hold: the codecs of              *)
(* sil_search_builder.c against those of sil_term_impl.h and               *)
(* sil_search_image.c, one by one, then a whole posting, and then where    *)
(* the postings and groups of a term, and the terms of a file, lie.        *)
(*                                                                         *)
(* In the second half the functions of the term cursor (TermImpl) walk     *)
(* over such a term: each moves the cursor from one of its postings to     *)
(* another, or finds that there is none.                                   *)
(*                                                                         *)
(* Each theorem speaks of bytes that lie anywhere in a memory m.  They are *)
(* facts about operators, not about behaviours: TermCursorProofs and       *)
(* SearchIndexProofs put them together for the calls of a client.          *)
(***************************************************************************)
EXTENDS TermImpl, DataInduction

Byte == 0..255

\* A number of 32 bits.
IsWord(v) == v < 4294967296

\* The bytes s lie in m from p on.
StoredAt(m, p, s) == /\ p \in Nat \ {0}
                     /\ \A i \in 1..Len(s) : At(m, p + i - 1) = s[i]

-----------------------------------------------------------------------------
(***************************************************************************)
(* Arithmetic of bytes.  The provers need division taken one step at a     *)
(* time.                                                                   *)
(***************************************************************************)
\* A number is its lowest byte and the rest.
LEMMA LowByte ==
    ASSUME NEW v \in Nat
    PROVE  /\ v % 256 \in Byte /\ v \div 256 \in Nat
           /\ v = (v % 256) + 256 * (v \div 256)
<1>1. v % 256 \in Byte BY SMT DEF Byte
<1>2. v \div 256 \in Nat BY SMT
<1>3. v = (v % 256) + 256 * (v \div 256) BY SMT
<1> QED BY <1>1, <1>2, <1>3

\* Dividing by 256 twice is dividing by 2^16.
LEMMA Shift16 ==
    ASSUME NEW v \in Nat
    PROVE  v \div 65536 = (v \div 256) \div 256
BY SMT

\* Dividing by 256 once more is dividing by 2^24.
LEMMA Shift24 ==
    ASSUME NEW v \in Nat
    PROVE  v \div 16777216 = (v \div 65536) \div 256
BY SMT

\* A byte is not changed by masking it to 8 bits.
LEMMA ByteIsItself ==
    ASSUME NEW v \in Byte
    PROVE  v % 256 = v
BY SMT DEF Byte

\* What is left above the lowest byte has 8 bits fewer.
LEMMA TopByte ==
    ASSUME NEW v \in Nat, NEW k \in Nat, v < 256 * k
    PROVE  v \div 256 < k
BY SMT
-----------------------------------------------------------------------------
(***************************************************************************)
(* Machine integers.                                                       *)
(***************************************************************************)
\* A 16-bit field is read back as it was written.
LEMMA U16Back ==
    ASSUME NEW v \in Nat, v < 65536, NEW m, NEW p, StoredAt(m, p, U16(v))
    PROVE  U16At(m, p) = v
<1>1. U16(v) = <<v % 256, (v \div 256) % 256>> BY DEF U16
<1>2. At(m, p) = v % 256 /\ At(m, p + 1) = (v \div 256) % 256
  <2>1. p \in Nat /\ Len(U16(v)) = 2 BY <1>1 DEF StoredAt
  <2>2. At(m, p + 1 - 1) = U16(v)[1] /\ At(m, p + 2 - 1) = U16(v)[2]
    BY <2>1 DEF StoredAt
  <2>3. p + 1 - 1 = p /\ p + 2 - 1 = p + 1 BY <2>1
  <2> QED BY <1>1, <2>2, <2>3
<1>3. v \div 256 \in Byte
  <2>1. v < 256 * 256 OBVIOUS
  <2>2. v \div 256 < 256 BY <2>1, TopByte
  <2> QED BY <2>2, LowByte DEF Byte
<1>4. (v \div 256) % 256 = v \div 256 BY <1>3, ByteIsItself
<1> QED BY <1>2, <1>4, LowByte DEF U16At

\* Four bytes make a number in two halves as they do in a chain.
LEMMA FourBytes ==
    ASSUME NEW v \in Nat, NEW b \in Nat, NEW c \in Nat, NEW d \in Nat,
           NEW x \in Nat, NEW y \in Nat, NEW z \in Nat,
           v = x + 256 * b, b = y + 256 * c, c = z + 256 * d
    PROVE  (x + 256 * y) + 65536 * (z + 256 * d) = v
BY SMT

\* A 32-bit field is read back as it was written.
LEMMA U32Back ==
    ASSUME NEW v \in Nat, IsWord(v), NEW m, NEW p, StoredAt(m, p, U32(v))
    PROVE  U32At(m, p) = v
<1> DEFINE b == v \div 256
           c == v \div 65536
           d == v \div 16777216
<1>1. U32(v) = <<v % 256, b % 256, c % 256, d % 256>> BY SMT DEF U32
<1>2. /\ At(m, p) = v % 256 /\ At(m, p + 1) = b % 256
      /\ At(m, p + 2) = c % 256 /\ At(m, p + 3) = d % 256
  <2>1. p \in Nat /\ Len(U32(v)) = 4 BY SMT, <1>1 DEF StoredAt
  <2>2. /\ At(m, p + 1 - 1) = U32(v)[1] /\ At(m, p + 2 - 1) = U32(v)[2]
        /\ At(m, p + 3 - 1) = U32(v)[3] /\ At(m, p + 4 - 1) = U32(v)[4]
    BY SMT, <2>1 DEF StoredAt
  <2>3. p + 1 - 1 = p /\ p + 2 - 1 = p + 1 /\ p + 3 - 1 = p + 2 /\ p + 4 - 1 = p + 3
    BY SMT, <2>1
  <2> QED BY SMT, <1>1, <2>2, <2>3
<1>3. b \in Nat /\ v = (v % 256) + 256 * b BY SMT, LowByte
<1>4. c \in Nat /\ b = (b % 256) + 256 * c BY SMT, <1>3, LowByte, Shift16
<1>5. d \in Nat /\ c = (c % 256) + 256 * d BY SMT, <1>4, LowByte, Shift24
<1>6. d \in Byte
  <2>1. v < 256 * 16777216 BY SMT DEF IsWord
  <2>2. b < 16777216 BY SMT, <2>1, TopByte
  <2>3. b < 256 * 65536 BY SMT, <2>2, <1>3
  <2>4. c < 65536 BY SMT, <1>3, <2>3, TopByte, Shift16
  <2>5. c < 256 * 256 BY SMT, <2>4, <1>4
  <2>6. d < 256 BY SMT, <1>4, <2>5, TopByte, Shift24
  <2> QED BY SMT, <1>5, <2>6 DEF Byte
<1>7. d % 256 = d BY SMT, <1>6, ByteIsItself
<1>8. v % 256 \in Nat /\ b % 256 \in Nat /\ c % 256 \in Nat
  BY SMT, <1>3, <1>4, LowByte DEF Byte
<1>9. (p + 2) + 1 = p + 3 BY SMT DEF StoredAt
<1>10. U16At(m, p) = (v % 256) + 256 * (b % 256)
  BY SMT, <1>2 DEF U16At
<1>11. U16At(m, p + 2) = (c % 256) + 256 * d
  BY SMT, <1>2, <1>7, <1>9 DEF U16At
<1>12. U32At(m, p) = U16At(m, p) + 65536 * U16At(m, p + 2)
  BY SMT DEF U32At
<1> HIDE DEF b, c, d
<1>13. ((v % 256) + 256 * (b % 256)) + 65536 * ((c % 256) + 256 * d) = v
  BY SMT, <1>3, <1>4, <1>5, <1>8, FourBytes
<1> QED BY SMT, <1>10, <1>11, <1>12, <1>13

\* A byte in front makes a sequence one longer.
LEMMA ConsLen ==
    ASSUME NEW a \in Int, NEW s \in Seq(Int)
    PROVE  <<a>> \o s \in Seq(Int) /\ Len(<<a>> \o s) = Len(s) + 1
BY SMT

\* Bytes stored one after the other.
LEMMA StoredHead ==
    ASSUME NEW m, NEW p, NEW a, NEW s, s \in Seq(Int), StoredAt(m, p, <<a>> \o s),
           a \in Int
    PROVE  /\ At(m, p) = a /\ StoredAt(m, p + 1, s)
<1> DEFINE w == <<a>> \o s
<1>1. Len(w) = Len(s) + 1 /\ w[1] = a /\ \A i \in 1..Len(s) : w[i + 1] = s[i]
  BY SMT
<1>2. p \in Nat \ {0} /\ \A i \in 1..Len(w) : At(m, p + i - 1) = w[i]
  BY DEF StoredAt
<1>3. Len(s) \in Nat
  BY SMT
<1> HIDE DEF w
<1>4. At(m, p) = a
  <2>1. 1 \in 1..Len(w) BY SMT, <1>1, <1>3
  <2>2. At(m, p + 1 - 1) = w[1] BY <1>2, <2>1
  <2>3. p + 1 - 1 = p BY SMT, <1>2
  <2> QED BY <1>1, <2>2, <2>3
<1>5. ASSUME NEW i \in 1..Len(s) PROVE At(m, (p + 1) + i - 1) = s[i]
  <2>1. i + 1 \in 1..Len(w) BY SMT, <1>1, <1>3
  <2>2. At(m, p + (i + 1) - 1) = w[i + 1] BY <1>2, <2>1
  <2>3. p + (i + 1) - 1 = (p + 1) + i - 1 BY SMT, <1>2, <1>3
  <2> QED BY <1>1, <2>2, <2>3
<1>6. p + 1 \in Nat \ {0} BY SMT, <1>2
<1>7. StoredAt(m, p + 1, s) BY <1>5, <1>6 DEF StoredAt
<1> QED BY <1>4, <1>7

\* Machine integers are bytes, and as many as their width.
LEMMA U16Bytes ==
    ASSUME NEW v \in Nat
    PROVE  U16(v) \in Seq(Int) /\ Len(U16(v)) = 2
<1>1. v % 256 \in Int /\ v \div 256 \in Nat BY SMT
<1>2. (v \div 256) % 256 \in Int BY SMT, <1>1
<1> QED BY <1>1, <1>2 DEF U16

\* A 32-bit field is four bytes.
LEMMA U32Bytes ==
    ASSUME NEW v \in Nat
    PROVE  U32(v) \in Seq(Int) /\ Len(U32(v)) = 4
<1>1. /\ v % 256 \in Int /\ v \div 256 \in Nat /\ v \div 65536 \in Nat
      /\ v \div 16777216 \in Nat
  BY SMT
<1>2. /\ (v \div 256) % 256 \in Int /\ (v \div 65536) % 256 \in Int
      /\ (v \div 16777216) % 256 \in Int
  BY SMT, <1>1
<1> QED BY SMT, <1>1, <1>2 DEF U32

-----------------------------------------------------------------------------
(***************************************************************************)
(* The codecs.                                                             *)
(***************************************************************************)
\* A value that stands alone in its posting is read back, for all 32 bits,
\* and the reader goes on behind the last byte of it.
THEOREM SingleValueRoundTrip ==
    ASSUME NEW v \in Nat, IsWord(v), NEW m, NEW p,
           StoredAt(m, p, EncodeSingleValue(v).payload)
    PROVE  DecodeSingleValue(m, EncodeSingleValue(v).flags, p) =
             [value |-> v, next |-> p + Len(EncodeSingleValue(v).payload)]
<1>1. CASE v < 29
  <2>1. EncodeSingleValue(v).flags = v /\ EncodeSingleValue(v).payload = <<>>
    BY <1>1 DEF EncodeSingleValue, VALUE_1BYTE
  <2>2. p + Len(<<>>) = p BY SMT DEF StoredAt
  <2> QED BY <1>1, <2>1, <2>2 DEF DecodeSingleValue, VALUE_1BYTE
<1>2. CASE 29 <= v /\ v < 256
  <2>1. EncodeSingleValue(v).flags = 29 /\ EncodeSingleValue(v).payload = <<v>>
    BY SMT, <1>2 DEF EncodeSingleValue, VALUE_1BYTE
  <2>2. At(m, p) = v
    <3>1. p \in Nat /\ At(m, p + 1 - 1) = v BY SMT, <2>1 DEF StoredAt
    <3> QED BY SMT, <3>1
  <2>3. DecodeSingleValue(m, 29, p) = [value |-> At(m, p), next |-> p + 1]
    BY SMT DEF DecodeSingleValue, VALUE_1BYTE
  <2>4. Len(<<v>>) = 1 BY SMT
  <2> QED BY <2>1, <2>2, <2>3, <2>4
<1>3. CASE 256 <= v /\ v < 65536
  <2>1. EncodeSingleValue(v).flags = 30 /\ EncodeSingleValue(v).payload = U16(v)
    BY SMT, <1>3 DEF EncodeSingleValue, VALUE_1BYTE, VALUE_2BYTE
  <2>2. U16At(m, p) = v BY SMT, <1>3, <2>1, U16Back
  <2>3. Len(U16(v)) = 2 BY SMT, U16Bytes
  <2>4. DecodeSingleValue(m, 30, p) = [value |-> U16At(m, p), next |-> p + 2]
    BY SMT DEF DecodeSingleValue, VALUE_1BYTE, VALUE_2BYTE
  <2> QED BY <2>1, <2>2, <2>3, <2>4
<1>4. CASE 65536 <= v
  <2>1. EncodeSingleValue(v).flags = 31 /\ EncodeSingleValue(v).payload = U32(v)
    BY SMT, <1>4 DEF EncodeSingleValue, VALUE_1BYTE, VALUE_4BYTE
  <2>2. U32At(m, p) = v BY SMT, <2>1, U32Back
  <2>3. Len(U32(v)) = 4 BY SMT, U32Bytes
  <2>4. DecodeSingleValue(m, 31, p) = [value |-> U32At(m, p), next |-> p + 4]
    BY SMT DEF DecodeSingleValue, VALUE_1BYTE, VALUE_2BYTE
  <2> QED BY <2>1, <2>2, <2>3, <2>4
<1> QED BY SMT, <1>1, <1>2, <1>3, <1>4

\* A value in front of positions is read back, for all 32 bits, although the
\* two-byte form is taken for the value 254 only.
THEOREM PositionValueRoundTrip ==
    ASSUME NEW v \in Nat, IsWord(v), NEW m, NEW p,
           StoredAt(m, p, EncodePositionValue(v))
    PROVE  DecodePositionValue(m, p) =
             [value |-> v, next |-> p + Len(EncodePositionValue(v))]
<1>1. CASE v < 254
  <2>1. EncodePositionValue(v) = <<v>>
    BY SMT, <1>1 DEF EncodePositionValue, POS_VALUE_2BYTE
  <2>2. At(m, p) = v
    <3>1. p \in Nat /\ At(m, p + 1 - 1) = v BY SMT, <2>1 DEF StoredAt
    <3> QED BY SMT, <3>1
  <2>3. DecodePositionValue(m, p) = [value |-> v, next |-> p + 1]
    BY SMT, <1>1, <2>2 DEF DecodePositionValue, POS_VALUE_2BYTE
  <2>4. Len(<<v>>) = 1 BY SMT
  <2> QED BY <2>1, <2>3, <2>4
<1>2. CASE v = 254
  <2>1. EncodePositionValue(v) = <<254>> \o U16(v)
    BY SMT, <1>2 DEF EncodePositionValue, POS_VALUE_2BYTE, POS_VALUE_4BYTE
  <2>2. U16(v) \in Seq(Int) /\ Len(U16(v)) = 2 BY SMT, U16Bytes
  <2>3. At(m, p) = 254 /\ StoredAt(m, p + 1, U16(v)) BY SMT, <2>1, <2>2, StoredHead
  <2>4. U16At(m, p + 1) = v BY SMT, <1>2, <2>3, U16Back
  <2>5. Len(EncodePositionValue(v)) = 3
    <3>1. 254 \in Int BY SMT
    <3>2. Len(<<254>> \o U16(v)) = Len(U16(v)) + 1
      BY Zenon, <2>2, <3>1, ConsLen
    <3> QED BY SMT, <2>1, <2>2, <3>2
  <2>6. DecodePositionValue(m, p) = [value |-> U16At(m, p + 1), next |-> p + 3]
    BY SMT, <2>3 DEF DecodePositionValue, POS_VALUE_2BYTE, POS_VALUE_4BYTE
  <2> QED BY <2>4, <2>5, <2>6
<1>3. CASE 254 < v
  <2>1. EncodePositionValue(v) = <<255>> \o U32(v)
    BY SMT, <1>3 DEF EncodePositionValue, POS_VALUE_2BYTE, POS_VALUE_4BYTE
  <2>2. U32(v) \in Seq(Int) /\ Len(U32(v)) = 4 BY SMT, U32Bytes
  <2>3. At(m, p) = 255 /\ StoredAt(m, p + 1, U32(v)) BY SMT, <2>1, <2>2, StoredHead
  <2>4. U32At(m, p + 1) = v BY SMT, <2>3, U32Back
  <2>5. Len(EncodePositionValue(v)) = 5
    <3>1. 255 \in Int BY SMT
    <3>2. Len(<<255>> \o U32(v)) = Len(U32(v)) + 1
      BY Zenon, <2>2, <3>1, ConsLen
    <3> QED BY SMT, <2>1, <2>2, <3>2
  <2>6. DecodePositionValue(m, p) = [value |-> U32At(m, p + 1), next |-> p + 5]
    BY SMT, <2>3 DEF DecodePositionValue, POS_VALUE_2BYTE, POS_VALUE_4BYTE
  <2> QED BY <2>4, <2>5, <2>6
<1> QED BY SMT, <1>1, <1>2, <1>3
-----------------------------------------------------------------------------
(***************************************************************************)
(* Variable-length integers.                                               *)
(***************************************************************************)
\* A number is its lowest 7 bits and the rest.
LEMMA LowDigit ==
    ASSUME NEW v \in Nat
    PROVE  /\ v % 128 \in 0..127 /\ v \div 128 \in Nat
           /\ v = (v % 128) + 128 * (v \div 128)
<1>1. v % 128 \in 0..127 BY SMT
<1>2. v \div 128 \in Nat BY SMT
<1>3. v = (v % 128) + 128 * (v \div 128) BY SMT
<1> QED BY <1>1, <1>2, <1>3

\* Dividing by 128 twice is dividing by 2^14.
LEMMA Shift14 ==
    ASSUME NEW v \in Nat
    PROVE  v \div 16384 = (v \div 128) \div 128
BY SMT

\* Dividing by 128 once more is dividing by 2^21.
LEMMA Shift21 ==
    ASSUME NEW v \in Nat
    PROVE  v \div 2097152 = (v \div 16384) \div 128
BY SMT

\* The weight of the first digit is 1.
LEMMA Shift0 ==
    ASSUME NEW v \in Nat
    PROVE  v \div 1 = v
BY SMT

\* When nothing is left above a digit, it is the number itself.
LEMMA TopDigit ==
    ASSUME NEW v \in Nat, v < 128
    PROVE  v % 128 = v
BY SMT

\* A digit with the continuation bit set.
LEMMA MarkedDigit ==
    ASSUME NEW d \in 0..127
    PROVE  (d + 128) % 128 = d /\ ~(d + 128 < 128) /\ d % 128 = d /\ d < 128
<1>1. (d + 128) % 128 = d BY SMT
<1>2. d % 128 = d BY SMT
<1> QED BY SMT, <1>1, <1>2

\* A chain of four digits, taken apart.
LEMMA DigitChain ==
    ASSUME NEW v \in Nat, NEW b \in Nat, NEW c \in Nat, NEW d \in Nat,
           NEW x \in Nat, NEW y \in Nat, NEW z \in Nat,
           v = x + 128 * b, b = y + 128 * c, c = z + 128 * d
    PROVE  v = x + y * 128 + z * 16384 + d * 2097152
BY SMT

\* The i-th group of 7 bits of v, lowest first.
Digit(v, i) == (v \div Weight[i]) % 128

\* A number below 2^7, 2^14, 2^21, 2^28 is made up of its 1, 2, 3, 4 digits.
LEMMA Digits ==
    ASSUME NEW v \in Nat
    PROVE  /\ \A i \in 1..4 : Digit(v, i) \in 0..127
           /\ v < 128 => v = Digit(v, 1)
           /\ v < 16384 => v = Digit(v, 1) + Digit(v, 2) * 128
           /\ v < 2097152 =>
                 v = Digit(v, 1) + Digit(v, 2) * 128 + Digit(v, 3) * 16384
           /\ v < 268435456 =>
                 v = Digit(v, 1) + Digit(v, 2) * 128 + Digit(v, 3) * 16384
                     + Digit(v, 4) * 2097152
<1> DEFINE b == v \div 128
           c == v \div 16384
           d == v \div 2097152
<1>1. v % 128 \in 0..127 /\ b \in Nat /\ v = (v % 128) + 128 * b
  BY SMT, LowDigit
<1>2. b % 128 \in 0..127 /\ c \in Nat /\ b = (b % 128) + 128 * c
  BY SMT, <1>1, LowDigit, Shift14
<1>3. c % 128 \in 0..127 /\ d \in Nat /\ c = (c % 128) + 128 * d
  BY SMT, <1>2, LowDigit, Shift21
<1>4. d % 128 \in 0..127
  BY SMT, <1>3, LowDigit
<1>5. /\ Digit(v, 1) = v % 128 /\ Digit(v, 2) = b % 128
      /\ Digit(v, 3) = c % 128 /\ Digit(v, 4) = d % 128
  <2>1. /\ Weight[1] = 1 /\ Weight[2] = 128 /\ Weight[3] = 16384
        /\ Weight[4] = 2097152
    BY SMT DEF Weight
  <2> QED BY SMT, <2>1, Shift0 DEF Digit
<1>6. \A i \in 1..4 : Digit(v, i) \in 0..127
  BY SMT, <1>1, <1>2, <1>3, <1>4, <1>5
<1>7. v < 128 => v = Digit(v, 1)
  BY SMT, <1>5, TopDigit
<1>8. v < 16384 => b < 128
  BY SMT, <1>1
<1>9. v < 2097152 => c < 128
  BY SMT, <1>1, <1>2
<1>10. v < 268435456 => d < 128
  BY SMT, <1>1, <1>2, <1>3
<1>11. (b < 128 => b % 128 = b) /\ (c < 128 => c % 128 = c)
       /\ (d < 128 => d % 128 = d)
  BY SMT, <1>1, <1>2, <1>3, TopDigit
<1> HIDE DEF b, c, d
<1>12. v < 16384 => v = Digit(v, 1) + Digit(v, 2) * 128
  BY SMT, <1>1, <1>5, <1>8, <1>11
<1>13. v < 2097152 =>
          v = Digit(v, 1) + Digit(v, 2) * 128 + Digit(v, 3) * 16384
  BY SMT, <1>1, <1>2, <1>5, <1>9, <1>11
<1>14. v < 268435456 =>
          v = Digit(v, 1) + Digit(v, 2) * 128 + Digit(v, 3) * 16384
              + Digit(v, 4) * 2097152
  <2> SUFFICES ASSUME v < 268435456
               PROVE  v = Digit(v, 1) + Digit(v, 2) * 128 + Digit(v, 3) * 16384
                          + Digit(v, 4) * 2097152
    BY SMT
  <2>1. d = Digit(v, 4)
    BY SMT, <1>5, <1>10, <1>11
  <2>2. Digit(v, 1) \in Nat /\ Digit(v, 2) \in Nat /\ Digit(v, 3) \in Nat
    BY SMT, <1>1, <1>2, <1>3, <1>5
  <2>3. v = Digit(v, 1) + 128 * b /\ b = Digit(v, 2) + 128 * c
        /\ c = Digit(v, 3) + 128 * d
    BY SMT, <1>1, <1>2, <1>3, <1>5
  <2>4. v = Digit(v, 1) + Digit(v, 2) * 128 + Digit(v, 3) * 16384 + d * 2097152
    BY SMT, <1>1, <1>2, <1>3, <2>2, <2>3, DigitChain
  <2> QED BY SMT, <2>1, <2>4
<1> QED BY SMT, <1>6, <1>7, <1>12, <1>13, <1>14

\* n bytes of m from p on are the digits of v, marked except the last.
DigitsAt(v, m, p, n) ==
    /\ p \in Nat
    /\ \A i \in 1..n : i < n => At(m, p + i - 1) = Digit(v, i) + 128
    /\ At(m, p + n - 1) = Digit(v, n)

\* The bytes of an encoded number are its digits.
LEMMA StoredDigits ==
    ASSUME NEW v \in Nat, NEW m, NEW p, StoredAt(m, p, EncodeHighBit(v))
    PROVE  /\ DigitsAt(v, m, p, HighBitLen(v))
           /\ Len(EncodeHighBit(v)) = HighBitLen(v)
<1> DEFINE n == HighBitLen(v)
<1>0. n \in 1..5 BY SMT DEF HighBitLen
<1> HIDE DEF n
<1>1. EncodeHighBit(v) = [i \in 1..n |-> Digit(v, i) + (IF i < n THEN 128 ELSE 0)]
  BY Zenon DEF EncodeHighBit, Digit, n
<1>2. Len(EncodeHighBit(v)) = n
  BY SMT, <1>0, <1>1
<1>3. p \in Nat /\ \A i \in 1..n : At(m, p + i - 1) = EncodeHighBit(v)[i]
  BY Zenon, <1>2 DEF StoredAt
<1>4. ASSUME NEW i \in 1..n PROVE EncodeHighBit(v)[i] =
          Digit(v, i) + (IF i < n THEN 128 ELSE 0)
  BY Zenon, <1>1
<1>5. ASSUME NEW i \in 1..n, i < n PROVE At(m, p + i - 1) = Digit(v, i) + 128
  BY Zenon, <1>3, <1>4, <1>5
<1>6. At(m, p + n - 1) = Digit(v, n)
  <2>1. ~(n < n) BY SMT, <1>0
  <2>2. n \in 1..n BY SMT, <1>0
  <2>3. EncodeHighBit(v)[n] = Digit(v, n) + 0 BY Zenon, <1>4, <2>1, <2>2
  <2>4. Digit(v, n) \in Int
    <3>1. Weight[n] \in Nat \ {0} BY SMT, <1>0 DEF Weight
    <3>2. v \div Weight[n] \in Int BY SMT, <3>1
    <3> QED BY SMT, <3>2 DEF Digit
  <2>5. Digit(v, n) + 0 = Digit(v, n) BY SMT, <2>4
  <2> QED BY Zenon, <1>3, <2>2, <2>3, <2>5
<1> QED BY Zenon, <1>2, <1>3, <1>5, <1>6 DEF DigitsAt, n

\* The bound of the four-byte form, a name to keep the numeral from provers.
Below28(v) == v < 268435456

\* A posting's positions and lengths are read back when they are below 2^28,
\* and the reader goes on behind the last byte.  Above that the bound is
\* needed: decode_high_bit32 drops three of the five bytes.
THEOREM VarintRoundTrip ==
    ASSUME NEW v \in Nat, Below28(v), NEW m, NEW p,
           StoredAt(m, p, EncodeHighBit(v))
    PROVE  DecodeHighBit(m, p) =
             [value |-> v, next |-> p + Len(EncodeHighBit(v))]
<1> DEFINE b(i) == At(m, p + i - 1)
<1>0. /\ Weight[1] = 1 /\ Weight[2] = 128 /\ Weight[3] = 16384
      /\ Weight[4] = 2097152
  BY SMT DEF Weight
<1>1. CASE v < 128
  <2>1. HighBitLen(v) = 1 BY SMT, <1>1 DEF HighBitLen
  <2>2. DigitsAt(v, m, p, 1) /\ Len(EncodeHighBit(v)) = 1
    BY Zenon, <2>1, StoredDigits
  <2>2a. p \in Nat /\ b(1) = Digit(v, 1)
    BY SMT, <2>2 DEF DigitsAt
  <2>3. b(1) = v BY SMT, <1>1, <2>2a, Digits
  <2>4. DecodeHighBit(m, p) = [value |-> b(1), next |-> p + 1]
    BY SMT, <1>1, <2>3 DEF DecodeHighBit
  <2> QED BY <2>2, <2>3, <2>4
<1>2. CASE 128 <= v /\ v < 16384
  <2>1. HighBitLen(v) = 2 BY SMT, <1>2 DEF HighBitLen
  <2>2. DigitsAt(v, m, p, 2) /\ Len(EncodeHighBit(v)) = 2
    BY Zenon, <2>1, StoredDigits
  <2>2a. /\ p \in Nat
        /\ b(1) = Digit(v, 1) + 128 /\ b(2) = Digit(v, 2)
    BY SMT, <2>2 DEF DigitsAt
  <2>3. /\ Digit(v, 1) \in 0..127 /\ Digit(v, 2) \in 0..127
        /\ v = Digit(v, 1) + Digit(v, 2) * 128
    BY SMT, <1>2, Digits
  <2>4. /\ ~(b(1) < 128) /\ b(1) % 128 = Digit(v, 1)
        /\ b(2) < 128 /\ b(2) % 128 = Digit(v, 2)
    BY SMT, <2>2a, <2>3, MarkedDigit
  <2>5. DecodeHighBit(m, p) =
          [value |-> (b(1) % 128) * Weight[1] + (b(2) % 128) * Weight[2],
           next |-> p + 2]
    BY SMT, <2>4 DEF DecodeHighBit
  <2>6. (b(1) % 128) * Weight[1] + (b(2) % 128) * Weight[2] = v
    BY SMT, <1>0, <2>3, <2>4
  <2> HIDE DEF b
  <2> QED BY Zenon, <2>2, <2>5, <2>6
<1>3. CASE 16384 <= v /\ v < 2097152
  <2>1. HighBitLen(v) = 3 BY SMT, <1>3 DEF HighBitLen
  <2>2. DigitsAt(v, m, p, 3) /\ Len(EncodeHighBit(v)) = 3
    BY Zenon, <2>1, StoredDigits
  <2>2a. /\ p \in Nat
        /\ b(1) = Digit(v, 1) + 128 /\ b(2) = Digit(v, 2) + 128
        /\ b(3) = Digit(v, 3)
    BY SMT, <2>2 DEF DigitsAt
  <2>3. /\ Digit(v, 1) \in 0..127 /\ Digit(v, 2) \in 0..127
        /\ Digit(v, 3) \in 0..127
        /\ v = Digit(v, 1) + Digit(v, 2) * 128 + Digit(v, 3) * 16384
    BY SMT, <1>3, Digits
  <2>4. /\ ~(b(1) < 128) /\ b(1) % 128 = Digit(v, 1)
        /\ ~(b(2) < 128) /\ b(2) % 128 = Digit(v, 2)
        /\ b(3) < 128 /\ b(3) % 128 = Digit(v, 3)
    BY SMT, <2>2a, <2>3, MarkedDigit
  <2>5. DecodeHighBit(m, p) =
          [value |-> (b(1) % 128) * Weight[1] + (b(2) % 128) * Weight[2]
                     + (b(3) % 128) * Weight[3],
           next |-> p + 3]
    BY SMT, <2>4 DEF DecodeHighBit
  <2>6. (b(1) % 128) * Weight[1] + (b(2) % 128) * Weight[2]
        + (b(3) % 128) * Weight[3] = v
    BY SMT, <1>0, <2>3, <2>4
  <2> HIDE DEF b
  <2> QED BY Zenon, <2>2, <2>5, <2>6
<1>4. CASE 2097152 <= v
  <2>1. HighBitLen(v) = 4 BY SMT, <1>4 DEF HighBitLen, Below28
  <2>2. DigitsAt(v, m, p, 4) /\ Len(EncodeHighBit(v)) = 4
    BY Zenon, <2>1, StoredDigits
  <2>2a. /\ p \in Nat
        /\ b(1) = Digit(v, 1) + 128 /\ b(2) = Digit(v, 2) + 128
        /\ b(3) = Digit(v, 3) + 128 /\ b(4) = Digit(v, 4)
    BY SMT, <2>2 DEF DigitsAt
  <2>3. /\ Digit(v, 1) \in 0..127 /\ Digit(v, 2) \in 0..127
        /\ Digit(v, 3) \in 0..127 /\ Digit(v, 4) \in 0..127
        /\ v = Digit(v, 1) + Digit(v, 2) * 128 + Digit(v, 3) * 16384
               + Digit(v, 4) * 2097152
    BY SMT, Digits DEF Below28
  <2>4. /\ ~(b(1) < 128) /\ b(1) % 128 = Digit(v, 1)
        /\ ~(b(2) < 128) /\ b(2) % 128 = Digit(v, 2)
        /\ ~(b(3) < 128) /\ b(3) % 128 = Digit(v, 3)
        /\ b(4) < 128 /\ b(4) % 128 = Digit(v, 4)
    BY SMT, <2>2a, <2>3, MarkedDigit
  <2>5. DecodeHighBit(m, p) =
          [value |-> (b(1) % 128) * Weight[1] + (b(2) % 128) * Weight[2]
                     + (b(3) % 128) * Weight[3] + (b(4) % 128) * Weight[4],
           next |-> p + 4]
    BY SMT, <2>4 DEF DecodeHighBit
  <2>6. (b(1) % 128) * Weight[1] + (b(2) % 128) * Weight[2]
        + (b(3) % 128) * Weight[3] + (b(4) % 128) * Weight[4] = v
    BY SMT, <1>0, <2>3, <2>4
  <2> HIDE DEF b
  <2> QED BY Zenon, <2>2, <2>5, <2>6
<1> QED BY SMT, <1>1, <1>2, <1>3, <1>4

-----------------------------------------------------------------------------
(***************************************************************************)
(* Groups and ids.                                                         *)
(***************************************************************************)
\* The three pieces of a group, each where it is stored.
LEMMA StoredGroup ==
    ASSUME NEW m, NEW p, NEW a \in Int, NEW l \in Seq(Int), NEW body \in Seq(Int),
           StoredAt(m, p, <<a>> \o l \o body)
    PROVE  /\ At(m, p) = a /\ StoredAt(m, p + 1, l)
           /\ StoredAt(m, p + 1 + Len(l), body)
<1> DEFINE w == <<a>> \o l \o body
<1>1. /\ Len(l) \in Nat /\ Len(body) \in Nat
      /\ Len(w) = 1 + Len(l) + Len(body) /\ w[1] = a
      /\ \A i \in 1..Len(l) : w[1 + i] = l[i]
      /\ \A i \in 1..Len(body) : w[1 + Len(l) + i] = body[i]
  BY SMT
<1>2. p \in Nat \ {0} /\ \A i \in 1..Len(w) : At(m, p + i - 1) = w[i]
  BY DEF StoredAt
<1> HIDE DEF w
<1>3. At(m, p) = a
  <2>1. 1 \in 1..Len(w) BY SMT, <1>1
  <2>2. At(m, p + 1 - 1) = w[1] BY <1>2, <2>1
  <2>3. p + 1 - 1 = p BY SMT, <1>2
  <2> QED BY <1>1, <2>2, <2>3
<1>4. StoredAt(m, p + 1, l)
  <2>1. ASSUME NEW i \in 1..Len(l) PROVE At(m, (p + 1) + i - 1) = l[i]
    <3>1. 1 + i \in 1..Len(w) BY SMT, <1>1
    <3>2. At(m, p + (1 + i) - 1) = w[1 + i] BY <3>1, <1>2
    <3>3. p + (1 + i) - 1 = (p + 1) + i - 1 BY SMT, <1>1, <1>2
    <3> QED BY <1>1, <3>2, <3>3
  <2>2. p + 1 \in Nat \ {0} BY SMT, <1>2
  <2> QED BY <2>1, <2>2 DEF StoredAt
<1>5. StoredAt(m, p + 1 + Len(l), body)
  <2>1. ASSUME NEW i \in 1..Len(body)
        PROVE  At(m, (p + 1 + Len(l)) + i - 1) = body[i]
    <3>1. 1 + Len(l) + i \in 1..Len(w) BY SMT, <1>1
    <3>2. At(m, p + (1 + Len(l) + i) - 1) = w[1 + Len(l) + i] BY <3>1, <1>2
    <3>3. p + (1 + Len(l) + i) - 1 = (p + 1 + Len(l)) + i - 1
      BY SMT, <1>1, <1>2
    <3> QED BY <1>1, <3>2, <3>3
  <2>2. p + 1 + Len(l) \in Nat \ {0} BY SMT, <1>1, <1>2
  <2> QED BY <2>1, <2>2 DEF StoredAt
<1> QED BY <1>3, <1>4, <1>5

\* The length of a byte, a sequence and another one.
LEMMA GroupLength ==
    ASSUME NEW a \in Int, NEW l \in Seq(Int), NEW body \in Seq(Int)
    PROVE  Len(<<a>> \o l \o body) = 1 + Len(l) + Len(body)
<1>1. <<a>> \o l \in Seq(Int) /\ Len(<<a>> \o l) = Len(l) + 1
  BY ConsLen
<1> DEFINE h == <<a>> \o l
<1> HIDE DEF h
<1>2. Len(h \o body) = Len(h) + Len(body) /\ Len(h) \in Nat /\ Len(body) \in Nat
  BY <1>1, ConcatFacts DEF h
<1>3. Len(l) \in Nat
  OBVIOUS
<1> QED BY <1>1, <1>2, <1>3 DEF h

\* The bytes of a group that is written are the bytes extract_group_bytes
\* delimits, whichever of the three forms its length takes.
THEOREM GroupRoundTrip ==
    ASSUME NEW gid \in Byte, NEW body \in Seq(Int), IsWord(Len(body)),
           NEW m, NEW p, StoredAt(m, p, EncodeGroup(gid, body))
    PROVE  /\ At(m, p) = gid
           /\ StoredAt(m, ExtractGroup(m, p + 1).start, body)
           /\ ExtractGroup(m, p + 1).end
                = ExtractGroup(m, p + 1).start + Len(body)
           /\ ExtractGroup(m, p + 1).end = p + Len(EncodeGroup(gid, body))
           /\ p + 2 <= ExtractGroup(m, p + 1).start
<1> DEFINE len == Len(body)
<1>0. len \in Nat /\ gid \in Int /\ p \in Nat BY SMT DEF Byte, StoredAt
<1>1. CASE len < 254
  <2> DEFINE l == <<len>>
  <2>1. EncodeGroup(gid, body) = <<gid>> \o l \o body
    <3>1. Len(body) < 254 BY <1>1
    <3> QED BY <3>1 DEF EncodeGroup, GROUP_2BYTE
  <2>2. l \in Seq(Int) /\ Len(l) = 1 /\ l[1] = len
    BY SMT, <1>0
  <2> HIDE DEF l
  <2>3. /\ At(m, p) = gid /\ StoredAt(m, p + 1, l)
        /\ StoredAt(m, p + 1 + 1, body)
    <3>1. StoredAt(m, p, <<gid>> \o l \o body) BY Zenon, <2>1
    <3> QED BY Zenon, <1>0, <2>2, <3>1, StoredGroup
  <2>4. At(m, p + 1) = len
    <3>1. At(m, (p + 1) + 1 - 1) = l[1] BY SMT, <2>2, <2>3 DEF StoredAt
    <3> QED BY SMT, <1>0, <2>2, <3>1
  <2>5. ExtractGroup(m, p + 1) = [start |-> p + 1 + 1, end |-> p + 1 + 1 + len]
    BY SMT, <1>1, <2>4 DEF ExtractGroup, GROUP_2BYTE
  <2>6. Len(<<gid>> \o l \o body) = 1 + Len(l) + len
    BY <1>0, <2>2, GroupLength
  <2>7. /\ ExtractGroup(m, p + 1).start = p + 1 + 1
        /\ ExtractGroup(m, p + 1).end = p + 1 + 1 + len
    BY <2>5
  <2>8. Len(EncodeGroup(gid, body)) = 2 + len
    BY SMT, <1>0, <2>1, <2>2, <2>6
  <2> QED BY <1>0, <2>3, <2>7, <2>8
<1>2. CASE 254 <= len /\ len < 65536
  <2> DEFINE l == <<254>> \o U16(len)
  <2>1. EncodeGroup(gid, body) = <<gid>> \o l \o body
    <3>1. ~(len < 254) /\ len < 65536 BY SMT, <1>0, <1>2
    <3> QED BY <3>1 DEF EncodeGroup, GROUP_2BYTE
  <2>2. U16(len) \in Seq(Int) /\ Len(U16(len)) = 2 BY SMT, <1>0, U16Bytes
  <2>3. 254 \in Int BY SMT
  <2>4. l \in Seq(Int) /\ Len(l) = 3
    <3>1. l \in Seq(Int) /\ Len(l) = Len(U16(len)) + 1
      BY Zenon, <2>2, <2>3, ConsLen
    <3> QED BY SMT, <2>2, <3>1
  <2>5. StoredAt(m, p + 1, l) => At(m, p + 1) = 254 /\ StoredAt(m, p + 1 + 1, U16(len))
    BY Zenon, <2>2, <2>3, StoredHead
  <2> HIDE DEF l
  <2>6. /\ At(m, p) = gid /\ StoredAt(m, p + 1, l)
        /\ StoredAt(m, p + 1 + 3, body)
    <3>1. StoredAt(m, p, <<gid>> \o l \o body) BY Zenon, <2>1
    <3> QED BY Zenon, <1>0, <2>4, <3>1, StoredGroup
  <2>7. U16At(m, p + 1 + 1) = len
    BY SMT, <1>0, <1>2, <2>5, <2>6, U16Back
  <2>8. ExtractGroup(m, p + 1) = [start |-> p + 1 + 3, end |-> p + 1 + 3 + len]
    BY SMT, <2>5, <2>6, <2>7 DEF ExtractGroup, GROUP_2BYTE
  <2>9. Len(<<gid>> \o l \o body) = 1 + Len(l) + len
    BY <1>0, <2>4, GroupLength
  <2>10. /\ ExtractGroup(m, p + 1).start = p + 1 + 3
         /\ ExtractGroup(m, p + 1).end = p + 1 + 3 + len
    BY <2>8
  <2>11. Len(EncodeGroup(gid, body)) = 1 + 3 + len
    BY SMT, <1>0, <2>1, <2>4, <2>9
  <2> QED BY <1>0, <2>6, <2>10, <2>11
<1>3. CASE 65536 <= len
  <2> DEFINE l == <<255>> \o U32(len)
  <2>1. EncodeGroup(gid, body) = <<gid>> \o l \o body
    <3>1. ~(len < 254) /\ ~(len < 65536) BY SMT, <1>0, <1>3
    <3> QED BY <3>1 DEF EncodeGroup, GROUP_2BYTE, GROUP_4BYTE
  <2>2. U32(len) \in Seq(Int) /\ Len(U32(len)) = 4 BY SMT, <1>0, U32Bytes
  <2>3. 255 \in Int BY SMT
  <2>4. l \in Seq(Int) /\ Len(l) = 5
    <3>1. l \in Seq(Int) /\ Len(l) = Len(U32(len)) + 1
      BY Zenon, <2>2, <2>3, ConsLen
    <3> QED BY SMT, <2>2, <3>1
  <2>5. StoredAt(m, p + 1, l) => At(m, p + 1) = 255 /\ StoredAt(m, p + 1 + 1, U32(len))
    BY Zenon, <2>2, <2>3, StoredHead
  <2> HIDE DEF l
  <2>6. /\ At(m, p) = gid /\ StoredAt(m, p + 1, l)
        /\ StoredAt(m, p + 1 + 5, body)
    <3>1. StoredAt(m, p, <<gid>> \o l \o body) BY Zenon, <2>1
    <3> QED BY Zenon, <1>0, <2>4, <3>1, StoredGroup
  <2>7. U32At(m, p + 1 + 1) = len
    BY <1>0, <1>3, <2>5, <2>6, U32Back
  <2>8. ExtractGroup(m, p + 1) = [start |-> p + 1 + 5, end |-> p + 1 + 5 + len]
    BY SMT, <2>5, <2>6, <2>7 DEF ExtractGroup, GROUP_2BYTE
  <2>9. Len(<<gid>> \o l \o body) = 1 + Len(l) + len
    BY <1>0, <2>4, GroupLength
  <2>10. /\ ExtractGroup(m, p + 1).start = p + 1 + 5
         /\ ExtractGroup(m, p + 1).end = p + 1 + 5 + len
    BY <2>8
  <2>11. Len(EncodeGroup(gid, body)) = 1 + 5 + len
    BY SMT, <1>0, <2>1, <2>4, <2>9
  <2> QED BY <1>0, <2>6, <2>10, <2>11
<1> QED BY SMT, <1>0, <1>1, <1>2, <1>3

\* The 10 low bits of an id and the flags share a control word and come apart
\* again, whatever flags the posting has.
THEOREM ControlWordRoundTrip ==
    ASSUME NEW sid \in 0..1023, NEW flags \in 0..63, NEW m, NEW p,
           StoredAt(m, p, U16(IdShift * sid + flags))
    PROVE  /\ U16At(m, p) % IdShift = flags
           /\ U16At(m, p) \div IdShift = sid
<1>1. 64 * sid + flags \in Nat /\ 64 * sid + flags < 65536
  BY SMT
<1>2. U16At(m, p) = 64 * sid + flags
  BY SMT, <1>1, U16Back DEF IdShift
<1>3. (64 * sid + flags) % 64 = flags /\ (64 * sid + flags) \div 64 = sid
  BY SMT
<1> QED BY <1>2, <1>3 DEF IdShift

\* The two group bytes and the 10 bits of the control word make up the id,
\* for every id below 2^26; above, HighOf loses bits.
THEOREM IdLevels ==
    ASSUME NEW id \in Nat, id < IdLimit
    PROVE  /\ HighOf(id) \in Byte /\ MidOf(id) \in Byte
           /\ GroupOf(id) = HighOf(id) * HighSpan + MidOf(id) * SmallSpan
           /\ id = GroupOf(id) + (id % SmallSpan)
<1> DEFINE g == id \div 1024
           h == id \div 262144
<1>1. g \in Nat /\ id % 1024 \in Nat /\ id = 1024 * g + (id % 1024)
  BY SMT
<1>2. h \in Nat /\ h = g \div 256
  BY SMT
<1>3. h \in Byte
  BY SMT, <1>2 DEF IdLimit, Byte
<1>4. g % 256 \in Byte /\ g = (g % 256) + 256 * h
  BY SMT, <1>1, <1>2, LowByte
<1>5. HighOf(id) = h
  BY SMT, <1>3, ByteIsItself DEF HighOf, HighSpan
<1>6. MidOf(id) = g % 256 /\ GroupOf(id) = g * 1024
  BY SMT DEF MidOf, GroupOf, SmallSpan
<1>7. g % 256 \in Nat BY <1>4 DEF Byte
<1> HIDE DEF g, h
<1>8. g * 1024 = h * 262144 + (g % 256) * 1024
  BY SMT, <1>1, <1>2, <1>4, <1>7
<1>9. id = g * 1024 + (id % 1024)
  BY SMT, <1>1
<1> QED BY SMT, <1>3, <1>4, <1>5, <1>6, <1>8, <1>9 DEF HighSpan, SmallSpan
-----------------------------------------------------------------------------
(***************************************************************************)
(* Bytes and cells.  What the writer makes is a sequence of bytes, and     *)
(* what the reader computes from bytes is natural numbers, whatever they   *)
(* are.                                                                    *)
(***************************************************************************)
\* Machine integers are bytes.
LEMMA MachineIntegers ==
    ASSUME NEW v \in Int
    PROVE  U16(v) \in Seq(Nat) /\ U32(v) \in Seq(Nat) /\ Len(U32(v)) = 4
<1>1. v % 256 \in Nat /\ v \div 256 \in Int /\ v \div 65536 \in Int
      /\ v \div 16777216 \in Int
  BY SMT
<1>2. (v \div 256) % 256 \in Nat /\ (v \div 65536) % 256 \in Nat
      /\ (v \div 16777216) % 256 \in Nat
  BY SMT, <1>1
<1> QED BY SMT, <1>1, <1>2 DEF U16, U32

\* So are numbers of variable length.
LEMMA HighBitBytes ==
    ASSUME NEW v \in Int
    PROVE  EncodeHighBit(v) \in Seq(Nat) /\ Len(EncodeHighBit(v)) \in 1..5
<1>1. HighBitLen(v) \in 1..5
  BY SMT DEF HighBitLen
<1>2. ASSUME NEW i \in 1..HighBitLen(v)
      PROVE  ((v \div Weight[i]) % 128) + (IF i < HighBitLen(v) THEN 128 ELSE 0) \in Nat
  <2>1. Weight[i] \in Nat \ {0}
    BY SMT, <1>1 DEF Weight
  <2>2. (v \div Weight[i]) \in Int
    BY SMT, <2>1
  <2>3. (v \div Weight[i]) % 128 \in Nat
    BY SMT, <2>2
  <2> QED BY <2>3
<1> QED BY <1>1, <1>2 DEF EncodeHighBit

\* And the bytes of a value.
LEMMA ValueBytes ==
    ASSUME NEW v \in Nat
    PROVE  /\ EncodeSingleValue(v).flags \in 0..31
           /\ EncodeSingleValue(v).payload \in Seq(Nat)
           /\ EncodePositionValue(v) \in Seq(Nat)
<1>2. U16(v) \in Seq(Nat) /\ U32(v) \in Seq(Nat)
  BY MachineIntegers
<1>1. EncodeSingleValue(v).flags \in 0..31 /\ EncodeSingleValue(v).payload \in Seq(Nat)
  <2>1. EncodeSingleValue(v).flags = IF v < 29 THEN v ELSE IF v < 256 THEN 29
                                     ELSE IF v < 65536 THEN 30 ELSE 31
    BY DEF EncodeSingleValue, VALUE_1BYTE, VALUE_2BYTE, VALUE_4BYTE
  <2>2. EncodeSingleValue(v).payload = IF v < 29 THEN <<>> ELSE IF v < 256 THEN <<v>>
                                       ELSE IF v < 65536 THEN U16(v) ELSE U32(v)
    BY DEF EncodeSingleValue, VALUE_1BYTE, VALUE_2BYTE, VALUE_4BYTE
  <2>3. <<>> \in Seq(Nat) /\ <<v>> \in Seq(Nat)
    OBVIOUS
  <2>4. EncodeSingleValue(v).payload \in Seq(Nat)
    BY <1>2, <2>2, <2>3
  <2>5. EncodeSingleValue(v).flags \in 0..31
    BY <2>1
  <2> QED BY <2>4, <2>5
<1>3. \A s \in Seq(Nat) : <<254>> \o s \in Seq(Nat) /\ <<255>> \o s \in Seq(Nat)
  OBVIOUS
<1>4. EncodePositionValue(v) \in Seq(Nat)
  BY <1>2, <1>3 DEF EncodePositionValue, POS_VALUE_2BYTE, POS_VALUE_4BYTE
<1> QED BY <1>1, <1>4

\* The positions of a posting lie one behind the other.
LEMMA PositionsConcatenated ==
    ASSUME NEW ps
    PROVE  EncodeTermPositions(ps) = Concatenated([i \in 1..Len(ps) |->
              EncodeHighBit(ps[i] - (IF i = 1 THEN FirstBase(ps[1]) ELSE ps[i-1]))])
BY DEF EncodeTermPositions, Concatenated

\* And those of positions, whatever their order.
LEMMA PositionBytes ==
    ASSUME NEW ps \in Seq(Nat)
    PROVE  EncodeTermPositions(ps) \in Seq(Nat)
<1> DEFINE delta(i) == ps[i] - (IF i = 1 THEN FirstBase(ps[1]) ELSE ps[i - 1])
           ss       == [i \in 1..Len(ps) |-> EncodeHighBit(delta(i))]
<1>1. ASSUME NEW i \in 1..Len(ps) PROVE EncodeHighBit(delta(i)) \in Seq(Nat)
  <2>1. FirstBase(ps[1]) \in Int
    <3>1. ps[1] \in Nat
      OBVIOUS
    <3>2. (ps[1] \div 128) % 4 \in Nat
      BY SMT, <3>1
    <3> QED BY SMT, <3>2 DEF FirstBase
  <2>2. ps[i] \in Int /\ (i # 1 => ps[i - 1] \in Int)
    OBVIOUS
  <2>3. delta(i) \in Int
    BY <2>1, <2>2
  <2> HIDE DEF delta
  <2> QED BY <2>3, HighBitBytes
<1>2. ss \in Seq(Seq(Nat))
  <2> HIDE DEF delta
  <2> QED BY <1>1
<1>3. Concatenated(ss) \in Seq(Nat)
  <2> HIDE DEF ss
  <2> QED BY <1>2, FlattenLayout DEF Concatenated
<1>4. EncodeTermPositions(ps) = Concatenated(ss)
  BY PositionsConcatenated, Zenon
<1> QED BY <1>3, <1>4

\* A posting is a word of flags and bytes.
LEMMA PostingBytes ==
    ASSUME NEW R, \A r \in R : r.position \in Nat /\ r.value \in Nat,
           NEW recs \in Seq(R), recs # <<>>
    PROVE  EncodePosting(recs).flags \in Nat /\ EncodePosting(recs).payload \in Seq(Nat)
<1> DEFINE ps    == PositionsOf(recs)
           body  == EncodeTermPositions(ps)
           size  == Len(body) - 1
           value == IF ValueFirst(recs) THEN EncodePositionValue(recs[1].value) ELSE <<>>
           long  == IF size < 3 THEN <<>> ELSE EncodeHighBit(size)
<1>1. recs[1] \in R /\ recs[1].position \in Nat /\ recs[1].value \in Nat
      /\ Len(recs) \in Nat \ {0}
  OBVIOUS
<1>2. CASE OnlyValue(recs)
  <2>1. EncodePosting(recs) = EncodeSingleValue(recs[1].value)
    BY <1>2 DEF EncodePosting
  <2>2. EncodeSingleValue(recs[1].value).flags \in Nat
        /\ EncodeSingleValue(recs[1].value).payload \in Seq(Nat)
    <3>1. 0..31 \subseteq Nat
      OBVIOUS
    <3> QED BY <1>1, <3>1, ValueBytes
  <2> QED BY <2>1, <2>2
<1>3. CASE ~OnlyValue(recs)
  <2>1. ps \in Seq(Nat) /\ ps # <<>>
    <3> DEFINE q == IF ValueFirst(recs) THEN Tail(recs) ELSE recs
    <3>1. q \in Seq(R) /\ Len(q) \in Nat \ {0}
      BY <1>1, <1>3 DEF OnlyValue, ValueFirst
    <3>2. ps = [i \in 1..Len(q) |-> q[i].position]
      BY <1>3 DEF PositionsOf
    <3> HIDE DEF q, ps
    <3>3. \A i \in 1..Len(q) : q[i] \in R
      BY <3>1
    <3>4. ps \in Seq(Nat) /\ Len(ps) = Len(q)
      BY <3>1, <3>2, <3>3
    <3> QED BY <3>1, <3>4
  <2>2. body \in Seq(Nat) /\ size \in Int /\ size >= -1
    <3> HIDE DEF ps
    <3> QED BY <2>1, PositionBytes
  <2>3. value \in Seq(Nat) /\ long \in Seq(Nat)
    <3> HIDE DEF size
    <3>1. <<>> \in Seq(Nat)
      OBVIOUS
    <3>2. EncodePositionValue(recs[1].value) \in Seq(Nat)
      BY <1>1, ValueBytes
    <3>3. EncodeHighBit(size) \in Seq(Nat)
      BY <2>2, HighBitBytes
    <3> QED BY <3>1, <3>2, <3>3, Zenon
  <2>4. EncodePosting(recs).payload = value \o long \o body
    BY <1>3 DEF EncodePosting
  <2>5. EncodePosting(recs).payload \in Seq(Nat)
    <3> HIDE DEF value, long, body
    <3> QED BY <2>2, <2>3, <2>4
  <2>6. FirstBase(ps[1]) \div 128 \in Nat
    <3>1. ps[1] \in Nat
      <4> HIDE DEF ps
      <4> QED BY <2>1
    <3> DEFINE x == ps[1]
    <3> HIDE DEF ps, x
    <3>2. (x \div 128) % 4 \in Nat
      BY SMT, <3>1 DEF x
    <3>3. FirstBase(x) \in Nat
      BY SMT, <3>2 DEF FirstBase
    <3>4. FirstBase(x) \div 128 \in Nat
      BY SMT, <3>3
    <3> QED BY <3>4 DEF x
  <2>7. EncodePosting(recs).flags \in Nat
    <3>1. EncodePosting(recs).flags =
            POS_PRESENT + (IF ValueFirst(recs) THEN VALUE_PRESENT ELSE 0)
            + (IF size < 3 THEN 4 * size ELSE 12) + FirstBase(ps[1]) \div 128
      BY <1>3 DEF EncodePosting
    <3> HIDE DEF size, ps
    <3> QED BY <2>2, <2>6, <3>1 DEF POS_PRESENT, VALUE_PRESENT
  <2> QED BY <2>5, <2>7
<1> QED BY <1>2, <1>3
\* What is read from bytes is natural numbers.
LEMMA ReadNat ==
    ASSUME NEW m \in Seq(Nat), NEW p \in Nat
    PROVE  At(m, p) \in Nat /\ U16At(m, p) \in Nat /\ U32At(m, p) \in Nat
<1>1. \A i \in Nat : At(m, i) \in Nat
  BY DEF At
<1>2. \A i \in Nat : U16At(m, i) \in Nat
  <2> HIDE DEF At
  <2> QED BY <1>1 DEF U16At
<1>3. U32At(m, p) \in Nat
  BY <1>2 DEF U32At
<1> QED BY <1>1, <1>2, <1>3

\* A number of variable length takes a byte at least.
LEMMA HighBitNat ==
    ASSUME NEW m \in Seq(Nat), NEW p \in Nat
    PROVE  /\ DecodeHighBit(m, p).value \in Nat
           /\ DecodeHighBit(m, p).next \in Nat /\ p < DecodeHighBit(m, p).next
<1> DEFINE b(i)   == At(m, p + i - 1)
           low(i) == (b(i) % 128) * Weight[i]
<1>1. /\ Weight[1] = 1 /\ Weight[2] = 128 /\ Weight[3] = 16384
      /\ Weight[4] = 2097152 /\ Weight[5] = 268435456
  BY DEF Weight
<1>2. ASSUME NEW i \in 1..5 PROVE b(i) \in Nat /\ b(i) % 128 \in Nat
  <2>1. p + i - 1 \in Nat
    OBVIOUS
  <2>2. b(i) \in Nat
    BY <2>1, ReadNat
  <2> HIDE DEF b
  <2> QED BY <2>2
<1> HIDE DEF b
<1>3. ASSUME NEW x \in Nat, NEW w \in Nat PROVE x * w \in Nat
  OBVIOUS
<1>4. low(1) \in Nat /\ low(2) \in Nat /\ low(3) \in Nat /\ low(4) \in Nat
      /\ b(5) * Weight[5] \in Nat
  <2>1. /\ b(1) % 128 \in Nat /\ b(2) % 128 \in Nat /\ b(3) % 128 \in Nat
        /\ b(4) % 128 \in Nat /\ b(5) \in Nat
    BY <1>2
  <2>2. /\ Weight[1] \in Nat /\ Weight[2] \in Nat /\ Weight[3] \in Nat
        /\ Weight[4] \in Nat /\ Weight[5] \in Nat
    BY <1>1
  <2> QED BY ONLY <1>3, <2>1, <2>2, Zenon
<1>5. \/ DecodeHighBit(m, p) = [value |-> b(1), next |-> p + 1]
      \/ DecodeHighBit(m, p) = [value |-> low(1) + low(2), next |-> p + 2]
      \/ DecodeHighBit(m, p) = [value |-> low(1) + low(2) + low(3), next |-> p + 3]
      \/ DecodeHighBit(m, p) =
            [value |-> low(1) + low(2) + low(3) + low(4), next |-> p + 4]
      \/ DecodeHighBit(m, p) = [value |-> low(1) + b(5) * Weight[5], next |-> p + 5]
  BY DEF DecodeHighBit, b
<1>6. b(1) \in Nat
  BY <1>2
<1> DEFINE r == DecodeHighBit(m, p)
           v == b(5) * Weight[5]
<1> HIDE DEF low, r, v
<1>7. \E x \in Nat, k \in 1..5 : r = [value |-> x, next |-> p + k]
  <2>1. /\ low(1) + low(2) \in Nat /\ low(1) + low(2) + low(3) \in Nat
        /\ low(1) + low(2) + low(3) + low(4) \in Nat /\ low(1) + v \in Nat
    <3>1. ASSUME NEW x \in Nat, NEW y \in Nat PROVE x + y \in Nat
      OBVIOUS
    <3>2. /\ low(1) \in Nat /\ low(2) \in Nat /\ low(3) \in Nat /\ low(4) \in Nat
          /\ v \in Nat
      BY <1>4 DEF v
    <3> QED BY ONLY <3>1, <3>2, Zenon
  <2> QED BY <1>5, <1>6, <2>1 DEF r, v
<1>8. r.value \in Nat /\ r.next \in Nat /\ p < r.next
  BY <1>7
<1> QED BY <1>8 DEF r

\* The value of a posting takes no byte or more.
LEMMA ValueNat ==
    ASSUME NEW m \in Seq(Nat), NEW p \in Nat, NEW flags \in Nat
    PROVE  /\ DecodeSingleValue(m, flags, p).value \in Nat
           /\ DecodeSingleValue(m, flags, p).next \in Nat
           /\ p <= DecodeSingleValue(m, flags, p).next
           /\ DecodePositionValue(m, p).value \in Nat
           /\ DecodePositionValue(m, p).next \in Nat
           /\ p <= DecodePositionValue(m, p).next
<1> USE DEF VALUE_1BYTE, VALUE_2BYTE, POS_VALUE_2BYTE, POS_VALUE_4BYTE
<1>1. /\ At(m, p) \in Nat /\ U16At(m, p) \in Nat /\ U32At(m, p) \in Nat
      /\ U16At(m, p + 1) \in Nat /\ U32At(m, p + 1) \in Nat
  <2>1. p + 1 \in Nat
    OBVIOUS
  <2>2. /\ At(m, p) \in Nat /\ U16At(m, p) \in Nat /\ U32At(m, p) \in Nat
    BY ReadNat, Zenon
  <2>3. U16At(m, p + 1) \in Nat /\ U32At(m, p + 1) \in Nat
    BY <2>1, ReadNat, Zenon
  <2> QED BY <2>2, <2>3
<1>2. \E x \in Nat, k \in 0..4 :
         DecodeSingleValue(m, flags, p) = [value |-> x, next |-> p + k]
  BY <1>1 DEF DecodeSingleValue
<1>3. \E x \in Nat, k \in 1..5 :
         DecodePositionValue(m, p) = [value |-> x, next |-> p + k]
  BY <1>1 DEF DecodePositionValue
<1> QED BY <1>2, <1>3

\* The bytes of positions do not end before they start.
LEMMA PositionsNat ==
    ASSUME NEW m \in Seq(Nat), NEW p \in Nat, NEW flags \in Nat
    PROVE  LET d == DecodeTermPositions(m, flags, p)
           IN  /\ d.base \in Nat /\ d.start \in Nat /\ d.end \in Nat
               /\ p <= d.start /\ d.start < d.end
<1> DEFINE size == (flags \div 4) % 4
           base == (flags % 4) * 128
           long == DecodeHighBit(m, p)
<1>1. size \in Nat /\ base \in Nat
  <2>1. flags \div 4 \in Nat /\ flags % 4 \in Nat
    BY SMT
  <2> QED BY SMT, <2>1
<1>2. long.value \in Nat /\ long.next \in Nat /\ p < long.next
  BY HighBitNat
<1>3. DecodeTermPositions(m, flags, p) =
        IF size < 3 THEN [base |-> base, start |-> p, end |-> p + size + 1]
        ELSE [base |-> base, start |-> long.next, end |-> long.next + long.value + 1]
  BY DEF DecodeTermPositions
<1> HIDE DEF size, base, long
<1> QED BY <1>1, <1>2, <1>3

-----------------------------------------------------------------------------
(***************************************************************************)
(* Postings.                                                               *)
(***************************************************************************)
\* Bytes stored one behind the other.
LEMMA StoredConcat ==
    ASSUME NEW X, NEW s \in Seq(X), NEW u \in Seq(X), NEW m, NEW p,
           StoredAt(m, p, s \o u)
    PROVE  StoredAt(m, p, s) /\ StoredAt(m, p + Len(s), u)
<1>1. /\ Len(s) \in Nat /\ Len(u) \in Nat /\ Len(s \o u) = Len(s) + Len(u)
      /\ \A i \in 1..Len(s) : (s \o u)[i] = s[i]
      /\ \A j \in 1..Len(u) : (s \o u)[Len(s) + j] = u[j]
  BY ConcatFacts
<1> DEFINE w == s \o u
           n == Len(s)
           k == Len(u)
<1>2. /\ p \in Nat \ {0} /\ \A i \in 1..Len(w) : At(m, p + i - 1) = w[i]
  BY DEF StoredAt
<1>3. n \in Nat /\ k \in Nat /\ Len(w) = n + k
      /\ (\A i \in 1..n : w[i] = s[i]) /\ (\A j \in 1..k : w[n + j] = u[j])
  BY <1>1
<1> HIDE DEF w, n, k
<1>4. ASSUME NEW i \in 1..n PROVE At(m, p + i - 1) = s[i]
  BY <1>2, <1>3
<1>5. ASSUME NEW j \in 1..k PROVE At(m, (p + n) + j - 1) = u[j]
  <2>1. n + j \in 1..Len(w) /\ p + (n + j) - 1 = (p + n) + j - 1
    BY <1>2, <1>3
  <2> QED BY <1>2, <1>3, <2>1
<1>6. p + n \in Nat \ {0}
  BY <1>2, <1>3
<1> QED BY <1>2, <1>4, <1>5, <1>6 DEF StoredAt, n, k

\* A sequence that grows in every step.
LEMMA Climbs ==
    ASSUME NEW n \in Nat, NEW off \in [1..(n + 1) -> Nat],
           \A k \in 1..n : off[k] < off[k + 1]
    PROVE  \A i, j \in 1..(n + 1) : i <= j => off[i] + (j - i) <= off[j]
<1> SUFFICES ASSUME NEW i \in 1..(n + 1)
             PROVE  \A j \in 1..(n + 1) : i <= j => off[i] + (j - i) <= off[j]
  OBVIOUS
<1> DEFINE Bad == {j \in 1..(n + 1) : i <= j /\ ~(off[i] + (j - i) <= off[j])}
<1>1. SUFFICES ASSUME NEW j \in Bad PROVE FALSE
  OBVIOUS
<1>2. Bad \in SUBSET Nat
  OBVIOUS
<1> HIDE DEF Bad
<1>3. PICK b \in Bad : \A k \in Bad : b <= k
  BY <1>1, <1>2, MinimumExists
<1>4. b \in 1..(n + 1) /\ i <= b /\ ~(off[i] + (b - i) <= off[b])
  BY <1>3 DEF Bad
<1>5. i # b
  BY <1>4
<1>6. b - 1 \in 1..n /\ b - 1 \in 1..(n + 1) /\ i <= b - 1 /\ (b - 1) + 1 = b
  BY <1>4, <1>5
<1>7. b - 1 \notin Bad
  BY <1>3, <1>6
<1>8. off[i] + ((b - 1) - i) <= off[b - 1] /\ off[b - 1] < off[b]
  BY <1>6, <1>7 DEF Bad
<1>9. off[i] \in Nat /\ off[b] \in Nat /\ off[b - 1] \in Nat
  BY <1>4, <1>6
<1> QED BY <1>4, <1>6, <1>8, <1>9

\* The flags of a posting with positions, and their fields.
Flags(v, s, b) == 32 + 16 * v + 4 * s + b
SizeField(f)   == (f \div 4) % 4
BaseField(f)   == f % 4
\* The fields of a control word are where they were put.
LEMMA FlagFields ==
    ASSUME NEW v \in {0, 1}, NEW s \in 0..3, NEW b \in 0..3
    PROVE  /\ Flags(v, s, b) \in 0..63 /\ HasFlag(Flags(v, s, b), POS_PRESENT)
           /\ HasFlag(Flags(v, s, b), VALUE_PRESENT) <=> v = 1
           /\ SizeField(Flags(v, s, b)) = s /\ BaseField(Flags(v, s, b)) = b
<1> DEFINE f == 32 + 16 * v + 4 * s + b
<1>1. f \in 0..63
  BY SMT
<1>2. f \div 32 = 1 /\ f \div 16 = 2 + v
  BY SMT
<1>3. f \div 4 = 8 + 4 * v + s /\ f % 4 = b
  BY SMT
<1>4. (8 + 4 * v + s) % 4 = s
  BY SMT
<1> HIDE DEF f
<1>5. HasFlag(f, POS_PRESENT) /\ (HasFlag(f, VALUE_PRESENT) <=> v = 1)
  BY SMT, <1>1, <1>2 DEF HasFlag, POS_PRESENT, VALUE_PRESENT
<1>6. Flags(v, s, b) = f
  BY DEF Flags, f
<1>7. SizeField(f) = s /\ BaseField(f) = b
  BY <1>3, <1>4 DEF SizeField, BaseField
<1> QED BY <1>1, <1>5, <1>6, <1>7

\* And those of a posting that is a value alone.
LEMMA NoPositionFlag ==
    ASSUME NEW f \in 0..31
    PROVE  ~HasFlag(f, POS_PRESENT)
<1>1. f \div 32 = 0
  BY SMT
<1> QED BY SMT, <1>1 DEF HasFlag, POS_PRESENT

\* What is stored of position i.
Gap(ps, i) == ps[i] - (IF i = 1 THEN FirstBase(ps[1]) ELSE ps[i - 1])

\* The positions of a posting: in order, and near enough to each other for
\* numbers of four bytes.
Narrow(ps) ==
    /\ ps \in Seq(Nat) /\ ps # <<>>
    /\ \A i, j \in 1..Len(ps) : i < j => ps[i] <= ps[j]
    /\ \A i \in 1..Len(ps) : Below28(Gap(ps, i))
    /\ Below28(Len(EncodeTermPositions(ps)))

\* The records of a posting as a sort leaves them, by position.
RecordsAscend(recs) ==
    /\ recs # <<>> /\ Len(recs) \in Nat /\ recs = [i \in 1..Len(recs) |-> recs[i]]
    /\ \A i \in 1..Len(recs) : /\ recs[i].position \in Nat
                               /\ recs[i].value \in Nat /\ IsWord(recs[i].value)
    /\ \A i, j \in 1..Len(recs) : i < j => recs[i].position <= recs[j].position

\* And when a reducer has kept one for each position.
OneRecordEach(recs) ==
    /\ RecordsAscend(recs)
    /\ \A i, j \in 1..Len(recs) : i < j => recs[i].position < recs[j].position

\* Records the format holds.
NarrowPosting(recs) ==
    RecordsAscend(recs) /\ (~OnlyValue(recs) => Narrow(PositionsOf(recs)))

\* A posting as it lies in a small group.
Posting(sid, recs) ==
    U16(IdShift * sid + EncodePosting(recs).flags) \o EncodePosting(recs).payload

\* Bits 7 and 8 of the first position are a part of it.
LEMMA FirstBaseFacts ==
    ASSUME NEW x \in Nat
    PROVE  /\ FirstBase(x) \in Nat /\ FirstBase(x) <= x
           /\ FirstBase(x) \div 128 \in 0..3
           /\ (FirstBase(x) \div 128) * 128 = FirstBase(x)
<1> DEFINE q == x \div 128
           r == q % 4
<1>1. q \in Nat /\ 128 * q <= x
  BY SMT
<1> HIDE DEF q
<1>2. r \in 0..3 /\ r <= q
  BY SMT, <1>1
<1> HIDE DEF r
<1>3. FirstBase(x) = r * 128
  BY DEF FirstBase, r, q
<1>4. (r * 128) \div 128 = r
  BY SMT, <1>2
<1> QED BY SMT, <1>1, <1>2, <1>3, <1>4

\* Every position takes a byte at least, and their bytes are numbers.
LEMMA PositionsLength ==
    ASSUME NEW ps \in Seq(Nat)
    PROVE  /\ EncodeTermPositions(ps) \in Seq(Nat)
           /\ Len(EncodeTermPositions(ps)) \in Nat
           /\ Len(ps) \in Nat /\ Len(ps) <= Len(EncodeTermPositions(ps))
<1> DEFINE ss == [i \in 1..Len(ps) |-> EncodeHighBit(Gap(ps, i))]
           n  == Len(ps)
<1>1. n \in Nat
  OBVIOUS
<1>2. ASSUME NEW i \in 1..n PROVE EncodeHighBit(Gap(ps, i)) \in Seq(Nat)
                                  /\ Len(EncodeHighBit(Gap(ps, i))) \in 1..5
  <2>1. FirstBase(ps[1]) \in Int
    <3>1. ps[1] \in Nat
      OBVIOUS
    <3>2. FirstBase(ps[1]) \in Nat
      BY <3>1, FirstBaseFacts, Zenon
    <3> QED BY <3>2
  <2>2. ps[i] \in Int /\ (i # 1 => ps[i - 1] \in Int)
    OBVIOUS
  <2>3. Gap(ps, i) \in Int
    BY <2>1, <2>2 DEF Gap
  <2> QED BY <2>3, HighBitBytes
<1>3. ss \in Seq(Seq(Nat)) /\ Len(ss) = n
  <2> HIDE DEF n
  <2> QED BY <1>1, <1>2 DEF n
<1>4. EncodeTermPositions(ps) = Concatenated(ss)
  BY PositionsConcatenated, Zenon DEF Gap
<1>5. \A i \in 1..n : Len(ss[i]) \in 1..5
  BY <1>2
<1> HIDE DEF ss, n
<1>6. PICK off \in [1..(n + 1) -> Nat] :
         /\ off[1] = 0 /\ off[n + 1] = Len(FlattenSeq(ss))
         /\ \A k \in 1..n : off[k + 1] = off[k] + Len(ss[k])
  BY <1>3, FlattenLayout
<1>7. \A k \in 1..n : off[k] < off[k + 1]
  <2>1. ASSUME NEW k \in 1..n PROVE off[k] < off[k + 1]
    <3>1. Len(ss[k]) \in 1..5 /\ off[k + 1] = off[k] + Len(ss[k]) /\ off[k] \in Nat
      BY <1>1, <1>5, <1>6
    <3> DEFINE x == Len(ss[k])
               y == off[k]
    <3>2. x \in 1..5 /\ y \in Nat
      BY <3>1
    <3>3. off[k + 1] = y + x
      BY <3>1
    <3> HIDE DEF x, y
    <3>4. y < y + x
      BY <3>2
    <3> QED BY <3>3, <3>4 DEF y
  <2> QED BY <2>1
<1>8. off[1] + ((n + 1) - 1) <= off[n + 1]
  <2>1. 1 \in 1..(n + 1) /\ n + 1 \in 1..(n + 1) /\ 1 <= n + 1
    BY <1>1
  <2> QED BY <1>1, <1>7, <2>1, Climbs
<1>9. EncodeTermPositions(ps) \in Seq(Nat)
  BY PositionBytes
<1> QED BY <1>1, <1>4, <1>6, <1>8, <1>9 DEF Concatenated, n

\* What a posting with positions is made of.
PostingValue(recs) == IF ValueFirst(recs) THEN EncodePositionValue(recs[1].value) ELSE <<>>
PostingSize(ps)    == LET size == Len(EncodeTermPositions(ps)) - 1
                      IN  IF size < 3 THEN <<>> ELSE EncodeHighBit(size)
PostingFlags(recs, ps) ==
    LET size == Len(EncodeTermPositions(ps)) - 1
    IN  Flags(IF ValueFirst(recs) THEN 1 ELSE 0, IF size < 3 THEN size ELSE 3,
              FirstBase(ps[1]) \div 128)

\* A posting with positions is flags, value, size and positions.
LEMMA PostingParts ==
    ASSUME NEW recs, ~OnlyValue(recs)
    PROVE  LET ps == PositionsOf(recs)
           IN  /\ EncodePosting(recs).flags = PostingFlags(recs, ps)
               /\ EncodePosting(recs).payload =
                     PostingValue(recs) \o PostingSize(ps) \o EncodeTermPositions(ps)
<1> DEFINE ps == PositionsOf(recs)
           size == Len(EncodeTermPositions(ps)) - 1
           b == FirstBase(ps[1]) \div 128
<1>1. EncodePosting(recs).flags = POS_PRESENT
                       + (IF ValueFirst(recs) THEN VALUE_PRESENT ELSE 0)
                       + (IF size < 3 THEN 4 * size ELSE 12) + b
  BY DEF EncodePosting
<1>2. EncodePosting(recs).payload =
         PostingValue(recs) \o PostingSize(ps) \o EncodeTermPositions(ps)
  BY DEF EncodePosting, PostingValue, PostingSize
<1>3. PostingFlags(recs, ps) = 32 + 16 * (IF ValueFirst(recs) THEN 1 ELSE 0)
           + 4 * (IF size < 3 THEN size ELSE 3) + b
  BY DEF PostingFlags, Flags
<1> HIDE DEF ps, size, b
<1>4. EncodePosting(recs).flags = PostingFlags(recs, ps)
  BY <1>1, <1>3 DEF POS_PRESENT, VALUE_PRESENT
<1> QED BY <1>2, <1>4 DEF ps

\* The flags say where the value, the length and the base are.
LEMMA PostingFlagFields ==
    ASSUME NEW recs, NEW ps \in Seq(Nat), ps # <<>>
    PROVE  LET size == Len(EncodeTermPositions(ps)) - 1
               f    == PostingFlags(recs, ps)
           IN  /\ size \in Nat /\ f \in 0..63 /\ HasFlag(f, POS_PRESENT)
               /\ HasFlag(f, VALUE_PRESENT) <=> ValueFirst(recs)
               /\ (f \div 4) % 4 = IF size < 3 THEN size ELSE 3
               /\ (f % 4) * 128 = FirstBase(ps[1])
<1> DEFINE size == Len(EncodeTermPositions(ps)) - 1
           v == IF ValueFirst(recs) THEN 1 ELSE 0
           s == IF size < 3 THEN size ELSE 3
           b == FirstBase(ps[1]) \div 128
           f == PostingFlags(recs, ps)
<1>1. size \in Nat
  BY PositionsLength
<1>2. v \in {0, 1} /\ (v = 1 <=> ValueFirst(recs))
  OBVIOUS
<1>3. b \in 0..3 /\ b * 128 = FirstBase(ps[1])
  <2>1. ps[1] \in Nat
    OBVIOUS
  <2> QED BY <2>1, FirstBaseFacts
<1>4. f = Flags(v, s, b)
  BY DEF PostingFlags
<1>5. s \in 0..3
  <2> HIDE DEF size
  <2> QED BY <1>1
<1> HIDE DEF v, s, b, f
<1>6. /\ f \in 0..63 /\ HasFlag(f, POS_PRESENT)
      /\ HasFlag(f, VALUE_PRESENT) <=> v = 1
      /\ (f \div 4) % 4 = s /\ f % 4 = b
  <2>0. v \in {0, 1} /\ s \in 0..3 /\ b \in 0..3
    BY <1>2, <1>3, <1>5
  <2>1. Flags(v, s, b) \in 0..63 /\ HasFlag(Flags(v, s, b), POS_PRESENT)
    BY ONLY <2>0, FlagFields
  <2>2. HasFlag(Flags(v, s, b), VALUE_PRESENT) <=> v = 1
    BY ONLY <2>0, FlagFields, Zenon
  <2>3. SizeField(Flags(v, s, b)) = s /\ BaseField(Flags(v, s, b)) = b
    BY ONLY <2>0, FlagFields, Zenon
  <2> QED BY <1>4, <2>1, <2>2, <2>3 DEF SizeField, BaseField
<1>7. (HasFlag(f, VALUE_PRESENT) <=> ValueFirst(recs)) /\ (f % 4) * 128 = FirstBase(ps[1])
  BY <1>2, <1>3, <1>6
<1> QED BY <1>1, <1>6, <1>7, SMT DEF s, f

\* The base, the start and the end of the positions come out of the flags and
\* the bytes behind the value.
LEMMA PositionsFound ==
    ASSUME NEW recs, NEW ps, Narrow(ps), NEW m, NEW q,
           StoredAt(m, q, PostingSize(ps) \o EncodeTermPositions(ps))
    PROVE  LET body == EncodeTermPositions(ps)
               at   == q + Len(PostingSize(ps))
           IN  /\ DecodeTermPositions(m, PostingFlags(recs, ps), q) =
                     [base |-> FirstBase(ps[1]), start |-> at, end |-> at + Len(body)]
               /\ StoredAt(m, at, body)
<1> DEFINE body == EncodeTermPositions(ps)
           n    == Len(body)
           f    == PostingFlags(recs, ps)
           l    == PostingSize(ps)
           long == DecodeHighBit(m, q)
<1>1. ps \in Seq(Nat) /\ ps # <<>> /\ Below28(n)
  BY DEF Narrow
<1>2. /\ n - 1 \in Nat
      /\ (f \div 4) % 4 = IF n - 1 < 3 THEN n - 1 ELSE 3
      /\ (f % 4) * 128 = FirstBase(ps[1])
  BY <1>1, PostingFlagFields
<1>2a. n \in Nat
  BY <1>1, PositionsLength
<1>3. body \in Seq(Nat)
  BY <1>1, PositionsLength
<1>4. q \in Nat
  BY DEF StoredAt
<1> HIDE DEF f
<1>5. DecodeTermPositions(m, f, q) =
        IF (f \div 4) % 4 < 3
        THEN [base |-> (f % 4) * 128, start |-> q, end |-> q + ((f \div 4) % 4) + 1]
        ELSE [base |-> (f % 4) * 128, start |-> long.next,
              end |-> long.next + long.value + 1]
  BY DEF DecodeTermPositions
<1>6. l = IF n - 1 < 3 THEN <<>> ELSE EncodeHighBit(n - 1)
  BY DEF PostingSize
<1>6a. StoredAt(m, q, l \o body)
  OBVIOUS
<1> HIDE DEF n, long, body
<1>7. CASE n - 1 < 3
  <2>1. l = <<>> /\ Len(l) = 0
    BY <1>6, <1>7
  <2>2. StoredAt(m, q, body)
    <3>1. <<>> \o body = body
      BY <1>3
    <3> QED BY <1>6a, <2>1, <3>1
  <2>3. DecodeTermPositions(m, f, q) = [base |-> FirstBase(ps[1]), start |-> q, end |-> q + (n - 1) + 1]
    BY <1>2, <1>5, <1>7
  <2>4. q + (n - 1) + 1 = q + n /\ q + 0 = q
    BY <1>2, <1>2a, <1>4
  <2> QED BY <2>1, <2>2, <2>3, <2>4 DEF n, f, body
<1>8. CASE ~(n - 1 < 3)
  <2>1. l = EncodeHighBit(n - 1)
    BY <1>6, <1>8
  <2>2. l \in Seq(Nat) /\ Len(l) \in Nat
    <3>1. n - 1 \in Int
      BY <1>2
    <3> QED BY <2>1, <3>1, HighBitBytes
  <2> HIDE DEF l
  <2>3. StoredAt(m, q, l) /\ StoredAt(m, q + Len(l), body)
    BY <1>3, <1>6a, <2>2, StoredConcat
  <2>4. Below28(n - 1)
    BY <1>1, <1>2, <1>2a DEF Below28
  <2>5. long = [value |-> n - 1, next |-> q + Len(l)]
    BY <1>2, <2>1, <2>3, <2>4, VarintRoundTrip DEF long
  <2>6. DecodeTermPositions(m, f, q) = [base |-> FirstBase(ps[1]), start |-> q + Len(l),
                                        end |-> q + Len(l) + (n - 1) + 1]
    BY <1>2, <1>5, <1>8, <2>5
  <2>7. q + Len(l) + (n - 1) + 1 = q + Len(l) + n
    BY <1>2, <1>2a, <1>4, <2>2
  <2> QED BY <2>3, <2>6, <2>7 DEF n, f, l, body
<1> QED BY <1>7, <1>8

\* The positions of a posting are in its records.
LEMMA PositionsOfRecords ==
    ASSUME NEW recs, OneRecordEach(recs), ~OnlyValue(recs)
    PROVE  /\ PositionsOf(recs) \in Seq(Nat) /\ PositionsOf(recs) # <<>>
           /\ \A i, j \in 1..Len(PositionsOf(recs)) :
                 i < j => PositionsOf(recs)[i] < PositionsOf(recs)[j]
<1> DEFINE n  == Len(recs)
           r(i) == recs[i].position
<1>1. n \in Nat \ {0} /\ \A i \in 1..n : r(i) \in Nat
  BY DEF OneRecordEach, RecordsAscend
<1>2. \A i, j \in 1..n : i < j => r(i) < r(j)
  BY DEF OneRecordEach, RecordsAscend
<1>3. CASE ValueFirst(recs)
  <2>1. n # 1
    BY <1>1, <1>3 DEF OnlyValue, ValueFirst
  <2>2. Len(Tail(recs)) = n - 1 /\ \A i \in 1..(n - 1) : Tail(recs)[i] = recs[i + 1]
    <3>1. recs = [i \in 1..n |-> recs[i]]
      BY DEF OneRecordEach, RecordsAscend
    <3>2. recs \in Seq({recs[i] : i \in 1..n})
      BY <1>1, <3>1
    <3> HIDE DEF n
    <3> QED BY <1>1, <2>1, <3>2 DEF n
  <2>3. PositionsOf(recs) = [i \in 1..(n - 1) |-> r(i + 1)]
    BY <1>3, <2>2 DEF PositionsOf
  <2> DEFINE k == n - 1
  <2>4. k \in Nat \ {0} /\ \A i \in 1..k : i + 1 \in 1..n
    BY <1>1, <2>1
  <2>5. \A i, j \in 1..k : r(i + 1) \in Nat /\ (i < j => r(i + 1) < r(j + 1))
    <3> HIDE DEF n, r, k
    <3>1. ASSUME NEW i \in 1..k, NEW j \in 1..k
          PROVE  r(i + 1) \in Nat /\ (i < j => r(i + 1) < r(j + 1))
      <4>1. i + 1 \in 1..n /\ j + 1 \in 1..n /\ (i < j => i + 1 < j + 1)
        BY <2>4
      <4> QED BY <1>1, <1>2, <4>1
    <3> QED BY <3>1
  <2>6. PositionsOf(recs) = [i \in 1..k |-> r(i + 1)]
    BY <2>3
  <2> HIDE DEF n, r, k
  <2> QED BY <2>4, <2>5, <2>6
<1>4. CASE ~ValueFirst(recs)
  <2>1. PositionsOf(recs) = [i \in 1..n |-> r(i)]
    BY <1>4 DEF PositionsOf
  <2> HIDE DEF n, r
  <2> QED BY <1>1, <1>2, <2>1
<1> QED BY <1>3, <1>4

\* The fields of a control word in memory.
FlagsAt(m, p) == U16At(m, p) % IdShift
SmallIdAt(m, p) == U16At(m, p) \div IdShift

\* The control word gives back the id within the group and the flags.
LEMMA ControlFields ==
    ASSUME NEW sid \in 0..1023, NEW f \in 0..63, NEW m, NEW p,
           StoredAt(m, p, U16(IdShift * sid + f))
    PROVE  FlagsAt(m, p) = f /\ SmallIdAt(m, p) = sid
BY ControlWordRoundTrip DEF FlagsAt, SmallIdAt

\* What advance_id makes of a posting.
Decoding(recs, m, t, u, end) ==
    /\ u.value = IF OnlyValue(recs) \/ ValueFirst(recs) THEN recs[1].value ELSE t.value
    /\ u.first_base \in Nat /\ u.wp \in Nat /\ t.p + 2 <= u.wp /\ u.wp <= end
    /\ OnlyValue(recs) => u.wp = end
    /\ ~OnlyValue(recs) =>
          LET ps == PositionsOf(recs)
          IN  /\ u.first_base = FirstBase(ps[1])
              /\ u.wp + Len(EncodeTermPositions(ps)) = end
              /\ StoredAt(m, u.wp, EncodeTermPositions(ps))

\* The fields advance_id leaves alone, and the two it computes from t.
Advanced(t, u, sid, end) ==
    u = [t EXCEPT !.id = sid + t.gid, !.value = u.value, !.first_base = u.first_base,
                  !.wp = u.wp, !.p = end]

\* Three sequences in a row.
LEMMA Associative ==
    ASSUME NEW X, NEW a \in Seq(X), NEW b \in Seq(X), NEW c \in Seq(X)
    PROVE  (a \o b) \o c = a \o (b \o c) /\ b \o c \in Seq(X)
OBVIOUS

\* The flags and the bytes of any posting.
LEMMA PayloadFacts ==
    ASSUME NEW recs, NarrowPosting(recs)
    PROVE  /\ EncodePosting(recs).flags \in 0..63
           /\ EncodePosting(recs).payload \in Seq(Nat)
           /\ Len(EncodePosting(recs).payload) \in Nat
<1> DEFINE R == {recs[i] : i \in 1..Len(recs)}
<1>1. recs \in Seq(R) /\ recs # <<>>
  <2>1. recs = [i \in 1..Len(recs) |-> recs[i]] /\ Len(recs) \in Nat
    BY DEF NarrowPosting, RecordsAscend
  <2> QED BY <2>1 DEF NarrowPosting, RecordsAscend
<1>2. \A x \in R : x.position \in Nat /\ x.value \in Nat
  BY DEF NarrowPosting, RecordsAscend
<1> HIDE DEF R
<1>3. EncodePosting(recs).payload \in Seq(Nat)
  BY <1>1, <1>2, PostingBytes
<1>4. EncodePosting(recs).flags \in 0..63
  <2>1. CASE OnlyValue(recs)
    <3>1. recs[1].value \in Nat
      BY <1>1, <1>2 DEF NarrowPosting, RecordsAscend
    <3>2. EncodeSingleValue(recs[1].value).flags \in 0..31
      BY <3>1, ValueBytes
    <3> QED BY <2>1, <3>2 DEF EncodePosting
  <2>2. CASE ~OnlyValue(recs)
    <3>1. Narrow(PositionsOf(recs))
      BY <2>2 DEF NarrowPosting
    <3>2. PostingFlags(recs, PositionsOf(recs)) \in 0..63
      BY <3>1, PostingFlagFields DEF Narrow
    <3> QED BY <2>2, <3>2, PostingParts
  <2> QED BY <2>1, <2>2
<1> QED BY <1>3, <1>4

\* A posting is read back as it was written: the id, the value, and where
\* its positions are.
THEOREM PostingReadBack ==
    ASSUME NEW recs, NarrowPosting(recs), NEW sid \in 0..1023, NEW m, NEW t \in Cursor,
           StoredAt(m, t.p, Posting(sid, recs))
    PROVE  LET u   == AdvanceId(m, t)
               end == t.p + Len(Posting(sid, recs))
           IN  Advanced(t, u, sid, end) /\ Decoding(recs, m, t, u, end)
<1> DEFINE c     == EncodePosting(recs)
           f     == c.flags
           pay   == c.payload
           w     == U16(IdShift * sid + f)
           u     == AdvanceId(m, t)
           q     == t.p + 2
           end   == t.p + Len(Posting(sid, recs))
           value == IF ~HasFlag(f, POS_PRESENT)
                    THEN DecodeSingleValue(m, f, q)
                    ELSE IF HasFlag(f, VALUE_PRESENT)
                    THEN DecodePositionValue(m, q)
                    ELSE [value |-> t.value, next |-> q]
           pos   == IF HasFlag(f, POS_PRESENT)
                    THEN DecodeTermPositions(m, f, value.next)
                    ELSE [base |-> t.first_base, start |-> value.next,
                          end |-> value.next]
<1>1. f \in 0..63 /\ pay \in Seq(Nat) /\ Len(pay) \in Nat
  BY PayloadFacts
<1>2. w \in Seq(Nat) /\ Len(w) = 2
  <2> HIDE DEF c, f
  <2>1. IdShift * sid + f \in Nat
    BY <1>1 DEF IdShift
  <2> QED BY <2>1, MachineIntegers, U16Bytes
<1>3. StoredAt(m, t.p, w \o pay) /\ Posting(sid, recs) = w \o pay
  BY DEF Posting
<1> HIDE DEF c, f, pay, w, value
<1>4. StoredAt(m, t.p, w) /\ StoredAt(m, q, pay)
  BY <1>1, <1>2, <1>3, StoredConcat
<1>5. t.p \in Nat /\ q \in Nat /\ end = q + Len(pay)
  <2>1. Len(w \o pay) = 2 + Len(pay)
    <3>1. Len(w \o pay) = Len(w) + Len(pay)
      <4>1. w \in Seq(Nat) /\ pay \in Seq(Nat)
        BY <1>1, <1>2
      <4> QED BY ONLY <4>1, ConcatFacts, Zenon
    <3> QED BY <1>2, <3>1
  <2> QED BY <1>1, <1>3, <1>4, <2>1 DEF StoredAt
<1>6. U16At(m, t.p) % IdShift = f /\ U16At(m, t.p) \div IdShift = sid
  <2>1. StoredAt(m, t.p, U16(IdShift * sid + f)) /\ sid \in 0..1023 /\ f \in 0..63
    BY <1>1, <1>4 DEF w
  <2>2. FlagsAt(m, t.p) = f /\ SmallIdAt(m, t.p) = sid
    BY ONLY <2>1, ControlFields, Zenon
  <2> QED BY <2>2 DEF FlagsAt, SmallIdAt
<1>7a. /\ t = [t EXCEPT !.p = t.p] /\ t.first_base \in Nat
       /\ DOMAIN t = {"id", "value", "gid", "first_base", "wp", "p", "ep", "tp", "etp",
                      "max_term_size", "document_frequency", "positions", "fresh"}
  BY DEF Cursor
<1>7. u = [t EXCEPT !.id = sid + t.gid, !.value = value.value, !.first_base = pos.base,
                    !.wp = pos.start, !.p = pos.end]
  BY <1>6, Zenon DEF AdvanceId, value
<1> HIDE DEF u, pos, end
<1>8. /\ value.value = IF OnlyValue(recs) \/ ValueFirst(recs) THEN recs[1].value ELSE t.value
      /\ pos.base \in Nat /\ pos.start \in Nat /\ q <= pos.start /\ pos.start <= end
      /\ pos.end = end
      /\ OnlyValue(recs) => pos.start = end
      /\ ~OnlyValue(recs) =>
            LET ps == PositionsOf(recs)
            IN  /\ pos.base = FirstBase(ps[1])
                /\ pos.start + Len(EncodeTermPositions(ps)) = end
                /\ StoredAt(m, pos.start, EncodeTermPositions(ps))
  <2>1. CASE OnlyValue(recs)
    <3> DEFINE v == recs[1].value
    <3>1. v \in Nat /\ IsWord(v)
      BY DEF NarrowPosting, RecordsAscend
    <3> HIDE DEF v
    <3>2. f = EncodeSingleValue(v).flags /\ pay = EncodeSingleValue(v).payload
      BY <2>1 DEF EncodePosting, f, pay, c, v
    <3>3. ~HasFlag(f, POS_PRESENT)
      <4>1. f \in 0..31
        BY <3>1, <3>2, ValueBytes
      <4> QED BY <4>1, NoPositionFlag
    <3>4. value = [value |-> v, next |-> q + Len(pay)]
      <4>1. DecodeSingleValue(m, f, q) = [value |-> v, next |-> q + Len(pay)]
        BY <1>4, <3>1, <3>2, SingleValueRoundTrip
      <4> QED BY <3>3, <4>1 DEF value
    <3>5. pos = [base |-> t.first_base, start |-> value.next, end |-> value.next]
      BY <3>3 DEF pos
    <3> QED BY <1>1, <1>5, <1>7a, <2>1, <3>4, <3>5 DEF v
  <2>2. CASE ~OnlyValue(recs)
    <3> DEFINE ps   == PositionsOf(recs)
               body == EncodeTermPositions(ps)
               pv   == PostingValue(recs)
               sz   == PostingSize(ps)
               v    == recs[1].value
    <3>1. Narrow(ps) /\ ps \in Seq(Nat) /\ ps # <<>>
      BY <2>2 DEF NarrowPosting, Narrow
    <3>2. f = PostingFlags(recs, ps) /\ pay = pv \o sz \o body
      BY <2>2, PostingParts DEF f, pay, c
    <3>3. HasFlag(f, POS_PRESENT) /\ (HasFlag(f, VALUE_PRESENT) <=> ValueFirst(recs))
      BY <3>1, <3>2, PostingFlagFields
    <3>4. v \in Nat /\ IsWord(v)
      BY DEF NarrowPosting, RecordsAscend
    <3>5. body \in Seq(Nat) /\ Len(body) \in Nat \ {0}
      <4>1. Len(ps) # 0 /\ Len(ps) \in Nat
        BY <3>1
      <4> QED BY <3>1, <4>1, PositionsLength
    <3>6. pv \in Seq(Nat) /\ sz \in Seq(Nat) /\ Len(pv) \in Nat /\ Len(sz) \in Nat
      <4>1. pv \in Seq(Nat)
        BY <3>4, ValueBytes DEF PostingValue
      <4>2. sz \in Seq(Nat)
        BY <3>5, HighBitBytes DEF PostingSize
      <4> QED BY <4>1, <4>2
    <3> HIDE DEF ps, body, pv, sz, v
    <3>7. pay = pv \o (sz \o body) /\ sz \o body \in Seq(Nat)
      <4>1. (pv \o sz) \o body = pv \o (sz \o body)
        <5>1. pv \in Seq(Nat) /\ sz \in Seq(Nat) /\ body \in Seq(Nat)
          BY <3>5, <3>6
        <5> QED BY ONLY <5>1
      <4>2. sz \o body \in Seq(Nat)
        BY <3>5, <3>6, ConcatFacts
      <4> QED BY <3>2, <4>1, <4>2
    <3>8. StoredAt(m, q, pv) /\ StoredAt(m, q + Len(pv), sz \o body)
      BY <1>4, <3>6, <3>7, StoredConcat
    <3>9. value = [value |-> IF ValueFirst(recs) THEN v ELSE t.value, next |-> q + Len(pv)]
      <4>1. CASE ValueFirst(recs)
        <5>1. pv = EncodePositionValue(v)
          BY <4>1 DEF pv, v, PostingValue
        <5>2. DecodePositionValue(m, q) = [value |-> v, next |-> q + Len(pv)]
          BY <3>4, <3>8, <5>1, PositionValueRoundTrip
        <5> QED BY <3>3, <4>1, <5>2 DEF value
      <4>2. CASE ~ValueFirst(recs)
        <5>1. pv = <<>> /\ Len(pv) = 0
          BY <4>2 DEF pv, PostingValue
        <5> QED BY <1>5, <3>3, <4>2, <5>1 DEF value
      <4> QED BY <4>1, <4>2
    <3> DEFINE at == value.next + Len(sz)
    <3>10. /\ DecodeTermPositions(m, PostingFlags(recs, ps), value.next) =
                 [base |-> FirstBase(ps[1]), start |-> at, end |-> at + Len(body)]
           /\ StoredAt(m, at, body)
      BY <3>1, <3>8, <3>9, PositionsFound DEF sz, body
    <3>11. pos = [base |-> FirstBase(ps[1]), start |-> at, end |-> at + Len(body)]
      BY <3>2, <3>3, <3>10 DEF pos
    <3>12. Len(pay) = Len(pv) + (Len(sz) + Len(body))
      BY <3>5, <3>6, <3>7, ConcatFacts
    <3>13. at + Len(body) = end /\ q <= at /\ at <= end /\ at \in Nat
      <4> DEFINE a == Len(pv)
                 b == Len(sz)
                 d == Len(body)
      <4>1. a \in Nat /\ b \in Nat /\ d \in Nat /\ q \in Nat
        BY <1>5, <3>5, <3>6
      <4>2. at = (q + a) + b /\ end = q + (a + (b + d))
        BY <1>5, <3>9, <3>12
      <4> HIDE DEF a, b, at, d
      <4>3. at + d = end /\ q <= at /\ at <= end /\ at \in Nat
        BY ONLY <4>1, <4>2
      <4> QED BY <4>3 DEF d
    <3>14. FirstBase(ps[1]) \in Nat
      <4>1. ps[1] \in Nat
        BY <3>1
      <4> QED BY <4>1, FirstBaseFacts, Zenon
    <3>15. value.value = IF ValueFirst(recs) THEN v ELSE t.value
      BY <3>9
    <3> HIDE DEF at
    <3> QED BY <2>2, <3>10, <3>11, <3>13, <3>14, <3>15 DEF ps, body, v
  <2> QED BY <2>1, <2>2
<1> QED
  <2>1. /\ u.value = value.value /\ u.first_base = pos.base /\ u.wp = pos.start
    BY <1>7, <1>7a
  <2> QED BY <1>7, <1>8, <2>1 DEF Advanced, Decoding, u, end, q

-----------------------------------------------------------------------------
\* What sil_term_decode_positions makes of the bytes up to end, from each place
\* and base on: a position takes a byte at least.
IsDecoding(m, end, F) ==
    \A p, b \in Nat :
        /\ F[<<p, b>>] \in Seq(Nat)
        /\ Len(F[<<p, b>>]) <= IF p >= end THEN 0 ELSE end - p
        /\ F[<<p, b>>] = IF p >= end THEN <<>>
                         ELSE LET d == DecodeHighBit(m, p)
                              IN  <<b + d.value>> \o F[<<d.next, b + d.value>>]

\* The loop ends, whatever the bytes are.
LEMMA DecodedCalls ==
    ASSUME NEW m \in Seq(Nat), NEW c, c.p \in Nat
    PROVE  \E F : IsDecoding(m, c.p, F) /\ Decoded(m, c) = F[<<c.wp, c.first_base>>]
<1> DEFINE D    == Nat \X Nat
           next(s) == DecodeHighBit(m, s[1])
           mu   == [s \in D |-> IF s[1] >= c.p THEN 0 ELSE c.p - s[1]]
           step == [s \in D |-> <<next(s).next, s[2] + next(s).value>>]
           stop == {s \in D : s[1] >= c.p}
           base == [s \in D |-> <<>>]
           g    == [x \in D \X Seq(Nat) |-> <<x[1][2] + next(x[1]).value>> \o x[2]]
           body(f) == [s \in D |-> IF s[1] >= c.p THEN <<>>
                         ELSE LET d == DecodeHighBit(m, s[1])
                              IN  <<s[2] + d.value>> \o f[<<d.next, s[2] + d.value>>]]
           F    == CHOOSE f : f = body(f)
<1>1. ASSUME NEW s \in D
      PROVE  /\ s[1] \in Nat /\ s[2] \in Nat /\ s = <<s[1], s[2]>>
             /\ next(s).value \in Nat /\ next(s).next \in Nat /\ s[1] < next(s).next
  <2>1. s[1] \in Nat /\ s[2] \in Nat /\ s = <<s[1], s[2]>>
    OBVIOUS
  <2> QED BY <2>1, HighBitNat
<1> HIDE DEF next
<1>2. Descends(D, Seq(Nat), mu, step, stop, base, g)
  <2>1. mu \in [D -> Nat]
    BY <1>1
  <2>2. step \in [D -> D]
    BY <1>1
  <2>3. stop \in SUBSET D /\ base \in [D -> Seq(Nat)]
    OBVIOUS
  <2>4. ASSUME NEW x \in D \X Seq(Nat)
        PROVE  <<x[1][2] + next(x[1]).value>> \o x[2] \in Seq(Nat)
    <3>1. x[1] \in D /\ x[2] \in Seq(Nat)
      OBVIOUS
    <3>2. x[1][2] + next(x[1]).value \in Nat
      BY <1>1, <3>1
    <3> DEFINE y == x[1][2] + next(x[1]).value
    <3> HIDE DEF y
    <3>3. <<y>> \o x[2] \in Seq(Nat)
      BY <3>1, <3>2 DEF y
    <3> QED BY <3>3 DEF y
  <2>5. g \in [D \X Seq(Nat) -> Seq(Nat)]
    BY <2>4
  <2>6. ASSUME NEW s \in D \ stop PROVE mu[step[s]] < mu[s]
    <3>1. step[s] = <<next(s).next, s[2] + next(s).value>> /\ step[s] \in D
      BY <1>1
    <3>2. mu[s] = c.p - s[1] /\ s[1] < c.p
      BY <1>1
    <3>3. mu[step[s]] = IF next(s).next >= c.p THEN 0 ELSE c.p - next(s).next
      BY <3>1
    <3> QED BY <1>1, <3>2, <3>3
  <2> HIDE DEF D, mu, step, stop, base, g
  <2> QED BY <2>1, <2>2, <2>3, <2>5, <2>6 DEF Descends
<1>3. PICK f \in [D -> Seq(Nat)] : \A s \in D :
         f[s] = IF s \in stop THEN base[s] ELSE g[<<s, f[step[s]]>>]
  <2> HIDE DEF D, mu, step, stop, base, g
  <2> QED BY <1>2, DescendingFunction
<1>4. ASSUME NEW s \in D
      PROVE  f[s] = IF s[1] >= c.p THEN <<>>
                    ELSE <<s[2] + next(s).value>> \o f[<<next(s).next, s[2] + next(s).value>>]
  <2>1. CASE s \in stop
    BY <1>3, <2>1
  <2>2. CASE s \notin stop
    <3>1. step[s] = <<next(s).next, s[2] + next(s).value>> /\ step[s] \in D
          /\ ~(s[1] >= c.p)
      BY <1>1, <2>2
    <3>2. f[step[s]] \in Seq(Nat)
      BY <1>3, <3>1
    <3>3. g[<<s, f[step[s]]>>] = <<s[2] + next(s).value>> \o f[step[s]]
      <4> HIDE DEF step, stop, D
      <4> QED BY <3>2
    <3> HIDE DEF step, stop, base, g, D
    <3> QED BY <1>3, <2>2, <3>1, <3>3
  <2> QED BY <2>1, <2>2
<1>5. f = body(f)
  <2>1. ASSUME NEW s \in D PROVE f[s] = body(f)[s]
    BY <1>4 DEF next
  <2> HIDE DEF D
  <2> QED BY <1>3, <2>1
<1>6. F = body(F)
  <2> HIDE DEF body
  <2> QED BY <1>5
<1>7. Decoded(m, c) = F[<<c.wp, c.first_base>>]
  BY DEF Decoded
<1> DEFINE Good == {s \in D : F[s] \in Seq(Nat) /\ Len(F[s]) <= mu[s]}
<1>8. Good = D
  <2>1. ASSUME NEW s \in D, \A t \in D : mu[t] < mu[s] => t \in Good
        PROVE  s \in Good
    <3> HIDE DEF F
    <3>1. F[s] = IF s[1] >= c.p THEN <<>>
                 ELSE <<s[2] + next(s).value>> \o F[<<next(s).next, s[2] + next(s).value>>]
      <4>1. F[s] = body(F)[s]
        <5> HIDE DEF body
        <5> QED BY <1>6
      <4> HIDE DEF Good, mu
      <4> QED BY <4>1 DEF next
    <3>2. CASE s[1] >= c.p
      <4>1. F[s] = <<>> /\ mu[s] \in Nat
        BY <1>1, <3>1, <3>2
      <4>2. F[s] \in Seq(Nat) /\ Len(F[s]) = 0
        <5> HIDE DEF mu
        <5> QED BY <4>1
      <4> HIDE DEF mu
      <4>3. Len(F[s]) <= mu[s]
        BY <4>1, <4>2
      <4> QED BY <4>2, <4>3
    <3>3. CASE ~(s[1] >= c.p)
      <4> DEFINE t == <<next(s).next, s[2] + next(s).value>>
                 y == s[2] + next(s).value
      <4>1. t \in D /\ y \in Nat
        BY <1>1
      <4>2. mu[s] = c.p - s[1] /\ mu[t] < mu[s] /\ mu[t] \in Nat /\ mu[s] \in Nat
        <5>1. /\ next(s).next \in Nat /\ s[1] < next(s).next /\ s[1] \in Nat
              /\ c.p \in Nat
          BY <1>1
        <5>2. mu[s] = c.p - s[1]
          BY <3>3
        <5>3. mu[t] = IF next(s).next >= c.p THEN 0 ELSE c.p - next(s).next
          BY <4>1
        <5> DEFINE a == next(s).next
                   k == mu[s]
                   l == mu[t]
        <5> HIDE DEF a, k, l, mu, t, next, D, F, Good
        <5>4. k = c.p - s[1] /\ l < k /\ l \in Nat /\ k \in Nat
          BY <3>3, <5>1, <5>2, <5>3 DEF a, k, l
        <5> QED BY <5>2, <5>4 DEF k, l
      <4>3. F[t] \in Seq(Nat) /\ Len(F[t]) <= mu[t]
        BY <2>1, <4>1, <4>2
      <4>4. F[s] = <<y>> \o F[t]
        BY <3>1, <3>3
      <4> DEFINE w == F[t]
      <4> HIDE DEF t, y, mu, w, D
      <4>5. <<y>> \o w \in Seq(Nat) /\ Len(<<y>> \o w) = Len(w) + 1
        BY <4>1, <4>3 DEF w
      <4>6. F[s] \in Seq(Nat) /\ Len(F[s]) <= mu[s]
        <5>1. F[s] \in Seq(Nat) /\ Len(F[s]) = Len(w) + 1
          BY <4>4, <4>5 DEF w
        <5>2. Len(w) \in Nat /\ Len(w) <= mu[t]
          BY <4>3 DEF w
        <5> QED BY <4>2, <5>1, <5>2
      <4> QED BY <4>6
    <3> QED BY <3>2, <3>3
  <2>2. mu \in [D -> Nat]
    BY <1>1
  <2>3. Good \in SUBSET D
    OBVIOUS
  <2> HIDE DEF Good, mu, D, F
  <2>4. Inductive(D, mu, Good)
    BY <2>1, <2>2, <2>3 DEF Inductive
  <2> QED BY <2>4, DescentInduction
<1>9. ASSUME NEW p \in Nat, NEW b \in Nat
      PROVE  /\ F[<<p, b>>] \in Seq(Nat)
             /\ Len(F[<<p, b>>]) <= IF p >= c.p THEN 0 ELSE c.p - p
             /\ F[<<p, b>>] = IF p >= c.p THEN <<>>
                           ELSE LET d == DecodeHighBit(m, p)
                                IN  <<b + d.value>> \o F[<<d.next, b + d.value>>]
  <2>1. <<p, b>> \in D /\ <<p, b>>[1] = p /\ <<p, b>>[2] = b
    OBVIOUS
  <2>2. F[<<p, b>>] = body(F)[<<p, b>>]
    <3> HIDE DEF body
    <3> QED BY <1>6
  <2>3. mu[<<p, b>>] = IF p >= c.p THEN 0 ELSE c.p - p
    BY <2>1
  <2>4. <<p, b>> \in Good
    BY <1>8, <2>1
  <2> HIDE DEF F, mu
  <2>5. F[<<p, b>>] \in Seq(Nat) /\ Len(F[<<p, b>>]) <= mu[<<p, b>>]
    BY <2>4
  <2> HIDE DEF Good, D
  <2> QED BY <2>1, <2>2, <2>3, <2>5
<1> HIDE DEF F
<1> QED BY <1>7, <1>9 DEF IsDecoding

\* So the positions are no more than the bytes.
LEMMA DecodedFits ==
    ASSUME NEW m \in Seq(Nat), NEW c, c.wp \in Nat, c.p \in Nat, c.first_base \in Nat,
           c.wp <= c.p
    PROVE  Decoded(m, c) \in Seq(Nat) /\ Len(Decoded(m, c)) <= c.p - c.wp
<1> DEFINE w == c.wp
           b == c.first_base
<1>1. PICK F : IsDecoding(m, c.p, F) /\ Decoded(m, c) = F[<<w, b>>]
  BY DecodedCalls
<1>2. F[<<w, b>>] \in Seq(Nat) /\ Len(F[<<w, b>>]) <= IF w >= c.p THEN 0 ELSE c.p - w
  BY <1>1 DEF IsDecoding
<1> QED BY <1>1, <1>2

\* Concatenated sequences in memory: where each of them begins.
Offsets(ss, off) ==
    /\ off \in [1..(Len(ss) + 1) -> Nat] /\ off[1] = 0
    /\ off[Len(ss) + 1] = Len(Concatenated(ss))
    /\ \A k \in 1..Len(ss) : off[k + 1] = off[k] + Len(ss[k])

\* Every piece of a concatenation lies at its offset.
LEMMA StoredPieces ==
    ASSUME NEW X, NEW ss \in Seq(Seq(X)), NEW m, NEW p, StoredAt(m, p, Concatenated(ss))
    PROVE  \E off : /\ Offsets(ss, off)
                    /\ \A k \in 1..Len(ss) : StoredAt(m, p + off[k], ss[k])
<1> DEFINE w == FlattenSeq(ss)
           n == Len(ss)
<1>1. PICK off \in [1..(n + 1) -> Nat] :
                 /\ off[1] = 0 /\ off[n + 1] = Len(w)
                 /\ \A k \in 1..n :
                       /\ off[k + 1] = off[k] + Len(ss[k])
                       /\ off[k + 1] <= Len(w)
                       /\ \A j \in 1..Len(ss[k]) : w[off[k] + j] = ss[k][j]
  BY FlattenLayout
<1>2. p \in Nat \ {0} /\ \A i \in 1..Len(w) : At(m, p + i - 1) = w[i]
  BY DEF StoredAt, Concatenated
<1>3. n \in Nat /\ \A k \in 1..n : Len(ss[k]) \in Nat
  OBVIOUS
<1>4. Len(w) \in Nat
  BY FlattenLayout
<1>5. Concatenated(ss) = w
  BY DEF Concatenated
<1> HIDE DEF w, n
<1>6. ASSUME NEW k \in 1..n PROVE StoredAt(m, p + off[k], ss[k])
  <2> DEFINE x == off[k]
             l == Len(ss[k])
  <2>1. x \in Nat /\ l \in Nat /\ x + l <= Len(w) /\ \A j \in 1..l : w[x + j] = ss[k][j]
    <3>1. k \in 1..(n + 1)
      BY <1>3
    <3> QED BY <1>1, <1>3, <3>1
  <2> HIDE DEF x, l
  <2>2. ASSUME NEW j \in 1..l PROVE At(m, (p + x) + j - 1) = ss[k][j]
    <3>1. x + j \in 1..Len(w) /\ p + (x + j) - 1 = (p + x) + j - 1
      BY <1>2, <1>4, <2>1
    <3>2. At(m, p + (x + j) - 1) = w[x + j] /\ w[x + j] = ss[k][j]
      BY <1>2, <2>1, <3>1
    <3> QED BY <3>1, <3>2
  <2>3. p + x \in Nat \ {0}
    BY <1>2, <2>1
  <2> QED BY <2>2, <2>3 DEF StoredAt, x, l
<1> QED BY <1>1, <1>5, <1>6 DEF Offsets, n

\* An encoded number takes 1 to 5 bytes.
LEMMA SumIsLarger ==
    ASSUME NEW x \in Nat, NEW y \in 1..5, NEW z, z = x + y
    PROVE  x < z
OBVIOUS

\* What is left of ps from its i-th element on.
From(ps, i) == [k \in 1..(Len(ps) - i + 1) |-> ps[i + k - 1]]

\* The rest of a sequence, one element at a time.
LEMMA FromFacts ==
    ASSUME NEW X, NEW ps \in Seq(X)
    PROVE  /\ From(ps, 1) = ps /\ From(ps, Len(ps) + 1) = <<>>
           /\ \A i \in 1..Len(ps) : From(ps, i) = <<ps[i]>> \o From(ps, i + 1)
<1> DEFINE n == Len(ps)
<1>1. n \in Nat /\ ps = [k \in 1..n |-> ps[k]] /\ \A i \in 1..n : ps[i] \in X
  OBVIOUS
<1> HIDE DEF n
<1>2. From(ps, 1) = ps
  <2>1. n - 1 + 1 = n /\ \A k \in 1..n : 1 + k - 1 = k
    BY <1>1
  <2>2. From(ps, 1) = [k \in 1..n |-> ps[1 + k - 1]]
    BY <2>1 DEF From, n
  <2> QED BY <1>1, <2>1, <2>2
<1>3. From(ps, n + 1) = <<>>
  <2>1. n - (n + 1) + 1 = 0
    BY <1>1
  <2> QED BY <2>1 DEF From, n
<1>4. ASSUME NEW i \in 1..n PROVE From(ps, i) = <<ps[i]>> \o From(ps, i + 1)
  <2> DEFINE a == <<ps[i]>>
             b == From(ps, i + 1)
             k == n - i
  <2>1. k \in Nat /\ n - (i + 1) + 1 = k /\ n - i + 1 = k + 1
    BY <1>1
  <2>2. \A j \in 1..k : i + j \in 1..n /\ i + 1 + j - 1 = i + j /\ i + (j + 1) - 1 = i + j
    BY <1>1
  <2>3. b = [j \in 1..k |-> ps[i + j]]
    BY <2>1, <2>2 DEF From, n
  <2>4. b \in Seq(X) /\ Len(b) = k /\ \A j \in 1..k : b[j] = ps[i + j]
    <3>1. \A j \in 1..k : ps[i + j] \in X
      BY <1>1, <2>2
    <3> HIDE DEF b, k
    <3> QED BY ONLY <2>1, <2>3, <3>1
  <2>5. a \in Seq(X) /\ Len(a) = 1 /\ a[1] = ps[i]
    BY <1>1
  <2>6. From(ps, i) = [j \in 1..(k + 1) |-> ps[i + j - 1]]
    BY <2>1 DEF From, n
  <2> HIDE DEF a, b, k
  <2>7. /\ a \o b \in Seq(X) /\ Len(a \o b) = k + 1 /\ (a \o b)[1] = ps[i]
        /\ \A j \in 1..k : (a \o b)[1 + j] = ps[i + j]
    <3>1. a \in Seq(X) /\ b \in Seq(X)
      BY <2>4, <2>5
    <3>2. /\ a \o b \in Seq(X) /\ Len(a \o b) = Len(a) + Len(b)
          /\ \A j \in 1..Len(a) : (a \o b)[j] = a[j]
          /\ \A j \in 1..Len(b) : (a \o b)[Len(a) + j] = b[j]
      BY ONLY <3>1, ConcatFacts
    <3> DEFINE u == a \o b
    <3> HIDE DEF u
    <3>3. u \in Seq(X) /\ Len(u) = 1 + k /\ u[1] = a[1] /\ \A j \in 1..k : u[1 + j] = b[j]
      BY <2>4, <2>5, <3>2 DEF u
    <3> QED BY <2>1, <2>4, <2>5, <3>3 DEF u
  <2>8. ASSUME NEW j \in 1..(k + 1) PROVE (a \o b)[j] = ps[i + j - 1]
    <3>1. CASE j = 1
      <4>1. i + 1 - 1 = i
        OBVIOUS
      <4> QED BY <2>7, <3>1, <4>1
    <3>2. CASE j # 1
      <4>1. j - 1 \in 1..k /\ 1 + (j - 1) = j /\ i + (j - 1) = i + j - 1
        BY <2>1, <3>2
      <4> QED BY <2>7, <4>1
    <3> QED BY <3>1, <3>2
  <2>9. a \o b = [j \in 1..(k + 1) |-> (a \o b)[j]]
    <3> DEFINE u == a \o b
    <3>1. u \in Seq(X) /\ Len(u) = k + 1
      BY <2>7
    <3> HIDE DEF u
    <3>2. u = [j \in 1..(k + 1) |-> u[j]]
      BY <2>1, <3>1
    <3> QED BY <3>2 DEF u
  <2> QED BY <2>6, <2>8, <2>9 DEF a, b
<1> QED BY <1>2, <1>3, <1>4 DEF n

\* Positions are decoded to what was encoded.
THEOREM DecodedExact ==
    ASSUME NEW m \in Seq(Nat), NEW ps, Narrow(ps), NEW c, c.wp \in Nat,
           c.first_base = FirstBase(ps[1]), StoredAt(m, c.wp, EncodeTermPositions(ps)),
           c.p = c.wp + Len(EncodeTermPositions(ps))
    PROVE  Decoded(m, c) = ps
<1> DEFINE n       == Len(ps)
           w       == c.wp
           gap(i)  == Gap(ps, i)
           ss      == [i \in 1..n |-> EncodeHighBit(gap(i))]
           base(i) == IF i = 1 THEN FirstBase(ps[1]) ELSE ps[i - 1]
<1>1. n \in Nat \ {0} /\ ps \in Seq(Nat) /\ \A i \in 1..n : ps[i] \in Nat
  BY DEF Narrow
<1>2. EncodeTermPositions(ps) = Concatenated(ss)
  BY PositionsConcatenated, Zenon DEF Gap
<1>3. ASSUME NEW i \in 1..n
      PROVE  /\ gap(i) \in Nat /\ Below28(gap(i)) /\ base(i) \in Nat
             /\ base(i) + gap(i) = ps[i] /\ base(i + 1) = ps[i]
  <2>1. Below28(gap(i))
    BY DEF Narrow
  <2>2. FirstBase(ps[1]) \in Nat /\ FirstBase(ps[1]) <= ps[1]
    <3>1. ps[1] \in Nat
      BY <1>1
    <3> QED BY <3>1, FirstBaseFacts, Zenon
  <2>3. i # 1 => i - 1 \in 1..n /\ ps[i - 1] <= ps[i]
    <3>1. SUFFICES ASSUME i # 1
                   PROVE  i - 1 \in 1..n /\ ps[i - 1] <= ps[i]
      OBVIOUS
    <3>2. i - 1 \in 1..n /\ i - 1 < i
      BY <1>1, <3>1
    <3>3. \A j, k \in 1..n : j < k => ps[j] <= ps[k]
      BY DEF Narrow
    <3> QED BY <3>2, <3>3
  <2>4. gap(i) = ps[i] - base(i) /\ ps[i] \in Nat
    BY <1>1 DEF Gap
  <2>5. base(i) \in Nat /\ base(i) <= ps[i]
    BY <1>1, <2>2, <2>3
  <2>6. i + 1 # 1 /\ (i + 1) - 1 = i
    OBVIOUS
  <2> HIDE DEF gap
  <2>7. base(i + 1) = ps[i]
    BY <2>6
  <2> HIDE DEF base
  <2>8. base(i) + gap(i) = ps[i] /\ gap(i) \in Nat
    BY <2>4, <2>5
  <2> QED BY <2>1, <2>5, <2>7, <2>8
<1> HIDE DEF gap, base
<1>4. ss \in Seq(Seq(Nat)) /\ Len(ss) = n /\ \A i \in 1..n : ss[i] = EncodeHighBit(gap(i))
  <2>1. \A i \in 1..n : EncodeHighBit(gap(i)) \in Seq(Nat)
    <3>1. ASSUME NEW i \in 1..n PROVE EncodeHighBit(gap(i)) \in Seq(Nat)
      <4>1. gap(i) \in Int
        BY <1>3
      <4> QED BY <4>1, HighBitBytes
    <3> QED BY <3>1
  <2> HIDE DEF n
  <2> QED BY <1>1, <2>1
<1> HIDE DEF n, w, ss
<1>5. PICK off : /\ Offsets(ss, off)
                 /\ \A k \in 1..n : StoredAt(m, w + off[k], ss[k])
  BY <1>2, <1>4, StoredPieces DEF w
<1>6. /\ off \in [1..(n + 1) -> Nat] /\ off[1] = 0 /\ off[n + 1] = Len(Concatenated(ss))
      /\ \A k \in 1..n : off[k + 1] = off[k] + Len(ss[k])
  BY <1>4, <1>5 DEF Offsets
<1>7. w \in Nat /\ c.p = w + off[n + 1]
  BY <1>2, <1>6 DEF w
<1>8. c.p \in Nat
  BY <1>1, <1>6, <1>7
<1>9. PICK F : IsDecoding(m, c.p, F) /\ Decoded(m, c) = F[<<c.wp, c.first_base>>]
  BY <1>8, DecodedCalls
<1> DEFINE H(i) == F[<<w + off[i], base(i)>>]
<1>10. ASSUME NEW i \in 1..n PROVE H(i) = <<ps[i]>> \o H(i + 1)
  <2> DEFINE x == w + off[i]
  <2>1. DecodeHighBit(m, x) = [value |-> gap(i), next |-> x + Len(ss[i])]
    BY <1>3, <1>4, <1>5, VarintRoundTrip
  <2>2. off[i] \in Nat /\ Len(ss[i]) \in 1..5 /\ off[i + 1] = off[i] + Len(ss[i])
    <3>1. gap(i) \in Int
      BY <1>3
    <3>2. Len(ss[i]) \in 1..5
      BY <1>4, <3>1, HighBitBytes
    <3>3. i \in 1..(n + 1)
      BY <1>1
    <3> QED BY <1>6, <3>2, <3>3
  <2>3. off[i] + Len(ss[i]) <= off[n + 1]
    <3>1. \A k \in 1..n : off[k] < off[k + 1]
      <4>1. ASSUME NEW k \in 1..n PROVE off[k] < off[k + 1]
        <5>1. gap(k) \in Int
          BY <1>3
        <5>2. Len(ss[k]) \in 1..5
          BY <1>4, <5>1, HighBitBytes
        <5>3. off[k] \in Nat /\ off[k + 1] = off[k] + Len(ss[k])
          BY <1>1, <1>6
        <5> QED BY ONLY <5>2, <5>3, SumIsLarger
      <4> QED BY <4>1
    <3>2. i + 1 \in 1..(n + 1) /\ n + 1 \in 1..(n + 1) /\ i + 1 <= n + 1
      BY <1>1
    <3>3. off[i + 1] + ((n + 1) - (i + 1)) <= off[n + 1]
      BY <1>1, <1>6, <3>1, <3>2, Climbs
    <3>4. off[i + 1] \in Nat /\ off[n + 1] \in Nat
      BY <1>6, <3>2
    <3> QED BY <1>1, <2>2, <3>3, <3>4
  <2> DEFINE l == Len(ss[i])
             o == off[i]
             e == off[n + 1]
  <2>4. e \in Nat
    BY <1>1, <1>6
  <2> HIDE DEF l, o, e
  <2>5. ~(x >= c.p) /\ x \in Nat /\ x + Len(ss[i]) = w + off[i + 1]
    <3>1. o \in Nat /\ l \in 1..5 /\ o + l <= e /\ c.p = w + e /\ off[i + 1] = o + l
          /\ x = w + o
      BY <1>7, <2>2, <2>3 DEF l, o, e
    <3>2. ~(w + o >= w + e) /\ w + o \in Nat /\ (w + o) + l = w + (o + l)
      BY <1>7, <2>4, <3>1
    <3> QED BY <3>1, <3>2 DEF l
  <2> HIDE DEF x
  <2>6. base(i) \in Nat /\ base(i) + gap(i) = ps[i] /\ base(i + 1) = ps[i]
    BY <1>3
  <2>7. F[<<x, base(i)>>] = <<base(i) + gap(i)>> \o F[<<x + Len(ss[i]), base(i) + gap(i)>>]
    <3> DEFINE d == DecodeHighBit(m, x)
               k == base(i)
    <3>1. F[<<x, k>>] = IF x >= c.p THEN <<>>
                        ELSE <<k + d.value>> \o F[<<d.next, k + d.value>>]
      BY <1>9, <2>5, <2>6, Zenon DEF IsDecoding
    <3>2. d.value = gap(i) /\ d.next = x + Len(ss[i])
      BY <2>1
    <3> QED BY <2>5, <3>1, <3>2
  <2> QED BY <2>5, <2>6, <2>7 DEF x
<1>11. H(n + 1) = <<>>
  <2>1. n \in 1..n
    BY <1>1
  <2>2. base(n + 1) \in Nat
    BY <1>1, <1>3, <2>1
  <2>3. w + off[n + 1] >= c.p /\ w + off[n + 1] \in Nat
    BY <1>7, <1>8
  <2> QED BY <1>9, <2>2, <2>3 DEF IsDecoding
<1> HIDE DEF H
<1> DEFINE Bad == {j \in Nat : j \in 0..n /\ H(n + 1 - j) # From(ps, n + 1 - j)}
<1>12. Bad = {}
  <2>1. SUFFICES ASSUME NEW j \in Bad PROVE FALSE
    OBVIOUS
  <2>2. Bad \in SUBSET Nat
    OBVIOUS
  <2> HIDE DEF Bad
  <2>3. PICK b \in Bad : \A k \in Bad : b <= k
    BY <2>1, <2>2, MinimumExists
  <2>4. b \in 0..n /\ H(n + 1 - b) # From(ps, n + 1 - b)
    BY <2>3 DEF Bad
  <2>5. CASE b = 0
    <3>1. n + 1 - b = n + 1
      BY <1>1, <2>5
    <3>2. From(ps, n + 1) = <<>>
      BY <1>1, FromFacts DEF n
    <3> QED BY <1>11, <2>4, <3>1, <3>2
  <2>6. CASE b # 0
    <3> DEFINE i == n + 1 - b
    <3>1. i \in 1..n /\ b - 1 \in 0..n /\ n + 1 - (b - 1) = i + 1 /\ b - 1 \in Nat /\ ~(b <= b - 1)
      BY <1>1, <2>4, <2>6
    <3>2. b - 1 \notin Bad
      BY <2>3, <3>1
    <3>3. H(i + 1) = From(ps, i + 1)
      BY <3>1, <3>2 DEF Bad
    <3>4. From(ps, i) = <<ps[i]>> \o From(ps, i + 1)
      BY <1>1, <3>1, FromFacts DEF n
    <3> QED BY <1>10, <2>4, <3>1, <3>3, <3>4
  <2> QED BY <2>5, <2>6
<1>13. H(1) = From(ps, 1)
  <2>1. n \in 0..n /\ n \in Nat /\ n + 1 - n = 1
    BY <1>1
  <2>2. n \notin Bad
    BY <1>12
  <2> QED BY <2>1, <2>2
<1>14. From(ps, 1) = ps
  BY <1>1, FromFacts
<1>15. H(1) = F[<<c.wp, c.first_base>>]
  <2>1. w + off[1] = c.wp
    BY <1>6, <1>7 DEF w
  <2> QED BY <2>1 DEF H, base
<1> QED BY <1>9, <1>13, <1>14, <1>15

-----------------------------------------------------------------------------
(***************************************************************************)
(* Where the writer puts the postings and groups of a term.  A piece is    *)
(* the bytes of one posting or of one group; the pieces of a set of        *)
(* numbers, joined in ascending order, tile the memory they are in.        *)
(***************************************************************************)
-----------------------------------------------------------------------------
(***************************************************************************)
(* A list of groups in memory: one piece behind the other, in the order of *)
(* what they are about.                                                    *)
(***************************************************************************)
\* A piece for every element of a set of numbers, and all of them in order.
Pieces(S, F) == /\ S \in SUBSET Nat /\ IsFiniteSet(S) /\ S # {}
                /\ \A x \in S : F[x] \in Seq(Nat) /\ F[x] # <<>>
Joined(S, F) == Concatenated([i \in 1..Cardinality(S) |-> F[Ascending(S)[i]]])

\* The piece of x lies from at[x] to end[x]; the pieces fill lo to hi.
Tiled(S, at, end, lo, hi) ==
    /\ \A x \in S : /\ at[x] \in Nat /\ end[x] \in Nat
                    /\ lo <= at[x] /\ at[x] < end[x] /\ end[x] <= hi
    /\ \A x, y \in S : x < y => end[x] <= at[y]
    /\ \A x \in S : end[x] < hi => \E y \in S : at[y] = end[x]
    /\ \E x \in S : at[x] = lo

\* Joined pieces tile the memory they are in.
LEMMA JoinedPieces ==
    ASSUME NEW S, NEW F, Pieces(S, F), NEW m, NEW lo, StoredAt(m, lo, Joined(S, F))
    PROVE  /\ Joined(S, F) \in Seq(Nat) /\ Len(Joined(S, F)) \in Nat
           /\ \E at, end : /\ Tiled(S, at, end, lo, lo + Len(Joined(S, F)))
                           /\ \A x \in S : /\ end[x] = at[x] + Len(F[x])
                                           /\ StoredAt(m, at[x], F[x])
<1> DEFINE n    == Cardinality(S)
           a    == Ascending(S)
           ss   == [i \in 1..n |-> F[a[i]]]
           w    == Joined(S, F)
<1>1. /\ n \in Nat /\ a \in [1..n -> S]
      /\ \A i, j \in 1..n : i < j => a[i] < a[j]
      /\ \A x \in S : \E i \in 1..n : a[i] = x
  BY AscendingFacts DEF Pieces
<1>2. ss \in Seq(Seq(Nat)) /\ Len(ss) = n /\ \A i \in 1..n : ss[i] = F[a[i]] /\ ss[i] # <<>>
  <2>1. \A i \in 1..n : a[i] \in S
    BY <1>1
  <2>2. \A i \in 1..n : F[a[i]] \in Seq(Nat) /\ F[a[i]] # <<>>
    BY <2>1 DEF Pieces
  <2> HIDE DEF a, n
  <2> QED BY <1>1, <2>2
<1>3. w = Concatenated(ss)
  BY DEF Joined
<1>4. w \in Seq(Nat) /\ Len(w) \in Nat
  <2>1. w \in Seq(Nat)
    <3> HIDE DEF ss, w
    <3> QED BY <1>2, <1>3, FlattenLayout DEF Concatenated
  <2> HIDE DEF w
  <2> QED BY <2>1
<1>5. lo \in Nat
  BY DEF StoredAt
<1>6. PICK off : /\ Offsets(ss, off)
                 /\ \A k \in 1..Len(ss) : StoredAt(m, lo + off[k], ss[k])
  <2> HIDE DEF ss, w
  <2>1. StoredAt(m, lo, Concatenated(ss))
    BY <1>3 DEF w
  <2> QED BY <1>2, <2>1, StoredPieces
<1>7. /\ off \in [1..(n + 1) -> Nat] /\ off[1] = 0 /\ off[n + 1] = Len(w)
      /\ \A k \in 1..n : off[k + 1] = off[k] + Len(ss[k])
  <2> HIDE DEF ss, w
  <2> QED BY <1>2, <1>3, <1>6 DEF Offsets
<1>8. \A k \in 1..n : Len(ss[k]) \in Nat /\ 0 < Len(ss[k])
  <2> HIDE DEF n
  <2>1. TAKE k \in 1..n
  <2>2. ss[k] \in Seq(Nat) /\ ss[k] # <<>>
    <3> HIDE DEF ss
    <3> QED BY <1>2
  <2> HIDE DEF ss
  <2> QED BY <2>2
<1>9. \A k \in 1..n : off[k] < off[k + 1]
  <2> HIDE DEF n, ss, w
  <2>1. TAKE k \in 1..n
  <2>2. off[k] \in Nat
    BY <1>1, <1>7
  <2> QED BY <1>7, <1>8, <2>2
<1>10. \A i, j \in 1..(n + 1) : i <= j => off[i] + (j - i) <= off[j]
  <2> HIDE DEF n, ss, w
  <2> QED BY <1>1, <1>7, <1>9, Climbs
<1> DEFINE idx == [x \in S |-> CHOOSE i \in 1..n : a[i] = x]
           at  == [x \in S |-> lo + off[idx[x]]]
           end == [x \in S |-> lo + off[idx[x] + 1]]
           hi  == lo + Len(w)
<1>11. \A x \in S : idx[x] \in 1..n /\ a[idx[x]] = x
  <2> HIDE DEF n, a
  <2> QED BY <1>1
<1>12. \A x \in S : at[x] = lo + off[idx[x]] /\ end[x] = lo + off[idx[x] + 1]
  <2> HIDE DEF idx
  <2> QED OBVIOUS
<1>13. \A i \in 1..n : idx[a[i]] = i
  <2>1. TAKE i \in 1..n
  <2>2. a[i] \in S
    BY <1>1
  <2>3. idx[a[i]] \in 1..n /\ a[idx[a[i]]] = a[i]
    BY <1>11, <2>2
  <2> DEFINE j == idx[a[i]]
  <2> HIDE DEF j, idx, n, a
  <2>4. j \in 1..n /\ a[j] = a[i] /\ a[i] \in S
    BY <2>2, <2>3 DEF j
  <2>5. a[i] \in Nat
    BY <2>4 DEF Pieces
  <2>6. ~(i < j) /\ ~(j < i)
    BY <1>1, <2>4, <2>5
  <2> QED BY <1>1, <2>4, <2>6 DEF j
<1> HIDE DEF n, a, ss, w, idx, at, end
<1>15. \A i \in 1..n : off[i] \in Nat /\ off[i + 1] \in Nat /\ off[i + 1] <= off[n + 1]
  <2>1. TAKE i \in 1..n
  <2>2. off[i] \in Nat /\ off[i + 1] \in Nat
    BY <1>1, <1>7
  <2>3. i + 1 \in 1..(n + 1) /\ n + 1 \in 1..(n + 1)
    BY <1>1
  <2>4. off[i + 1] + ((n + 1) - (i + 1)) <= off[n + 1]
    BY <1>1, <1>10, <2>3
  <2> QED BY <1>1, <1>4, <1>7, <2>2, <2>4
<1>16. Tiled(S, at, end, lo, hi)
  <2>1. \A x \in S : /\ at[x] \in Nat /\ end[x] \in Nat
                     /\ lo <= at[x] /\ at[x] < end[x] /\ end[x] <= hi
    <3>1. TAKE x \in S
    <3> DEFINE k == idx[x]
    <3> HIDE DEF k
    <3>2. k \in 1..n /\ at[x] = lo + off[k] /\ end[x] = lo + off[k + 1]
      BY <1>11, <1>12 DEF k
    <3>3. off[k] \in Nat /\ off[k + 1] \in Nat /\ off[k + 1] <= Len(w) /\ off[k] < off[k + 1]
      BY <1>7, <1>9, <1>15, <3>2
    <3> QED BY <1>4, <1>5, <3>2, <3>3 DEF hi
  <2>2. \A x, y \in S : x < y => end[x] <= at[y]
    <3>1. TAKE x, y \in S
    <3>2. HAVE x < y
    <3> DEFINE k == idx[x]
               l == idx[y]
    <3> HIDE DEF k, l
    <3>3. /\ k \in 1..n /\ a[k] = x /\ end[x] = lo + off[k + 1]
          /\ l \in 1..n /\ a[l] = y /\ at[y] = lo + off[l]
      BY <1>11, <1>12 DEF k, l
    <3>4. x \in Nat /\ y \in Nat
      BY DEF Pieces
    <3>5. k < l
      BY <1>1, <3>2, <3>3, <3>4
    <3>6. k + 1 \in 1..(n + 1) /\ l \in 1..(n + 1) /\ k + 1 <= l
      BY <1>1, <3>3, <3>5
    <3>7. off[k + 1] + (l - (k + 1)) <= off[l]
      BY <1>10, <3>6
    <3>8. off[k + 1] \in Nat /\ off[l] \in Nat
      BY <1>15, <3>3
    <3> QED BY <1>5, <3>3, <3>6, <3>7, <3>8
  <2>3. \A x \in S : end[x] < hi => \E y \in S : at[y] = end[x]
    <3>1. TAKE x \in S
    <3>2. HAVE end[x] < hi
    <3> DEFINE k == idx[x]
    <3> HIDE DEF k
    <3>3. k \in 1..n /\ a[k] = x /\ end[x] = lo + off[k + 1]
      BY <1>11, <1>12 DEF k
    <3>4. k # n
      BY <1>4, <1>5, <1>7, <3>2, <3>3 DEF hi
    <3>5. k + 1 \in 1..n
      BY <1>1, <3>3, <3>4
    <3>6. a[k + 1] \in S /\ idx[a[k + 1]] = k + 1
      BY <1>1, <1>13, <3>5
    <3> QED BY <1>12, <3>3, <3>6
  <2>4. \E x \in S : at[x] = lo
    <3>1. PICK x \in S : TRUE
      BY DEF Pieces
    <3>2. 1 \in 1..n
      BY <1>1, <1>11, <3>1
    <3>3. a[1] \in S /\ idx[a[1]] = 1
      BY <1>1, <1>13, <3>2
    <3>4. at[a[1]] = lo + 0
      BY <1>7, <1>12, <3>3
    <3> QED BY <1>5, <3>3, <3>4
  <2> HIDE DEF hi
  <2> QED BY <2>1, <2>2, <2>3, <2>4 DEF Tiled
<1>17. \A x \in S : end[x] = at[x] + Len(F[x]) /\ StoredAt(m, at[x], F[x])
  <2>1. TAKE x \in S
  <2> DEFINE k == idx[x]
  <2> HIDE DEF k
  <2>2. k \in 1..n /\ a[k] = x /\ end[x] = lo + off[k + 1] /\ at[x] = lo + off[k]
    BY <1>11, <1>12 DEF k
  <2>3. ss[k] = F[x] /\ off[k + 1] = off[k] + Len(ss[k]) /\ off[k] \in Nat /\ Len(ss[k]) \in Nat
    BY <1>2, <1>7, <1>8, <1>15, <2>2
  <2>4. StoredAt(m, lo + off[k], ss[k])
    BY <1>2, <1>6, <2>2
  <2> QED BY <1>5, <2>2, <2>3, <2>4
<1> QED BY <1>4, <1>16, <1>17 DEF w, hi

\* What the order of the pieces says about their numbers.
Ordered(S, at, end, lo, hi) ==
    /\ \A x, y \in S : at[y] = end[x] => x < y /\ \A z \in S : z <= x \/ y <= z
    /\ \A x \in S : at[x] = lo => \A y \in S : x <= y
    /\ \A x \in S : end[x] = hi => \A y \in S : y <= x
    /\ \A x \in S : end[x] = hi \/ \E y \in S : at[y] = end[x]
    /\ \A x, y \in S : x <= y => at[x] <= at[y] /\ end[x] <= end[y]
    /\ \A x, y \in S : at[x] < end[y] => x <= y
    /\ lo < hi

\* Tiles lie in the order of the elements they belong to.
LEMMA TileOrder ==
    ASSUME NEW S, S \in SUBSET Nat, NEW at, NEW end, NEW lo \in Nat, NEW hi \in Nat,
           Tiled(S, at, end, lo, hi)
    PROVE  Ordered(S, at, end, lo, hi)
<1>1. \A x \in S : x \in Nat
  OBVIOUS
<1>2. /\ \A x \in S : /\ at[x] \in Nat /\ end[x] \in Nat
                      /\ lo <= at[x] /\ at[x] < end[x] /\ end[x] <= hi
      /\ \A x, y \in S : x < y => end[x] <= at[y]
      /\ \A x \in S : end[x] < hi => \E y \in S : at[y] = end[x]
      /\ \E x \in S : at[x] = lo
  BY DEF Tiled
<1>3. \A x, y \in S : x <= y => at[x] <= at[y] /\ end[x] <= end[y]
  <2> TAKE x, y \in S
  <2>1. x \in Nat /\ y \in Nat
    BY <1>1
  <2> HAVE x <= y
  <2>2. x = y \/ end[x] <= at[y]
    BY <1>2, <2>1
  <2> QED BY <1>2, <2>2
<1>4. \A x, y \in S : at[x] < end[y] => x <= y
  <2> TAKE x, y \in S
  <2>1. x \in Nat /\ y \in Nat /\ at[x] \in Nat /\ end[y] \in Nat
    BY <1>1, <1>2
  <2>2. y < x => end[y] <= at[x]
    BY <1>2
  <2> QED BY <2>1, <2>2
<1>5. \A x, y \in S : at[y] = end[x] => x < y /\ \A z \in S : z <= x \/ y <= z
  <2> TAKE x, y \in S
  <2> HAVE at[y] = end[x]
  <2>1. x \in Nat /\ y \in Nat
    BY <1>1
  <2>2. ~(y <= x)
    <3>1. at[x] < end[x] /\ at[y] \in Nat /\ at[x] \in Nat /\ end[x] \in Nat
      BY <1>2
    <3> QED BY <1>3, <3>1
  <2>3. ASSUME NEW z \in S, x < z, z < y PROVE FALSE
    <3>1. end[x] <= at[z] /\ end[z] <= at[y]
      BY <1>2, <2>3
    <3>2. at[z] < end[z] /\ at[z] \in Nat /\ end[z] \in Nat /\ end[x] \in Nat
      BY <1>2
    <3> QED BY <3>1, <3>2
  <2>4. \A z \in S : z \in Nat
    BY <1>1
  <2>5. \A z \in S : z <= x \/ y <= z
    BY <2>1, <2>3, <2>4
  <2> QED BY <2>1, <2>2, <2>5
<1>6. \A x \in S : at[x] = lo => \A y \in S : x <= y
  <2> TAKE x \in S
  <2> HAVE at[x] = lo
  <2> TAKE y \in S
  <2>1. lo <= at[y] /\ at[y] < end[y] /\ at[y] \in Nat /\ end[y] \in Nat
    BY <1>2
  <2>2. at[x] < end[y]
    BY <2>1
  <2> QED BY <1>4, <2>2
<1>7. \A x \in S : end[x] = hi => \A y \in S : y <= x
  <2> TAKE x \in S
  <2> HAVE end[x] = hi
  <2> TAKE y \in S
  <2>1. end[y] <= hi /\ at[y] < end[y] /\ at[y] \in Nat /\ end[y] \in Nat
    BY <1>2
  <2>2. at[y] < end[x]
    BY <2>1
  <2> QED BY <1>4, <2>2
<1>8. lo < hi
  <2>1. PICK x \in S : at[x] = lo
    BY <1>2
  <2>2. at[x] < end[x] /\ end[x] <= hi /\ end[x] \in Nat
    BY <1>2
  <2> QED BY <2>1, <2>2
<1>9. \A x \in S : end[x] = hi \/ \E y \in S : at[y] = end[x]
  <2> TAKE x \in S
  <2>1. end[x] \in Nat /\ end[x] <= hi
    BY <1>2
  <2> QED BY <1>2, <2>1
<1> QED BY <1>3, <1>4, <1>5, <1>6, <1>7, <1>8, <1>9 DEF Ordered

\* The number whose high level group is k, small group m and small id r.
IsId(id, k, m, r) == /\ k \in Nat /\ m \in Nat /\ r \in Nat /\ k < 256 /\ m < 256 /\ r < 1024
                     /\ id = 262144 * k + 1024 * m + r

\* The three levels of an id give back the numbers it was put together from.
LEMMA LevelParts ==
    ASSUME NEW id, NEW k, NEW m, NEW r, IsId(id, k, m, r)
    PROVE  /\ HighBase(id) = 262144 * k /\ HighOf(id) = k
           /\ GroupOf(id) = 262144 * k + 1024 * m /\ MidOf(id) = m
           /\ id % SmallSpan = r /\ id \in Nat
<1> USE DEF IsId
<1>1. id \div 262144 = k
  <2>1. 1024 * m + r \in Nat /\ 1024 * m + r < 262144
    BY SMT
  <2> QED BY SMT, <2>1, SMT
<1>2. id \div 1024 = 256 * k + m /\ id % 1024 = r
  BY SMT
<1>3. (256 * k + m) % 256 = m /\ k % 256 = k
  BY SMT
<1>4. id \in Nat
  BY SMT
<1> USE DEF HighBase, HighOf, GroupOf, MidOf, SmallSpan, HighSpan
<1>5. HighBase(id) = 262144 * k /\ HighOf(id) = k
  BY SMT, <1>1, <1>3
<1>6. GroupOf(id) = 262144 * k + 1024 * m /\ MidOf(id) = m
  BY SMT, <1>2, <1>3
<1>7. id % SmallSpan = r
  BY SMT, <1>2
<1> QED BY SMT, <1>4, <1>5, <1>6, <1>7

\* The three levels of an id, and of the groups that hold it.
LEMMA LevelFacts ==
    ASSUME NEW id \in Nat, id < IdLimit
    PROVE  /\ HighOf(id) \in Byte /\ MidOf(id) \in Byte /\ id % SmallSpan \in 0..1023
           /\ HighBase(id) \in Nat /\ HighBase(id) < IdLimit
           /\ HighBase(id) = HighOf(id) * HighSpan
           /\ HighOf(HighBase(id)) = HighOf(id) /\ HighBase(HighBase(id)) = HighBase(id)
           /\ GroupOf(HighBase(id)) = HighBase(id)
           /\ GroupOf(id) \in Nat /\ GroupOf(id) < IdLimit
           /\ GroupOf(id) = HighBase(id) + MidOf(id) * SmallSpan
           /\ MidOf(GroupOf(id)) = MidOf(id) /\ HighOf(GroupOf(id)) = HighOf(id)
           /\ HighBase(GroupOf(id)) = HighBase(id) /\ GroupOf(GroupOf(id)) = GroupOf(id)
           /\ id = GroupOf(id) + (id % SmallSpan)
<1> DEFINE k == id \div 262144
           m == (id \div 1024) % 256
           r == id % 1024
<1>1. /\ k \in Nat /\ m \in Nat /\ r \in Nat /\ k < 256 /\ m < 256 /\ r < 1024
      /\ id = 262144 * k + 1024 * m + r
  <2>1. k \in Nat /\ k < 256
    BY SMT DEF IdLimit
  <2>2. id \div 1024 \in Nat /\ id = 1024 * (id \div 1024) + r /\ r \in Nat /\ r < 1024
    BY SMT
  <2> DEFINE q == id \div 1024
  <2>3. q \div 256 = k
    BY SMT
  <2>4. q = 256 * (q \div 256) + m /\ m \in Nat /\ m < 256
    <3> HIDE DEF q
    <3>1. q \in Nat /\ q = 256 * (q \div 256) + (q % 256) /\ q % 256 \in Nat /\ q % 256 < 256
      BY SMT, <2>2, SMT DEF q
    <3> QED BY SMT, <3>1 DEF q
  <2> HIDE DEF q, k, m, r
  <2> QED BY SMT, <2>1, <2>2, <2>3, <2>4 DEF q
<1> HIDE DEF k, m, r
<1>2. /\ HighBase(id) = 262144 * k /\ HighOf(id) = k
      /\ GroupOf(id) = 262144 * k + 1024 * m /\ MidOf(id) = m
      /\ id % SmallSpan = r
  <2>1. IsId(id, k, m, r)
    BY SMT, <1>1 DEF IsId
  <2> QED BY SMT, <2>1, LevelParts
<1> DEFINE g == 262144 * k + 1024 * m
           h == 262144 * k
<1>3. /\ HighBase(g) = 262144 * k /\ HighOf(g) = k
      /\ GroupOf(g) = 262144 * k + 1024 * m /\ MidOf(g) = m
  <2>1. IsId(g, k, m, 0)
    BY SMT, <1>1 DEF IsId
  <2> HIDE DEF g
  <2> QED BY SMT, <2>1, LevelParts
<1>4. HighBase(h) = 262144 * k /\ HighOf(h) = k /\ GroupOf(h) = 262144 * k
  <2>1. IsId(h, k, 0, 0)
    BY SMT, <1>1 DEF IsId
  <2> HIDE DEF h
  <2>2. HighBase(h) = 262144 * k /\ HighOf(h) = k /\ GroupOf(h) = 262144 * k + 1024 * 0
    BY SMT, <2>1, LevelParts
  <2> QED BY SMT, <1>1, <2>2
<1>5. g \in Nat /\ h \in Nat /\ g <= id /\ h <= id
  BY SMT, <1>1
<1> QED BY SMT, <1>1, <1>2, <1>3, <1>4, <1>5 DEF Byte, SmallSpan, HighSpan, IdLimit

\* The levels are ordered as the ids are.
LEMMA LevelOrder ==
    ASSUME NEW x \in Nat, NEW y \in Nat, x < IdLimit, y < IdLimit
    PROVE  /\ x <= y => GroupOf(x) <= GroupOf(y) /\ HighBase(x) <= HighBase(y)
           /\ GroupOf(x) < GroupOf(y) => x < y
           /\ HighBase(x) < HighBase(y) => x < y /\ GroupOf(x) < GroupOf(y)
           /\ HighBase(x) = HighBase(y) =>
                 (GroupOf(x) <= GroupOf(y) <=> MidOf(x) <= MidOf(y))
           /\ HighBase(x) <= HighBase(y) <=> HighOf(x) <= HighOf(y)
<1>1. /\ GroupOf(x) = HighBase(x) + MidOf(x) * 1024 /\ HighBase(x) = HighOf(x) * 262144
      /\ HighOf(x) \in Nat /\ HighOf(x) < 256 /\ MidOf(x) \in Nat /\ MidOf(x) < 256
      /\ x % 1024 \in Nat /\ x % 1024 < 1024 /\ x = GroupOf(x) + (x % 1024)
  <2>1. /\ GroupOf(x) = HighBase(x) + MidOf(x) * SmallSpan
        /\ HighBase(x) = HighOf(x) * HighSpan
        /\ HighOf(x) \in Byte /\ MidOf(x) \in Byte /\ x % SmallSpan \in 0..1023
        /\ x = GroupOf(x) + (x % SmallSpan)
    BY SMT, LevelFacts
  <2> QED BY SMT, <2>1 DEF Byte, SmallSpan, HighSpan
<1>2. /\ GroupOf(y) = HighBase(y) + MidOf(y) * 1024 /\ HighBase(y) = HighOf(y) * 262144
      /\ HighOf(y) \in Nat /\ HighOf(y) < 256 /\ MidOf(y) \in Nat /\ MidOf(y) < 256
      /\ y % 1024 \in Nat /\ y % 1024 < 1024 /\ y = GroupOf(y) + (y % 1024)
  <2>1. /\ GroupOf(y) = HighBase(y) + MidOf(y) * SmallSpan
        /\ HighBase(y) = HighOf(y) * HighSpan
        /\ HighOf(y) \in Byte /\ MidOf(y) \in Byte /\ y % SmallSpan \in 0..1023
        /\ y = GroupOf(y) + (y % SmallSpan)
    BY SMT, LevelFacts
  <2> QED BY SMT, <2>1 DEF Byte, SmallSpan, HighSpan
<1> DEFINE hx == HighOf(x)
           hy == HighOf(y)
           mx == MidOf(x)
           my == MidOf(y)
           rx == x % 1024
           ry == y % 1024
<1>3. /\ hx \in Nat /\ hy \in Nat /\ mx \in Nat /\ my \in Nat /\ rx \in Nat /\ ry \in Nat
      /\ mx < 256 /\ my < 256 /\ rx < 1024 /\ ry < 1024
      /\ HighBase(x) = 262144 * hx /\ HighBase(y) = 262144 * hy
      /\ GroupOf(x) = 262144 * hx + 1024 * mx /\ GroupOf(y) = 262144 * hy + 1024 * my
      /\ x = 262144 * hx + 1024 * mx + rx /\ y = 262144 * hy + 1024 * my + ry
  BY SMT, <1>1, <1>2
<1> HIDE DEF hx, hy, mx, my, rx, ry
<1>4. x <= y => GroupOf(x) <= GroupOf(y) /\ HighBase(x) <= HighBase(y)
  BY SMT, <1>3
<1>5. GroupOf(x) < GroupOf(y) => x < y
  BY SMT, <1>3
<1>6. HighBase(x) < HighBase(y) => x < y /\ GroupOf(x) < GroupOf(y)
  BY SMT, <1>3
<1>7. HighBase(x) = HighBase(y) => (GroupOf(x) <= GroupOf(y) <=> mx <= my)
  BY SMT, <1>3
<1>8. HighBase(x) <= HighBase(y) <=> hx <= hy
  BY SMT, <1>3
<1> QED BY SMT, <1>4, <1>5, <1>6, <1>7, <1>8 DEF hx, hy, mx, my

\* Bytes are integers.
LEMMA BytesAreInts ==
    ASSUME NEW s \in Seq(Nat)
    PROVE  s \in Seq(Int) /\ Len(s) \in Nat
<1>1. Len(s) \in Nat /\ s \in [1..Len(s) -> Nat]
  OBVIOUS
<1> DEFINE n == Len(s)
<1> HIDE DEF n
<1>2. s \in [1..n -> Int]
  BY <1>1 DEF n
<1> QED BY <1>1, <1>2 DEF n

\* Joined pieces are bytes.
LEMMA JoinedBytes ==
    ASSUME NEW S, NEW F, Pieces(S, F)
    PROVE  Joined(S, F) \in Seq(Nat)
<1> DEFINE n  == Cardinality(S)
           a  == Ascending(S)
           ss == [i \in 1..n |-> F[a[i]]]
<1>1. n \in Nat /\ a \in [1..n -> S]
  BY AscendingFacts DEF Pieces
<1>2. \A i \in 1..n : F[a[i]] \in Seq(Nat)
  BY <1>1 DEF Pieces
<1>3. ss \in Seq(Seq(Nat))
  <2> HIDE DEF n, a
  <2> QED BY <1>1, <1>2
<1>4. Joined(S, F) = Concatenated(ss)
  BY DEF Joined
<1> HIDE DEF ss
<1> QED BY <1>3, <1>4, FlattenLayout DEF Concatenated

\* The bytes of a group are its header and its body.
LEMMA GroupBytes ==
    ASSUME NEW gid \in Byte, NEW body \in Seq(Nat)
    PROVE  /\ EncodeGroup(gid, body) \in Seq(Nat) /\ EncodeGroup(gid, body) # <<>>
           /\ Len(EncodeGroup(gid, body)) \in Nat
           /\ Len(body) + 2 <= Len(EncodeGroup(gid, body))
<1> DEFINE len == Len(body)
           c == IF len < GROUP_2BYTE THEN <<len>>
                ELSE IF len < 65536 THEN <<GROUP_2BYTE>> \o U16(len)
                ELSE <<GROUP_4BYTE>> \o U32(len)
<1>1. EncodeGroup(gid, body) = <<gid>> \o c \o body
  BY DEF EncodeGroup
<1>2. len \in Nat
  OBVIOUS
<1>3. U16(len) \in Seq(Nat) /\ U32(len) \in Seq(Nat)
  <2> HIDE DEF len
  <2> QED BY <1>2, MachineIntegers
<1>4. <<GROUP_2BYTE>> \in Seq(Nat) /\ <<GROUP_4BYTE>> \in Seq(Nat) /\ <<len>> \in Seq(Nat)
      /\ Len(<<GROUP_2BYTE>>) = 1 /\ Len(<<GROUP_4BYTE>>) = 1 /\ Len(<<len>>) = 1
  <2> HIDE DEF len
  <2> QED BY <1>2 DEF GROUP_2BYTE, GROUP_4BYTE
<1>5. c \in Seq(Nat) /\ Len(c) \in Nat /\ 1 <= Len(c)
  <2>1. /\ <<GROUP_2BYTE>> \o U16(len) \in Seq(Nat)
        /\ Len(<<GROUP_2BYTE>> \o U16(len)) = 1 + Len(U16(len)) /\ Len(U16(len)) \in Nat
    <3> HIDE DEF len
    <3> QED BY <1>3, <1>4, ConcatFacts
  <2>2. /\ <<GROUP_4BYTE>> \o U32(len) \in Seq(Nat)
        /\ Len(<<GROUP_4BYTE>> \o U32(len)) = 1 + Len(U32(len)) /\ Len(U32(len)) \in Nat
    <3> HIDE DEF len
    <3> QED BY <1>3, <1>4, ConcatFacts
  <2> HIDE DEF len
  <2> QED BY <1>4, <2>1, <2>2
<1> HIDE DEF c, len
<1>6. <<gid>> \in Seq(Nat) /\ Len(<<gid>>) = 1
  BY DEF Byte
<1>7. /\ <<gid>> \o c \in Seq(Nat) /\ Len(<<gid>> \o c) = 1 + Len(c)
  BY <1>5, <1>6, ConcatFacts
<1> DEFINE h == <<gid>> \o c
           w == h \o body
<1> HIDE DEF h
<1>8. /\ w \in Seq(Nat) /\ Len(w) = Len(h) + Len(body) /\ Len(body) \in Nat /\ Len(h) \in Nat
  BY <1>7, ConcatFacts DEF h
<1>9. Len(h) = 1 + Len(c)
  BY <1>7 DEF h
<1>10. EncodeGroup(gid, body) = w
  BY <1>1 DEF h
<1> HIDE DEF w
<1>11. Len(w) # 0
  BY <1>5, <1>8, <1>9
<1>12. w # <<>>
  BY <1>11
<1> QED BY <1>5, <1>8, <1>9, <1>10, <1>12

\* A group whose header is at "at" holds the bytes from start to end.
Opens(m, at, k, start, end) ==
    /\ At(m, at) = k
    /\ ExtractGroup(m, at + 1).start = start
    /\ ExtractGroup(m, at + 1).end = end
    /\ start \in Nat /\ end \in Nat /\ at + 2 <= start

\* The reader opens a stored group.
LEMMA GroupOpens ==
    ASSUME NEW m \in Seq(Nat), NEW gid \in Byte, NEW body \in Seq(Nat), NEW at,
           StoredAt(m, at, EncodeGroup(gid, body)),
           IsWord(Len(EncodeGroup(gid, body)))
    PROVE  \E start : /\ Opens(m, at, gid, start, start + Len(body))
                      /\ StoredAt(m, start, body)
                      /\ start + Len(body) = at + Len(EncodeGroup(gid, body))
                      /\ IsWord(Len(body))
<1> DEFINE w == EncodeGroup(gid, body)
           s == ExtractGroup(m, at + 1).start
<1>1. Len(w) \in Nat /\ Len(body) \in Nat /\ Len(body) + 2 <= Len(w)
  BY GroupBytes
<1>2. IsWord(Len(body))
  <2> HIDE DEF w
  <2> QED BY <1>1 DEF IsWord, w
<1>3. /\ At(m, at) = gid /\ StoredAt(m, s, body)
      /\ ExtractGroup(m, at + 1).end = s + Len(body)
  BY <1>2, BytesAreInts, GroupRoundTrip
<1>4. at \in Nat \ {0}
  BY DEF StoredAt
<1>5. s \in Nat
  BY <1>3 DEF StoredAt
<1>6. /\ s + Len(body) = at + Len(w) /\ at + 2 <= s
  BY <1>2, <1>3, BytesAreInts, GroupRoundTrip
<1> QED BY <1>1, <1>2, <1>3, <1>4, <1>5, <1>6 DEF Opens

\* The pieces of S in memory, from lo to hi.
LaidOut(S, F, m, lo, hi, at, end) ==
    /\ Tiled(S, at, end, lo, hi)
    /\ \A x \in S : end[x] = at[x] + Len(F[x]) /\ StoredAt(m, at[x], F[x])

\* Only the places of the elements matter.
LEMMA PlacedAgrees ==
    ASSUME NEW S, NEW F, NEW m, NEW lo, NEW hi, NEW a, NEW e, LaidOut(S, F, m, lo, hi, a, e),
           NEW b, NEW f, \A x \in S : b[x] = a[x] /\ f[x] = e[x]
    PROVE  LaidOut(S, F, m, lo, hi, b, f)
<1>1. Tiled(S, b, f, lo, hi)
  BY DEF LaidOut, Tiled
<1> QED BY <1>1 DEF LaidOut

\* The elements of T that belong to k.
Part(T, key, k) == {x \in T : key[x] = k}

\* What is placed part by part is placed by one pair of functions.
LEMMA PartsPlaced ==
    ASSUME NEW K, NEW T, NEW key, NEW F, NEW m, NEW lo, NEW hi,
           \A x \in T : key[x] \in K,
           \A k \in K : \E at, end : LaidOut(Part(T, key, k), F, m, lo[k], hi[k], at, end)
    PROVE  \E at, end : \A k \in K : LaidOut(Part(T, key, k), F, m, lo[k], hi[k], at, end)
<1> DEFINE fits(k, p) == LaidOut(Part(T, key, k), F, m, lo[k], hi[k], p[1], p[2])
           pick == [k \in K |-> CHOOSE p : fits(k, p)]
           at   == [x \in T |-> pick[key[x]][1]]
           a    == [x \in T |-> pick[key[x]][1][x]]
           e    == [x \in T |-> pick[key[x]][2][x]]
<1>1. ASSUME NEW k \in K PROVE fits(k, pick[k])
  <2>1. PICK b, f : LaidOut(Part(T, key, k), F, m, lo[k], hi[k], b, f)
    OBVIOUS
  <2>2. fits(k, <<b, f>>)
    BY <2>1
  <2> HIDE DEF fits
  <2>3. fits(k, CHOOSE p : fits(k, p))
    BY <2>2
  <2> QED BY <2>3
<1>2. ASSUME NEW k \in K PROVE LaidOut(Part(T, key, k), F, m, lo[k], hi[k], a, e)
  <2> DEFINE p == pick[k]
  <2>1. LaidOut(Part(T, key, k), F, m, lo[k], hi[k], p[1], p[2])
    BY <1>1
  <2>2. ASSUME NEW x \in Part(T, key, k)
        PROVE  a[x] = p[1][x] /\ e[x] = p[2][x]
    <3>1. x \in T /\ key[x] = k
      BY DEF Part
    <3> HIDE DEF pick
    <3> QED BY <3>1
  <2> HIDE DEF a, e, p
  <2> QED BY <2>1, <2>2, PlacedAgrees
<1> HIDE DEF a, e
<1> QED BY <1>2

\* Joined pieces are placed.
LEMMA JoinedPlaced ==
    ASSUME NEW S, NEW F, Pieces(S, F), NEW m, NEW lo, StoredAt(m, lo, Joined(S, F))
    PROVE  \E at, end : LaidOut(S, F, m, lo, lo + Len(Joined(S, F)), at, end)
BY JoinedPieces DEF LaidOut
-----------------------------------------------------------------------------
\* The postings of a term, and its groups of both levels.
PostingPiece(R)  == [id \in IdsOf(R) |-> Posting(id % SmallSpan, RecordsOf(R, id))]
GroupsOf(R)      == {GroupOf(id) : id \in IdsOf(R)}
SmallIds(R, g)   == {id \in IdsOf(R) : GroupOf(id) = g}
SmallBody(R, g)  == Joined(SmallIds(R, g), PostingPiece(R))
SmallPiece(R)    == [g \in GroupsOf(R) |-> EncodeGroup(MidOf(g), SmallBody(R, g))]
HighsOf(R)       == {HighBase(g) : g \in GroupsOf(R)}
GroupsIn(R, h)   == {g \in GroupsOf(R) : HighBase(g) = h}
HighBody(R, h)   == Joined(GroupsIn(R, h), SmallPiece(R))
HighPiece(R)     == [h \in HighsOf(R) |-> EncodeGroup(HighOf(h), HighBody(R, h))]

\* A term the format holds.
IdsInRange(R) == /\ IsFiniteSet(IdsOf(R)) /\ IdsOf(R) # {} /\ IdsOf(R) \in SUBSET Nat
                 /\ \A id \in IdsOf(R) : id < IdLimit
Encodable(R) == /\ IdsInRange(R)
                /\ \A id \in IdsOf(R) : NarrowPosting(RecordsOf(R, id))
Storable(R) == Encodable(R) /\ IsWord(Len(CompressGroups(R)) + HeaderSize)

\* The groups of a term are numbers of the levels they stand for.
LEMMA GroupFacts ==
    ASSUME NEW R, IdsInRange(R)
    PROVE  /\ \A g \in GroupsOf(R) :
                 /\ g \in Nat /\ g < IdLimit /\ HighBase(g) \in HighsOf(R)
                 /\ GroupOf(g) = g /\ MidOf(g) \in Byte
                 /\ g = HighBase(g) + MidOf(g) * SmallSpan
                 /\ IsFiniteSet(SmallIds(R, g)) /\ SmallIds(R, g) # {}
                 /\ SmallIds(R, g) \in SUBSET IdsOf(R)
           /\ \A h \in HighsOf(R) :
                 /\ h \in Nat /\ h < IdLimit /\ HighBase(h) = h /\ GroupOf(h) = h
                 /\ HighOf(h) \in Byte /\ h = HighOf(h) * HighSpan
                 /\ IsFiniteSet(GroupsIn(R, h)) /\ GroupsIn(R, h) # {}
                 /\ GroupsIn(R, h) \in SUBSET GroupsOf(R)
           /\ IsFiniteSet(HighsOf(R)) /\ HighsOf(R) # {}
<1>1. ASSUME NEW g \in GroupsOf(R)
      PROVE  \E id \in IdsOf(R) : g = GroupOf(id) /\ id \in Nat /\ id < IdLimit
  BY DEF GroupsOf, IdsInRange
<1>2. ASSUME NEW g \in GroupsOf(R)
      PROVE  /\ g \in Nat /\ g < IdLimit /\ HighBase(g) \in HighsOf(R)
             /\ GroupOf(g) = g /\ MidOf(g) \in Byte
             /\ g = HighBase(g) + MidOf(g) * SmallSpan
             /\ SmallIds(R, g) # {} /\ SmallIds(R, g) \in SUBSET IdsOf(R)
  <2>1. PICK id \in IdsOf(R) : g = GroupOf(id) /\ id \in Nat /\ id < IdLimit
    BY <1>1
  <2>2. /\ GroupOf(id) \in Nat /\ GroupOf(id) < IdLimit /\ MidOf(GroupOf(id)) = MidOf(id)
        /\ MidOf(id) \in Byte /\ HighBase(GroupOf(id)) = HighBase(id)
        /\ GroupOf(GroupOf(id)) = GroupOf(id)
        /\ GroupOf(id) = HighBase(id) + MidOf(id) * SmallSpan
    BY <2>1, LevelFacts
  <2>3. id \in SmallIds(R, g)
    BY <2>1 DEF SmallIds
  <2> QED BY <2>1, <2>2, <2>3 DEF HighsOf, SmallIds
<1>3. ASSUME NEW h \in HighsOf(R)
      PROVE  /\ h \in Nat /\ h < IdLimit /\ HighBase(h) = h /\ GroupOf(h) = h
             /\ HighOf(h) \in Byte /\ h = HighOf(h) * HighSpan
             /\ GroupsIn(R, h) # {} /\ GroupsIn(R, h) \in SUBSET GroupsOf(R)
  <2>1. PICK g \in GroupsOf(R) : h = HighBase(g)
    BY DEF HighsOf
  <2>2. g \in Nat /\ g < IdLimit
    BY <1>2
  <2>3. /\ HighBase(g) \in Nat /\ HighBase(g) < IdLimit /\ HighBase(HighBase(g)) = HighBase(g)
        /\ GroupOf(HighBase(g)) = HighBase(g) /\ HighOf(HighBase(g)) = HighOf(g)
        /\ HighOf(g) \in Byte /\ HighBase(g) = HighOf(g) * HighSpan
    BY <2>2, LevelFacts
  <2>4. g \in GroupsIn(R, h)
    BY <2>1 DEF GroupsIn
  <2> QED BY <2>1, <2>3, <2>4 DEF GroupsIn
<1>4. IsFiniteSet(GroupsOf(R)) /\ GroupsOf(R) # {}
  <2> DEFINE f == [id \in IdsOf(R) |-> GroupOf(id)]
  <2>1. GroupsOf(R) = Mapped(f, IdsOf(R))
    BY DEF GroupsOf, Mapped
  <2> HIDE DEF f
  <2>2. IsFiniteSet(Mapped(f, IdsOf(R)))
    BY MappedSets DEF IdsInRange
  <2> QED BY <2>1, <2>2 DEF GroupsOf, IdsInRange
<1>5. IsFiniteSet(HighsOf(R)) /\ HighsOf(R) # {}
  <2> DEFINE f == [g \in GroupsOf(R) |-> HighBase(g)]
  <2>1. HighsOf(R) = Mapped(f, GroupsOf(R))
    BY DEF HighsOf, Mapped
  <2> HIDE DEF f
  <2>2. IsFiniteSet(Mapped(f, GroupsOf(R)))
    BY <1>4, MappedSets
  <2> QED BY <1>4, <2>1, <2>2 DEF HighsOf
<1>6. \A g \in GroupsOf(R) : IsFiniteSet(SmallIds(R, g))
  BY <1>2, FS_Subset DEF IdsInRange
<1>7. \A h \in HighsOf(R) : IsFiniteSet(GroupsIn(R, h))
  BY <1>3, <1>4, FS_Subset
<1> QED BY <1>2, <1>3, <1>5, <1>6, <1>7

\* The bytes of a posting: its control word at least.
LEMMA PostingLength ==
    ASSUME NEW recs, NarrowPosting(recs), NEW sid \in Nat
    PROVE  Posting(sid, recs) \in Seq(Nat) /\ Posting(sid, recs) # <<>>
<1> DEFINE v == IdShift * sid + EncodePosting(recs).flags
           a == U16(v)
           b == EncodePosting(recs).payload
<1>1. EncodePosting(recs).flags \in Int /\ b \in Seq(Nat) /\ Len(b) \in Nat
  <2>1. EncodePosting(recs).flags \in 0..63 /\ b \in Seq(Nat) /\ Len(b) \in Nat
    BY PayloadFacts
  <2> DEFINE f == EncodePosting(recs).flags
  <2> HIDE DEF b, f
  <2>2. f \in 0..63 => f \in Int
    OBVIOUS
  <2> QED BY <2>1, <2>2 DEF f
<1>2. v \in Int
  BY <1>1 DEF IdShift
<1> HIDE DEF v
<1>3. a \in Seq(Nat) /\ Len(a) = 2
  <2>1. a \in Seq(Nat)
    BY <1>2, MachineIntegers
  <2>2. Len(a) = 2
    BY DEF U16
  <2> QED BY <2>1, <2>2
<1>4. Posting(sid, recs) = a \o b
  BY DEF Posting, v
<1> HIDE DEF a, b
<1>5. a \o b \in Seq(Nat) /\ Len(a \o b) = Len(a) + Len(b)
  BY <1>1, <1>3, ConcatFacts
<1> DEFINE w == a \o b
<1> HIDE DEF w
<1>6. w \in Seq(Nat) /\ Len(w) # 0
  BY <1>1, <1>3, <1>5 DEF w
<1>7. w # <<>>
  BY <1>6
<1> QED BY <1>4, <1>6, <1>7 DEF w

\* Every level of a term is made of pieces.
LEMMA TermPieces ==
    ASSUME NEW R, Encodable(R)
    PROVE  /\ \A g \in GroupsOf(R) : Pieces(SmallIds(R, g), PostingPiece(R))
           /\ \A h \in HighsOf(R) : Pieces(GroupsIn(R, h), SmallPiece(R))
           /\ Pieces(HighsOf(R), HighPiece(R))
           /\ \A g \in GroupsOf(R) : SmallBody(R, g) \in Seq(Nat)
           /\ \A h \in HighsOf(R) : HighBody(R, h) \in Seq(Nat)
<1>1. IdsInRange(R) /\ \A id \in IdsOf(R) : NarrowPosting(RecordsOf(R, id)) /\ id \in Nat
  BY DEF Encodable, IdsInRange
<1>2. \A id \in IdsOf(R) : PostingPiece(R)[id] = Posting(id % SmallSpan, RecordsOf(R, id))
  BY DEF PostingPiece
<1>3. ASSUME NEW id \in IdsOf(R)
      PROVE  PostingPiece(R)[id] \in Seq(Nat) /\ PostingPiece(R)[id] # <<>>
  <2>1. id % SmallSpan \in Nat
    BY <1>1 DEF SmallSpan
  <2> QED BY <1>1, <1>2, <2>1, PostingLength
<1>4. ASSUME NEW g \in GroupsOf(R) PROVE Pieces(SmallIds(R, g), PostingPiece(R))
  <2>1. /\ IsFiniteSet(SmallIds(R, g)) /\ SmallIds(R, g) # {}
        /\ SmallIds(R, g) \in SUBSET IdsOf(R)
    BY <1>1, GroupFacts
  <2>2. \A id \in SmallIds(R, g) : id \in IdsOf(R) /\ id \in Nat
    BY <1>1, <2>1
  <2> QED BY <1>3, <2>1, <2>2 DEF Pieces
<1>5. \A g \in GroupsOf(R) : SmallBody(R, g) \in Seq(Nat)
  BY <1>4, JoinedBytes DEF SmallBody
<1>6. ASSUME NEW g \in GroupsOf(R)
      PROVE  SmallPiece(R)[g] \in Seq(Nat) /\ SmallPiece(R)[g] # <<>> /\ g \in Nat
  <2>1. SmallPiece(R)[g] = EncodeGroup(MidOf(g), SmallBody(R, g))
    BY DEF SmallPiece
  <2>2. MidOf(g) \in Byte /\ g \in Nat
    BY <1>1, GroupFacts
  <2> QED BY <1>5, <2>1, <2>2, GroupBytes
<1>7. ASSUME NEW h \in HighsOf(R) PROVE Pieces(GroupsIn(R, h), SmallPiece(R))
  <2>1. /\ IsFiniteSet(GroupsIn(R, h)) /\ GroupsIn(R, h) # {}
        /\ GroupsIn(R, h) \in SUBSET GroupsOf(R)
    BY <1>1, GroupFacts
  <2>2. \A g \in GroupsIn(R, h) : g \in GroupsOf(R) /\ g \in Nat
    BY <1>6, <2>1
  <2> QED BY <1>6, <2>1, <2>2 DEF Pieces
<1>8. \A h \in HighsOf(R) : HighBody(R, h) \in Seq(Nat)
  BY <1>7, JoinedBytes DEF HighBody
<1>9. ASSUME NEW h \in HighsOf(R)
      PROVE  HighPiece(R)[h] \in Seq(Nat) /\ HighPiece(R)[h] # <<>> /\ h \in Nat
  <2>1. HighPiece(R)[h] = EncodeGroup(HighOf(h), HighBody(R, h))
    BY DEF HighPiece
  <2>2. HighOf(h) \in Byte /\ h \in Nat
    BY <1>1, GroupFacts
  <2> QED BY <1>8, <2>1, <2>2, GroupBytes
<1>10. Pieces(HighsOf(R), HighPiece(R))
  <2>1. IsFiniteSet(HighsOf(R)) /\ HighsOf(R) # {}
    BY <1>1, GroupFacts
  <2> QED BY <1>9, <2>1 DEF Pieces
<1> QED BY <1>4, <1>5, <1>7, <1>8, <1>10

\* compress_groups writes these pieces.
LEMMA SmallGroupJoined ==
    ASSUME NEW R, IdsInRange(R), NEW g \in GroupsOf(R)
    PROVE  EncodeSmallGroup(R, g) = SmallBody(R, g)
<1> DEFINE S == SmallIds(R, g)
           a == Ascending(S)
           n == Cardinality(S)
           F == PostingPiece(R)
<1>1. S \in SUBSET Nat /\ IsFiniteSet(S) /\ S \in SUBSET IdsOf(R)
  <2>1. IsFiniteSet(S) /\ S \in SUBSET IdsOf(R)
    BY GroupFacts
  <2> QED BY <2>1 DEF IdsInRange
<1> HIDE DEF S
<1>2. n \in Nat /\ a \in [1..n -> S]
  BY <1>1, AscendingFacts
<1>3. Len(a) = n
  <2> HIDE DEF a, n
  <2> QED BY <1>2
<1>4. \A i \in 1..n : a[i] \in IdsOf(R)
  BY <1>1, <1>2
<1>5. \A i \in 1..n : F[a[i]] = U16(IdShift * (a[i] % SmallSpan)
                                   + EncodePosting(RecordsOf(R, a[i])).flags)
                               \o EncodePosting(RecordsOf(R, a[i])).payload
  <2> HIDE DEF a, n
  <2> QED BY <1>4 DEF PostingPiece, Posting
<1>6. EncodeSmallGroup(R, g) =
         FlattenSeq([i \in 1..Len(a) |-> U16(IdShift * (a[i] % SmallSpan)
                                   + EncodePosting(RecordsOf(R, a[i])).flags)
                               \o EncodePosting(RecordsOf(R, a[i])).payload])
  BY DEF EncodeSmallGroup, S, SmallIds
<1>7. SmallBody(R, g) = FlattenSeq([i \in 1..n |-> F[a[i]]])
  BY DEF SmallBody, Joined, Concatenated, S
<1> HIDE DEF a, n, F
<1>8. [i \in 1..Len(a) |-> U16(IdShift * (a[i] % SmallSpan)
                                   + EncodePosting(RecordsOf(R, a[i])).flags)
                               \o EncodePosting(RecordsOf(R, a[i])).payload]
      = [i \in 1..n |-> F[a[i]]]
  BY <1>3, <1>5
<1> QED BY <1>6, <1>7, <1>8

\* The groups of a term are the joined pieces of its high level groups.
LEMMA GroupsJoined ==
    ASSUME NEW R, IdsInRange(R)
    PROVE  CompressGroups(R) = Joined(HighsOf(R), HighPiece(R))
<1> DEFINE mids(h) == Ascending(GroupsIn(R, h))
           level2(h) == FlattenSeq([i \in 1..Len(mids(h)) |->
                EncodeGroup(MidOf(mids(h)[i]), EncodeSmallGroup(R, mids(h)[i]))])
           a == Ascending(HighsOf(R))
           n == Cardinality(HighsOf(R))
<1>1. ASSUME NEW h \in HighsOf(R) PROVE level2(h) = HighBody(R, h)
  <2> DEFINE S == GroupsIn(R, h)
             b == Ascending(S)
             k == Cardinality(S)
             F == SmallPiece(R)
  <2>1. S \in SUBSET Nat /\ IsFiniteSet(S) /\ S \in SUBSET GroupsOf(R)
    <3>1. IsFiniteSet(S) /\ S \in SUBSET GroupsOf(R) /\ \A g \in GroupsOf(R) : g \in Nat
      BY GroupFacts
    <3> HIDE DEF S
    <3> QED BY <3>1
  <2> HIDE DEF S
  <2>2. k \in Nat /\ b \in [1..k -> S]
    BY <2>1, AscendingFacts
  <2>3. Len(b) = k
    <3> HIDE DEF b, k
    <3> QED BY <2>2
  <2>4. \A i \in 1..k : b[i] \in GroupsOf(R)
    BY <2>1, <2>2
  <2>5. \A i \in 1..k : F[b[i]] = EncodeGroup(MidOf(b[i]), EncodeSmallGroup(R, b[i]))
    <3> HIDE DEF b, k
    <3> QED BY <2>4, SmallGroupJoined DEF SmallPiece
  <2>6. level2(h) = FlattenSeq([i \in 1..Len(b) |->
                       EncodeGroup(MidOf(b[i]), EncodeSmallGroup(R, b[i]))])
    BY DEF S
  <2>7. HighBody(R, h) = FlattenSeq([i \in 1..k |-> F[b[i]]])
    BY DEF HighBody, Joined, Concatenated, S
  <2> HIDE DEF b, k, F, level2, mids
  <2>8. [i \in 1..Len(b) |-> EncodeGroup(MidOf(b[i]), EncodeSmallGroup(R, b[i]))]
        = [i \in 1..k |-> F[b[i]]]
    BY <2>3, <2>5
  <2> QED BY <2>6, <2>7, <2>8
<1>2. CompressGroups(R) = FlattenSeq([i \in 1..Len(a) |-> EncodeGroup(HighOf(a[i]), level2(a[i]))])
  BY DEF CompressGroups, HighsOf, GroupsOf, GroupsIn
<1>3. Joined(HighsOf(R), HighPiece(R)) = FlattenSeq([i \in 1..n |-> HighPiece(R)[a[i]]])
  BY DEF Joined, Concatenated
<1>4. n \in Nat /\ a \in [1..n -> HighsOf(R)]
  <2>1. IsFiniteSet(HighsOf(R)) /\ HighsOf(R) \in SUBSET Nat
    BY GroupFacts
  <2> QED BY <2>1, AscendingFacts
<1> HIDE DEF a, n, level2, mids
<1>5. Len(a) = n
  BY <1>4
<1>6. \A i \in 1..n : HighPiece(R)[a[i]] = EncodeGroup(HighOf(a[i]), level2(a[i]))
  BY <1>1, <1>4 DEF HighPiece
<1>7. [i \in 1..Len(a) |-> EncodeGroup(HighOf(a[i]), level2(a[i]))]
      = [i \in 1..n |-> HighPiece(R)[a[i]]]
  BY <1>5, <1>6
<1> QED BY <1>2, <1>3, <1>7

\* What compress_groups writes is bytes.
LEMMA GroupsAreBytes ==
    ASSUME NEW R, Encodable(R)
    PROVE  CompressGroups(R) \in Seq(Nat) /\ Len(CompressGroups(R)) \in Nat
<1>1. CompressGroups(R) \in Seq(Nat)
  BY TermPieces, GroupsJoined, JoinedBytes DEF Encodable
<1> HIDE DEF CompressGroups
<1> QED BY <1>1

\* Where everything of a term is: the headers of the groups of both levels,
\* the bytes they hold, and the postings.
Layout(R, m, lo, hi, L) ==
    /\ Tiled(HighsOf(R), L.high, L.highEnd, lo, hi)
    /\ \A h \in HighsOf(R) :
          /\ Opens(m, L.high[h], HighOf(h), L.highStart[h], L.highEnd[h])
          /\ Tiled(GroupsIn(R, h), L.small, L.smallEnd, L.highStart[h], L.highEnd[h])
    /\ \A g \in GroupsOf(R) :
          /\ Opens(m, L.small[g], MidOf(g), L.smallStart[g], L.smallEnd[g])
          /\ LaidOut(SmallIds(R, g), PostingPiece(R), m,
                    L.smallStart[g], L.smallEnd[g], L.at, L.end)

\* A placed group opens.
LEMMA PlacedGroupOpens ==
    ASSUME NEW m \in Seq(Nat), NEW S, NEW F, NEW lo \in Nat, NEW hi \in Nat, NEW at, NEW end,
           LaidOut(S, F, m, lo, hi, at, end), IsWord(hi - lo),
           NEW x \in S, NEW k \in Byte, NEW body \in Seq(Nat), F[x] = EncodeGroup(k, body)
    PROVE  \E start : /\ Opens(m, at[x], k, start, end[x])
                      /\ StoredAt(m, start, body) /\ end[x] = start + Len(body)
                      /\ IsWord(Len(body)) /\ start \in Nat /\ IsWord(end[x] - start)
<1> DEFINE w == EncodeGroup(k, body)
<1>1. /\ end[x] = at[x] + Len(w) /\ StoredAt(m, at[x], w)
      /\ at[x] \in Nat /\ end[x] \in Nat /\ lo <= at[x] /\ end[x] <= hi
  BY DEF LaidOut, Tiled
<1>2. Len(w) \in Nat /\ Len(body) \in Nat
  BY GroupBytes
<1> HIDE DEF w
<1>3. IsWord(Len(w))
  BY <1>1, <1>2 DEF IsWord
<1>4. PICK start : /\ Opens(m, at[x], k, start, start + Len(body))
                   /\ StoredAt(m, start, body)
                   /\ start + Len(body) = at[x] + Len(w)
                   /\ IsWord(Len(body))
  BY <1>1, <1>3, GroupOpens DEF w
<1>5. start \in Nat
  BY <1>4 DEF Opens
<1>6. end[x] = start + Len(body) /\ end[x] - start = Len(body)
  BY <1>1, <1>2, <1>4, <1>5
<1> QED BY <1>4, <1>5, <1>6

\* The writer's bytes have a layout.
LEMMA LayoutExists ==
    ASSUME NEW m \in Seq(Nat), NEW R, Storable(R), NEW lo \in Nat,
           StoredAt(m, lo, CompressGroups(R)),
           NEW hi, hi = lo + Len(CompressGroups(R))
    PROVE  \E L : Layout(R, m, lo, hi, L)
<1>1. /\ \A g \in GroupsOf(R) : Pieces(SmallIds(R, g), PostingPiece(R))
      /\ \A h \in HighsOf(R) : Pieces(GroupsIn(R, h), SmallPiece(R))
      /\ Pieces(HighsOf(R), HighPiece(R))
      /\ \A g \in GroupsOf(R) : SmallBody(R, g) \in Seq(Nat)
      /\ \A h \in HighsOf(R) : HighBody(R, h) \in Seq(Nat)
  BY TermPieces DEF Storable
<1>2. /\ \A g \in GroupsOf(R) : HighBase(g) \in HighsOf(R) /\ MidOf(g) \in Byte
                                /\ SmallIds(R, g) \in SUBSET IdsOf(R)
      /\ \A h \in HighsOf(R) : HighOf(h) \in Byte
  BY GroupFacts DEF Storable, Encodable
<1>3. CompressGroups(R) = Joined(HighsOf(R), HighPiece(R))
  BY GroupsJoined DEF Storable, Encodable
<1>4. PICK ha, he : LaidOut(HighsOf(R), HighPiece(R), m, lo, hi, ha, he)
  BY <1>1, <1>3, JoinedPlaced
<1>5. hi \in Nat /\ IsWord(hi - lo)
  <2> DEFINE w == CompressGroups(R)
  <2>1. Len(w) \in Nat
    BY <1>1, <1>3, JoinedBytes, BytesAreInts
  <2>2. IsWord(Len(w) + HeaderSize)
    BY DEF Storable, Encodable
  <2> HIDE DEF w
  <2>3. hi = lo + Len(w)
    BY DEF w
  <2> QED BY <2>1, <2>2, <2>3 DEF IsWord, HeaderSize
<1> DEFINE OpenHigh(h, s) ==
             /\ Opens(m, ha[h], HighOf(h), s, he[h]) /\ StoredAt(m, s, HighBody(R, h))
             /\ he[h] = s + Len(HighBody(R, h)) /\ s \in Nat /\ IsWord(he[h] - s)
           hs == [h \in HighsOf(R) |-> CHOOSE s : OpenHigh(h, s)]
<1>6. \A h \in HighsOf(R) : OpenHigh(h, hs[h])
  <2>1. TAKE h \in HighsOf(R)
  <2>2. HighPiece(R)[h] = EncodeGroup(HighOf(h), HighBody(R, h))
    BY DEF HighPiece
  <2>3. PICK start : OpenHigh(h, start)
    BY <1>1, <1>2, <1>4, <1>5, <2>2, PlacedGroupOpens
  <2> HIDE DEF OpenHigh
  <2>4. OpenHigh(h, CHOOSE s : OpenHigh(h, s))
    BY <2>3
  <2> QED BY <2>4
<1> HIDE DEF hs
<1> DEFINE hkey == [g \in GroupsOf(R) |-> HighBase(g)]
<1>7. \A h \in HighsOf(R) : GroupsIn(R, h) = Part(GroupsOf(R), hkey, h)
  BY DEF GroupsIn, Part
<1>8. \A g \in GroupsOf(R) : hkey[g] = HighBase(g)
  OBVIOUS
<1> HIDE DEF hkey
<1>9. \A h \in HighsOf(R) : \E at, end :
         LaidOut(Part(GroupsOf(R), hkey, h), SmallPiece(R), m, hs[h], he[h], at, end)
  <2>1. TAKE h \in HighsOf(R)
  <2>2. StoredAt(m, hs[h], Joined(GroupsIn(R, h), SmallPiece(R)))
        /\ he[h] = hs[h] + Len(Joined(GroupsIn(R, h), SmallPiece(R)))
    BY <1>6 DEF HighBody
  <2> HIDE DEF OpenHigh
  <2>3. \E at, end : LaidOut(GroupsIn(R, h), SmallPiece(R), m, hs[h], he[h], at, end)
    BY <1>1, <2>2, JoinedPlaced
  <2> QED BY <1>7, <2>3
<1>10. PICK ga, ge : \A h \in HighsOf(R) :
         LaidOut(Part(GroupsOf(R), hkey, h), SmallPiece(R), m, hs[h], he[h], ga, ge)
  <2>1. \A g \in GroupsOf(R) : hkey[g] \in HighsOf(R)
    BY <1>2, <1>8
  <2> HIDE DEF OpenHigh
  <2> QED BY <1>9, <2>1, PartsPlaced
<1>11. \A h \in HighsOf(R) : LaidOut(GroupsIn(R, h), SmallPiece(R), m, hs[h], he[h], ga, ge)
  BY <1>7, <1>10
<1> DEFINE OpenSmall(g, s) ==
             /\ Opens(m, ga[g], MidOf(g), s, ge[g]) /\ StoredAt(m, s, SmallBody(R, g))
             /\ ge[g] = s + Len(SmallBody(R, g)) /\ s \in Nat
           gs == [g \in GroupsOf(R) |-> CHOOSE s : OpenSmall(g, s)]
<1>12. \A g \in GroupsOf(R) : OpenSmall(g, gs[g])
  <2>1. TAKE g \in GroupsOf(R)
  <2>2. SmallPiece(R)[g] = EncodeGroup(MidOf(g), SmallBody(R, g))
    BY DEF SmallPiece
  <2> DEFINE h == HighBase(g)
  <2>3. h \in HighsOf(R) /\ g \in GroupsIn(R, h)
    BY <1>2 DEF GroupsIn
  <2> HIDE DEF h
  <2>4. /\ hs[h] \in Nat /\ he[h] \in Nat /\ IsWord(he[h] - hs[h])
        /\ LaidOut(GroupsIn(R, h), SmallPiece(R), m, hs[h], he[h], ga, ge)
    <3>1. he[h] \in Nat
      BY <1>4, <2>3 DEF LaidOut, Tiled
    <3> QED BY <1>6, <1>11, <2>3, <3>1
  <2> HIDE DEF OpenHigh
  <2>5. PICK start : OpenSmall(g, start)
    BY <1>1, <1>2, <2>2, <2>3, <2>4, PlacedGroupOpens
  <2> HIDE DEF OpenSmall
  <2>6. OpenSmall(g, CHOOSE s : OpenSmall(g, s))
    BY <2>5
  <2> QED BY <2>6
<1> HIDE DEF gs
<1> DEFINE gkey == [id \in IdsOf(R) |-> GroupOf(id)]
<1>13. \A g \in GroupsOf(R) : SmallIds(R, g) = Part(IdsOf(R), gkey, g)
  BY DEF SmallIds, Part
<1>14. \A id \in IdsOf(R) : gkey[id] \in GroupsOf(R)
  BY DEF GroupsOf
<1> HIDE DEF gkey
<1>15. \A g \in GroupsOf(R) : \E at, end :
         LaidOut(Part(IdsOf(R), gkey, g), PostingPiece(R), m, gs[g], ge[g], at, end)
  <2>1. TAKE g \in GroupsOf(R)
  <2>2. StoredAt(m, gs[g], Joined(SmallIds(R, g), PostingPiece(R)))
        /\ ge[g] = gs[g] + Len(Joined(SmallIds(R, g), PostingPiece(R)))
    BY <1>12 DEF SmallBody
  <2> HIDE DEF OpenSmall, OpenHigh
  <2>3. \E at, end : LaidOut(SmallIds(R, g), PostingPiece(R), m, gs[g], ge[g], at, end)
    BY <1>1, <2>2, JoinedPlaced
  <2> QED BY <1>13, <2>3
<1>16. PICK pa, pe : \A g \in GroupsOf(R) :
         LaidOut(Part(IdsOf(R), gkey, g), PostingPiece(R), m, gs[g], ge[g], pa, pe)
  <2> HIDE DEF OpenSmall, OpenHigh
  <2> QED BY <1>14, <1>15, PartsPlaced
<1> DEFINE L == [high |-> ha, highEnd |-> he, highStart |-> hs, small |-> ga,
                 smallEnd |-> ge, smallStart |-> gs, at |-> pa, end |-> pe]
<1>17. Tiled(HighsOf(R), L.high, L.highEnd, lo, hi)
  BY <1>4 DEF LaidOut
<1>18. \A h \in HighsOf(R) :
          /\ Opens(m, L.high[h], HighOf(h), L.highStart[h], L.highEnd[h])
          /\ Tiled(GroupsIn(R, h), L.small, L.smallEnd, L.highStart[h], L.highEnd[h])
  BY <1>6, <1>11 DEF LaidOut
<1>19. \A g \in GroupsOf(R) :
          /\ Opens(m, L.small[g], MidOf(g), L.smallStart[g], L.smallEnd[g])
          /\ LaidOut(SmallIds(R, g), PostingPiece(R), m,
                    L.smallStart[g], L.smallEnd[g], L.at, L.end)
  BY <1>12, <1>13, <1>16
<1> HIDE DEF L
<1> QED BY <1>17, <1>18, <1>19 DEF Layout

\* Offsets only depend on what is in front.
AddUp(n, len, off) ==
    /\ off \in [1..(n + 1) -> Nat] /\ off[1] = 0
    /\ \A i \in 1..n : off[i + 1] = off[i] + len[i]

\* Offsets that add up the same lengths are the same.
LEMMA SameOffsets ==
    ASSUME NEW n \in Nat, NEW k \in 0..n, NEW len, NEW off, AddUp(n, len, off),
           NEW o2, AddUp(k, len, o2)
    PROVE  o2[k + 1] = off[k + 1]
<1> USE DEF AddUp
<1> DEFINE Bad == {i \in 1..(k + 1) : o2[i] # off[i]}
<1>1. ASSUME Bad # {} PROVE FALSE
  <2>1. Bad \in SUBSET Nat
    OBVIOUS
  <2>2. PICK b \in Bad : \A x \in Bad : b <= x
    <3> HIDE DEF Bad
    <3> QED BY <1>1, <2>1, MinimumExists
  <2>3. b \in 1..(k + 1) /\ o2[b] # off[b]
    OBVIOUS
  <2>4. b # 1
    BY <2>3
  <2>5. b - 1 \in 1..k /\ b - 1 \in 1..n /\ b - 1 \in 1..(k + 1)
    BY <2>3, <2>4
  <2>6. o2[b - 1] = off[b - 1]
    <3>1. b - 1 \notin Bad
      <4> HIDE DEF Bad
      <4> QED BY <2>2, <2>3
    <3> QED BY <2>5, <3>1
  <2>7. (b - 1) + 1 = b
    BY <2>3
  <2> DEFINE c == b - 1
  <2>8. o2[c + 1] = o2[c] + len[c] /\ off[c + 1] = off[c] + len[c]
    <3> HIDE DEF c
    <3>1. c \in 1..k /\ c \in 1..n
      BY <2>5 DEF c
    <3> QED BY <3>1
  <2> QED BY <2>3, <2>6, <2>7, <2>8
<1>2. k + 1 \in 1..(k + 1)
  OBVIOUS
<1> QED BY <1>1, <1>2

\* The length of what is in front of a piece is its offset.
Begins(tt, k, ss) == Len(tt) = k /\ \A i \in 1..k : tt[i] = ss[i]

\* The length of the first pieces is the offset of the next one.
LEMMA PrefixLength ==
    ASSUME NEW X, NEW ss \in Seq(Seq(X)), NEW off, Offsets(ss, off),
           NEW k \in 0..Len(ss), NEW tt \in Seq(Seq(X)), Begins(tt, k, ss)
    PROVE  Len(Concatenated(tt)) = off[k + 1]
<1>0. Len(tt) = k /\ \A i \in 1..k : tt[i] = ss[i]
  BY DEF Begins
<1> DEFINE n == Len(ss)
           len == [i \in 1..n |-> Len(ss[i])]
<1>1. n \in Nat /\ k \in 0..n /\ k \in Nat
  OBVIOUS
<1>2. /\ off \in [1..(n + 1) -> Nat] /\ off[1] = 0
      /\ \A i \in 1..n : off[i + 1] = off[i] + Len(ss[i])
  BY DEF Offsets
<1>3. PICK o2 \in [1..(k + 1) -> Nat] :
         /\ o2[1] = 0 /\ o2[k + 1] = Len(Concatenated(tt))
         /\ \A i \in 1..k : o2[i + 1] = o2[i] + Len(tt[i])
  BY <1>0, FlattenLayout DEF Concatenated
<1>4. \A i \in 1..n : len[i] = Len(ss[i]) /\ len[i] \in Nat
  OBVIOUS
<1> HIDE DEF n, len
<1>5. AddUp(n, len, off)
  BY <1>2, <1>4 DEF AddUp
<1>6. \A i \in 1..k : o2[i + 1] = o2[i] + len[i]
  <2>1. TAKE i \in 1..k
  <2>2. i \in 1..n
    BY <1>1
  <2> QED BY <1>0, <1>3, <1>4, <2>2
<1>7. AddUp(k, len, o2)
  BY <1>3, <1>6 DEF AddUp
<1>8. o2[k + 1] = off[k + 1]
  BY <1>1, <1>5, <1>7, SameOffsets
<1> QED BY <1>3, <1>8

\* The largest number of positions of a posting, 0 when there is none.
LEMMA MostPositions ==
    ASSUME NEW R, IsFiniteSet(IdsOf(R)), NEW n \in Nat,
           \A id \in IdsOf(R) : /\ Len(PositionsOf(RecordsOf(R, id))) \in Nat
                                /\ Len(PositionsOf(RecordsOf(R, id))) <= n
    PROVE  /\ MaxPositions(R) \in Nat /\ MaxPositions(R) <= n
           /\ \A id \in IdsOf(R) : Len(PositionsOf(RecordsOf(R, id))) <= MaxPositions(R)
<1> DEFINE S == {0} \cup {Len(PositionsOf(RecordsOf(R, id))) : id \in IdsOf(R)}
<1>1. S \in SUBSET Nat /\ S # {} /\ \A x \in S : x <= n
  OBVIOUS
<1>2. \A id \in IdsOf(R) : Len(PositionsOf(RecordsOf(R, id))) \in S
  OBVIOUS
<1>3. MaxPositions(R) = CHOOSE x \in S : \A y \in S : x >= y
  BY DEF MaxPositions, Max
<1> HIDE DEF S
<1>4. PICK x \in S : \A y \in S : y <= x
  BY <1>1, MaximumExists
<1>5. \E z \in S : \A y \in S : z >= y
  BY <1>1, <1>4
<1>6. MaxPositions(R) \in S /\ \A y \in S : MaxPositions(R) >= y
  BY <1>3, <1>5
<1> QED BY <1>1, <1>2, <1>6

\* A posting takes a byte at least for every position.
LEMMA PositionsTakeBytes ==
    ASSUME NEW recs, NarrowPosting(recs), NEW sid \in Nat
    PROVE  /\ Len(PositionsOf(recs)) \in Nat
           /\ Len(PositionsOf(recs)) <= Len(Posting(sid, recs))
<1> DEFINE ps == PositionsOf(recs)
           a  == U16(IdShift * sid + EncodePosting(recs).flags)
           b  == EncodePosting(recs).payload
<1>1. b \in Seq(Nat) /\ Len(b) \in Nat
  BY PayloadFacts
<1>2. Posting(sid, recs) \in Seq(Nat) /\ Len(Posting(sid, recs)) \in Nat
  BY PostingLength
<1>3. CASE OnlyValue(recs)
  <2>1. ps = <<>>
    BY <1>3 DEF PositionsOf
  <2> QED BY <1>2, <2>1
<1>4. CASE ~OnlyValue(recs)
  <2>1. Narrow(ps)
    BY <1>4 DEF NarrowPosting
  <2>2. ps \in Seq(Nat) /\ Len(ps) \in Nat
    BY <2>1 DEF Narrow
  <2> DEFINE e == EncodeTermPositions(ps)
             v == PostingValue(recs)
             z == PostingSize(ps)
  <2>3. e \in Seq(Nat) /\ Len(e) \in Nat /\ Len(ps) <= Len(e)
    <3> HIDE DEF ps
    <3> QED BY <2>2, PositionsLength
  <2>4. b = v \o z \o e
    BY <1>4, PostingParts
  <2>5. v \in Seq(Nat)
    <3>1. ValueFirst(recs) => recs[1].value \in Nat
      <4>1. 1 \in 1..Len(recs)
        BY DEF NarrowPosting, RecordsAscend
      <4> QED BY <4>1 DEF NarrowPosting, RecordsAscend
    <3> QED BY <3>1, ValueBytes DEF PostingValue
  <2>6. z \in Seq(Nat)
    <3>1. Len(e) - 1 \in Int
      BY <2>3
    <3> QED BY <3>1, HighBitBytes DEF PostingSize
  <2> HIDE DEF e, v, z, ps, b
  <2>7. v \o z \in Seq(Nat)
    BY <2>5, <2>6, ConcatFacts
  <2>8. Len(b) = Len(v \o z) + Len(e) /\ Len(v \o z) \in Nat
    <3> DEFINE y == v \o z
    <3> HIDE DEF y
    <3>1. Len(y \o e) = Len(y) + Len(e) /\ Len(y) \in Nat
      BY <2>3, <2>7, ConcatFacts DEF y
    <3> QED BY <2>4, <3>1 DEF y
  <2>9. Posting(sid, recs) = a \o b /\ Len(a) = 2 /\ a \in Seq(Nat)
    <3> DEFINE w == IdShift * sid + EncodePosting(recs).flags
    <3>1. w \in Int
      <4> DEFINE f == EncodePosting(recs).flags
      <4>1. f \in 0..63
        BY PayloadFacts
      <4> HIDE DEF f
      <4>2. f \in Int
        BY <4>1
      <4> QED BY <4>2 DEF f, IdShift
    <3> HIDE DEF w
    <3>2. U16(w) \in Seq(Nat)
      BY <3>1, MachineIntegers
    <3>3. Len(U16(w)) = 2
      BY DEF U16
    <3> QED BY <3>2, <3>3 DEF Posting, w, b
  <2> HIDE DEF a
  <2>10. b \in Seq(Nat)
    BY <1>1 DEF b
  <2>11. Len(a \o b) = Len(a) + Len(b)
    BY <2>9, <2>10, ConcatFacts
  <2> QED BY <2>2, <2>3, <2>8, <2>9, <2>11 DEF ps
<1> QED BY <1>3, <1>4

\* A sequence lies at 1 in itself.
LEMMA StoredInItself ==
    ASSUME NEW w \in Seq(Nat)
    PROVE  StoredAt(w, 1, w)
<1>1. Len(w) \in Nat
  OBVIOUS
<1>2. \A i \in 1..Len(w) : At(w, 1 + i - 1) = w[i]
  <2>1. TAKE i \in 1..Len(w)
  <2>2. 1 + i - 1 = i
    BY <1>1
  <2> QED BY <2>2 DEF At
<1> QED BY <1>2 DEF StoredAt

\* Where a posting is.
LEMMA PostingPlace ==
    ASSUME NEW R, Storable(R), NEW m, NEW lo \in Nat, NEW hi \in Nat,
           NEW L, Layout(R, m, lo, hi, L), NEW id \in IdsOf(R)
    PROVE  /\ L.at[id] \in Nat /\ L.end[id] \in Nat /\ L.at[id] < L.end[id]
           /\ lo <= L.at[id] /\ L.end[id] <= hi
           /\ L.end[id] = L.at[id] + Len(Posting(id % SmallSpan, RecordsOf(R, id)))
           /\ StoredAt(m, L.at[id], Posting(id % SmallSpan, RecordsOf(R, id)))
<1> DEFINE g == GroupOf(id)
           h == HighBase(g)
<1>1. g \in GroupsOf(R) /\ id \in SmallIds(R, g)
  BY DEF GroupsOf, SmallIds
<1>2. h \in HighsOf(R) /\ g \in GroupsIn(R, h)
  BY <1>1 DEF HighsOf, GroupsIn
<1> HIDE DEF g, h
<1>3. /\ LaidOut(SmallIds(R, g), PostingPiece(R), m, L.smallStart[g], L.smallEnd[g], L.at, L.end)
      /\ Opens(m, L.small[g], MidOf(g), L.smallStart[g], L.smallEnd[g])
  BY <1>1 DEF Layout
<1>4. /\ Opens(m, L.high[h], HighOf(h), L.highStart[h], L.highEnd[h])
      /\ Tiled(GroupsIn(R, h), L.small, L.smallEnd, L.highStart[h], L.highEnd[h])
      /\ Tiled(HighsOf(R), L.high, L.highEnd, lo, hi)
  BY <1>2 DEF Layout
<1>5. PostingPiece(R)[id] = Posting(id % SmallSpan, RecordsOf(R, id))
  BY DEF PostingPiece
<1>6. /\ L.at[id] \in Nat /\ L.end[id] \in Nat /\ L.at[id] < L.end[id]
      /\ L.smallStart[g] <= L.at[id] /\ L.end[id] <= L.smallEnd[g]
      /\ L.end[id] = L.at[id] + Len(PostingPiece(R)[id])
      /\ StoredAt(m, L.at[id], PostingPiece(R)[id])
  BY <1>1, <1>3 DEF LaidOut, Tiled
<1>7. /\ L.small[g] \in Nat /\ L.highStart[h] <= L.small[g] /\ L.smallEnd[g] <= L.highEnd[h]
      /\ L.high[h] \in Nat /\ lo <= L.high[h] /\ L.highEnd[h] <= hi
  BY <1>2, <1>4 DEF Tiled
<1>8. /\ L.small[g] + 2 <= L.smallStart[g] /\ L.high[h] + 2 <= L.highStart[h]
      /\ L.smallStart[g] \in Nat /\ L.highStart[h] \in Nat
      /\ L.smallEnd[g] \in Nat /\ L.highEnd[h] \in Nat
  BY <1>3, <1>4 DEF Opens
<1>9. lo <= L.at[id] /\ L.end[id] <= hi
  <2> DEFINE a == L.at[id]
             b == L.smallStart[g]
             c == L.small[g]
             d == L.highStart[h]
             e == L.high[h]
             p == L.end[id]
             q == L.smallEnd[g]
             r == L.highEnd[h]
  <2>1. /\ a \in Nat /\ b \in Nat /\ c \in Nat /\ d \in Nat /\ e \in Nat
        /\ b <= a /\ c + 2 <= b /\ d <= c /\ e + 2 <= d /\ lo <= e
    BY <1>6, <1>7, <1>8
  <2>2. p \in Nat /\ q \in Nat /\ r \in Nat /\ p <= q /\ q <= r /\ r <= hi
    BY <1>6, <1>7, <1>8
  <2> HIDE DEF a, b, c, d, e, p, q, r
  <2>3. lo <= a
    BY <2>1
  <2>4. p <= hi
    BY <2>2
  <2> QED BY <2>3, <2>4 DEF a, p
<1>10. /\ L.end[id] = L.at[id] + Len(Posting(id % SmallSpan, RecordsOf(R, id)))
       /\ StoredAt(m, L.at[id], Posting(id % SmallSpan, RecordsOf(R, id)))
  BY <1>5, <1>6
<1>11. L.at[id] \in Nat /\ L.end[id] \in Nat /\ L.at[id] < L.end[id]
  BY <1>6
<1> QED BY <1>9, <1>10, <1>11

\* The header's number of positions is that of the posting with the most.
LEMMA PositionsBounded ==
    ASSUME NEW R, Storable(R)
    PROVE  /\ CompressGroups(R) \in Seq(Nat) /\ Len(CompressGroups(R)) \in Nat
           /\ MaxPositions(R) \in Nat /\ MaxPositions(R) <= Len(CompressGroups(R))
           /\ \A id \in IdsOf(R) : /\ Len(PositionsOf(RecordsOf(R, id))) \in Nat
                                   /\ Len(PositionsOf(RecordsOf(R, id))) <= MaxPositions(R)
<1> DEFINE w == CompressGroups(R)
           n == Len(w)
<1>1. w \in Seq(Nat) /\ n \in Nat
  <2>1. w \in Seq(Nat)
    BY GroupsAreBytes DEF Storable
  <2> HIDE DEF w
  <2> QED BY <2>1
<1>2. StoredAt(w, 1, w)
  BY <1>1, StoredInItself
<1>3. PICK L : Layout(R, w, 1, 1 + n, L)
  BY <1>1, <1>2, LayoutExists
<1> HIDE DEF w, n
<1>4. \A id \in IdsOf(R) : /\ Len(PositionsOf(RecordsOf(R, id))) \in Nat
                           /\ Len(PositionsOf(RecordsOf(R, id))) <= n
  <2>1. TAKE id \in IdsOf(R)
  <2> DEFINE recs == RecordsOf(R, id)
             p    == Posting(id % SmallSpan, recs)
             a    == L.at[id]
             e    == L.end[id]
             k    == Len(PositionsOf(recs))
  <2>2. a \in Nat /\ 1 <= a /\ e <= 1 + n /\ e = a + Len(p)
    <3>1. 1 \in Nat /\ 1 + n \in Nat
      BY <1>1
    <3> QED BY <1>3, <3>1, PostingPlace
  <2>3. id % SmallSpan \in Nat /\ NarrowPosting(recs)
    BY DEF Storable, Encodable, IdsInRange, SmallSpan
  <2>4. k \in Nat /\ k <= Len(p)
    BY <2>3, PositionsTakeBytes
  <2>5. Len(p) \in Nat
    <3>1. p \in Seq(Nat)
      BY <2>3, PostingLength
    <3> HIDE DEF p
    <3> QED BY <3>1
  <2> HIDE DEF a, e, p, k, recs
  <2>6. k \in Nat /\ k <= n
    BY <1>1, <2>2, <2>4, <2>5
  <2> QED BY <2>6 DEF k, recs
<1>5. IsFiniteSet(IdsOf(R))
  BY DEF Storable, Encodable, IdsInRange
<1> QED BY <1>1, <1>4, <1>5, MostPositions DEF w, n

\* A block: its length, its header, its groups.
LEMMA BlockBytes ==
    ASSUME NEW R, Storable(R)
    PROVE  /\ TermBlock(R) \in Seq(Nat) /\ Len(CompressGroups(R)) \in Nat
           /\ Len(TermBlock(R)) = Len(CompressGroups(R)) + 12
           /\ \A m, a : StoredAt(m, a, TermBlock(R)) =>
                 /\ U32At(m, a) = Len(CompressGroups(R)) + HeaderSize
                 /\ U32At(m, a + 4) = MaxPositions(R)
                 /\ U32At(m, a + 8) = DocumentFrequency(R)
                 /\ StoredAt(m, a + 12, CompressGroups(R))
<1> DEFINE w  == CompressGroups(R)
           n  == Len(w)
           u1 == U32(n + HeaderSize)
           u2 == U32(MaxPositions(R))
           u3 == U32(DocumentFrequency(R))
<1>1. /\ w \in Seq(Nat) /\ n \in Nat /\ MaxPositions(R) \in Nat /\ MaxPositions(R) <= n
  BY PositionsBounded
<1>2. DocumentFrequency(R) \in Nat
  BY FS_CardinalityType DEF DocumentFrequency, Storable, Encodable, IdsInRange
<1>3. IsWord(n + HeaderSize) /\ n + HeaderSize \in Nat
  BY <1>1 DEF Storable, HeaderSize
<1>4. IsWord(MaxPositions(R))
  <2> HIDE DEF n
  <2> QED BY <1>1, <1>3 DEF IsWord, HeaderSize
<1>13. IsWord(DocumentFrequency(R))
  <2>1. IdLimit \in Nat /\ IsWord(IdLimit)
    BY SMT DEF IdLimit, IsWord
  <2>2. IdsOf(R) \subseteq 0..(IdLimit - 1)
    <3>1. \A id \in IdsOf(R) : id \in Nat /\ id < IdLimit
      BY DEF Storable, Encodable, IdsInRange
    <3>2. \A id \in Nat : id < IdLimit => id \in 0..(IdLimit - 1)
      BY <2>1
    <3> QED BY <3>1, <3>2
  <2> DEFINE top == IdLimit - 1
  <2>3. top \in Int /\ top < IdLimit /\ (0 > top \/ top - 0 + 1 = IdLimit)
    BY <2>1
  <2> HIDE DEF top
  <2>4. IsFiniteSet(0..top) /\ Cardinality(0..top) <= IdLimit
    <3>1. Cardinality(0..top) = IF 0 > top THEN 0 ELSE top - 0 + 1
      BY <2>3, FS_Interval
    <3>2. IsFiniteSet(0..top)
      BY <2>3, FS_Interval
    <3> QED BY <2>1, <2>3, <3>1, <3>2
  <2>5. Cardinality(IdsOf(R)) <= Cardinality(0..top)
    BY <2>2, <2>4, FS_Subset DEF top
  <2>6. Cardinality(0..top) \in Nat
    BY <2>4, FS_CardinalityType
  <2> QED BY <1>2, <2>1, <2>4, <2>5, <2>6 DEF DocumentFrequency, IsWord
<1>5. TermBlock(R) = u1 \o u2 \o u3 \o w
  BY DEF TermBlock
<1>6. /\ u1 \in Seq(Nat) /\ u2 \in Seq(Nat) /\ u3 \in Seq(Nat)
      /\ Len(u1) = 4 /\ Len(u2) = 4 /\ Len(u3) = 4
  <2>1. n + HeaderSize \in Int /\ MaxPositions(R) \in Int /\ DocumentFrequency(R) \in Int
    BY <1>1, <1>2, <1>3
  <2> HIDE DEF n
  <2> QED BY <2>1, MachineIntegers
<1> HIDE DEF w, u1, u2, u3
<1> DEFINE x == u1 \o u2
           y == x \o u3
<1>7. x \in Seq(Nat) /\ Len(x) = 8
  <2>1. u1 \o u2 \in Seq(Nat) /\ Len(u1 \o u2) = Len(u1) + Len(u2)
    BY <1>6, ConcatFacts
  <2> QED BY <1>6, <2>1
<1> HIDE DEF x
<1>8. y \in Seq(Nat) /\ Len(y) = 12
  <2>1. x \o u3 \in Seq(Nat) /\ Len(x \o u3) = Len(x) + Len(u3)
    BY <1>6, <1>7, ConcatFacts
  <2> QED BY <1>6, <1>7, <2>1
<1> HIDE DEF y
<1>9. y \o w \in Seq(Nat) /\ Len(y \o w) = 12 + n
  <2>1. y \o w \in Seq(Nat) /\ Len(y \o w) = Len(y) + Len(w)
    BY <1>1, <1>8, ConcatFacts
  <2> QED BY <1>8, <2>1
<1>10. TermBlock(R) = y \o w
  BY <1>5 DEF x, y
<1>11. ASSUME NEW m, NEW a, StoredAt(m, a, TermBlock(R))
       PROVE  /\ U32At(m, a) = n + HeaderSize
              /\ U32At(m, a + 4) = MaxPositions(R)
              /\ U32At(m, a + 8) = DocumentFrequency(R) /\ StoredAt(m, a + 12, w)
  <2>1. StoredAt(m, a, y) /\ StoredAt(m, a + Len(y), w)
    <3>1. StoredAt(m, a, y \o w)
      BY <1>10, <1>11
    <3> QED BY <1>1, <1>8, <3>1, StoredConcat
  <2>2. StoredAt(m, a, x) /\ StoredAt(m, a + Len(x), u3)
    <3>1. StoredAt(m, a, x \o u3)
      BY <2>1 DEF y
    <3> QED BY <1>6, <1>7, <3>1, StoredConcat
  <2>3. StoredAt(m, a, u1) /\ StoredAt(m, a + Len(u1), u2)
    <3>1. StoredAt(m, a, u1 \o u2)
      BY <2>2 DEF x
    <3> QED BY <1>6, <3>1, StoredConcat
  <2>4. U32At(m, a) = n + HeaderSize
    <3> HIDE DEF n
    <3> QED BY <1>3, <2>3, U32Back DEF u1
  <2>5. U32At(m, a + 4) = MaxPositions(R)
    <3>1. StoredAt(m, a + 4, u2)
      BY <1>6, <2>3
    <3> QED BY <1>1, <1>4, <3>1, U32Back DEF u2
  <2>6. U32At(m, a + 8) = DocumentFrequency(R)
    <3>1. StoredAt(m, a + 8, u3)
      BY <1>7, <2>2
    <3> QED BY <1>2, <1>13, <3>1, U32Back DEF u3
  <2> QED BY <1>8, <2>1, <2>4, <2>5, <2>6
<1>12. n + 12 = 12 + n
  BY <1>1
<1> QED BY <1>1, <1>9, <1>10, <1>11, <1>12 DEF w
-----------------------------------------------------------------------------
\* The blocks of a file are where the index says.
LEMMA FileBlocks ==
    ASSUME NEW ix, Len(ix) \in Nat, \A k \in 1..Len(ix) : TermBlock(ix[k]) \in Seq(Nat),
           ix = [k \in 1..Len(ix) |-> ix[k]], NEW tail \in Seq(Nat)
    PROVE  /\ TermFile(ix) \o tail \in Seq(Nat)
           /\ \A k \in 1..Len(ix) :
                 /\ HeaderAt(ix, k) \in Nat /\ HeaderAt(ix, k) - 4 \in Nat
                 /\ StoredAt(TermFile(ix) \o tail, HeaderAt(ix, k) - 4, TermBlock(ix[k]))
                 /\ HeaderAt(ix, k) - 4 + Len(TermBlock(ix[k]))
                      = IF k = Len(ix) THEN Len(TermFile(ix)) + 1 ELSE HeaderAt(ix, k + 1) - 4
<1> DEFINE n  == Len(ix)
           ss == [k \in 1..n |-> TermBlock(ix[k])]
           w  == TermFile(ix)
           m  == w \o tail
<1>1. ss \in Seq(Seq(Nat)) /\ Len(ss) = n /\ \A k \in 1..n : ss[k] = TermBlock(ix[k])
  OBVIOUS
<1>2. w = Concatenated(ss)
  BY DEF TermFile, Concatenated
<1>3. w \in Seq(Nat)
  <2> HIDE DEF ss, w
  <2> QED BY <1>1, <1>2, FlattenLayout DEF Concatenated
<1>4. m \in Seq(Nat)
  <2> HIDE DEF w
  <2> QED BY <1>3, ConcatFacts
<1>5. StoredAt(m, 1, Concatenated(ss))
  <2>1. StoredAt(m, 1, m)
    BY <1>4, StoredInItself
  <2> HIDE DEF w, ss
  <2> QED BY <1>2, <1>3, <2>1, StoredConcat
<1>6. PICK off : Offsets(ss, off) /\ \A k \in 1..Len(ss) : StoredAt(m, 1 + off[k], ss[k])
  <2> HIDE DEF w, ss, m
  <2> QED BY <1>1, <1>5, StoredPieces
<1>7. ASSUME NEW k \in 1..n
      PROVE  HeaderAt(ix, k) = off[k] + 4 + 1 /\ off[k] \in Nat
  <2> DEFINE sub == SubSeq(ix, 1, k - 1)
             tt  == [i \in 1..Len(sub) |-> TermBlock(sub[i])]
             j   == k - 1
  <2>1. j \in 0..n /\ j + 1 = k /\ j \in Nat
    OBVIOUS
  <2>2. Len(sub) = j /\ \A i \in 1..j : sub[i] = ix[i]
    <3>1. ix \in Seq({ix[i] : i \in 1..n})
      OBVIOUS
    <3>2. sub = [i \in 1..j |-> ix[i]]
      BY <2>1, <3>1
    <3> HIDE DEF sub, j
    <3> QED BY <2>1, <3>2
  <2>3. \A i \in 1..j : i \in 1..n
    BY <2>1
  <2> HIDE DEF sub, j
  <2>4. tt \in Seq(Seq(Nat)) /\ Len(tt) = j /\ \A i \in 1..j : tt[i] = ss[i]
    <3>1. \A i \in 1..j : TermBlock(sub[i]) \in Seq(Nat) /\ TermBlock(sub[i]) = ss[i]
      BY <1>1, <2>2, <2>3
    <3>2. \A i \in 1..j : ss[i] \in Seq(Nat)
      BY <1>1, <2>3
    <3> HIDE DEF ss
    <3>3. tt = [i \in 1..j |-> ss[i]]
      BY <2>2, <3>1
    <3> HIDE DEF tt
    <3>4. \A i \in 1..j : tt[i] = ss[i]
      BY <3>3
    <3>5. tt \in [1..j -> Seq(Nat)]
      BY <3>2, <3>3
    <3>6. tt \in Seq(Seq(Nat)) /\ Len(tt) = j
      BY ONLY <2>1, <3>5
    <3> QED BY <3>4, <3>6
  <2>5. TermFile(sub) = Concatenated(tt)
    BY DEF TermFile, Concatenated
  <2>6. Len(Concatenated(tt)) = off[j + 1]
    <3> HIDE DEF tt, ss
    <3>1. j \in 0..Len(ss)
      BY <1>1, <2>1
    <3>2. Begins(tt, j, ss)
      BY <2>4 DEF Begins
    <3> QED BY <1>1, <1>6, <2>4, <3>1, <3>2, PrefixLength
  <2>7. off[k] \in Nat
    <3>1. k \in 1..(n + 1)
      OBVIOUS
    <3> HIDE DEF ss
    <3> QED BY <1>1, <1>6, <3>1 DEF Offsets
  <2>8. HeaderAt(ix, k) = off[k] + 4 + 1
    BY <2>1, <2>5, <2>6 DEF HeaderAt, sub, j
  <2> QED BY <2>7, <2>8
<1> HIDE DEF ss, m
<1>8. \A k \in 1..n : /\ HeaderAt(ix, k) \in Nat /\ HeaderAt(ix, k) - 4 \in Nat
                      /\ StoredAt(m, HeaderAt(ix, k) - 4, TermBlock(ix[k]))
  <2>1. TAKE k \in 1..n
  <2>2. /\ HeaderAt(ix, k) = off[k] + 4 + 1 /\ HeaderAt(ix, k) - 4 = 1 + off[k]
        /\ off[k] \in Nat
    BY <1>7
  <2>3. StoredAt(m, 1 + off[k], ss[k]) /\ ss[k] = TermBlock(ix[k])
    BY <1>1, <1>6
  <2> QED BY <2>2, <2>3
<1>9. ASSUME NEW k \in 1..n
      PROVE  HeaderAt(ix, k) - 4 + Len(TermBlock(ix[k]))
               = IF k = n THEN Len(w) + 1 ELSE HeaderAt(ix, k + 1) - 4
  <2>1. off[k + 1] = off[k] + Len(ss[k]) /\ ss[k] = TermBlock(ix[k]) /\ off[n + 1] = Len(w)
    BY <1>1, <1>2, <1>6 DEF Offsets
  <2>2. HeaderAt(ix, k) - 4 = 1 + off[k] /\ off[k] \in Nat
    BY <1>7
  <2>3. Len(ss[k]) \in Nat
    <3>1. ss[k] \in Seq(Nat)
      BY <1>1
    <3> QED BY <3>1
  <2>4. CASE k = n
    <3>1. Len(w) = off[k] + Len(ss[k])
      BY <2>1, <2>4
    <3>2. Len(TermBlock(ix[k])) = Len(ss[k])
      BY <2>1
    <3>3. HeaderAt(ix, k) - 4 + Len(ss[k]) = Len(w) + 1
      <4> HIDE DEF w, n
      <4> QED BY <2>2, <2>3, <3>1
    <3> QED BY <2>4, <3>2, <3>3
  <2>5. CASE k # n
    <3>1. k + 1 \in 1..n
      BY <2>5
    <3>2. HeaderAt(ix, k + 1) = off[k + 1] + 4 + 1 /\ off[k + 1] \in Nat
      BY <1>7, <3>1
    <3> QED BY <2>1, <2>2, <2>3, <2>5, <3>2
  <2> QED BY <2>4, <2>5
<1> QED BY <1>3, <1>4, <1>8, <1>9 DEF m

-----------------------------------------------------------------------------
(***************************************************************************)
(* The loops of the cursor.                                                *)
(***************************************************************************)
\* A loop that ends: stop where it stops, step its next round, base its
\* result.
Loops(D, V, mu, step, stop, base) ==
    /\ mu \in [D -> Nat] /\ step \in [D -> D] /\ stop \in SUBSET D /\ base \in [D -> V]
    /\ \A s \in D \ stop : mu[step[s]] < mu[s]
Runs(D, step, stop, base, f) ==
    f = [s \in D |-> IF s \in stop THEN base[s] ELSE f[step[s]]]

\* There is a function that runs the loop to its end and returns base there.
LEMMA LoopExists ==
    ASSUME NEW D, NEW V, NEW mu, NEW step, NEW stop, NEW base,
           Loops(D, V, mu, step, stop, base)
    PROVE  \E f : Runs(D, step, stop, base, f)
<1> DEFINE g == [x \in D \X V |-> x[2]]
<1>1. /\ mu \in [D -> Nat] /\ step \in [D -> D] /\ stop \in SUBSET D /\ base \in [D -> V]
      /\ \A s \in D \ stop : mu[step[s]] < mu[s]
  BY DEF Loops
<1>2. g \in [D \X V -> V]
  OBVIOUS
<1>3. Descends(D, V, mu, step, stop, base, g)
  <2> HIDE DEF g
  <2> QED BY <1>1, <1>2 DEF Descends
<1>4. PICK f \in [D -> V] : \A s \in D :
         f[s] = IF s \in stop THEN base[s] ELSE g[<<s, f[step[s]]>>]
  <2> HIDE DEF g
  <2> QED BY <1>3, DescendingFunction
<1>5. \A s \in D : f[s] = IF s \in stop THEN base[s] ELSE f[step[s]]
  <2>1. TAKE s \in D
  <2>2. step[s] \in D
    BY <1>1
  <2>3. f[step[s]] \in V
    BY <1>4, <2>2
  <2>4. g[<<s, f[step[s]]>>] = f[step[s]]
    BY <2>3
  <2> HIDE DEF g
  <2> QED BY <1>4, <2>4
<1>6. f = [s \in D |-> IF s \in stop THEN base[s] ELSE f[step[s]]]
  BY <1>4, <1>5
<1> QED BY <1>6 DEF Runs

\* What such a function returns, and that it is of the type of base.
LEMMA LoopResult ==
    ASSUME NEW D, NEW V, NEW mu, NEW step, NEW stop, NEW base,
           Loops(D, V, mu, step, stop, base), NEW f, Runs(D, step, stop, base, f)
    PROVE  \A s \in D : f[s] \in V /\ f[s] = IF s \in stop THEN base[s] ELSE f[step[s]]
<1> DEFINE P == {s \in D : f[s] \in V}
<1>1. /\ mu \in [D -> Nat] /\ step \in [D -> D] /\ stop \in SUBSET D /\ base \in [D -> V]
      /\ \A s \in D \ stop : mu[step[s]] < mu[s]
  BY DEF Loops
<1>2. \A s \in D : f[s] = IF s \in stop THEN base[s] ELSE f[step[s]]
  <2> DEFINE b == [s \in D |-> IF s \in stop THEN base[s] ELSE f[step[s]]]
  <2>1. f = b
    BY DEF Runs
  <2>2. \A s \in D : b[s] = IF s \in stop THEN base[s] ELSE f[step[s]]
    OBVIOUS
  <2> HIDE DEF b
  <2> QED BY <2>1, <2>2
<1>3. ASSUME NEW s \in D, \A r \in D : mu[r] < mu[s] => r \in P
      PROVE  s \in P
  <2>1. CASE s \in stop
    BY <1>1, <1>2, <2>1
  <2>2. CASE s \notin stop
    <3>1. step[s] \in D /\ mu[step[s]] < mu[s]
      BY <1>1, <2>2
    <3>2. f[step[s]] \in V
      BY <1>3, <3>1
    <3> QED BY <1>2, <2>2, <3>2
  <2> QED BY <2>1, <2>2
<1>4. Inductive(D, mu, P)
  <2>1. P \in SUBSET D
    OBVIOUS
  <2> HIDE DEF P
  <2> QED BY <1>1, <1>3, <2>1 DEF Inductive
<1>5. P = D
  <2> HIDE DEF P
  <2> QED BY <1>4, DescentInduction
<1> QED BY <1>2, <1>5
-----------------------------------------------------------------------------
\* advance_id moves the cursor on and changes nothing else of it.
LEMMA AdvanceIdType ==
    ASSUME NEW m \in Seq(Nat), NEW c \in Cursor
    PROVE  LET u == AdvanceId(m, c)
           IN  /\ u \in Cursor /\ c.p < u.p
               /\ u = [c EXCEPT !.id = u.id, !.value = u.value,
                                !.first_base = u.first_base, !.wp = u.wp, !.p = u.p]
<1> DEFINE control == U16At(m, c.p)
           flags   == control % IdShift
           value   == IF ~HasFlag(flags, POS_PRESENT)
                      THEN DecodeSingleValue(m, flags, c.p + 2)
                      ELSE IF HasFlag(flags, VALUE_PRESENT)
                      THEN DecodePositionValue(m, c.p + 2)
                      ELSE [value |-> c.value, next |-> c.p + 2]
           pos     == IF HasFlag(flags, POS_PRESENT)
                      THEN DecodeTermPositions(m, flags, value.next)
                      ELSE [base |-> c.first_base, start |-> value.next,
                            end |-> value.next]
           id == control \div IdShift + c.gid
           u  == [c EXCEPT !.id = id, !.value = value.value, !.first_base = pos.base,
                           !.wp = pos.start, !.p = pos.end]
<1>1. AdvanceId(m, c) = u
  BY DEF AdvanceId
<1>2. c.p \in Nat /\ c.gid \in Nat /\ c.value \in Nat /\ c.first_base \in Nat
  BY DEF Cursor
<1>3. control \in Nat
  BY <1>2, ReadNat
<1> HIDE DEF control
<1>4. flags \in Nat /\ id \in Nat
  BY <1>2, <1>3 DEF IdShift
<1> HIDE DEF flags, id
<1>5. value.value \in Nat /\ value.next \in Nat /\ c.p < value.next
  <2> DEFINE q == c.p + 2
  <2>1. q \in Nat /\ c.p < q
    BY <1>2
  <2> HIDE DEF q
  <2>2. /\ DecodeSingleValue(m, flags, q).value \in Nat
        /\ DecodeSingleValue(m, flags, q).next \in Nat
        /\ q <= DecodeSingleValue(m, flags, q).next
        /\ DecodePositionValue(m, q).value \in Nat
        /\ DecodePositionValue(m, q).next \in Nat
        /\ q <= DecodePositionValue(m, q).next
    BY <1>4, <2>1, ValueNat
  <2>3. value = IF ~HasFlag(flags, POS_PRESENT)
                THEN DecodeSingleValue(m, flags, q)
                ELSE IF HasFlag(flags, VALUE_PRESENT)
                THEN DecodePositionValue(m, q)
                ELSE [value |-> c.value, next |-> q]
    BY DEF q
  <2> HIDE DEF value
  <2> QED BY <1>2, <2>1, <2>2, <2>3
<1> HIDE DEF value
<1>6. pos.base \in Nat /\ pos.start \in Nat /\ pos.end \in Nat /\ c.p < pos.end
  <2>1. LET d == DecodeTermPositions(m, flags, value.next)
        IN  /\ d.base \in Nat /\ d.start \in Nat /\ d.end \in Nat
            /\ value.next <= d.start /\ d.start < d.end
    BY <1>4, <1>5, PositionsNat
  <2> QED BY <1>2, <1>5, <2>1
<1> HIDE DEF pos
<1>7. u \in Cursor
  BY <1>4, <1>5, <1>6 DEF Cursor
<1>8. u.id = id /\ u.value = value.value /\ u.first_base = pos.base /\ u.wp = pos.start
      /\ u.p = pos.end
  BY DEF Cursor
<1>9. u = [c EXCEPT !.id = u.id, !.value = u.value,
                    !.first_base = u.first_base, !.wp = u.wp, !.p = u.p]
  BY <1>8
<1> HIDE DEF u
<1> QED BY <1>1, <1>6, <1>7, <1>8, <1>9

\* Opening a group moves past its header.
LEMMA GroupNat ==
    ASSUME NEW m \in Seq(Nat), NEW p \in Nat
    PROVE  /\ ExtractGroup(m, p).start \in Nat /\ ExtractGroup(m, p).end \in Nat
           /\ p < ExtractGroup(m, p).start
           /\ ExtractGroup(m, p).start <= ExtractGroup(m, p).end
<1>1. /\ At(m, p) \in Nat /\ U16At(m, p + 1) \in Nat /\ U32At(m, p + 1) \in Nat
  <2>1. p + 1 \in Nat
    OBVIOUS
  <2> QED BY <2>1, ReadNat
<1> QED BY <1>1 DEF ExtractGroup

\* Opening a group moves the end of the window on.
LEMMA Entering ==
    ASSUME NEW m \in Seq(Nat), NEW c \in Cursor
    PROVE  /\ EnterSmall(m, c) \in Cursor /\ EnterHigh(m, c) \in Cursor
           /\ c.ep < EnterSmall(m, c).ep /\ EnterSmall(m, c).tp = c.tp
           /\ EnterSmall(m, c).etp = c.etp /\ EnterSmall(m, c).gid = c.gid
           /\ c.tp < EnterHigh(m, c).tp /\ EnterHigh(m, c).etp = c.etp
           /\ EnterHigh(m, c).gid = c.gid
<1>1. c.ep \in Nat /\ c.tp \in Nat
  BY DEF Cursor
<1> DEFINE g == ExtractGroup(m, c.ep + 1)
           h == ExtractGroup(m, c.tp + 1)
<1>2. g.start \in Nat /\ g.end \in Nat /\ c.ep < g.end
  <2>1. c.ep + 1 \in Nat
    BY <1>1
  <2>2. /\ g.start \in Nat /\ g.end \in Nat /\ c.ep + 1 < g.start /\ g.start <= g.end
    BY <2>1, GroupNat
  <2> HIDE DEF g
  <2> QED BY <1>1, <2>2
<1>3. h.start \in Nat /\ h.end \in Nat /\ c.tp < h.end
  <2>1. c.tp + 1 \in Nat
    BY <1>1
  <2>2. /\ h.start \in Nat /\ h.end \in Nat /\ c.tp + 1 < h.start /\ h.start <= h.end
    BY <2>1, GroupNat
  <2> HIDE DEF h
  <2> QED BY <1>1, <2>2
<1>4. EnterSmall(m, c) = [c EXCEPT !.p = g.start, !.ep = g.end]
  BY DEF EnterSmall
<1>5. EnterHigh(m, c) = [c EXCEPT !.ep = h.start, !.tp = h.end]
  BY DEF EnterHigh
<1> HIDE DEF g, h
<1> QED BY <1>2, <1>3, <1>4, <1>5 DEF Cursor

\* What a call of a group function returns.
Results == [t : Cursor, ok : BOOLEAN]

\* The cursor with the next small group, or the next high level group, open.
NextSmall(m, c) == [EnterSmall(m, c) EXCEPT !.gid = HighBase(c.gid) + At(m, c.ep) * SmallSpan]
NextHigh(m, c)  == [EnterHigh(m, c) EXCEPT !.gid = At(m, c.tp) * HighSpan]

\* So it does with the group id that advance_group sets.
LEMMA GroupOpened ==
    ASSUME NEW m \in Seq(Nat), NEW c \in Cursor
    PROVE  /\ NextSmall(m, c) \in Cursor /\ NextHigh(m, c) \in Cursor
           /\ c.ep < NextSmall(m, c).ep /\ NextSmall(m, c).tp = c.tp
           /\ c.tp < NextHigh(m, c).tp /\ NextHigh(m, c).etp = c.etp
<1>1. /\ EnterSmall(m, c) \in Cursor /\ EnterHigh(m, c) \in Cursor
      /\ c.ep < EnterSmall(m, c).ep /\ EnterSmall(m, c).tp = c.tp
      /\ c.tp < EnterHigh(m, c).tp /\ EnterHigh(m, c).etp = c.etp
  BY Entering
<1>2. HighBase(c.gid) + At(m, c.ep) * SmallSpan \in Nat /\ At(m, c.tp) * HighSpan \in Nat
  <2>1. c.gid \in Nat /\ c.ep \in Nat /\ c.tp \in Nat
    BY DEF Cursor
  <2>2. At(m, c.ep) \in Nat /\ At(m, c.tp) \in Nat
    BY <2>1, ReadNat
  <2>3. HighBase(c.gid) \in Nat
    BY <2>1 DEF HighBase, HighSpan
  <2> QED BY SMT, <2>2, <2>3 DEF SmallSpan, HighSpan
<1> DEFINE a == HighBase(c.gid) + At(m, c.ep) * SmallSpan
           b == At(m, c.tp) * HighSpan
           s == EnterSmall(m, c)
           h == EnterHigh(m, c)
<1> HIDE DEF a, b, s, h
<1>3. NextSmall(m, c) = [s EXCEPT !.gid = a] /\ NextHigh(m, c) = [h EXCEPT !.gid = b]
  BY DEF NextSmall, NextHigh, a, b, s, h
<1>4. a \in Nat /\ b \in Nat
  BY <1>2 DEF a, b
<1>5. /\ s \in Cursor /\ h \in Cursor /\ c.ep < s.ep /\ s.tp = c.tp
      /\ c.tp < h.tp /\ h.etp = c.etp
  BY <1>1 DEF s, h
<1> QED BY <1>3, <1>4, <1>5 DEF Cursor

\* advance_group, call by call.
LEMMA AdvanceGroupCalls ==
    ASSUME NEW m \in Seq(Nat)
    PROVE  \A c \in Cursor :
              /\ AdvanceGroup(m, c) \in Results
              /\ AdvanceGroup(m, c) = IF c.ep < c.tp THEN Yes(NextSmall(m, c))
                                      ELSE IF c.tp < c.etp
                                      THEN AdvanceGroup(m, NextHigh(m, c))
                                      ELSE No(c)
<1> DEFINE D    == Cursor
           stop == {c \in D : c.ep < c.tp \/ ~(c.tp < c.etp)}
           base == [c \in D |-> IF c.ep < c.tp THEN Yes(NextSmall(m, c)) ELSE No(c)]
           step == [c \in D |-> NextHigh(m, c)]
           mu   == [c \in D |-> IF c.tp < c.etp THEN c.etp - c.tp ELSE 0]
           body(f) == [c \in Cursor |->
                         IF c.ep < c.tp
                         THEN Yes([EnterSmall(m, c) EXCEPT
                                     !.gid = HighBase(c.gid) + At(m, c.ep) * SmallSpan])
                         ELSE IF c.tp < c.etp
                         THEN f[[EnterHigh(m, c) EXCEPT !.gid = At(m, c.tp) * HighSpan]]
                         ELSE No(c)]
           F == CHOOSE f : f = body(f)
<1>1. \A c \in D : /\ NextSmall(m, c) \in D /\ NextHigh(m, c) \in D
                   /\ c.tp < NextHigh(m, c).tp /\ NextHigh(m, c).etp = c.etp
  BY GroupOpened
<1>2. \A c \in D : c.tp \in Nat /\ c.etp \in Nat /\ c.ep \in Nat
  BY DEF Cursor
<1>3. Loops(D, Results, mu, step, stop, base)
  <2>1. mu \in [D -> Nat]
    BY <1>2
  <2>2. step \in [D -> D]
    BY <1>1
  <2>3. base \in [D -> Results]
    BY <1>1 DEF Yes, No, Results
  <2>4. stop \in SUBSET D
    OBVIOUS
  <2>5. ASSUME NEW c \in D \ stop PROVE mu[step[c]] < mu[c]
    <3>1. step[c] = NextHigh(m, c) /\ step[c] \in D /\ c.tp < c.etp
      BY <1>1
    <3>2. mu[c] = c.etp - c.tp
      BY <3>1
    <3> DEFINE n == NextHigh(m, c)
    <3>3. n \in D /\ c.tp < n.tp /\ n.etp = c.etp /\ n.tp \in Nat /\ c.tp \in Nat /\ c.etp \in Nat
      BY <1>1, <1>2
    <3> HIDE DEF n
    <3>4. mu[n] = IF n.tp < n.etp THEN n.etp - n.tp ELSE 0
      BY <3>3
    <3>5. step[c] = n
      BY <3>1 DEF n
    <3> HIDE DEF mu, step
    <3> QED BY <3>1, <3>2, <3>3, <3>4, <3>5
  <2> HIDE DEF mu, step, base, stop, D
  <2> QED BY <2>1, <2>2, <2>3, <2>4, <2>5 DEF Loops
<1>4. \A f : body(f) = [c \in D |-> IF c \in stop THEN base[c] ELSE f[step[c]]]
  <2>1. TAKE f
  <2>2. ASSUME NEW c \in D
        PROVE  body(f)[c] = IF c \in stop THEN base[c] ELSE f[step[c]]
    BY DEF NextSmall, NextHigh
  <2> HIDE DEF base, step, stop
  <2> QED BY <2>2
<1>5. PICK f : Runs(D, step, stop, base, f)
  <2> HIDE DEF mu, step, base, stop, D
  <2> QED BY <1>3, LoopExists
<1>6. f = body(f)
  <2> HIDE DEF step, base, stop, D, body
  <2> QED BY <1>4, <1>5 DEF Runs
<1>7. F = body(F)
  <2> HIDE DEF body
  <2> QED BY <1>6
<1>8. Runs(D, step, stop, base, F)
  <2> HIDE DEF step, base, stop, D, body, F
  <2> QED BY <1>4, <1>7 DEF Runs
<1>9. \A c \in D : F[c] \in Results /\ F[c] = IF c \in stop THEN base[c] ELSE F[step[c]]
  <2> HIDE DEF mu, step, base, stop, D, F
  <2> QED BY <1>3, <1>8, LoopResult
<1>10. \A c \in D : AdvanceGroup(m, c) = F[c]
  BY DEF AdvanceGroup
<1> HIDE DEF F
<1>11. ASSUME NEW c \in D
       PROVE  F[c] = IF c.ep < c.tp THEN Yes(NextSmall(m, c))
                     ELSE IF c.tp < c.etp THEN F[NextHigh(m, c)] ELSE No(c)
  BY <1>9
<1> HIDE DEF D
<1>12. \A c \in D : NextHigh(m, c) \in D
  BY <1>1
<1> QED BY <1>9, <1>10, <1>11, <1>12 DEF D

\* The scan of advance_group_to over small groups, call by call.
LEMMA ScanSmallCalls ==
    ASSUME NEW m \in Seq(Nat), NEW gid \in Nat
    PROVE  \A c \in Cursor :
              /\ ScanSmall(m, c, gid) \in Results
              /\ ScanSmall(m, c, gid) = IF c.ep >= c.tp THEN AdvanceGroup(m, c)
                     ELSE IF At(m, c.ep) >= MidOf(gid) THEN Yes(NextSmall(m, c))
                     ELSE ScanSmall(m, EnterSmall(m, c), gid)
<1> DEFINE D    == Cursor
           stop == {c \in D : c.ep >= c.tp \/ At(m, c.ep) >= MidOf(gid)}
           base == [c \in D |-> IF c.ep >= c.tp THEN AdvanceGroup(m, c) ELSE Yes(NextSmall(m, c))]
           step == [c \in D |-> EnterSmall(m, c)]
           mu   == [c \in D |-> IF c.ep < c.tp THEN c.tp - c.ep ELSE 0]
           body(f) == [c \in Cursor |->
          IF c.ep >= c.tp THEN AdvanceGroup(m, c)
          ELSE IF At(m, c.ep) >= MidOf(gid)
          THEN Yes([EnterSmall(m, c) EXCEPT
                      !.gid = HighBase(c.gid) + At(m, c.ep) * SmallSpan])
          ELSE f[EnterSmall(m, c)]]
           F == CHOOSE f : f = body(f)
<1>1. \A c \in D : /\ EnterSmall(m, c) \in D /\ NextSmall(m, c) \in D /\ AdvanceGroup(m, c) \in Results
                   /\ c.ep < EnterSmall(m, c).ep /\ EnterSmall(m, c).tp = c.tp
  BY Entering, GroupOpened, AdvanceGroupCalls
<1>2. \A c \in D : c.ep \in Nat /\ c.tp \in Nat
  BY DEF Cursor
<1>3. Loops(D, Results, mu, step, stop, base)
  <2>1. mu \in [D -> Nat]
    BY <1>2
  <2>2. step \in [D -> D]
    BY <1>1
  <2>3. base \in [D -> Results]
    BY <1>1 DEF Yes, Results
  <2>4. stop \in SUBSET D
    OBVIOUS
  <2>5. ASSUME NEW c \in D \ stop PROVE mu[step[c]] < mu[c]
    <3> DEFINE n == EnterSmall(m, c)
    <3>1. step[c] = n /\ n \in D /\ c.ep < c.tp
      BY <1>1, <1>2
    <3>2. mu[c] = c.tp - c.ep
      BY <3>1
    <3>3. /\ c.ep < n.ep /\ n.tp = c.tp /\ n.ep \in Nat
          /\ c.ep \in Nat /\ c.tp \in Nat
      BY <1>1, <1>2
    <3> HIDE DEF n
    <3>4. mu[n] = IF n.ep < n.tp THEN n.tp - n.ep ELSE 0
      BY <3>1
    <3> HIDE DEF mu, step
    <3> QED BY <3>1, <3>2, <3>3, <3>4
  <2> HIDE DEF mu, step, base, stop, D
  <2> QED BY <2>1, <2>2, <2>3, <2>4, <2>5 DEF Loops
<1>4. \A f : body(f) = [c \in D |-> IF c \in stop THEN base[c] ELSE f[step[c]]]
  <2>1. TAKE f
  <2>2. ASSUME NEW c \in D
        PROVE  body(f)[c] = IF c \in stop THEN base[c] ELSE f[step[c]]
    BY DEF NextSmall
  <2> HIDE DEF base, step, stop
  <2> QED BY <2>2
<1>5. PICK f : Runs(D, step, stop, base, f)
  <2> HIDE DEF mu, step, base, stop, D
  <2> QED BY <1>3, LoopExists
<1>6. f = body(f)
  <2> HIDE DEF step, base, stop, D, body
  <2> QED BY <1>4, <1>5 DEF Runs
<1>7. F = body(F)
  <2> HIDE DEF body
  <2> QED BY <1>6
<1>8. Runs(D, step, stop, base, F)
  <2> HIDE DEF step, base, stop, D, body, F
  <2> QED BY <1>4, <1>7 DEF Runs
<1>9. \A c \in D : F[c] \in Results /\ F[c] = IF c \in stop THEN base[c] ELSE F[step[c]]
  <2> HIDE DEF mu, step, base, stop, D, F
  <2> QED BY <1>3, <1>8, LoopResult
<1>10. \A c \in D : ScanSmall(m, c, gid) = F[c]
  BY DEF ScanSmall
<1> HIDE DEF F
<1>11. ASSUME NEW c \in D
       PROVE  F[c] = IF c.ep >= c.tp THEN AdvanceGroup(m, c)
                     ELSE IF At(m, c.ep) >= MidOf(gid) THEN Yes(NextSmall(m, c))
                     ELSE F[EnterSmall(m, c)]
  BY <1>2, <1>9
<1> HIDE DEF D
<1>12. \A c \in D : EnterSmall(m, c) \in D
  BY <1>1
<1> QED BY <1>9, <1>10, <1>11, <1>12 DEF D

\* Its scan over high level groups.
LEMMA ScanHighCalls ==
    ASSUME NEW m \in Seq(Nat), NEW gid \in Nat
    PROVE  \A c \in Cursor :
              /\ ScanHigh(m, c, gid) \in Results
              /\ ScanHigh(m, c, gid) = IF c.tp >= c.etp THEN No(c)
                     ELSE IF At(m, c.tp) >= HighOf(gid)
                     THEN IF NextHigh(m, c).gid >= gid THEN Yes(NextHigh(m, c))
                          ELSE ScanSmall(m, NextHigh(m, c), gid)
                     ELSE ScanHigh(m, EnterHigh(m, c), gid)
<1> DEFINE D    == Cursor
           stop == {c \in D : c.tp >= c.etp \/ At(m, c.tp) >= HighOf(gid)}
           base == [c \in D |-> IF c.tp >= c.etp THEN No(c)
                             ELSE IF NextHigh(m, c).gid >= gid THEN Yes(NextHigh(m, c))
                             ELSE ScanSmall(m, NextHigh(m, c), gid)]
           step == [c \in D |-> EnterHigh(m, c)]
           mu   == [c \in D |-> IF c.tp < c.etp THEN c.etp - c.tp ELSE 0]
           body(f) == [c \in Cursor |->
          IF c.tp >= c.etp THEN No(c)
          ELSE IF At(m, c.tp) >= HighOf(gid)
          THEN LET e == [EnterHigh(m, c) EXCEPT !.gid = At(m, c.tp) * HighSpan]
               IN  IF e.gid >= gid THEN Yes(e) ELSE ScanSmall(m, e, gid)
          ELSE f[EnterHigh(m, c)]]
           F == CHOOSE f : f = body(f)
<1>1. \A c \in D : /\ EnterHigh(m, c) \in D /\ NextHigh(m, c) \in D
                   /\ ScanSmall(m, NextHigh(m, c), gid) \in Results
                   /\ c.tp < EnterHigh(m, c).tp /\ EnterHigh(m, c).etp = c.etp
  BY Entering, GroupOpened, ScanSmallCalls
<1>2. \A c \in D : c.tp \in Nat /\ c.etp \in Nat
  BY DEF Cursor
<1>3. Loops(D, Results, mu, step, stop, base)
  <2>1. mu \in [D -> Nat]
    BY <1>2
  <2>2. step \in [D -> D]
    BY <1>1
  <2>3. base \in [D -> Results]
    BY <1>1 DEF Yes, No, Results
  <2>4. stop \in SUBSET D
    OBVIOUS
  <2>5. ASSUME NEW c \in D \ stop PROVE mu[step[c]] < mu[c]
    <3> DEFINE n == EnterHigh(m, c)
    <3>1. step[c] = n /\ n \in D /\ c.tp < c.etp
      BY <1>1, <1>2
    <3>2. mu[c] = c.etp - c.tp
      BY <3>1
    <3>3. /\ c.tp < n.tp /\ n.etp = c.etp /\ n.tp \in Nat
          /\ c.tp \in Nat /\ c.etp \in Nat
      BY <1>1, <1>2
    <3> HIDE DEF n
    <3>4. mu[n] = IF n.tp < n.etp THEN n.etp - n.tp ELSE 0
      BY <3>1
    <3> HIDE DEF mu, step
    <3> QED BY <3>1, <3>2, <3>3, <3>4
  <2> HIDE DEF mu, step, base, stop, D
  <2> QED BY <2>1, <2>2, <2>3, <2>4, <2>5 DEF Loops
<1>4. \A f : body(f) = [c \in D |-> IF c \in stop THEN base[c] ELSE f[step[c]]]
  <2>1. TAKE f
  <2>2. ASSUME NEW c \in D
        PROVE  body(f)[c] = IF c \in stop THEN base[c] ELSE f[step[c]]
    BY DEF NextHigh
  <2> HIDE DEF base, step, stop
  <2> QED BY <2>2
<1>5. PICK f : Runs(D, step, stop, base, f)
  <2> HIDE DEF mu, step, base, stop, D
  <2> QED BY <1>3, LoopExists
<1>6. f = body(f)
  <2> HIDE DEF step, base, stop, D, body
  <2> QED BY <1>4, <1>5 DEF Runs
<1>7. F = body(F)
  <2> HIDE DEF body
  <2> QED BY <1>6
<1>8. Runs(D, step, stop, base, F)
  <2> HIDE DEF step, base, stop, D, body, F
  <2> QED BY <1>4, <1>7 DEF Runs
<1>9. \A c \in D : F[c] \in Results /\ F[c] = IF c \in stop THEN base[c] ELSE F[step[c]]
  <2> HIDE DEF mu, step, base, stop, D, F
  <2> QED BY <1>3, <1>8, LoopResult
<1>10. \A c \in D : ScanHigh(m, c, gid) = F[c]
  BY DEF ScanHigh
<1> HIDE DEF F
<1>11. ASSUME NEW c \in D
       PROVE  F[c] = IF c.tp >= c.etp THEN No(c)
                     ELSE IF At(m, c.tp) >= HighOf(gid)
                     THEN IF NextHigh(m, c).gid >= gid THEN Yes(NextHigh(m, c))
                          ELSE ScanSmall(m, NextHigh(m, c), gid)
                     ELSE F[EnterHigh(m, c)]
  BY <1>2, <1>9
<1> HIDE DEF D
<1>12. \A c \in D : EnterHigh(m, c) \in D
  BY <1>1
<1> QED BY <1>9, <1>10, <1>11, <1>12 DEF D

\* No call moves the end of the term.
LEMMA AdvanceKeepsEnd ==
    ASSUME NEW m \in Seq(Nat), NEW c \in Cursor
    PROVE  /\ AdvanceId(m, c) \in Cursor /\ c.p < AdvanceId(m, c).p
           /\ AdvanceId(m, c).ep = c.ep
<1> DEFINE u == AdvanceId(m, c)
<1>1. /\ u \in Cursor /\ c.p < u.p
      /\ u = [c EXCEPT !.id = u.id, !.value = u.value,
                       !.first_base = u.first_base, !.wp = u.wp, !.p = u.p]
  BY AdvanceIdType
<1> HIDE DEF u
<1>2. u.ep = c.ep
  BY <1>1 DEF Cursor
<1> QED BY <1>1, <1>2 DEF u

\* The scan of advance_to inside a small group.
LEMMA ScanIdsCalls ==
    ASSUME NEW m \in Seq(Nat), NEW id \in Nat
    PROVE  \A c \in Cursor :
              /\ ScanIds(m, c, id) \in Cursor
              /\ ScanIds(m, c, id) = IF id > c.id /\ c.p < c.ep THEN ScanIds(m, AdvanceId(m, c), id) ELSE c
<1> DEFINE D    == Cursor
           stop == {c \in D : ~(id > c.id /\ c.p < c.ep)}
           base == [c \in D |-> c]
           step == [c \in D |-> AdvanceId(m, c)]
           mu   == [c \in D |-> IF c.p < c.ep THEN c.ep - c.p ELSE 0]
           body(f) == [c \in Cursor |->
          IF id > c.id /\ c.p < c.ep THEN f[AdvanceId(m, c)] ELSE c]
           F == CHOOSE f : f = body(f)
<1>1. \A c \in D : /\ AdvanceId(m, c) \in D
                   /\ c.p < AdvanceId(m, c).p /\ AdvanceId(m, c).ep = c.ep
  BY AdvanceKeepsEnd
<1>2. \A c \in D : c.p \in Nat /\ c.ep \in Nat
  BY DEF Cursor
<1>3. Loops(D, Cursor, mu, step, stop, base)
  <2>1. mu \in [D -> Nat]
    BY <1>2
  <2>2. step \in [D -> D]
    BY <1>1
  <2>3. base \in [D -> Cursor]
    OBVIOUS
  <2>4. stop \in SUBSET D
    OBVIOUS
  <2>5. ASSUME NEW c \in D \ stop PROVE mu[step[c]] < mu[c]
    <3> DEFINE n == AdvanceId(m, c)
    <3>1. step[c] = n /\ n \in D /\ c.p < c.ep
      BY <1>1, <1>2
    <3>2. mu[c] = c.ep - c.p
      BY <3>1
    <3>3. /\ c.p < n.p /\ n.ep = c.ep /\ n.p \in Nat
          /\ c.p \in Nat /\ c.ep \in Nat
      BY <1>1, <1>2
    <3> HIDE DEF n
    <3>4. mu[n] = IF n.p < n.ep THEN n.ep - n.p ELSE 0
      BY <3>1
    <3> HIDE DEF mu, step
    <3> QED BY <3>1, <3>2, <3>3, <3>4
  <2> HIDE DEF mu, step, base, stop, D
  <2> QED BY <2>1, <2>2, <2>3, <2>4, <2>5 DEF Loops
<1>4. \A f : body(f) = [c \in D |-> IF c \in stop THEN base[c] ELSE f[step[c]]]
  <2>1. TAKE f
  <2>2. ASSUME NEW c \in D
        PROVE  body(f)[c] = IF c \in stop THEN base[c] ELSE f[step[c]]
    OBVIOUS
  <2> HIDE DEF base, step, stop
  <2> QED BY <2>2
<1>5. PICK f : Runs(D, step, stop, base, f)
  <2> HIDE DEF mu, step, base, stop, D
  <2> QED BY <1>3, LoopExists
<1>6. f = body(f)
  <2> HIDE DEF step, base, stop, D, body
  <2> QED BY <1>4, <1>5 DEF Runs
<1>7. F = body(F)
  <2> HIDE DEF body
  <2> QED BY <1>6
<1>8. Runs(D, step, stop, base, F)
  <2> HIDE DEF step, base, stop, D, body, F
  <2> QED BY <1>4, <1>7 DEF Runs
<1>9. \A c \in D : F[c] \in Cursor /\ F[c] = IF c \in stop THEN base[c] ELSE F[step[c]]
  <2> HIDE DEF mu, step, base, stop, D, F
  <2> QED BY <1>3, <1>8, LoopResult
<1>10. \A c \in D : ScanIds(m, c, id) = F[c]
  BY DEF ScanIds
<1> HIDE DEF F
<1>11. ASSUME NEW c \in D
       PROVE  F[c] = IF id > c.id /\ c.p < c.ep THEN F[AdvanceId(m, c)] ELSE c
  BY <1>2, <1>9
<1> HIDE DEF D
<1>12. \A c \in D : AdvanceId(m, c) \in D
  BY <1>1
<1> QED BY <1>9, <1>10, <1>11, <1>12 DEF D

-----------------------------------------------------------------------------
(***************************************************************************)
(* The cursor in the bytes of a term.                                      *)
(***************************************************************************)
\* A term the writer put into m between lo and hi.
LaidTerm(R, m, lo, hi, L) == /\ m \in Seq(Nat) /\ lo \in Nat /\ hi \in Nat
                         /\ Storable(R) /\ Layout(R, m, lo, hi, L)

\* The groups of both levels lie in order.
LEMMA HighOrder ==
    ASSUME NEW R, NEW m, NEW lo, NEW hi, NEW L, LaidTerm(R, m, lo, hi, L)
    PROVE  /\ \A h \in HighsOf(R) :
                 /\ L.high[h] \in Nat /\ L.highEnd[h] \in Nat /\ L.highStart[h] \in Nat
                 /\ lo <= L.high[h] /\ L.high[h] + 2 <= L.highStart[h]
                 /\ L.highStart[h] < L.highEnd[h] /\ L.highEnd[h] <= hi
                 /\ At(m, L.high[h]) = HighOf(h)
                 /\ ExtractGroup(m, L.high[h] + 1).start = L.highStart[h]
                 /\ ExtractGroup(m, L.high[h] + 1).end = L.highEnd[h]
           /\ \A h, k \in HighsOf(R) : h < k => L.highEnd[h] <= L.high[k]
           /\ \A h \in HighsOf(R) : L.highEnd[h] = hi \/ \E k \in HighsOf(R) : L.high[k] = L.highEnd[h]
           /\ \A h, k \in HighsOf(R) : L.high[k] = L.highEnd[h] =>
                 h < k /\ \A j \in HighsOf(R) : j <= h \/ k <= j
           /\ \A h \in HighsOf(R) : L.highEnd[h] = hi => \A k \in HighsOf(R) : k <= h
           /\ \E h \in HighsOf(R) : L.high[h] = lo /\ \A k \in HighsOf(R) : h <= k
<1>1. /\ Tiled(HighsOf(R), L.high, L.highEnd, lo, hi)
      /\ lo \in Nat /\ hi \in Nat /\ HighsOf(R) \in SUBSET Nat
  <2>1. HighsOf(R) \in SUBSET Nat
    BY GroupFacts DEF LaidTerm, Storable, Encodable
  <2> QED BY <2>1 DEF LaidTerm, Layout
<1>2. /\ \A x, y \in HighsOf(R) : L.high[y] = L.highEnd[x] =>
             x < y /\ \A z \in HighsOf(R) : z <= x \/ y <= z
      /\ \A x \in HighsOf(R) : L.high[x] = lo => \A y \in HighsOf(R) : x <= y
      /\ \A x \in HighsOf(R) : L.highEnd[x] = hi => \A y \in HighsOf(R) : y <= x
      /\ \A x \in HighsOf(R) : L.highEnd[x] = hi \/ \E y \in HighsOf(R) : L.high[y] = L.highEnd[x]
  <2>1. Ordered(HighsOf(R), L.high, L.highEnd, lo, hi)
    BY <1>1, TileOrder
  <2> QED BY <2>1 DEF Ordered
<1>3. ASSUME NEW h \in HighsOf(R)
      PROVE  /\ L.high[h] \in Nat /\ L.highEnd[h] \in Nat /\ L.highStart[h] \in Nat
             /\ lo <= L.high[h] /\ L.high[h] + 2 <= L.highStart[h]
             /\ L.highStart[h] < L.highEnd[h] /\ L.highEnd[h] <= hi
             /\ At(m, L.high[h]) = HighOf(h)
             /\ ExtractGroup(m, L.high[h] + 1).start = L.highStart[h]
             /\ ExtractGroup(m, L.high[h] + 1).end = L.highEnd[h]
  <2>1. /\ Opens(m, L.high[h], HighOf(h), L.highStart[h], L.highEnd[h])
        /\ Tiled(GroupsIn(R, h), L.small, L.smallEnd, L.highStart[h], L.highEnd[h])
    BY DEF LaidTerm, Layout
  <2>2. L.high[h] \in Nat /\ lo <= L.high[h] /\ L.highEnd[h] <= hi
    BY <1>1 DEF Tiled
  <2>3. GroupsIn(R, h) \in SUBSET Nat
    BY GroupFacts DEF LaidTerm, Storable, Encodable
  <2>4. L.highStart[h] \in Nat /\ L.highEnd[h] \in Nat
    BY <2>1 DEF Opens
  <2>5. L.highStart[h] < L.highEnd[h]
    BY <2>1, <2>3, <2>4, TileOrder DEF Ordered
  <2> QED BY <2>1, <2>2, <2>5 DEF Opens
<1>4. \A h, k \in HighsOf(R) : h < k => L.highEnd[h] <= L.high[k]
  BY <1>1 DEF Tiled
<1>5. \E h \in HighsOf(R) : L.high[h] = lo
  BY <1>1 DEF Tiled
<1> QED BY <1>2, <1>3, <1>4, <1>5

\* The small groups lie in order, inside their high level groups.
LEMMA SmallOrder ==
    ASSUME NEW R, NEW m, NEW lo, NEW hi, NEW L, LaidTerm(R, m, lo, hi, L)
    PROVE  /\ \A g \in GroupsOf(R) :
                 /\ L.small[g] \in Nat /\ L.smallEnd[g] \in Nat /\ L.smallStart[g] \in Nat
                 /\ L.small[g] + 2 <= L.smallStart[g] /\ L.smallStart[g] < L.smallEnd[g]
                 /\ L.highStart[HighBase(g)] <= L.small[g]
                 /\ L.smallEnd[g] <= L.highEnd[HighBase(g)]
                 /\ At(m, L.small[g]) = MidOf(g)
                 /\ ExtractGroup(m, L.small[g] + 1).start = L.smallStart[g]
                 /\ ExtractGroup(m, L.small[g] + 1).end = L.smallEnd[g]
           /\ \A g, k \in GroupsOf(R) : g < k => L.smallEnd[g] <= L.small[k]
           /\ \A g \in GroupsOf(R) : \/ L.smallEnd[g] = L.highEnd[HighBase(g)]
                                     \/ \E k \in GroupsIn(R, HighBase(g)) : L.small[k] = L.smallEnd[g]
           /\ \A h \in HighsOf(R) : \E g \in GroupsIn(R, h) : L.small[g] = L.highStart[h]
<1>1. /\ \A g \in GroupsOf(R) :
            /\ g \in Nat /\ g < IdLimit /\ HighBase(g) \in HighsOf(R)
            /\ SmallIds(R, g) \in SUBSET IdsOf(R) /\ SmallIds(R, g) \in SUBSET Nat
      /\ \A h \in HighsOf(R) : h \in Nat /\ GroupsIn(R, h) \in SUBSET GroupsOf(R)
  BY GroupFacts DEF LaidTerm, Storable, Encodable, IdsInRange
<1>2. \A g \in GroupsOf(R) : g \in GroupsIn(R, HighBase(g))
  BY DEF GroupsIn
<1>3. \A h \in HighsOf(R) :
         /\ Tiled(GroupsIn(R, h), L.small, L.smallEnd, L.highStart[h], L.highEnd[h])
         /\ L.highStart[h] \in Nat /\ L.highEnd[h] \in Nat /\ L.high[h] \in Nat
         /\ L.high[h] + 2 <= L.highStart[h]
  BY HighOrder DEF LaidTerm, Layout
<1>4. \A g \in GroupsOf(R) :
          /\ Opens(m, L.small[g], MidOf(g), L.smallStart[g], L.smallEnd[g])
          /\ Tiled(SmallIds(R, g), L.at, L.end, L.smallStart[g], L.smallEnd[g])
  BY DEF LaidTerm, Layout, LaidOut
<1>5. ASSUME NEW g \in GroupsOf(R)
      PROVE  /\ L.small[g] \in Nat /\ L.smallEnd[g] \in Nat /\ L.smallStart[g] \in Nat
             /\ L.small[g] + 2 <= L.smallStart[g] /\ L.smallStart[g] < L.smallEnd[g]
             /\ L.highStart[HighBase(g)] <= L.small[g]
             /\ L.smallEnd[g] <= L.highEnd[HighBase(g)]
             /\ At(m, L.small[g]) = MidOf(g)
             /\ ExtractGroup(m, L.small[g] + 1).start = L.smallStart[g]
             /\ ExtractGroup(m, L.small[g] + 1).end = L.smallEnd[g]
  <2> DEFINE h == HighBase(g)
  <2>1. h \in HighsOf(R) /\ g \in GroupsIn(R, h)
    BY <1>1, <1>2
  <2> HIDE DEF h
  <2>2. L.small[g] \in Nat /\ L.smallEnd[g] \in Nat
        /\ L.highStart[h] <= L.small[g] /\ L.smallEnd[g] <= L.highEnd[h]
    BY <1>3, <2>1 DEF Tiled
  <2>3. L.smallStart[g] \in Nat /\ L.small[g] + 2 <= L.smallStart[g]
        /\ At(m, L.small[g]) = MidOf(g)
        /\ ExtractGroup(m, L.small[g] + 1).start = L.smallStart[g]
        /\ ExtractGroup(m, L.small[g] + 1).end = L.smallEnd[g]
    BY <1>4 DEF Opens
  <2>4. L.smallStart[g] < L.smallEnd[g]
    BY <1>1, <1>4, <2>2, <2>3, TileOrder DEF Ordered
  <2> QED BY <2>2, <2>3, <2>4 DEF h
<1>6. ASSUME NEW g \in GroupsOf(R), NEW k \in GroupsOf(R), g < k
      PROVE  L.smallEnd[g] <= L.small[k]
  <2> DEFINE h == HighBase(g)
             j == HighBase(k)
  <2>1. h \in HighsOf(R) /\ j \in HighsOf(R) /\ g \in GroupsIn(R, h) /\ k \in GroupsIn(R, j)
    BY <1>1, <1>2
  <2>2. h <= j
    BY <1>1, <1>6, LevelOrder
  <2> HIDE DEF h, j
  <2>3. CASE h = j
    BY <1>3, <1>6, <2>1, <2>3 DEF Tiled
  <2>4. CASE h # j
    <3>1. h < j
      BY <1>1, <2>1, <2>2, <2>4
    <3>2. L.highEnd[h] <= L.high[j]
      BY <2>1, <3>1, HighOrder
    <3>3. L.smallEnd[g] <= L.highEnd[h] /\ L.highStart[j] <= L.small[k]
      BY <1>5 DEF h, j
    <3>4. L.high[j] + 2 <= L.highStart[j] /\ L.high[j] \in Nat /\ L.highStart[j] \in Nat
          /\ L.highEnd[h] \in Nat /\ L.smallEnd[g] \in Nat /\ L.small[k] \in Nat
      BY <1>3, <1>5, <2>1
    <3> QED BY <3>2, <3>3, <3>4
  <2> QED BY <2>3, <2>4
<1>7. ASSUME NEW g \in GroupsOf(R)
      PROVE  \/ L.smallEnd[g] = L.highEnd[HighBase(g)]
             \/ \E k \in GroupsIn(R, HighBase(g)) : L.small[k] = L.smallEnd[g]
  <2> DEFINE h == HighBase(g)
  <2>1. h \in HighsOf(R) /\ g \in GroupsIn(R, h) /\ GroupsIn(R, h) \in SUBSET Nat
    BY <1>1, <1>2
  <2> HIDE DEF h
  <2>2. L.smallEnd[g] = L.highEnd[h] \/ \E k \in GroupsIn(R, h) : L.small[k] = L.smallEnd[g]
    <3>1. Tiled(GroupsIn(R, h), L.small, L.smallEnd, L.highStart[h], L.highEnd[h])
          /\ L.smallEnd[g] \in Nat /\ L.highEnd[h] \in Nat
      BY <1>3, <1>5, <2>1
    <3>2. L.smallEnd[g] <= L.highEnd[h]
          /\ (L.smallEnd[g] < L.highEnd[h] =>
                 \E k \in GroupsIn(R, h) : L.small[k] = L.smallEnd[g])
      BY <2>1, <3>1 DEF Tiled
    <3> QED BY <3>1, <3>2
  <2> QED BY <2>2 DEF h
<1>8. \A h \in HighsOf(R) : \E g \in GroupsIn(R, h) : L.small[g] = L.highStart[h]
  BY <1>3 DEF Tiled
<1> QED BY <1>5, <1>6, <1>7, <1>8

-----------------------------------------------------------------------------
\* c stands in the high level group h: what is left of it ends at its end,
\* and what is left of the term 8 bytes past the term.
InHigh(R, hi, L, c, h) == /\ c \in Cursor /\ h \in HighsOf(R)
                          /\ c.tp = L.highEnd[h] /\ c.etp = hi + 8
                          /\ HighBase(c.gid) = h
\* What is left of it starts with a small group.
AtHeader(R, L, c, h) == c.ep = L.highEnd[h] \/ \E g \in GroupsIn(R, h) : c.ep = L.small[g]

\* c is at the start of the small group g.
Entered(R, hi, L, c, g) ==
    /\ g \in GroupsOf(R) /\ c \in Cursor
    /\ c.gid = g /\ c.p = L.smallStart[g] /\ c.ep = L.smallEnd[g]
    /\ c.tp = L.highEnd[HighBase(g)] /\ c.etp = hi + 8

\* Only the groups of c change.
Keeps(c, d) == d = [c EXCEPT !.gid = d.gid, !.p = d.p, !.ep = d.ep, !.tp = d.tp]

\* Opening the group whose header is next.
LEMMA NextSmallEnters ==
    ASSUME NEW R, NEW m, NEW lo, NEW hi, NEW L, LaidTerm(R, m, lo, hi, L),
           NEW c, NEW h, InHigh(R, hi, L, c, h),
           NEW g \in GroupsIn(R, h), c.ep = L.small[g]
    PROVE  /\ Entered(R, hi, L, NextSmall(m, c), g) /\ Keeps(c, NextSmall(m, c))
           /\ c.ep < c.tp /\ At(m, c.ep) = MidOf(g)
<1>1. g \in GroupsOf(R) /\ HighBase(g) = h
  BY DEF GroupsIn
<1>2. g = HighBase(g) + MidOf(g) * SmallSpan
  BY <1>1, GroupFacts DEF LaidTerm, Storable, Encodable
<1>3. /\ L.small[g] \in Nat /\ L.smallEnd[g] \in Nat /\ L.smallStart[g] \in Nat
      /\ L.small[g] + 2 <= L.smallStart[g] /\ L.smallStart[g] < L.smallEnd[g]
      /\ L.smallEnd[g] <= L.highEnd[HighBase(g)]
      /\ At(m, L.small[g]) = MidOf(g)
      /\ ExtractGroup(m, L.small[g] + 1).start = L.smallStart[g]
      /\ ExtractGroup(m, L.small[g] + 1).end = L.smallEnd[g]
  BY <1>1, SmallOrder
<1>4. c \in Cursor /\ c.tp = L.highEnd[h] /\ c.etp = hi + 8 /\ HighBase(c.gid) = h
  BY DEF InHigh
<1>5. NextSmall(m, c) \in Cursor
  BY <1>4, GroupOpened DEF LaidTerm
<1>6. EnterSmall(m, c) = [c EXCEPT !.p = L.smallStart[g], !.ep = L.smallEnd[g]]
  BY <1>3 DEF EnterSmall
<1>7. NextSmall(m, c) = [c EXCEPT !.p = L.smallStart[g], !.ep = L.smallEnd[g], !.gid = g]
  <2>1. HighBase(c.gid) + At(m, c.ep) * SmallSpan = g
    BY <1>1, <1>2, <1>3, <1>4
  <2> HIDE DEF HighBase, SmallSpan
  <2> QED BY <1>4, <1>6, <2>1 DEF NextSmall, Cursor
<1>8. c.ep < c.tp
  BY <1>1, <1>3, <1>4, HighOrder DEF InHigh
<1>9. Keeps(c, NextSmall(m, c))
  BY <1>4, <1>7 DEF Keeps, Cursor
<1>10. Entered(R, hi, L, NextSmall(m, c), g)
  BY <1>1, <1>4, <1>5, <1>7 DEF Entered, Cursor
<1> QED BY <1>3, <1>8, <1>9, <1>10

\* Entering the high level group whose header is next.
LEMMA NextHighEnters ==
    ASSUME NEW R, NEW m, NEW lo, NEW hi, NEW L, LaidTerm(R, m, lo, hi, L),
           NEW c \in Cursor, c.etp = hi + 8,
           NEW h \in HighsOf(R), c.tp = L.high[h]
    PROVE  /\ InHigh(R, hi, L, NextHigh(m, c), h) /\ Keeps(c, NextHigh(m, c))
           /\ NextHigh(m, c).gid = h /\ NextHigh(m, c).ep = L.highStart[h]
           /\ Keeps(c, EnterHigh(m, c)) /\ EnterHigh(m, c) \in Cursor
           /\ EnterHigh(m, c).tp = L.highEnd[h] /\ EnterHigh(m, c).etp = hi + 8
           /\ c.tp < c.etp /\ At(m, c.tp) = HighOf(h)
<1>1. h \in Nat /\ h < IdLimit /\ HighBase(h) = h /\ h = HighOf(h) * HighSpan
  BY GroupFacts DEF LaidTerm, Storable, Encodable
<1>2. /\ L.high[h] \in Nat /\ L.highEnd[h] \in Nat /\ L.highStart[h] \in Nat
      /\ L.high[h] + 2 <= L.highStart[h] /\ L.highStart[h] < L.highEnd[h] /\ L.highEnd[h] <= hi
      /\ At(m, L.high[h]) = HighOf(h)
      /\ ExtractGroup(m, L.high[h] + 1).start = L.highStart[h]
      /\ ExtractGroup(m, L.high[h] + 1).end = L.highEnd[h]
  BY HighOrder
<1>3. NextHigh(m, c) \in Cursor /\ EnterHigh(m, c) \in Cursor
  BY GroupOpened, Entering DEF LaidTerm
<1>4. EnterHigh(m, c) = [c EXCEPT !.ep = L.highStart[h], !.tp = L.highEnd[h]]
  BY <1>2 DEF EnterHigh
<1>5. NextHigh(m, c) = [c EXCEPT !.ep = L.highStart[h], !.tp = L.highEnd[h], !.gid = h]
  <2>1. At(m, c.tp) * HighSpan = h
    BY <1>1, <1>2
  <2> HIDE DEF HighSpan
  <2> QED BY <1>4, <2>1 DEF NextHigh, Cursor
<1>6. c.tp < c.etp
  BY <1>2 DEF LaidTerm
<1>7. InHigh(R, hi, L, NextHigh(m, c), h)
  BY <1>1, <1>3, <1>5 DEF InHigh, Cursor
<1>8. Keeps(c, NextHigh(m, c)) /\ Keeps(c, EnterHigh(m, c))
  BY <1>4, <1>5 DEF Keeps, Cursor
<1> QED BY <1>2, <1>3, <1>4, <1>5, <1>6, <1>7, <1>8 DEF Cursor

-----------------------------------------------------------------------------
\* Behind the term the reader finds four empty groups.
Quiet(m, hi) == At(m, hi + 1) = 0 /\ At(m, hi + 3) = 0 /\ At(m, hi + 5) = 0 /\ At(m, hi + 7) = 0

\* What stays the same over two calls stays the same.
LEMMA KeepsOn ==
    ASSUME NEW c \in Cursor, NEW d \in Cursor, NEW e \in Cursor, Keeps(c, d), Keeps(d, e)
    PROVE  Keeps(c, e)
BY DEF Keeps, Cursor

\* An empty group is passed.
LEMMA QuietStep ==
    ASSUME NEW m \in Seq(Nat), NEW c \in Cursor, At(m, c.tp + 1) = 0, c.ep >= c.tp, c.tp < c.etp
    PROVE  LET d == NextHigh(m, c)
           IN  /\ d \in Cursor /\ Keeps(c, d) /\ d.etp = c.etp
               /\ d.tp = c.tp + 2 /\ d.ep >= d.tp
               /\ AdvanceGroup(m, c) = AdvanceGroup(m, d)
<1> DEFINE d == NextHigh(m, c)
<1>1. c.ep \in Nat /\ c.tp \in Nat /\ c.etp \in Nat
  BY DEF Cursor
<1>2. d \in Cursor
  BY GroupOpened
<1>3. ExtractGroup(m, c.tp + 1).start = c.tp + 2 /\ ExtractGroup(m, c.tp + 1).end = c.tp + 2
  BY <1>1 DEF ExtractGroup, GROUP_2BYTE
<1>4. EnterHigh(m, c) = [c EXCEPT !.ep = c.tp + 2, !.tp = c.tp + 2]
  BY <1>3 DEF EnterHigh
<1>5. d = [c EXCEPT !.ep = c.tp + 2, !.tp = c.tp + 2, !.gid = At(m, c.tp) * HighSpan]
  BY <1>4 DEF NextHigh, Cursor
<1>6. d.ep = c.tp + 2 /\ d.tp = c.tp + 2 /\ d.etp = c.etp
  <2> HIDE DEF d
  <2> QED BY <1>5 DEF Cursor
<1>7. Keeps(c, d)
  <2> HIDE DEF d
  <2> QED BY <1>5 DEF Keeps, Cursor
<1>8. AdvanceGroup(m, c) = AdvanceGroup(m, d)
  BY <1>1, AdvanceGroupCalls
<1> HIDE DEF d
<1>9. d.ep >= d.tp
  BY <1>1, <1>6
<1> QED BY <1>2, <1>6, <1>7, <1>8, <1>9 DEF d

\* At the end of the term advance_group finds nothing.
LEMMA QuietWalk ==
    ASSUME NEW m \in Seq(Nat), NEW hi \in Nat, Quiet(m, hi),
           NEW c \in Cursor, c.ep >= c.tp, c.tp = hi, c.etp = hi + 8
    PROVE  \E d \in Cursor : AdvanceGroup(m, c) = No(d) /\ Keeps(c, d)
<1>1. PICK c1 \in Cursor : /\ Keeps(c, c1) /\ c1.etp = hi + 8 /\ c1.tp = hi + 2 /\ c1.ep >= c1.tp
                           /\ AdvanceGroup(m, c) = AdvanceGroup(m, c1)
  <2>1. At(m, c.tp + 1) = 0 /\ c.tp < c.etp
    BY DEF Quiet
  <2> QED BY <2>1, QuietStep
<1>2. PICK c2 \in Cursor : /\ Keeps(c1, c2) /\ c2.etp = hi + 8 /\ c2.tp = hi + 4 /\ c2.ep >= c2.tp
                           /\ AdvanceGroup(m, c1) = AdvanceGroup(m, c2)
  <2>1. At(m, c1.tp + 1) = 0 /\ c1.tp < c1.etp /\ c1.tp + 2 = hi + 4
    BY <1>1 DEF Quiet
  <2> DEFINE d == NextHigh(m, c1)
  <2>2. /\ d \in Cursor /\ Keeps(c1, d) /\ d.etp = c1.etp
        /\ d.tp = c1.tp + 2 /\ d.ep >= d.tp
        /\ AdvanceGroup(m, c1) = AdvanceGroup(m, d)
    BY <1>1, <2>1, QuietStep
  <2> HIDE DEF d
  <2> QED BY <1>1, <2>1, <2>2
<1>3. PICK c3 \in Cursor : /\ Keeps(c2, c3) /\ c3.etp = hi + 8 /\ c3.tp = hi + 6 /\ c3.ep >= c3.tp
                           /\ AdvanceGroup(m, c2) = AdvanceGroup(m, c3)
  <2>1. At(m, c2.tp + 1) = 0 /\ c2.tp < c2.etp /\ c2.tp + 2 = hi + 6
    BY <1>2 DEF Quiet
  <2> DEFINE d == NextHigh(m, c2)
  <2>2. /\ d \in Cursor /\ Keeps(c2, d) /\ d.etp = c2.etp
        /\ d.tp = c2.tp + 2 /\ d.ep >= d.tp
        /\ AdvanceGroup(m, c2) = AdvanceGroup(m, d)
    BY <1>2, <2>1, QuietStep
  <2> HIDE DEF d
  <2> QED BY <1>2, <2>1, <2>2
<1>4. PICK c4 \in Cursor : /\ Keeps(c3, c4) /\ c4.etp = hi + 8 /\ c4.tp = hi + 8 /\ c4.ep >= c4.tp
                           /\ AdvanceGroup(m, c3) = AdvanceGroup(m, c4)
  <2>1. At(m, c3.tp + 1) = 0 /\ c3.tp < c3.etp /\ c3.tp + 2 = hi + 8
    BY <1>3 DEF Quiet
  <2> DEFINE d == NextHigh(m, c3)
  <2>2. /\ d \in Cursor /\ Keeps(c3, d) /\ d.etp = c3.etp
        /\ d.tp = c3.tp + 2 /\ d.ep >= d.tp
        /\ AdvanceGroup(m, c3) = AdvanceGroup(m, d)
    BY <1>3, <2>1, QuietStep
  <2> HIDE DEF d
  <2> QED BY <1>3, <2>1, <2>2
<1>5. AdvanceGroup(m, c4) = No(c4)
  <2>1. c4.ep \in Nat /\ c4.tp \in Nat
    BY DEF Cursor
  <2>2. ~(c4.ep < c4.tp) /\ ~(c4.tp < c4.etp)
    BY <1>4, <2>1
  <2> QED BY <2>2, AdvanceGroupCalls
<1>6. Keeps(c, c4)
  BY <1>1, <1>2, <1>3, <1>4, KeepsOn
<1> QED BY <1>1, <1>2, <1>3, <1>4, <1>5, <1>6
-----------------------------------------------------------------------------
\* The small groups whose headers are at e or behind it.
Rest(R, L, e) == {g \in GroupsOf(R) : e <= L.small[g]}

\* r is the first group of S, opened, or the answer that there is none.
Lands(R, hi, L, S, c, r) ==
    /\ r \in Results /\ Keeps(c, r.t)
    /\ \/ r.ok /\ \E g \in S : (\A k \in S : g <= k) /\ Entered(R, hi, L, r.t, g)
       \/ ~r.ok /\ S = {}

\* The group at e is the first of the rest.
LEMMA RestStarts ==
    ASSUME NEW R, NEW m, NEW lo, NEW hi, NEW L, LaidTerm(R, m, lo, hi, L),
           NEW g \in GroupsOf(R)
    PROVE  g \in Rest(R, L, L.small[g]) /\ \A k \in Rest(R, L, L.small[g]) : g <= k
<1>1. \A k \in GroupsOf(R) : k \in Nat /\ L.small[k] \in Nat /\ L.smallEnd[k] \in Nat
                             /\ L.small[k] < L.smallEnd[k]
  <2> TAKE k \in GroupsOf(R)
  <2>1. k \in Nat
    BY GroupFacts DEF LaidTerm, Storable, Encodable
  <2>2. /\ L.small[k] \in Nat /\ L.smallEnd[k] \in Nat /\ L.smallStart[k] \in Nat
        /\ L.small[k] + 2 <= L.smallStart[k] /\ L.smallStart[k] < L.smallEnd[k]
    BY SmallOrder
  <2> QED BY <2>1, <2>2
<1>2. g \in Rest(R, L, L.small[g])
  BY <1>1 DEF Rest
<1>3. ASSUME NEW k \in Rest(R, L, L.small[g]) PROVE g <= k
  <2>1. k \in GroupsOf(R) /\ L.small[g] <= L.small[k]
    BY DEF Rest
  <2>2. k < g => L.smallEnd[k] <= L.small[g]
    BY <2>1, SmallOrder
  <2>3. /\ k \in Nat /\ L.small[k] \in Nat /\ L.smallEnd[k] \in Nat /\ L.small[k] < L.smallEnd[k]
        /\ g \in Nat /\ L.small[g] \in Nat
    BY <1>1, <2>1
  <2> QED BY <2>1, <2>2, <2>3
<1> QED BY <1>2, <1>3

\* The group whose header is next is the first of the rest.
LEMMA SmallLands ==
    ASSUME NEW R, NEW m, NEW lo, NEW hi, NEW L, LaidTerm(R, m, lo, hi, L),
           NEW c, NEW h, InHigh(R, hi, L, c, h),
           NEW g \in GroupsIn(R, h), c.ep = L.small[g]
    PROVE  AdvanceGroup(m, c) = Yes(NextSmall(m, c))
           /\ Lands(R, hi, L, Rest(R, L, c.ep), c, Yes(NextSmall(m, c)))
<1>1. /\ Entered(R, hi, L, NextSmall(m, c), g) /\ Keeps(c, NextSmall(m, c)) /\ c.ep < c.tp
  BY NextSmallEnters
<1>2. AdvanceGroup(m, c) = Yes(NextSmall(m, c)) /\ AdvanceGroup(m, c) \in Results
  BY <1>1, AdvanceGroupCalls DEF LaidTerm, InHigh
<1>3. g \in Rest(R, L, c.ep) /\ \A k \in Rest(R, L, c.ep) : g <= k
  BY RestStarts DEF GroupsIn
<1> QED BY <1>1, <1>2, <1>3 DEF Lands, Yes

\* A call from a cursor that was moved is a call from the first one.
LEMMA LandsFrom ==
    ASSUME NEW R, NEW hi, NEW L, NEW S, NEW c \in Cursor, NEW d \in Cursor, NEW r,
           Keeps(c, d), Lands(R, hi, L, S, d, r)
    PROVE  Lands(R, hi, L, S, c, r)
<1>1. r.t \in Cursor
  BY DEF Lands, Results
<1>2. Keeps(c, r.t)
  BY <1>1, KeepsOn DEF Lands
<1> QED BY <1>2 DEF Lands

\* The groups behind the header of a high level group, and behind its end.
LEMMA HighRest ==
    ASSUME NEW R, NEW m, NEW lo, NEW hi, NEW L, LaidTerm(R, m, lo, hi, L),
           NEW h \in HighsOf(R)
    PROVE  /\ Rest(R, L, L.high[h]) = {g \in GroupsOf(R) : h <= HighBase(g)}
           /\ Rest(R, L, L.highStart[h]) = {g \in GroupsOf(R) : h <= HighBase(g)}
           /\ Rest(R, L, L.highEnd[h]) = {g \in GroupsOf(R) : h < HighBase(g)}
<1>1. /\ L.high[h] \in Nat /\ L.highEnd[h] \in Nat /\ L.highStart[h] \in Nat
      /\ L.high[h] + 2 <= L.highStart[h] /\ L.highStart[h] < L.highEnd[h] /\ h \in Nat
  BY HighOrder, GroupFacts DEF LaidTerm, Storable, Encodable
<1>2. ASSUME NEW g \in GroupsOf(R)
      PROVE  /\ L.high[h] <= L.small[g] <=> h <= HighBase(g)
             /\ L.highStart[h] <= L.small[g] <=> h <= HighBase(g)
             /\ L.highEnd[h] <= L.small[g] <=> h < HighBase(g)
  <2> DEFINE j == HighBase(g)
  <2>1. j \in HighsOf(R) /\ j \in Nat
    BY GroupFacts DEF LaidTerm, Storable, Encodable
  <2>2. /\ L.small[g] \in Nat /\ L.smallEnd[g] \in Nat /\ L.smallStart[g] \in Nat
        /\ L.small[g] + 2 <= L.smallStart[g] /\ L.smallStart[g] < L.smallEnd[g]
        /\ L.highStart[j] <= L.small[g] /\ L.smallEnd[g] <= L.highEnd[j]
    BY SmallOrder
  <2> HIDE DEF j
  <2>3. /\ L.high[j] \in Nat /\ L.highEnd[j] \in Nat /\ L.highStart[j] \in Nat
        /\ L.high[j] + 2 <= L.highStart[j] /\ L.highStart[j] < L.highEnd[j]
        /\ (h < j => L.highEnd[h] <= L.high[j])
        /\ (j < h => L.highEnd[j] <= L.high[h])
    BY <2>1, HighOrder
  <2>4. CASE j = h
    BY <1>1, <2>2, <2>3, <2>4 DEF j
  <2>5. CASE h < j
    BY <1>1, <2>1, <2>2, <2>3, <2>5 DEF j
  <2>6. CASE j < h
    BY <1>1, <2>1, <2>2, <2>3, <2>6 DEF j
  <2> QED BY <1>1, <2>1, <2>4, <2>5, <2>6
<1> QED BY <1>2 DEF Rest

\* advance_group opens the next small group of the term, whichever high level
\* group it is in, and returns false when there is none.
LEMMA AdvanceGroupLands ==
    ASSUME NEW R, NEW m, NEW lo, NEW hi, NEW L, LaidTerm(R, m, lo, hi, L), Quiet(m, hi),
           NEW c, NEW h, InHigh(R, hi, L, c, h), AtHeader(R, L, c, h)
    PROVE  Lands(R, hi, L, Rest(R, L, c.ep), c, AdvanceGroup(m, c))
<1>1. m \in Seq(Nat) /\ hi \in Nat
  BY DEF LaidTerm
<1>2. c \in Cursor /\ h \in HighsOf(R) /\ c.tp = L.highEnd[h] /\ c.etp = hi + 8
  BY DEF InHigh
<1>3. CASE \E g \in GroupsIn(R, h) : c.ep = L.small[g]
  <2>1. PICK g \in GroupsIn(R, h) : c.ep = L.small[g]
    BY <1>3
  <2> QED BY <2>1, SmallLands
<1>4. CASE c.ep = L.highEnd[h] /\ L.highEnd[h] = hi
  <2>1. c.ep >= c.tp /\ c.tp = hi
    BY <1>1, <1>2, <1>4
  <2>2. PICK d \in Cursor : AdvanceGroup(m, c) = No(d) /\ Keeps(c, d)
    BY <1>1, <1>2, <2>1, QuietWalk
  <2>3. \A k \in HighsOf(R) : k <= h
    BY <1>2, <1>4, HighOrder
  <2>4. Rest(R, L, c.ep) = {g \in GroupsOf(R) : h < HighBase(g)}
    BY <1>2, <1>4, HighRest
  <2>5. Rest(R, L, c.ep) = {}
    <3>1. \A g \in GroupsOf(R) : HighBase(g) \in HighsOf(R) /\ HighBase(g) \in Nat
      BY GroupFacts DEF LaidTerm, Storable, Encodable
    <3>2. h \in Nat
      BY <1>2, GroupFacts DEF LaidTerm, Storable, Encodable
    <3>3. \A g \in GroupsOf(R) : ~(h < HighBase(g))
      BY <2>3, <3>1, <3>2
    <3> QED BY <2>4, <3>3
  <2> QED BY <2>2, <2>5 DEF Lands, No, Results
<1>5. CASE c.ep = L.highEnd[h] /\ L.highEnd[h] # hi
  <2>1. PICK k \in HighsOf(R) : L.high[k] = L.highEnd[h]
    BY <1>2, <1>5, HighOrder
  <2> DEFINE d == NextHigh(m, c)
  <2>2. /\ InHigh(R, hi, L, d, k) /\ Keeps(c, d) /\ d.ep = L.highStart[k]
        /\ c.tp < c.etp
    BY <1>2, <2>1, NextHighEnters
  <2>3. AdvanceGroup(m, c) = AdvanceGroup(m, d)
    <3>1. ~(c.ep < c.tp)
      BY <1>2, <1>5, HighOrder
    <3> QED BY <1>1, <1>2, <2>2, <3>1, AdvanceGroupCalls
  <2> HIDE DEF d
  <2>4. PICK first \in GroupsIn(R, k) : L.small[first] = L.highStart[k]
    BY SmallOrder
  <2>5. Lands(R, hi, L, Rest(R, L, d.ep), d, AdvanceGroup(m, d))
    BY <2>2, <2>4, SmallLands
  <2>6. Rest(R, L, d.ep) = Rest(R, L, c.ep)
    <3>1. c.ep = L.high[k] /\ d.ep = L.highStart[k]
      BY <1>5, <2>1, <2>2
    <3>2. Rest(R, L, L.high[k]) = Rest(R, L, L.highStart[k])
      <4>1. Rest(R, L, L.high[k]) = {g \in GroupsOf(R) : k <= HighBase(g)}
        BY ONLY LaidTerm(R, m, lo, hi, L), <2>1, HighRest
      <4>2. Rest(R, L, L.highStart[k]) = {g \in GroupsOf(R) : k <= HighBase(g)}
        BY ONLY LaidTerm(R, m, lo, hi, L), <2>1, HighRest
      <4> QED BY <4>1, <4>2
    <3> QED BY <3>1, <3>2
  <2>7. d \in Cursor
    BY <2>2 DEF InHigh
  <2> QED BY <1>2, <2>2, <2>3, <2>5, <2>6, <2>7, LandsFrom
<1> QED BY <1>3, <1>4, <1>5 DEF AtHeader

\* The groups of S that are not before gid.
NotBefore(S, gid) == {k \in S : gid <= k}

\* Passing a small group leaves the ones behind it.
LEMMA SmallRest ==
    ASSUME NEW R, NEW m, NEW lo, NEW hi, NEW L, LaidTerm(R, m, lo, hi, L),
           NEW g \in GroupsOf(R)
    PROVE  Rest(R, L, L.small[g]) = {g} \cup Rest(R, L, L.smallEnd[g])
<1>1. \A k \in GroupsOf(R) : k \in Nat /\ L.small[k] \in Nat /\ L.smallEnd[k] \in Nat
                             /\ L.small[k] < L.smallEnd[k]
  <2> TAKE k \in GroupsOf(R)
  <2>1. k \in Nat
    BY GroupFacts DEF LaidTerm, Storable, Encodable
  <2>2. /\ L.small[k] \in Nat /\ L.smallEnd[k] \in Nat /\ L.smallStart[k] \in Nat
        /\ L.small[k] + 2 <= L.smallStart[k] /\ L.smallStart[k] < L.smallEnd[k]
    BY SmallOrder
  <2> QED BY <2>1, <2>2
<1>2. ASSUME NEW k \in GroupsOf(R)
      PROVE  L.small[g] <= L.small[k] <=> k = g \/ L.smallEnd[g] <= L.small[k]
  <2>1. /\ k \in Nat /\ L.small[k] \in Nat /\ L.smallEnd[k] \in Nat /\ L.small[k] < L.smallEnd[k]
        /\ g \in Nat /\ L.small[g] \in Nat /\ L.smallEnd[g] \in Nat /\ L.small[g] < L.smallEnd[g]
    BY <1>1
  <2>2. (k < g => L.smallEnd[k] <= L.small[g]) /\ (g < k => L.smallEnd[g] <= L.small[k])
    BY SmallOrder
  <2>3. CASE k = g
    BY <2>1, <2>3
  <2>4. CASE k < g
    BY <2>1, <2>2, <2>4
  <2>5. CASE g < k
    BY <2>1, <2>2, <2>5
  <2> QED BY <2>1, <2>3, <2>4, <2>5
<1> QED BY <1>2 DEF Rest

\* The scan over small groups, one call.
LEMMA PassSmall ==
    ASSUME NEW R, NEW m, NEW lo, NEW hi, NEW L, LaidTerm(R, m, lo, hi, L),
           NEW c, NEW h, InHigh(R, hi, L, c, h), AtHeader(R, L, c, h),
           NEW gid \in Nat, gid < IdLimit, HighBase(gid) = h, GroupOf(gid) = gid,
           c.ep < c.tp
    PROVE  \/ /\ At(m, c.ep) >= MidOf(gid)
              /\ Lands(R, hi, L, NotBefore(Rest(R, L, c.ep), gid), c, Yes(NextSmall(m, c)))
           \/ LET d == EnterSmall(m, c)
              IN  /\ ~(At(m, c.ep) >= MidOf(gid))
                  /\ InHigh(R, hi, L, d, h) /\ AtHeader(R, L, d, h) /\ c.ep < d.ep
                  /\ NotBefore(Rest(R, L, d.ep), gid) = NotBefore(Rest(R, L, c.ep), gid)
                  /\ Keeps(c, d)
<1>1. c \in Cursor /\ h \in HighsOf(R) /\ c.tp = L.highEnd[h] /\ c.etp = hi + 8 /\ HighBase(c.gid) = h
  BY DEF InHigh
<1>2. PICK g \in GroupsIn(R, h) : c.ep = L.small[g]
  <2>1. L.highEnd[h] \in Nat
    BY <1>1, HighOrder
  <2> QED BY <1>1, <2>1 DEF AtHeader
<1>3. /\ g \in GroupsOf(R) /\ g \in Nat /\ g < IdLimit /\ GroupOf(g) = g /\ MidOf(g) \in Nat
      /\ HighBase(g) = h
  <2>1. g \in GroupsOf(R) /\ HighBase(g) = h
    BY DEF GroupsIn
  <2>2. g \in Nat /\ g < IdLimit /\ GroupOf(g) = g /\ MidOf(g) \in Byte
    BY <2>1, GroupFacts DEF LaidTerm, Storable, Encodable
  <2>3. MidOf(g) \in Nat
    BY <2>2 DEF Byte
  <2> QED BY <2>1, <2>2, <2>3
<1>4. At(m, c.ep) = MidOf(g)
  BY <1>2, NextSmallEnters
<1>5. MidOf(gid) \in Nat
  BY LevelFacts DEF Byte
<1>6. gid <= g <=> MidOf(gid) <= MidOf(g)
  BY <1>3, LevelOrder
<1>7. \A k \in Rest(R, L, c.ep) : k \in Nat
  BY GroupFacts DEF Rest, LaidTerm, Storable, Encodable
<1>8. CASE gid <= g
  <2>1. \A k \in Rest(R, L, c.ep) : g <= k
    BY <1>2, <1>3, RestStarts
  <2>2. NotBefore(Rest(R, L, c.ep), gid) = Rest(R, L, c.ep)
    BY <1>3, <1>7, <1>8, <2>1 DEF NotBefore
  <2>3. Lands(R, hi, L, Rest(R, L, c.ep), c, Yes(NextSmall(m, c)))
    BY <1>2, SmallLands
  <2> QED BY <1>3, <1>4, <1>5, <1>6, <1>8, <2>2, <2>3
<1>9. CASE ~(gid <= g)
  <2> DEFINE d == EnterSmall(m, c)
  <2>1. /\ d \in Cursor /\ c.ep < d.ep /\ d.tp = c.tp /\ d.etp = c.etp /\ d.gid = c.gid
    BY <1>1, Entering DEF LaidTerm
  <2>2. d.ep = L.smallEnd[g] /\ Keeps(c, d)
    <3>1. /\ ExtractGroup(m, L.small[g] + 1).start = L.smallStart[g]
          /\ ExtractGroup(m, L.small[g] + 1).end = L.smallEnd[g]
      BY <1>3, SmallOrder
    <3>2. d = [c EXCEPT !.p = L.smallStart[g], !.ep = L.smallEnd[g]]
      BY <1>2, <3>1 DEF EnterSmall
    <3> HIDE DEF d
    <3> QED BY <1>1, <3>2 DEF Keeps, Cursor
  <2> HIDE DEF d
  <2>3. InHigh(R, hi, L, d, h)
    BY <1>1, <2>1 DEF InHigh
  <2>4. AtHeader(R, L, d, h)
    BY <1>3, <2>2, SmallOrder DEF AtHeader
  <2>5. Rest(R, L, c.ep) = {g} \cup Rest(R, L, d.ep)
    BY <1>2, <1>3, <2>2, SmallRest
  <2>6. NotBefore(Rest(R, L, d.ep), gid) = NotBefore(Rest(R, L, c.ep), gid)
    BY <1>9, <2>5 DEF NotBefore
  <2> QED BY <1>3, <1>4, <1>5, <1>6, <1>9, <2>1, <2>2, <2>3, <2>4, <2>6 DEF d
<1> QED BY <1>8, <1>9

\* The scan over small groups opens the first one that is not before gid, in
\* this high level group or behind it.
LEMMA ScanSmallLands ==
    ASSUME NEW R, NEW m, NEW lo, NEW hi, NEW L, LaidTerm(R, m, lo, hi, L), Quiet(m, hi),
           NEW h \in HighsOf(R),
           NEW gid \in Nat, gid < IdLimit, HighBase(gid) = h, GroupOf(gid) = gid,
           NEW c0, InHigh(R, hi, L, c0, h), AtHeader(R, L, c0, h)
    PROVE  Lands(R, hi, L, NotBefore(Rest(R, L, c0.ep), gid), c0, ScanSmall(m, c0, gid))
<1> DEFINE D  == {c \in Cursor : InHigh(R, hi, L, c, h) /\ AtHeader(R, L, c, h)}
           P  == {c \in D : Lands(R, hi, L, NotBefore(Rest(R, L, c.ep), gid), c, ScanSmall(m, c, gid))}
           mu == [c \in D |-> L.highEnd[h] - c.ep]
<1>1. L.highEnd[h] \in Nat
  BY HighOrder
<1>2. ASSUME NEW c \in D PROVE c.ep \in Nat /\ c.ep <= L.highEnd[h] /\ c.tp = L.highEnd[h]
  <2>1. c.ep \in Nat /\ c.tp = L.highEnd[h]
    BY DEF Cursor, InHigh
  <2>2. ASSUME NEW g \in GroupsIn(R, h), c.ep = L.small[g] PROVE c.ep <= L.highEnd[h]
    <3>1. g \in GroupsOf(R) /\ HighBase(g) = h
      BY DEF GroupsIn
    <3>2. /\ L.small[g] \in Nat /\ L.smallEnd[g] \in Nat /\ L.smallStart[g] \in Nat
          /\ L.small[g] + 2 <= L.smallStart[g] /\ L.smallStart[g] < L.smallEnd[g]
          /\ L.smallEnd[g] <= L.highEnd[h]
      BY <3>1, SmallOrder
    <3> QED BY <1>1, <2>2, <3>2
  <2> QED BY <1>1, <2>1, <2>2 DEF AtHeader
<1>3. mu \in [D -> Nat]
  BY <1>1, <1>2
<1>4. ASSUME NEW c \in D, \A d \in D : mu[d] < mu[c] => d \in P
      PROVE  c \in P
  <2>1. InHigh(R, hi, L, c, h) /\ AtHeader(R, L, c, h) /\ c \in Cursor
    OBVIOUS
  <2>2. ScanSmall(m, c, gid) = IF c.ep >= c.tp THEN AdvanceGroup(m, c)
                     ELSE IF At(m, c.ep) >= MidOf(gid) THEN Yes(NextSmall(m, c))
                     ELSE ScanSmall(m, EnterSmall(m, c), gid)
    BY <2>1, ScanSmallCalls DEF LaidTerm
  <2>3. CASE c.ep >= c.tp
    <3>1. c.ep = L.highEnd[h]
      BY <1>1, <1>2, <2>3
    <3>2. Rest(R, L, c.ep) = {g \in GroupsOf(R) : h < HighBase(g)}
      BY <3>1, HighRest
    <3>3. NotBefore(Rest(R, L, c.ep), gid) = Rest(R, L, c.ep)
      <4>1. ASSUME NEW g \in GroupsOf(R), h < HighBase(g) PROVE gid <= g
        <5>1. g \in Nat /\ g < IdLimit
          BY GroupFacts DEF LaidTerm, Storable, Encodable
        <5>2. gid < g
          BY <4>1, <5>1, LevelOrder
        <5> QED BY <5>1, <5>2
      <4> QED BY <3>2, <4>1 DEF NotBefore
    <3>4. Lands(R, hi, L, Rest(R, L, c.ep), c, AdvanceGroup(m, c))
      BY <2>1, AdvanceGroupLands
    <3> HIDE DEF D, mu
    <3>5. Lands(R, hi, L, NotBefore(Rest(R, L, c.ep), gid), c, ScanSmall(m, c, gid))
      BY <2>2, <2>3, <3>3, <3>4
    <3> QED BY <3>5
  <2>4. CASE ~(c.ep >= c.tp)
    <3>1. c.ep < c.tp
      BY <1>1, <1>2, <2>4
    <3>2. CASE At(m, c.ep) >= MidOf(gid)
      <4>1. Lands(R, hi, L, NotBefore(Rest(R, L, c.ep), gid), c, Yes(NextSmall(m, c)))
        BY <2>1, <3>1, <3>2, PassSmall
      <4>2. ScanSmall(m, c, gid) = Yes(NextSmall(m, c))
        BY <2>2, <2>4, <3>2
      <4> HIDE DEF D, mu
      <4> QED BY <4>1, <4>2
    <3>3. CASE ~(At(m, c.ep) >= MidOf(gid))
      <4> DEFINE d == EnterSmall(m, c)
      <4>1. /\ InHigh(R, hi, L, d, h) /\ AtHeader(R, L, d, h) /\ c.ep < d.ep
            /\ NotBefore(Rest(R, L, d.ep), gid) = NotBefore(Rest(R, L, c.ep), gid)
            /\ Keeps(c, d)
        BY <2>1, <3>1, <3>3, PassSmall
      <4>2. ScanSmall(m, c, gid) = ScanSmall(m, d, gid)
        BY <2>2, <2>4, <3>3
      <4> HIDE DEF d
      <4>3. d \in Cursor
        BY <4>1 DEF InHigh
      <4>4. d \in D
        BY <4>1, <4>3
      <4>5. mu[d] < mu[c]
        <5>1. mu[d] = L.highEnd[h] - d.ep /\ mu[c] = L.highEnd[h] - c.ep
          BY <4>4
        <5>2. d.ep \in Nat /\ c.ep \in Nat
          BY <1>2, <4>4
        <5> QED BY <1>1, <4>1, <5>1, <5>2
      <4>6. Lands(R, hi, L, NotBefore(Rest(R, L, d.ep), gid), d, ScanSmall(m, d, gid))
        BY <1>4, <4>4, <4>5
      <4>7. Lands(R, hi, L, NotBefore(Rest(R, L, c.ep), gid), c, ScanSmall(m, c, gid))
        BY <2>1, <4>1, <4>2, <4>3, <4>6, LandsFrom
      <4> HIDE DEF D, mu
      <4> QED BY <4>7
    <3> QED BY <3>2, <3>3
  <2> QED BY <2>3, <2>4
<1>5. P = D
  <2>1. P \in SUBSET D
    OBVIOUS
  <2> HIDE DEF D, P, mu
  <2> QED BY <1>3, <1>4, <2>1, DescentInduction DEF Inductive
<1>6. c0 \in D
  BY DEF InHigh
<1> HIDE DEF D
<1> QED BY <1>5, <1>6

\* A group of a high level group of the term, that is not its first id.
InnerGroup(R, gid, b) == /\ gid \in Nat /\ gid < IdLimit /\ GroupOf(gid) = gid
                         /\ HighBase(gid) = b /\ gid # b /\ b \in HighsOf(R)

\* c is at the header of the high level group k, not behind b.
AtHigh(R, hi, L, c, k, b) == /\ c \in Cursor /\ c.etp = hi + 8
                             /\ k \in HighsOf(R) /\ c.tp = L.high[k] /\ k <= b

\* The scan over high level groups, one call.
LEMMA PassHigh ==
    ASSUME NEW R, NEW m, NEW lo, NEW hi, NEW L, LaidTerm(R, m, lo, hi, L), Quiet(m, hi),
           NEW gid, NEW b, InnerGroup(R, gid, b),
           NEW c, NEW k, AtHigh(R, hi, L, c, k, b)
    PROVE  \/ Lands(R, hi, L, NotBefore(Rest(R, L, c.tp), gid), c, ScanHigh(m, c, gid))
           \/ LET d == EnterHigh(m, c)
              IN  /\ ScanHigh(m, c, gid) = ScanHigh(m, d, gid)
                  /\ \E j : AtHigh(R, hi, L, d, j, b)
                  /\ c.tp < d.tp /\ Keeps(c, d)
                  /\ NotBefore(Rest(R, L, d.tp), gid) = NotBefore(Rest(R, L, c.tp), gid)
<1>1. /\ c \in Cursor /\ c.etp = hi + 8 /\ k \in HighsOf(R) /\ c.tp = L.high[k] /\ k <= b
      /\ b \in HighsOf(R)
  BY DEF AtHigh, InnerGroup
<1>2. /\ gid \in Nat /\ gid < IdLimit /\ GroupOf(gid) = gid /\ HighBase(gid) = b /\ gid # b
  BY DEF InnerGroup
<1>3. /\ k \in Nat /\ b \in Nat /\ k < IdLimit /\ b < IdLimit
      /\ HighBase(k) = k /\ HighBase(b) = b
  BY <1>1, GroupFacts DEF LaidTerm, Storable, Encodable
<1>4. HighOf(k) \in Nat /\ HighOf(gid) \in Nat
  <2>1. HighOf(k) \in Byte /\ HighOf(gid) \in Byte
    BY <1>2, <1>3, LevelFacts
  <2> QED BY <2>1 DEF Byte
<1>5. b <= k <=> HighOf(gid) <= HighOf(k)
  BY <1>2, <1>3, LevelOrder
<1>6. b < gid
  <2>1. gid < b => FALSE
    <3>1. b <= gid
      <4>1. b <= gid \/ gid <= b
        BY <1>2, <1>3
      <4>2. gid = HighBase(gid) + MidOf(gid) * SmallSpan /\ MidOf(gid) \in Byte
        BY <1>2, LevelFacts
      <4>3. MidOf(gid) * SmallSpan >= 0
        BY <4>2, SMT DEF Byte, SmallSpan
      <4> QED BY <1>2, <1>3, <4>2, <4>3, SMT DEF SmallSpan, Byte
    <3> QED BY <1>2, <1>3, <3>1
  <2> QED BY <1>2, <1>3, <2>1
<1> DEFINE n == NextHigh(m, c)
           d == EnterHigh(m, c)
<1>7. /\ InHigh(R, hi, L, n, k) /\ Keeps(c, n) /\ n.gid = k /\ n.ep = L.highStart[k]
      /\ Keeps(c, d) /\ d \in Cursor /\ d.tp = L.highEnd[k] /\ d.etp = hi + 8
      /\ c.tp < c.etp /\ At(m, c.tp) = HighOf(k)
  BY <1>1, NextHighEnters
<1>8. ScanHigh(m, c, gid) = IF c.tp >= c.etp THEN No(c)
                     ELSE IF At(m, c.tp) >= HighOf(gid)
                     THEN IF NextHigh(m, c).gid >= gid THEN Yes(NextHigh(m, c))
                          ELSE ScanSmall(m, NextHigh(m, c), gid)
                     ELSE ScanHigh(m, EnterHigh(m, c), gid)
  BY <1>1, <1>2, ScanHighCalls DEF LaidTerm
<1>9. c.tp \in Nat /\ c.etp \in Nat
  BY <1>1 DEF Cursor
<1> HIDE DEF n, d
<1>10. CASE k = b
  <2>1. ScanHigh(m, c, gid) = ScanSmall(m, n, gid)
    <3>1. ~(c.tp >= c.etp)
      BY <1>7, <1>9
    <3>2. At(m, c.tp) >= HighOf(gid)
      BY <1>3, <1>4, <1>5, <1>7, <1>10
    <3>3. ~(n.gid >= gid)
      BY <1>2, <1>3, <1>6, <1>7, <1>10
    <3> QED BY <1>8, <3>1, <3>2, <3>3 DEF n
  <2>2. AtHeader(R, L, n, k)
    BY <1>1, <1>7, SmallOrder DEF AtHeader
  <2>3. Lands(R, hi, L, NotBefore(Rest(R, L, n.ep), gid), n, ScanSmall(m, n, gid))
    BY <1>1, <1>2, <1>7, <1>10, <2>2, ScanSmallLands
  <2>4. Rest(R, L, n.ep) = Rest(R, L, c.tp)
    <3>1. Rest(R, L, L.high[k]) = {g \in GroupsOf(R) : k <= HighBase(g)}
      BY ONLY LaidTerm(R, m, lo, hi, L), <1>1, HighRest
    <3>2. Rest(R, L, L.highStart[k]) = {g \in GroupsOf(R) : k <= HighBase(g)}
      BY ONLY LaidTerm(R, m, lo, hi, L), <1>1, HighRest
    <3> QED BY <1>1, <1>7, <3>1, <3>2
  <2>5. n \in Cursor
    BY <1>7 DEF InHigh
  <2>6. Lands(R, hi, L, NotBefore(Rest(R, L, c.tp), gid), n, ScanHigh(m, c, gid))
    BY <2>1, <2>3, <2>4
  <2> QED BY <1>1, <1>7, <2>5, <2>6, LandsFrom
<1>11. CASE k # b
  <2>0. k < b
    BY <1>1, <1>3, <1>11
  <2>1. ScanHigh(m, c, gid) = ScanHigh(m, d, gid)
    <3>1. ~(c.tp >= c.etp)
      BY <1>7, <1>9
    <3>2. ~(At(m, c.tp) >= HighOf(gid))
      BY <1>3, <1>4, <1>5, <1>7, <2>0
    <3> QED BY <1>8, <3>1, <3>2 DEF d
  <2>2. PICK j \in HighsOf(R) : L.high[j] = L.highEnd[k]
    <3>1. L.highEnd[k] # hi
      BY <1>1, <1>3, <2>0, HighOrder
    <3> QED BY <1>1, <3>1, HighOrder
  <2>3. j <= b
    <3>1. b <= k \/ j <= b
      BY <1>1, <2>2, HighOrder
    <3> QED BY <1>3, <2>0, <3>1
  <2>4. AtHigh(R, hi, L, d, j, b)
    BY <1>7, <2>2, <2>3 DEF AtHigh
  <2>5. c.tp < d.tp
    <3>1. L.high[k] < L.highEnd[k]
      <4>1. /\ L.high[k] \in Nat /\ L.highEnd[k] \in Nat /\ L.highStart[k] \in Nat
            /\ L.high[k] + 2 <= L.highStart[k] /\ L.highStart[k] < L.highEnd[k]
        BY <1>1, HighOrder
      <4> QED BY <4>1
    <3> QED BY <1>1, <1>7, <3>1
  <2>6. NotBefore(Rest(R, L, d.tp), gid) = NotBefore(Rest(R, L, c.tp), gid)
    <3>1. Rest(R, L, L.high[k]) = {g \in GroupsOf(R) : k <= HighBase(g)}
      BY ONLY LaidTerm(R, m, lo, hi, L), <1>1, HighRest
    <3>2. Rest(R, L, L.highEnd[k]) = {g \in GroupsOf(R) : k < HighBase(g)}
      BY ONLY LaidTerm(R, m, lo, hi, L), <1>1, HighRest
    <3>3. ASSUME NEW g \in GroupsOf(R), gid <= g PROVE k < HighBase(g) /\ k <= HighBase(g)
      <4>1. g \in Nat /\ g < IdLimit
        BY GroupFacts DEF LaidTerm, Storable, Encodable
      <4>2. HighBase(gid) <= HighBase(g)
        BY <1>2, <3>3, <4>1, LevelOrder
      <4>3. HighBase(g) \in Nat
        BY <4>1, LevelFacts
      <4> QED BY <1>2, <1>3, <2>0, <4>2, <4>3
    <3> QED BY <1>1, <1>7, <3>1, <3>2, <3>3 DEF NotBefore
  <2> QED BY <1>7, <2>1, <2>4, <2>5, <2>6 DEF d
<1> QED BY <1>10, <1>11

\* The scan over high level groups opens the first group that is not before
\* gid.
LEMMA ScanHighLands ==
    ASSUME NEW R, NEW m, NEW lo, NEW hi, NEW L, LaidTerm(R, m, lo, hi, L), Quiet(m, hi),
           NEW gid, NEW b, InnerGroup(R, gid, b),
           NEW c0, NEW k0, AtHigh(R, hi, L, c0, k0, b)
    PROVE  Lands(R, hi, L, NotBefore(Rest(R, L, c0.tp), gid), c0, ScanHigh(m, c0, gid))
<1> DEFINE D  == {c \in Cursor : \E k : AtHigh(R, hi, L, c, k, b)}
           P  == {c \in D : Lands(R, hi, L, NotBefore(Rest(R, L, c.tp), gid), c, ScanHigh(m, c, gid))}
           mu == [c \in D |-> hi - c.tp]
<1>1. ASSUME NEW c \in D PROVE c.tp \in Nat /\ c.tp <= hi
  <2>1. PICK k : AtHigh(R, hi, L, c, k, b)
    OBVIOUS
  <2>2. /\ k \in HighsOf(R) /\ c.tp = L.high[k]
    BY <2>1 DEF AtHigh
  <2>3. /\ L.high[k] \in Nat /\ L.highEnd[k] \in Nat /\ L.highStart[k] \in Nat
        /\ L.high[k] + 2 <= L.highStart[k] /\ L.highStart[k] < L.highEnd[k]
        /\ L.highEnd[k] <= hi
    BY <2>2, HighOrder
  <2> QED BY <2>2, <2>3 DEF LaidTerm
<1>2. hi \in Nat
  BY DEF LaidTerm
<1>3. mu \in [D -> Nat]
  BY <1>1, <1>2
<1>4. ASSUME NEW c \in D, \A d \in D : mu[d] < mu[c] => d \in P
      PROVE  c \in P
  <2>1. c \in Cursor /\ \E k : AtHigh(R, hi, L, c, k, b)
    OBVIOUS
  <2>2. PICK k : AtHigh(R, hi, L, c, k, b)
    BY <2>1
  <2> DEFINE d == EnterHigh(m, c)
  <2>3. CASE /\ ScanHigh(m, c, gid) = ScanHigh(m, d, gid)
             /\ \E j : AtHigh(R, hi, L, d, j, b)
             /\ c.tp < d.tp /\ Keeps(c, d)
             /\ NotBefore(Rest(R, L, d.tp), gid) = NotBefore(Rest(R, L, c.tp), gid)
    <3> HIDE DEF d
    <3>1. d \in Cursor
      BY <2>3 DEF AtHigh
    <3>2. d \in D
      BY <2>3, <3>1
    <3>3. mu[d] < mu[c]
      <4>1. mu[d] = hi - d.tp /\ mu[c] = hi - c.tp
        BY <3>2
      <4>2. d.tp \in Nat /\ c.tp \in Nat
        BY <1>1, <3>2
      <4> QED BY <1>2, <2>3, <4>1, <4>2
    <3>4. Lands(R, hi, L, NotBefore(Rest(R, L, d.tp), gid), d, ScanHigh(m, d, gid))
      BY <1>4, <3>2, <3>3
    <3>5. Lands(R, hi, L, NotBefore(Rest(R, L, c.tp), gid), c, ScanHigh(m, c, gid))
      BY <2>1, <2>3, <3>1, <3>4, LandsFrom
    <3> HIDE DEF D, mu
    <3> QED BY <3>5
  <2>4. CASE Lands(R, hi, L, NotBefore(Rest(R, L, c.tp), gid), c, ScanHigh(m, c, gid))
    <3> HIDE DEF D, mu
    <3> QED BY <2>4
  <2>5. \/ Lands(R, hi, L, NotBefore(Rest(R, L, c.tp), gid), c, ScanHigh(m, c, gid))
        \/ /\ ScanHigh(m, c, gid) = ScanHigh(m, d, gid)
           /\ \E j : AtHigh(R, hi, L, d, j, b)
           /\ c.tp < d.tp /\ Keeps(c, d)
           /\ NotBefore(Rest(R, L, d.tp), gid) = NotBefore(Rest(R, L, c.tp), gid)
    BY <2>2, PassHigh
  <2> HIDE DEF D, P, mu, d
  <2> QED BY <2>3, <2>4, <2>5
<1>5. P = D
  <2>1. P \in SUBSET D
    OBVIOUS
  <2> HIDE DEF D, P, mu
  <2> QED BY <1>3, <1>4, <2>1, DescentInduction DEF Inductive
<1>6. c0 \in D
  BY DEF AtHigh
<1> HIDE DEF D
<1> QED BY <1>5, <1>6

-----------------------------------------------------------------------------
(***************************************************************************)
(* A cursor on a posting.                                                  *)
(***************************************************************************)
\* c is in the small group g.
InSmall(R, hi, L, c, g) == /\ g \in GroupsOf(R) /\ c \in Cursor
                           /\ c.gid = g /\ c.ep = L.smallEnd[g]
                           /\ c.tp = L.highEnd[HighBase(g)] /\ c.etp = hi + 8

\* c has read the records recs: their value, when they have one, and where
\* their positions are.
HasRead(recs, m, c) ==
    /\ OnlyValue(recs) \/ ValueFirst(recs) => c.value = recs[1].value
    /\ Decoded(m, c) = PositionsOf(recs)

\* c is on the posting of x.
On(R, m, hi, L, c, x) ==
    /\ x \in IdsOf(R) /\ InSmall(R, hi, L, c, GroupOf(x))
    /\ c.id = x /\ c.p = L.end[x]
    /\ L.at[x] + 2 <= c.wp /\ c.wp <= c.p
    /\ HasRead(RecordsOf(R, x), m, c)

\* What the calls that move a cursor leave alone.
Same(c, d) == /\ d.fresh = c.fresh /\ d.positions = c.positions
              /\ d.max_term_size = c.max_term_size /\ d.etp = c.etp

\* advance_id in front of a posting moves onto it.
LEMMA StepsOnto ==
    ASSUME NEW R, NEW m, NEW lo, NEW hi, NEW L, LaidTerm(R, m, lo, hi, L),
           NEW c, NEW g, InSmall(R, hi, L, c, g),
           NEW x \in SmallIds(R, g), c.p = L.at[x]
    PROVE  /\ On(R, m, hi, L, AdvanceId(m, c), x) /\ Same(c, AdvanceId(m, c))
           /\ \/ OnlyValue(RecordsOf(R, x)) \/ ValueFirst(RecordsOf(R, x))
              \/ AdvanceId(m, c).value = c.value
<1> DEFINE recs == RecordsOf(R, x)
           sid  == x % SmallSpan
           d    == AdvanceId(m, c)
           end  == c.p + Len(Posting(sid, recs))
<1>1. c \in Cursor /\ c.gid = g /\ g \in GroupsOf(R)
  BY DEF InSmall
<1>2. x \in IdsOf(R) /\ GroupOf(x) = g
  BY DEF SmallIds
<1>3. NarrowPosting(recs) /\ x \in Nat /\ x < IdLimit
  BY <1>2 DEF LaidTerm, Storable, Encodable, IdsInRange
<1>4. sid \in 0..1023 /\ x = g + sid
  BY <1>2, <1>3, LevelFacts
<1>5. /\ L.at[x] \in Nat /\ L.end[x] \in Nat
      /\ L.end[x] = L.at[x] + Len(Posting(sid, recs))
      /\ StoredAt(m, L.at[x], Posting(sid, recs))
  <2>1. Storable(R) /\ lo \in Nat /\ hi \in Nat /\ Layout(R, m, lo, hi, L)
    BY DEF LaidTerm
  <2>2. /\ L.at[x] \in Nat /\ L.end[x] \in Nat /\ L.at[x] < L.end[x]
        /\ lo <= L.at[x] /\ L.end[x] <= hi
        /\ L.end[x] = L.at[x] + Len(Posting(x % SmallSpan, RecordsOf(R, x)))
        /\ StoredAt(m, L.at[x], Posting(x % SmallSpan, RecordsOf(R, x)))
    BY ONLY <1>2, <2>1, PostingPlace, Zenon
  <2> QED BY <2>2
<1> HIDE DEF recs, sid
<1>6. Advanced(c, d, sid, end) /\ Decoding(recs, m, c, d, end)
  <2>1. StoredAt(m, c.p, Posting(sid, recs))
    BY <1>5
  <2> QED BY <1>1, <1>3, <1>4, <2>1, PostingReadBack
<1>7. end = L.end[x]
  BY <1>5
<1>8. d \in Cursor
  BY <1>1, AdvanceIdType DEF LaidTerm
<1> HIDE DEF d, end
<1>9. /\ d.id = x /\ d.p = L.end[x] /\ d.gid = g /\ d.ep = c.ep /\ d.tp = c.tp /\ d.etp = c.etp
      /\ Same(c, d)
  <2>1. sid + c.gid = x
    <3>1. g \in Nat /\ sid \in Nat
      BY <1>1, <1>4 DEF Cursor
    <3> QED BY <1>1, <1>4, <3>1
  <2>2. d = [c EXCEPT !.id = sid + c.gid, !.value = d.value, !.first_base = d.first_base,
                  !.wp = d.wp, !.p = end]
    BY <1>6 DEF Advanced
  <2>3. d.id = sid + c.gid /\ d.p = end /\ d.gid = c.gid /\ d.ep = c.ep /\ d.tp = c.tp
        /\ d.etp = c.etp /\ Same(c, d)
    BY <1>1, <2>2 DEF Cursor, Same
  <2> QED BY <1>1, <1>7, <2>1, <2>3
<1>10. InSmall(R, hi, L, d, g)
  BY <1>8, <1>9 DEF InSmall
<1>11. d.first_base \in Nat /\ d.wp \in Nat /\ L.at[x] + 2 <= d.wp /\ d.wp <= d.p
  BY <1>6, <1>7, <1>9 DEF Decoding
<1>12. OnlyValue(recs) \/ ValueFirst(recs) => d.value = recs[1].value
  BY <1>6 DEF Decoding
<1>13. Decoded(m, d) = PositionsOf(recs)
  <2>1. m \in Seq(Nat) /\ d.p \in Nat
    BY <1>5, <1>9 DEF LaidTerm
  <2>2. CASE OnlyValue(recs)
    <3>1. d.wp = d.p
      BY <1>6, <1>7, <1>9, <2>2 DEF Decoding
    <3>2. Decoded(m, d) \in Seq(Nat) /\ Len(Decoded(m, d)) <= d.p - d.wp
      BY <1>11, <2>1, DecodedFits
    <3>3. Decoded(m, d) = <<>>
      <4> DEFINE s == Decoded(m, d)
      <4>1. s \in Seq(Nat) /\ Len(s) <= 0
        BY <2>1, <3>1, <3>2
      <4> HIDE DEF s
      <4>2. Len(s) = 0
        BY <4>1
      <4> QED BY <4>1, <4>2 DEF s
    <3> QED BY <2>2, <3>3 DEF PositionsOf
  <2>3. CASE ~OnlyValue(recs)
    <3> DEFINE ps == PositionsOf(recs)
    <3>1. Narrow(ps)
      BY <1>3, <2>3 DEF NarrowPosting
    <3>2. /\ d.first_base = FirstBase(ps[1])
          /\ d.wp + Len(EncodeTermPositions(ps)) = end
          /\ StoredAt(m, d.wp, EncodeTermPositions(ps))
      BY <1>6, <2>3 DEF Decoding
    <3> HIDE DEF ps
    <3>3. d.p = d.wp + Len(EncodeTermPositions(ps))
      BY <1>7, <1>9, <3>2
    <3>4. Decoded(m, d) = ps
      BY <1>11, <2>1, <3>1, <3>2, <3>3, DecodedExact
    <3> QED BY <3>4 DEF ps
  <2> QED BY <2>2, <2>3
<1>14. OnlyValue(recs) \/ ValueFirst(recs) \/ d.value = c.value
  BY <1>6 DEF Decoding
<1> QED BY <1>2, <1>9, <1>10, <1>11, <1>12, <1>13, <1>14 DEF On, HasRead, recs, d

\* The postings of a small group follow each other.
LEMMA PostingOrder ==
    ASSUME NEW R, NEW m, NEW lo, NEW hi, NEW L, LaidTerm(R, m, lo, hi, L),
           NEW g \in GroupsOf(R)
    PROVE  /\ \A x \in SmallIds(R, g) :
                 /\ x \in Nat /\ L.at[x] \in Nat /\ L.end[x] \in Nat /\ L.at[x] < L.end[x]
                 /\ L.end[x] <= L.smallEnd[g]
                 /\ \/ L.end[x] = L.smallEnd[g] /\ \A z \in SmallIds(R, g) : z <= x
                    \/ /\ L.end[x] < L.smallEnd[g]
                       /\ \E y \in SmallIds(R, g) :
                             /\ L.at[y] = L.end[x] /\ x < y
                             /\ \A z \in SmallIds(R, g) : z <= x \/ y <= z
           /\ \E x \in SmallIds(R, g) : /\ L.at[x] = L.smallStart[g]
                                        /\ \A z \in SmallIds(R, g) : x <= z
<1> DEFINE S  == SmallIds(R, g)
           at == L.at
           end == L.end
           s  == L.smallStart[g]
           e  == L.smallEnd[g]
<1>1. Tiled(S, at, end, s, e)
  BY DEF LaidTerm, Layout, LaidOut
<1>2. S \in SUBSET Nat /\ s \in Nat /\ e \in Nat
  <2>1. S \in SUBSET Nat
    BY GroupFacts DEF LaidTerm, Storable, Encodable, IdsInRange
  <2> QED BY <2>1, SmallOrder
<1> HIDE DEF S, at, end, s, e
<1>3. Ordered(S, at, end, s, e)
  BY <1>1, <1>2, TileOrder
<1>4. \A x \in S : x \in Nat /\ at[x] \in Nat /\ end[x] \in Nat /\ at[x] < end[x] /\ end[x] <= e
  BY <1>1, <1>2 DEF Tiled
<1>5. ASSUME NEW x \in S
      PROVE  \/ end[x] = e /\ \A z \in S : z <= x
             \/ /\ end[x] < e
                /\ \E y \in S : /\ at[y] = end[x] /\ x < y /\ \A z \in S : z <= x \/ y <= z
  <2>1. CASE end[x] = e
    BY <1>3, <2>1 DEF Ordered
  <2>2. CASE end[x] # e
    <3>1. end[x] < e
      BY <1>2, <1>4, <2>2
    <3>2. PICK y \in S : at[y] = end[x]
      BY <1>3, <2>2 DEF Ordered
    <3>3. x < y /\ \A z \in S : z <= x \/ y <= z
      BY <1>3, <3>2 DEF Ordered
    <3> QED BY <3>1, <3>2, <3>3
  <2> QED BY <2>1, <2>2
<1>6. \E x \in S : at[x] = s /\ \A z \in S : x <= z
  <2>1. PICK x \in S : at[x] = s
    BY <1>1 DEF Tiled
  <2> QED BY <1>3, <2>1 DEF Ordered
<1> QED BY <1>4, <1>5, <1>6 DEF S, at, end, s, e

\* From the posting of x, d is on the first one of the group that is not
\* before id, or on the last one.
GroupFound(R, m, hi, L, c, x, id, d) ==
    \E y \in SmallIds(R, GroupOf(x)) :
       /\ On(R, m, hi, L, d, y) /\ x <= y /\ Same(c, d)
       /\ y = x => d = c
       /\ \A z \in SmallIds(R, GroupOf(x)) : x <= z /\ z < y => z < id
       /\ id <= y \/ \A z \in SmallIds(R, GroupOf(x)) : z <= y

\* One call of the scan over the postings of a group.
LEMMA PassId ==
    ASSUME NEW R, NEW m, NEW lo, NEW hi, NEW L, LaidTerm(R, m, lo, hi, L),
           NEW c, NEW x, On(R, m, hi, L, c, x), NEW id \in Nat
    PROVE  \/ GroupFound(R, m, hi, L, c, x, id, ScanIds(m, c, id))
           \/ LET d == AdvanceId(m, c)
              IN  /\ ScanIds(m, c, id) = ScanIds(m, d, id)
                  /\ Same(c, d) /\ d \in Cursor /\ d.p > c.p
                  /\ \E y \in SmallIds(R, GroupOf(x)) :
                        /\ On(R, m, hi, L, d, y) /\ x < y /\ x < id
                        /\ \A z \in SmallIds(R, GroupOf(x)) : z <= x \/ y <= z
<1> DEFINE g == GroupOf(x)
           d == AdvanceId(m, c)
<1>1. /\ c \in Cursor /\ c.id = x /\ c.p = L.end[x] /\ c.ep = L.smallEnd[g]
      /\ InSmall(R, hi, L, c, g) /\ g \in GroupsOf(R) /\ x \in SmallIds(R, g)
  BY DEF On, InSmall, SmallIds
<1>2. ScanIds(m, c, id) = IF id > c.id /\ c.p < c.ep THEN ScanIds(m, d, id) ELSE c
  BY <1>1, ScanIdsCalls DEF LaidTerm
<1> HIDE DEF g, d
<1>3. /\ \A z \in SmallIds(R, g) : z \in Nat
      /\ L.end[x] \in Nat /\ L.end[x] <= L.smallEnd[g]
      /\ \/ L.end[x] = L.smallEnd[g] /\ \A z \in SmallIds(R, g) : z <= x
         \/ /\ L.end[x] < L.smallEnd[g]
            /\ \E y \in SmallIds(R, g) :
                  /\ L.at[y] = L.end[x] /\ x < y
                  /\ \A z \in SmallIds(R, g) : z <= x \/ y <= z
  BY <1>1, PostingOrder
<1>4. x \in Nat /\ L.smallEnd[g] \in Nat
  BY <1>1, <1>3, SmallOrder
<1>5. CASE id > c.id /\ c.p < c.ep
  <2>1. PICK y \in SmallIds(R, g) : /\ L.at[y] = L.end[x] /\ x < y
                                    /\ \A z \in SmallIds(R, g) : z <= x \/ y <= z
    BY <1>1, <1>3, <1>4, <1>5
  <2>2. On(R, m, hi, L, d, y) /\ Same(c, d)
    BY <1>1, <2>1, StepsOnto DEF d
  <2>3. d \in Cursor /\ d.p > c.p
    <3>1. d \in Cursor /\ c.p < d.p /\ c.p \in Nat /\ d.p \in Nat
      BY <1>1, AdvanceIdType DEF LaidTerm, d, Cursor
    <3> QED BY <3>1
  <2>4. x < id
    BY <1>1, <1>4, <1>5
  <2> QED BY <1>2, <1>5, <2>1, <2>2, <2>3, <2>4 DEF d, g
<1>6. CASE ~(id > c.id /\ c.p < c.ep)
  <2>1. ScanIds(m, c, id) = c
    BY <1>2, <1>6
  <2>2. Same(c, c)
    BY DEF Same
  <2>3. id <= x \/ \A z \in SmallIds(R, g) : z <= x
    BY <1>1, <1>3, <1>4, <1>6
  <2>4. \A z \in SmallIds(R, g) : x <= z /\ z < x => z < id
    BY <1>3, <1>4
  <2>5. x <= x
    BY <1>4
  <2>6. GroupFound(R, m, hi, L, c, x, id, c)
    BY <1>1, <2>2, <2>3, <2>4, <2>5 DEF GroupFound, g
  <2> QED BY <2>1, <2>6
<1> QED BY <1>5, <1>6

\* The scan of advance_to stops at the first posting of the group that is not
\* before id, or at the last posting.
LEMMA ScanIdsLands ==
    ASSUME NEW R, NEW m, NEW lo, NEW hi, NEW L, LaidTerm(R, m, lo, hi, L),
           NEW id \in Nat,
           NEW c0, NEW x0, On(R, m, hi, L, c0, x0)
    PROVE  GroupFound(R, m, hi, L, c0, x0, id, ScanIds(m, c0, id))
<1> DEFINE g  == GroupOf(x0)
           D  == {c \in Cursor : \E x \in SmallIds(R, g) : On(R, m, hi, L, c, x)}
           P  == {c \in D : GroupFound(R, m, hi, L, c, c.id, id, ScanIds(m, c, id))}
           mu == [c \in D |-> L.smallEnd[g] - c.p]
<1>1. g \in GroupsOf(R) /\ x0 \in SmallIds(R, g) /\ c0 \in Cursor /\ c0.id = x0
  BY DEF On, InSmall, SmallIds
<1>2. \A x \in SmallIds(R, g) : GroupOf(x) = g /\ x \in Nat
  BY <1>1, PostingOrder DEF SmallIds
<1> HIDE DEF g
<1>3. ASSUME NEW c \in D
      PROVE  /\ c \in Cursor /\ c.id \in SmallIds(R, g) /\ On(R, m, hi, L, c, c.id)
             /\ c.p \in Nat /\ c.p <= L.smallEnd[g]
  <2>1. PICK x \in SmallIds(R, g) : On(R, m, hi, L, c, x)
    OBVIOUS
  <2>2. c.id = x /\ c.p = L.end[x]
    BY <2>1 DEF On
  <2> QED BY <1>1, <2>1, <2>2, PostingOrder
<1>4. L.smallEnd[g] \in Nat
  BY <1>1, SmallOrder
<1>5. mu \in [D -> Nat]
  BY <1>3, <1>4
<1>6. ASSUME NEW c \in D, \A d \in D : mu[d] < mu[c] => d \in P
      PROVE  c \in P
  <2> DEFINE d == AdvanceId(m, c)
             x == c.id
  <2>1. c \in Cursor /\ x \in SmallIds(R, g) /\ On(R, m, hi, L, c, x) /\ GroupOf(x) = g /\ x \in Nat
    BY <1>2, <1>3
  <2>2. CASE GroupFound(R, m, hi, L, c, x, id, ScanIds(m, c, id))
    <3> HIDE DEF D, mu
    <3> QED BY <2>2
  <2>3. CASE /\ ScanIds(m, c, id) = ScanIds(m, d, id)
             /\ Same(c, d) /\ d \in Cursor /\ d.p > c.p
             /\ \E y \in SmallIds(R, g) :
                   /\ On(R, m, hi, L, d, y) /\ x < y /\ x < id
                   /\ \A z \in SmallIds(R, g) : z <= x \/ y <= z
    <3> HIDE DEF d, x
    <3>1. PICK y \in SmallIds(R, g) : /\ On(R, m, hi, L, d, y) /\ x < y /\ x < id
                                      /\ \A z \in SmallIds(R, g) : z <= x \/ y <= z
      BY <2>3
    <3>2. d \in D
      BY <2>3, <3>1
    <3>3. mu[d] < mu[c]
      <4>1. mu[d] = L.smallEnd[g] - d.p /\ mu[c] = L.smallEnd[g] - c.p
        BY <3>2
      <4>2. d.p \in Nat /\ c.p \in Nat
        BY <1>3, <3>2
      <4> QED BY <1>4, <2>3, <4>1, <4>2
    <3>4. d.id = y
      BY <3>1 DEF On
    <3>5. GroupFound(R, m, hi, L, d, y, id, ScanIds(m, d, id))
      BY <1>6, <3>2, <3>3, <3>4
    <3>6. GroupOf(y) = g /\ y \in Nat
      BY <1>2
    <3> DEFINE e == ScanIds(m, d, id)
    <3>7. PICK w \in SmallIds(R, g) :
             /\ On(R, m, hi, L, e, w) /\ y <= w /\ Same(d, e)
             /\ \A z \in SmallIds(R, g) : y <= z /\ z < w => z < id
             /\ id <= w \/ \A z \in SmallIds(R, g) : z <= w
      BY <3>5, <3>6 DEF GroupFound
    <3> HIDE DEF e
    <3>8. w \in Nat /\ \A z \in SmallIds(R, g) : z \in Nat
      BY <1>2
    <3>9. x <= w /\ w # x
      BY <2>1, <3>1, <3>6, <3>7, <3>8
    <3>10. \A z \in SmallIds(R, g) : x <= z /\ z < w => z < id
      BY <2>1, <3>1, <3>6, <3>7, <3>8
    <3>11. Same(c, e)
      BY <2>3, <3>7 DEF Same
    <3>12. GroupFound(R, m, hi, L, c, x, id, e)
      BY <2>1, <3>7, <3>9, <3>10, <3>11 DEF GroupFound
    <3> HIDE DEF D, mu
    <3> QED BY <2>3, <3>12 DEF e, x
  <2>4. \/ GroupFound(R, m, hi, L, c, x, id, ScanIds(m, c, id))
        \/ /\ ScanIds(m, c, id) = ScanIds(m, d, id)
           /\ Same(c, d) /\ d \in Cursor /\ d.p > c.p
           /\ \E y \in SmallIds(R, GroupOf(x)) :
                 /\ On(R, m, hi, L, d, y) /\ x < y /\ x < id
                 /\ \A z \in SmallIds(R, GroupOf(x)) : z <= x \/ y <= z
    BY <2>1, PassId
  <2> HIDE DEF D, P, mu, d, x
  <2> QED BY <2>1, <2>2, <2>3, <2>4
<1>7. P = D
  <2>1. P \in SUBSET D
    OBVIOUS
  <2> HIDE DEF D, P, mu
  <2> QED BY <1>5, <1>6, <2>1, DescentInduction DEF Inductive
<1>8. c0 \in D
  BY <1>1
<1> HIDE DEF D
<1> QED BY <1>1, <1>7, <1>8

-----------------------------------------------------------------------------
\* From the posting of x, r is on the first posting of A, or says that there
\* is none.
Arrives(R, m, hi, L, c, x, A, r) ==
    /\ r \in Results /\ Same(c, r.t)
    /\ \/ /\ r.ok
          /\ \E y \in A : /\ On(R, m, hi, L, r.t, y) /\ \A z \in A : y <= z
                          /\ y = x => r.t.value = c.value
       \/ ~r.ok /\ A = {} /\ r.t.id \in IdsOf(R) /\ x <= r.t.id
IdsBehind(R, x)    == {z \in IdsOf(R) : x < z}
IdsFrom(R, x, id)  == {z \in IdsOf(R) : x <= z /\ id <= z}

\* The ids of a term, and the groups they are in.
LEMMA IdFacts ==
    ASSUME NEW R, NEW m, NEW lo, NEW hi, NEW L, LaidTerm(R, m, lo, hi, L)
    PROVE  \A x \in IdsOf(R) :
              /\ x \in Nat /\ x < IdLimit /\ GroupOf(x) \in GroupsOf(R) /\ GroupOf(x) \in Nat
              /\ x \in SmallIds(R, GroupOf(x))
<1> TAKE x \in IdsOf(R)
<1>1. x \in Nat /\ x < IdLimit
  BY DEF LaidTerm, Storable, Encodable, IdsInRange
<1>2. GroupOf(x) \in GroupsOf(R) /\ x \in SmallIds(R, GroupOf(x))
  BY DEF GroupsOf, SmallIds
<1> QED BY <1>1, <1>2, LevelFacts

\* What is behind the small group g.
LEMMA GroupsBehind ==
    ASSUME NEW R, NEW m, NEW lo, NEW hi, NEW L, LaidTerm(R, m, lo, hi, L),
           NEW g \in GroupsOf(R)
    PROVE  Rest(R, L, L.smallEnd[g]) = {k \in GroupsOf(R) : g < k}
<1>1. ASSUME NEW k \in GroupsOf(R) PROVE L.smallEnd[g] <= L.small[k] <=> g < k
  <2>1. /\ g \in Nat /\ k \in Nat
    BY GroupFacts DEF LaidTerm, Storable, Encodable
  <2>2. /\ L.small[k] \in Nat /\ L.smallEnd[g] \in Nat /\ L.smallStart[g] \in Nat /\ L.small[g] \in Nat
        /\ L.small[g] + 2 <= L.smallStart[g] /\ L.smallStart[g] < L.smallEnd[g]
        /\ L.smallEnd[k] \in Nat /\ L.smallStart[k] \in Nat
        /\ L.small[k] + 2 <= L.smallStart[k] /\ L.smallStart[k] < L.smallEnd[k]
    BY SmallOrder
  <2>3. (k < g => L.smallEnd[k] <= L.small[g]) /\ (g < k => L.smallEnd[g] <= L.small[k])
    BY SmallOrder
  <2>4. CASE k = g
    BY <2>1, <2>2, <2>4
  <2>5. CASE k < g
    BY <2>1, <2>2, <2>3, <2>5
  <2>6. CASE g < k
    BY <2>3, <2>6
  <2> QED BY <2>1, <2>4, <2>5, <2>6
<1> QED BY <1>1 DEF Rest

\* Behind a small group there is a header, or the end of the high level group.
LEMMA BehindGroup ==
    ASSUME NEW R, NEW m, NEW lo, NEW hi, NEW L, LaidTerm(R, m, lo, hi, L),
           NEW c, NEW g, InSmall(R, hi, L, c, g)
    PROVE  InHigh(R, hi, L, c, HighBase(g)) /\ AtHeader(R, L, c, HighBase(g))
<1>1. /\ g \in GroupsOf(R) /\ c \in Cursor /\ c.gid = g /\ c.ep = L.smallEnd[g]
      /\ c.tp = L.highEnd[HighBase(g)] /\ c.etp = hi + 8
  BY DEF InSmall
<1>2. HighBase(g) \in HighsOf(R)
  BY <1>1, GroupFacts DEF LaidTerm, Storable, Encodable
<1>3. InHigh(R, hi, L, c, HighBase(g))
  BY <1>1, <1>2 DEF InHigh
<1>4. AtHeader(R, L, c, HighBase(g))
  BY <1>1, SmallOrder DEF AtHeader
<1> QED BY <1>3, <1>4

\* The first posting of a group that was opened.
LEMMA FirstOfGroup ==
    ASSUME NEW R, NEW m, NEW lo, NEW hi, NEW L, LaidTerm(R, m, lo, hi, L),
           NEW d, NEW g, Entered(R, hi, L, d, g)
    PROVE  /\ AdvanceId(m, d) \in Cursor /\ Same(d, AdvanceId(m, d))
           /\ \E y \in SmallIds(R, g) :
                 /\ On(R, m, hi, L, AdvanceId(m, d), y) /\ \A z \in SmallIds(R, g) : y <= z
                 /\ \/ OnlyValue(RecordsOf(R, y)) \/ ValueFirst(RecordsOf(R, y))
                    \/ AdvanceId(m, d).value = d.value
<1>1. g \in GroupsOf(R) /\ d \in Cursor /\ d.p = L.smallStart[g] /\ InSmall(R, hi, L, d, g)
  BY DEF Entered, InSmall
<1>2. PICK y \in SmallIds(R, g) : L.at[y] = L.smallStart[g] /\ \A z \in SmallIds(R, g) : y <= z
  BY <1>1, PostingOrder
<1>3. d.p = L.at[y]
  BY <1>1, <1>2
<1>4. /\ On(R, m, hi, L, AdvanceId(m, d), y) /\ Same(d, AdvanceId(m, d))
      /\ \/ OnlyValue(RecordsOf(R, y)) \/ ValueFirst(RecordsOf(R, y))
         \/ AdvanceId(m, d).value = d.value
  BY <1>1, <1>3, StepsOnto
<1>5. AdvanceId(m, d) \in Cursor
  BY <1>4 DEF On, InSmall
<1> QED BY <1>2, <1>4, <1>5

\* Opening groups leaves the fields clients see.
LEMMA KeepsSame ==
    ASSUME NEW c \in Cursor, NEW d, Keeps(c, d)
    PROVE  Same(c, d) /\ d.id = c.id /\ d.value = c.value
BY DEF Keeps, Same, Cursor

\* The first posting of the first group behind x is the first posting behind x.
LEMMA FirstBehind ==
    ASSUME NEW R, NEW m, NEW lo, NEW hi, NEW L, LaidTerm(R, m, lo, hi, L),
           NEW g \in GroupsOf(R), NEW gid \in Nat, gid <= g,
           \A k \in GroupsOf(R) : gid <= k => g <= k,
           NEW y \in SmallIds(R, g), \A z \in SmallIds(R, g) : y <= z,
           NEW z \in IdsOf(R), gid <= GroupOf(z)
    PROVE  y <= z
<1>1. /\ z \in Nat /\ z < IdLimit /\ GroupOf(z) \in GroupsOf(R) /\ GroupOf(z) \in Nat
      /\ z \in SmallIds(R, GroupOf(z))
  BY IdFacts
<1>2. y \in IdsOf(R) /\ GroupOf(y) = g
  BY DEF SmallIds
<1>3. y \in Nat /\ y < IdLimit /\ g \in Nat
  BY <1>2, IdFacts
<1>4. g <= GroupOf(z)
  BY <1>1
<1>5. CASE g = GroupOf(z)
  BY <1>1, <1>5
<1>6. CASE g # GroupOf(z)
  <2>1. g < GroupOf(z)
    BY <1>1, <1>3, <1>4, <1>6
  <2>2. y < z
    BY <1>1, <1>2, <1>3, <2>1, LevelOrder
  <2> QED BY <1>1, <1>3, <2>2
<1> QED BY <1>5, <1>6

\* What two calls leave alone.
LEMMA SameOn ==
    ASSUME NEW c, NEW d, NEW e, Same(c, d), Same(d, e)
    PROVE  Same(c, e)
BY DEF Same

\* From the last posting of a group advance goes to the next group.
LEMMA NextGroupArrives ==
    ASSUME NEW R, NEW m, NEW lo, NEW hi, NEW L, LaidTerm(R, m, lo, hi, L), Quiet(m, hi),
           NEW c, NEW x, On(R, m, hi, L, c, x),
           \A z \in SmallIds(R, GroupOf(x)) : z <= x
    PROVE  Arrives(R, m, hi, L, c, x, IdsBehind(R, x), NextGroup(m, c))
<1> DEFINE g == GroupOf(x)
           r == AdvanceGroup(m, c)
           B == {k \in GroupsOf(R) : g < k}
<1>1. /\ x \in IdsOf(R) /\ InSmall(R, hi, L, c, g) /\ c.id = x /\ c \in Cursor
      /\ g \in GroupsOf(R) /\ c.ep = L.smallEnd[g]
  BY DEF On, InSmall
<1>2. Lands(R, hi, L, B, c, r)
  <2>1. InHigh(R, hi, L, c, HighBase(g)) /\ AtHeader(R, L, c, HighBase(g))
    BY <1>1, BehindGroup
  <2>2. Lands(R, hi, L, Rest(R, L, c.ep), c, r)
    BY <2>1, AdvanceGroupLands
  <2>3. Rest(R, L, c.ep) = B
    BY <1>1, GroupsBehind
  <2> QED BY <2>2, <2>3
<1> HIDE DEF r
<1>3. r \in Results /\ Keeps(c, r.t) /\ r.t \in Cursor
  BY <1>2 DEF Lands, Results
<1>4. Same(c, r.t) /\ r.t.id = x
  BY <1>1, <1>3, KeepsSame
<1>5. x \in Nat /\ x < IdLimit /\ g \in Nat
  BY <1>1, IdFacts
<1>6. ASSUME NEW z \in IdsOf(R), x < z
      PROVE  /\ z \in Nat /\ z < IdLimit /\ GroupOf(z) \in B /\ GroupOf(z) \in Nat
  <2>1. /\ z \in Nat /\ z < IdLimit /\ GroupOf(z) \in GroupsOf(R) /\ GroupOf(z) \in Nat
        /\ z \in SmallIds(R, GroupOf(z))
    BY IdFacts
  <2>2. g <= GroupOf(z)
    BY <1>5, <1>6, <2>1, LevelOrder
  <2>3. GroupOf(z) # g
    BY <1>5, <1>6, <2>1
  <2>4. g < GroupOf(z)
    BY <1>5, <2>1, <2>2, <2>3
  <2> QED BY <2>1, <2>4
<1>7. NextGroup(m, c) = IF r.ok THEN Yes(AdvanceId(m, r.t)) ELSE No(r.t)
  BY DEF NextGroup, r
<1>8. CASE r.ok
  <2>1. PICK k \in B : (\A j \in B : k <= j) /\ Entered(R, hi, L, r.t, k)
    BY <1>2, <1>8 DEF Lands
  <2> DEFINE d == AdvanceId(m, r.t)
  <2>2. /\ d \in Cursor /\ Same(r.t, d)
        /\ \E y \in SmallIds(R, k) : /\ On(R, m, hi, L, d, y)
                                     /\ \A z \in SmallIds(R, k) : y <= z
    BY <2>1, FirstOfGroup
  <2> HIDE DEF d
  <2>3. PICK y \in SmallIds(R, k) : /\ On(R, m, hi, L, d, y)
                                    /\ \A z \in SmallIds(R, k) : y <= z
    BY <2>2
  <2>4. y \in IdsOf(R) /\ GroupOf(y) = k /\ k \in GroupsOf(R) /\ g < k
    BY DEF SmallIds
  <2>5. y \in Nat /\ y < IdLimit /\ x < y
    <3>1. y \in Nat /\ y < IdLimit
      BY <2>4, IdFacts
    <3> QED BY <1>5, <2>4, <3>1, LevelOrder
  <2>6. ASSUME NEW z \in IdsBehind(R, x) PROVE y <= z
    <3>1. z \in IdsOf(R) /\ x < z
      BY DEF IdsBehind
    <3>2. GroupOf(z) \in B
      BY <1>6, <3>1
    <3>3. k <= GroupOf(z)
      BY <2>1, <3>2
    <3>4. k \in Nat /\ k <= k
      <4>1. k \in Nat
        BY <2>4, IdFacts
      <4> QED BY <4>1
    <3>5. \A j \in GroupsOf(R) : k <= j => k <= j
      OBVIOUS
    <3> HIDE DEF B
    <3> QED BY <2>3, <2>4, <3>1, <3>3, <3>4, <3>5, FirstBehind
  <2>7. y \in IdsBehind(R, x)
    BY <2>4, <2>5 DEF IdsBehind
  <2>8. Yes(d) \in Results /\ Same(c, d) /\ y # x
    BY <1>4, <1>5, <2>2, <2>5, SameOn DEF Yes, Results
  <2>9. NextGroup(m, c) = Yes(d)
    BY <1>7, <1>8 DEF d
  <2>10. Arrives(R, m, hi, L, c, x, IdsBehind(R, x), Yes(d))
    BY <2>3, <2>6, <2>7, <2>8 DEF Arrives, Yes
  <2> QED BY <2>9, <2>10
<1>9. CASE ~r.ok
  <2>1. B = {}
    BY <1>2, <1>9 DEF Lands
  <2>2. IdsBehind(R, x) = {}
    <3> HIDE DEF B
    <3> QED BY <1>6, <2>1 DEF IdsBehind
  <2>3. No(r.t) \in Results /\ x <= x
    BY <1>3, <1>5 DEF No, Results
  <2>4. Arrives(R, m, hi, L, c, x, IdsBehind(R, x), No(r.t))
    BY <1>1, <1>4, <2>2, <2>3 DEF Arrives, No
  <2> QED BY <1>7, <1>9, <2>4
<1> QED BY <1>8, <1>9

\* advance goes to the next posting.
LEMMA AdvanceArrives ==
    ASSUME NEW R, NEW m, NEW lo, NEW hi, NEW L, LaidTerm(R, m, lo, hi, L), Quiet(m, hi),
           NEW c, NEW x, On(R, m, hi, L, c, x), ~c.fresh
    PROVE  Arrives(R, m, hi, L, c, x, IdsBehind(R, x), ImageAdvance(m, c))
<1> DEFINE g == GroupOf(x)
           d == AdvanceId(m, c)
<1>1. /\ x \in IdsOf(R) /\ InSmall(R, hi, L, c, g) /\ c.id = x /\ c \in Cursor
      /\ g \in GroupsOf(R) /\ c.ep = L.smallEnd[g] /\ c.p = L.end[x]
      /\ x \in SmallIds(R, g)
  BY DEF On, InSmall, SmallIds
<1>2. x \in Nat /\ x < IdLimit /\ g \in Nat
  BY <1>1, IdFacts
<1> HIDE DEF g, d
<1>3. /\ L.end[x] \in Nat /\ L.smallEnd[g] \in Nat
      /\ \/ L.end[x] = L.smallEnd[g] /\ \A z \in SmallIds(R, g) : z <= x
         \/ /\ L.end[x] < L.smallEnd[g]
            /\ \E y \in SmallIds(R, g) :
                  /\ L.at[y] = L.end[x] /\ x < y
                  /\ \A z \in SmallIds(R, g) : z <= x \/ y <= z
  BY <1>1, PostingOrder, SmallOrder
<1>4. ImageAdvance(m, c) = IF c.p < c.ep THEN Yes(d) ELSE NextGroup(m, c)
  BY DEF ImageAdvance, d
<1>5. CASE ~(c.p < c.ep)
  <2>1. \A z \in SmallIds(R, g) : z <= x
    BY <1>1, <1>3, <1>5
  <2>2. Arrives(R, m, hi, L, c, x, IdsBehind(R, x), NextGroup(m, c))
    BY <2>1, NextGroupArrives DEF g
  <2> QED BY <1>4, <1>5, <2>2
<1>6. CASE c.p < c.ep
  <2>1. PICK y \in SmallIds(R, g) : /\ L.at[y] = L.end[x] /\ x < y
                                    /\ \A z \in SmallIds(R, g) : z <= x \/ y <= z
    BY <1>1, <1>3, <1>6
  <2>2. On(R, m, hi, L, d, y) /\ Same(c, d)
    <3>1. c.p = L.at[y]
      BY <1>1, <2>1
    <3> QED BY <1>1, <2>1, <3>1, StepsOnto DEF d
  <2>3. d \in Cursor
    BY <2>2 DEF On, InSmall
  <2>4. y \in IdsOf(R) /\ GroupOf(y) = g /\ y \in Nat /\ y < IdLimit
    <3>1. y \in IdsOf(R) /\ GroupOf(y) = g
      BY DEF SmallIds
    <3> QED BY <3>1, IdFacts
  <2>5. ASSUME NEW z \in IdsBehind(R, x) PROVE y <= z
    <3>1. z \in IdsOf(R) /\ x < z
      BY DEF IdsBehind
    <3>2. /\ z \in Nat /\ z < IdLimit /\ GroupOf(z) \in Nat /\ z \in SmallIds(R, GroupOf(z))
      BY <3>1, IdFacts
    <3>3. g <= GroupOf(z)
      BY <1>2, <3>1, <3>2, LevelOrder DEF g
    <3>4. CASE GroupOf(z) = g
      <4>1. z \in SmallIds(R, g)
        BY <3>2, <3>4
      <4>2. z <= x \/ y <= z
        BY <2>1, <4>1
      <4> QED BY <1>2, <3>1, <3>2, <4>2
    <3>5. CASE GroupOf(z) # g
      <4>1. GroupOf(y) < GroupOf(z)
        BY <1>2, <2>4, <3>2, <3>3, <3>5
      <4>2. y < z
        BY <2>4, <3>2, <4>1, LevelOrder
      <4> QED BY <2>4, <3>2, <4>2
    <3> QED BY <3>4, <3>5
  <2>6. y \in IdsBehind(R, x) /\ y # x
    BY <1>2, <2>1, <2>4 DEF IdsBehind
  <2>7. Yes(d) \in Results
    BY <2>3 DEF Yes, Results
  <2>8. Arrives(R, m, hi, L, c, x, IdsBehind(R, x), Yes(d))
    BY <2>2, <2>5, <2>6, <2>7 DEF Arrives, Yes
  <2> QED BY <1>4, <1>6, <2>8
<1> QED BY <1>5, <1>6

\* advance_to in the group of id goes to the first posting not before id.
LEMMA FinishArrives ==
    ASSUME NEW R, NEW m, NEW lo, NEW hi, NEW L, LaidTerm(R, m, lo, hi, L), Quiet(m, hi),
           NEW id \in Nat, id < IdLimit,
           NEW c, NEW x, On(R, m, hi, L, c, x), GroupOf(x) = GroupOf(id)
    PROVE  Arrives(R, m, hi, L, c, x, IdsFrom(R, x, id), FinishAdvanceTo(m, c, id))
<1> DEFINE g == GroupOf(x)
           s == ScanIds(m, c, id)
<1>1. GroupFound(R, m, hi, L, c, x, id, s)
  BY ScanIdsLands
<1> HIDE DEF s
<1>2. PICK y \in SmallIds(R, g) :
         /\ On(R, m, hi, L, s, y) /\ x <= y /\ Same(c, s)
         /\ y = x => s = c
         /\ \A z \in SmallIds(R, g) : x <= z /\ z < y => z < id
         /\ id <= y \/ \A z \in SmallIds(R, g) : z <= y
  BY <1>1 DEF GroupFound
<1>3. /\ x \in IdsOf(R) /\ y \in IdsOf(R) /\ GroupOf(y) = g /\ s.id = y /\ s \in Cursor
  BY <1>2 DEF On, SmallIds, InSmall
<1>4. /\ x \in Nat /\ x < IdLimit /\ y \in Nat /\ y < IdLimit /\ g \in Nat
  BY <1>3, IdFacts
<1>5. FinishAdvanceTo(m, c, id) = IF id <= y THEN Yes(s) ELSE NextGroup(m, s)
  BY <1>3 DEF FinishAdvanceTo, s
<1>6. ASSUME NEW z \in IdsOf(R)
      PROVE  /\ z \in Nat /\ z < IdLimit /\ GroupOf(z) \in Nat /\ z \in SmallIds(R, GroupOf(z))
             /\ GroupOf(z) < g => z < x /\ z < id
             /\ g < GroupOf(z) => y < z /\ id < z
  <2>1. /\ z \in Nat /\ z < IdLimit /\ GroupOf(z) \in Nat /\ z \in SmallIds(R, GroupOf(z))
    BY IdFacts
  <2>2. GroupOf(z) < g => z < x /\ z < id
    BY <1>4, <2>1, LevelOrder
  <2>3. g < GroupOf(z) => y < z /\ id < z
    BY <1>3, <1>4, <2>1, LevelOrder
  <2> QED BY <2>1, <2>2, <2>3
<1> HIDE DEF g
<1>7. CASE id <= y
  <2>1. y \in IdsFrom(R, x, id)
    BY <1>2, <1>3, <1>7 DEF IdsFrom
  <2>2. ASSUME NEW z \in IdsFrom(R, x, id) PROVE y <= z
    <3>1. z \in IdsOf(R) /\ x <= z /\ id <= z
      BY DEF IdsFrom
    <3>2. z \in Nat /\ GroupOf(z) \in Nat /\ z \in SmallIds(R, GroupOf(z))
      BY <1>6, <3>1
    <3>3. ~(GroupOf(z) < g)
      <4>1. GroupOf(z) < g => z < x
        BY <1>6, <3>1
      <4> QED BY <1>4, <3>1, <3>2, <4>1
    <3>4. CASE GroupOf(z) = g
      <4>1. z \in SmallIds(R, g)
        BY <3>2, <3>4
      <4>2. z < y => z < id
        BY <1>2, <3>1, <4>1
      <4> QED BY <1>4, <3>1, <3>2, <4>2
    <3>5. CASE g < GroupOf(z)
      <4>1. y < z
        BY <1>6, <3>1, <3>5
      <4> QED BY <1>4, <3>2, <4>1
    <3> QED BY <1>4, <3>2, <3>3, <3>4, <3>5
  <2>3. Yes(s) \in Results
    BY <1>3 DEF Yes, Results
  <2>4. y = x => s.value = c.value
    BY <1>2
  <2>5. Arrives(R, m, hi, L, c, x, IdsFrom(R, x, id), Yes(s))
    BY <1>2, <2>1, <2>2, <2>3, <2>4 DEF Arrives, Yes
  <2> QED BY <1>5, <1>7, <2>5
<1>8. CASE ~(id <= y)
  <2> DEFINE r == NextGroup(m, s)
  <2>1. \A z \in SmallIds(R, GroupOf(y)) : z <= y
    BY <1>2, <1>3, <1>8
  <2>2. Arrives(R, m, hi, L, s, y, IdsBehind(R, y), r)
    BY <1>2, <2>1, NextGroupArrives
  <2> HIDE DEF r
  <2>3. IdsBehind(R, y) = IdsFrom(R, x, id)
    <3>1. ASSUME NEW z \in IdsOf(R) PROVE y < z <=> x <= z /\ id <= z
      <4>1. z \in Nat /\ GroupOf(z) \in Nat /\ z \in SmallIds(R, GroupOf(z))
        BY <1>6
      <4>2. CASE g < GroupOf(z)
        <5>1. y < z /\ id < z
          BY <1>6, <4>2
        <5> QED BY <1>2, <1>4, <4>1, <5>1
      <4>3. CASE GroupOf(z) = g
        <5>1. z <= y
          BY <1>3, <2>1, <4>1, <4>3
        <5> QED BY <1>4, <1>8, <4>1, <5>1
      <4>4. CASE GroupOf(z) < g
        <5>1. z < x
          BY <1>6, <4>4
        <5> QED BY <1>2, <1>4, <4>1, <5>1
      <4> QED BY <1>4, <4>1, <4>2, <4>3, <4>4
    <3> QED BY <3>1 DEF IdsBehind, IdsFrom
  <2>4. r \in Results /\ Same(s, r.t)
    BY <2>2 DEF Arrives
  <2>5. Same(c, r.t)
    BY <1>2, <2>4, SameOn
  <2>6. CASE r.ok
    <3>1. PICK w \in IdsBehind(R, y) : On(R, m, hi, L, r.t, w) /\ \A z \in IdsBehind(R, y) : w <= z
      BY <2>2, <2>6 DEF Arrives
    <3>2. w \in IdsOf(R) /\ y < w
      BY DEF IdsBehind
    <3>3. w # x
      <4>1. w \in Nat
        BY <1>6, <3>2
      <4> QED BY <1>2, <1>4, <3>2, <4>1
    <3>4. Arrives(R, m, hi, L, c, x, IdsFrom(R, x, id), r)
      BY <2>3, <2>4, <2>5, <2>6, <3>1, <3>3 DEF Arrives
    <3> QED BY <1>5, <1>8, <3>4 DEF r
  <2>7. CASE ~r.ok
    <3>1. IdsFrom(R, x, id) = {} /\ r.t.id \in IdsOf(R) /\ y <= r.t.id
      BY <2>2, <2>3, <2>7 DEF Arrives
    <3>2. x <= r.t.id
      <4>1. r.t.id \in Nat
        BY <1>6, <3>1
      <4> QED BY <1>2, <1>4, <3>1, <4>1
    <3>3. Arrives(R, m, hi, L, c, x, IdsFrom(R, x, id), r)
      BY <2>4, <2>5, <2>7, <3>1, <3>2 DEF Arrives
    <3> QED BY <1>5, <1>8, <3>3 DEF r
  <2> QED BY <2>6, <2>7
<1> QED BY <1>7, <1>8

\* The targets for which advance_to finds its group.
Covers(R, x, id) ==
    \/ HighBase(id) <= HighBase(x)
    \/ (\E z \in IdsOf(R) : HighBase(z) = HighBase(id)) /\ MidOf(id) # 0

\* advance_group_to, for a group behind the cursor's, opens the first group
\* of the term that is not before it.
LEMMA GroupToLands ==
    ASSUME NEW R, NEW m, NEW lo, NEW hi, NEW L, LaidTerm(R, m, lo, hi, L), Quiet(m, hi),
           NEW c, NEW x, On(R, m, hi, L, c, x),
           NEW id \in Nat, id < IdLimit, Covers(R, x, id), GroupOf(x) < GroupOf(id)
    PROVE  Lands(R, hi, L, {k \in GroupsOf(R) : GroupOf(id) <= k}, c, AdvanceGroupTo(m, c, GroupOf(id)))
<1> DEFINE g   == GroupOf(x)
           h   == HighBase(g)
           gid == GroupOf(id)
           b   == HighBase(gid)
           T   == {k \in GroupsOf(R) : gid <= k}
<1>1. /\ x \in IdsOf(R) /\ InSmall(R, hi, L, c, g) /\ c \in Cursor /\ g \in GroupsOf(R)
      /\ c.gid = g /\ c.ep = L.smallEnd[g] /\ c.tp = L.highEnd[h] /\ c.etp = hi + 8
  BY DEF On, InSmall
<1>2. x \in Nat /\ x < IdLimit
  BY <1>1, IdFacts
<1>3. /\ g \in Nat /\ g < IdLimit /\ HighBase(g) = HighBase(x) /\ GroupOf(g) = g
      /\ gid \in Nat /\ gid < IdLimit /\ b = HighBase(id) /\ GroupOf(gid) = gid
      /\ gid = b + MidOf(id) * SmallSpan
      /\ h \in Nat /\ b \in Nat /\ h < IdLimit /\ b < IdLimit
      /\ HighBase(h) = h /\ HighBase(b) = b
  <2>1. /\ GroupOf(x) \in Nat /\ GroupOf(x) < IdLimit /\ HighBase(GroupOf(x)) = HighBase(x)
        /\ GroupOf(GroupOf(x)) = GroupOf(x)
        /\ HighBase(x) \in Nat /\ HighBase(x) < IdLimit /\ HighBase(HighBase(x)) = HighBase(x)
    BY <1>2, LevelFacts
  <2>2. /\ GroupOf(id) \in Nat /\ GroupOf(id) < IdLimit /\ HighBase(GroupOf(id)) = HighBase(id)
        /\ GroupOf(GroupOf(id)) = GroupOf(id)
        /\ GroupOf(id) = HighBase(id) + MidOf(id) * SmallSpan
        /\ HighBase(id) \in Nat /\ HighBase(id) < IdLimit /\ HighBase(HighBase(id)) = HighBase(id)
    BY LevelFacts
  <2> QED BY <2>1, <2>2
<1>4. g < gid
  OBVIOUS
<1> HIDE DEF g, h, gid, b
<1>5. h \in HighsOf(R)
  BY <1>1, GroupFacts DEF LaidTerm, Storable, Encodable, h
<1>6. AdvanceGroupTo(m, c, gid) = IF h = b THEN ScanSmall(m, c, gid) ELSE ScanHigh(m, c, gid)
  <2>1. ~(c.gid >= gid)
    BY <1>1, <1>3, <1>4
  <2>2. HighBase(c.gid) = h /\ HighBase(gid) = b
    BY <1>1 DEF h, b
  <2> QED BY <2>1, <2>2 DEF AdvanceGroupTo
<1>7. InHigh(R, hi, L, c, h) /\ AtHeader(R, L, c, h)
  BY <1>1, BehindGroup DEF h
<1>8. CASE h = b
  <2>1. Lands(R, hi, L, NotBefore(Rest(R, L, c.ep), gid), c, ScanSmall(m, c, gid))
    <3>1. HighBase(gid) = h
      BY <1>8 DEF b
    <3> QED BY <1>3, <1>5, <1>7, <3>1, ScanSmallLands
  <2>2. Rest(R, L, c.ep) = {k \in GroupsOf(R) : g < k}
    BY <1>1, GroupsBehind
  <2>3. \A k \in GroupsOf(R) : gid <= k => g < k
    <3>1. \A k \in GroupsOf(R) : k \in Nat
      BY GroupFacts DEF LaidTerm, Storable, Encodable
    <3> QED BY <1>3, <1>4, <3>1
  <2>4. NotBefore(Rest(R, L, c.ep), gid) = T
    BY <2>2, <2>3 DEF NotBefore
  <2> HIDE DEF T
  <2>5. Lands(R, hi, L, T, c, AdvanceGroupTo(m, c, gid))
    BY <1>6, <1>8, <2>1, <2>4
  <2> QED BY <2>5 DEF T, gid
<1>9. CASE h # b
  <2>1. h < b
    <3>1. x < id
      BY <1>2, LevelOrder
    <3>2. HighBase(x) <= HighBase(id)
      BY <1>2, <3>1, LevelOrder
    <3>3. h = HighBase(x) /\ b = HighBase(id)
      BY <1>3 DEF h
    <3> QED BY <1>3, <1>9, <3>2, <3>3
  <2>2. (\E z \in IdsOf(R) : HighBase(z) = b) /\ MidOf(id) # 0
    <3>1. h = HighBase(x) /\ b = HighBase(id)
      BY <1>3 DEF h
    <3>2. ~(HighBase(id) <= HighBase(x))
      BY <1>3, <2>1, <3>1
    <3> QED BY <3>1, <3>2 DEF Covers
  <2>3. b \in HighsOf(R)
    <3>1. PICK z \in IdsOf(R) : HighBase(z) = b
      BY <2>2
    <3>2. z \in Nat /\ z < IdLimit /\ GroupOf(z) \in GroupsOf(R)
      BY IdFacts
    <3>3. HighBase(GroupOf(z)) = b
      BY <3>1, <3>2, LevelFacts
    <3> QED BY <3>2, <3>3 DEF HighsOf
  <2>4. gid # b
    <3>1. MidOf(id) \in Byte
      BY LevelFacts
    <3>2. MidOf(id) \in Nat /\ MidOf(id) # 0
      BY <2>2, <3>1 DEF Byte
    <3>3. MidOf(id) * SmallSpan > 0
      BY <3>2, SMT DEF SmallSpan
    <3>4. MidOf(id) * SmallSpan \in Nat
      BY <3>2, SMT DEF SmallSpan
    <3> QED BY <1>3, <3>3, <3>4
  <2>5. InnerGroup(R, gid, b)
    BY <1>3, <2>3, <2>4 DEF InnerGroup, b
  <2>6. PICK k \in HighsOf(R) : L.high[k] = L.highEnd[h]
    <3>1. L.highEnd[h] # hi
      <4>1. L.highEnd[h] = hi => \A j \in HighsOf(R) : j <= h
        BY <1>5, HighOrder
      <4> QED BY <1>3, <2>1, <2>3, <4>1
    <3> QED BY <1>5, <3>1, HighOrder
  <2>7. k <= b
    <3>1. b <= h \/ k <= b
      BY <1>5, <2>3, <2>6, HighOrder
    <3> QED BY <1>3, <2>1, <3>1
  <2>8. AtHigh(R, hi, L, c, k, b)
    BY <1>1, <2>6, <2>7 DEF AtHigh
  <2>9. Lands(R, hi, L, NotBefore(Rest(R, L, c.tp), gid), c, ScanHigh(m, c, gid))
    BY <2>5, <2>8, ScanHighLands
  <2>10. Rest(R, L, c.tp) = {j \in GroupsOf(R) : h < HighBase(j)}
    <3>1. Rest(R, L, L.highEnd[h]) = {j \in GroupsOf(R) : h < HighBase(j)}
      BY ONLY LaidTerm(R, m, lo, hi, L), <1>5, HighRest
    <3> QED BY <1>1, <3>1
  <2>11. \A j \in GroupsOf(R) : gid <= j => h < HighBase(j)
    <3> TAKE j \in GroupsOf(R)
    <3> HAVE gid <= j
    <3>1. j \in Nat /\ j < IdLimit
      BY GroupFacts DEF LaidTerm, Storable, Encodable
    <3>2. HighBase(gid) <= HighBase(j)
      BY <1>3, <3>1, LevelOrder
    <3>3. HighBase(j) \in Nat /\ HighBase(gid) = b
      BY <3>1, LevelFacts DEF b
    <3> QED BY <1>3, <2>1, <3>2, <3>3
  <2>12. NotBefore(Rest(R, L, c.tp), gid) = T
    BY <2>10, <2>11 DEF NotBefore
  <2> HIDE DEF T
  <2>13. Lands(R, hi, L, T, c, AdvanceGroupTo(m, c, gid))
    BY <1>6, <1>9, <2>9, <2>12
  <2> QED BY <2>13 DEF T, gid
<1> QED BY <1>8, <1>9

\* advance_to goes to the first posting that is not before its target.
LEMMA ToArrives ==
    ASSUME NEW R, NEW m, NEW lo, NEW hi, NEW L, LaidTerm(R, m, lo, hi, L), Quiet(m, hi),
           NEW c, NEW x, On(R, m, hi, L, c, x),
           NEW id \in Nat, id < IdLimit, Covers(R, x, id)
    PROVE  Arrives(R, m, hi, L, c, x, IdsFrom(R, x, id), ImageAdvanceTo(m, c, id))
<1> DEFINE gid     == GroupOf(id)
           g       == AdvanceGroupTo(m, c, gid)
           entered == AdvanceId(m, g.t)
           A       == IdsFrom(R, x, id)
           r       == ImageAdvanceTo(m, c, id)
<1>1. /\ x \in IdsOf(R) /\ c \in Cursor /\ c.gid = GroupOf(x) /\ c.id = x
  BY DEF On, InSmall
<1>2. /\ x \in Nat /\ x < IdLimit /\ GroupOf(x) \in Nat
      /\ \A z \in IdsOf(R) : z \in Nat /\ z < IdLimit /\ GroupOf(z) \in GroupsOf(R) /\ GroupOf(z) \in Nat
  BY <1>1, IdFacts
<1>3. gid \in Nat
  BY LevelFacts
<1>4. r = IF id <= x THEN Yes(c)
          ELSE IF GroupOf(x) >= gid THEN FinishAdvanceTo(m, c, id)
          ELSE IF ~g.ok THEN No(g.t)
          ELSE IF gid < entered.gid THEN Yes(entered)
          ELSE FinishAdvanceTo(m, entered, id)
  BY <1>1 DEF ImageAdvanceTo
<1> HIDE DEF r, g, entered
<1>5. \A z \in A : z \in IdsOf(R) /\ x <= z /\ id <= z
  BY DEF IdsFrom
<1>6. CASE id <= x
  <2>1. x \in A /\ \A z \in A : x <= z
    BY <1>1, <1>2, <1>6 DEF IdsFrom
  <2>2. Yes(c) \in Results /\ Same(c, c)
    BY <1>1 DEF Yes, Results, Same
  <2> HIDE DEF A
  <2>3. Arrives(R, m, hi, L, c, x, A, Yes(c))
    BY <2>1, <2>2 DEF Arrives, Yes
  <2> QED BY <1>4, <1>6, <2>3 DEF A, r
<1>7. CASE ~(id <= x) /\ GroupOf(x) >= gid
  <2>1. GroupOf(x) <= gid
    BY <1>2, <1>7, LevelOrder
  <2>2. GroupOf(x) = GroupOf(id)
    BY <1>2, <1>3, <1>7, <2>1
  <2>3. Arrives(R, m, hi, L, c, x, A, FinishAdvanceTo(m, c, id))
    BY <2>2, FinishArrives
  <2> HIDE DEF A
  <2> QED BY <1>4, <1>7, <2>3 DEF A, r
<1>8. CASE ~(id <= x) /\ ~(GroupOf(x) >= gid)
  <2> DEFINE T == {k \in GroupsOf(R) : gid <= k}
  <2>1. Lands(R, hi, L, T, c, g)
    <3>1. GroupOf(x) < GroupOf(id)
      BY <1>2, <1>3, <1>8
    <3> QED BY <3>1, GroupToLands DEF g
  <2>2. g \in Results /\ Keeps(c, g.t) /\ g.t \in Cursor
    BY <2>1 DEF Lands, Results
  <2>3. Same(c, g.t) /\ g.t.id = x
    BY <1>1, <2>2, KeepsSame
  <2>4. \A z \in IdsOf(R) : id <= z => GroupOf(z) \in T /\ gid <= GroupOf(z)
    BY <1>2, LevelOrder
  <2>5. CASE ~g.ok
    <3>1. T = {}
      BY <2>1, <2>5 DEF Lands
    <3>2. A = {}
      <4> HIDE DEF T, A
      <4> QED BY <1>5, <2>4, <3>1
    <3>3. No(g.t) \in Results /\ x <= x
      BY <1>2, <2>2 DEF No, Results
    <3> HIDE DEF A
    <3>4. Arrives(R, m, hi, L, c, x, A, No(g.t))
      BY <1>1, <2>3, <3>2, <3>3 DEF Arrives, No
    <3> QED BY <1>4, <1>8, <2>5, <3>4 DEF A, r
  <2>6. CASE g.ok
    <3>1. PICK k \in T : (\A j \in T : k <= j) /\ Entered(R, hi, L, g.t, k)
      BY <2>1, <2>6 DEF Lands
    <3>2. /\ entered \in Cursor /\ Same(g.t, entered)
          /\ \E y \in SmallIds(R, k) : /\ On(R, m, hi, L, entered, y)
                                       /\ \A z \in SmallIds(R, k) : y <= z
      BY <3>1, FirstOfGroup DEF entered
    <3>3. PICK y \in SmallIds(R, k) : /\ On(R, m, hi, L, entered, y)
                                      /\ \A z \in SmallIds(R, k) : y <= z
      BY <3>2
    <3>4. y \in IdsOf(R) /\ GroupOf(y) = k /\ k \in GroupsOf(R) /\ gid <= k /\ entered.gid = k
      BY <3>3 DEF SmallIds, On, InSmall
    <3>5. y \in Nat /\ y < IdLimit /\ k \in Nat /\ x < y
      <4>1. y \in Nat /\ y < IdLimit /\ k \in Nat
        BY <1>2, <3>4
      <4>2. GroupOf(x) < GroupOf(y)
        BY <1>2, <1>3, <1>8, <3>4, <4>1
      <4> QED BY <1>2, <4>1, <4>2, LevelOrder
    <3>6. \A z \in IdsOf(R) : id <= z => y <= z
      <4> TAKE z \in IdsOf(R)
      <4> HAVE id <= z
      <4>1. gid <= GroupOf(z)
        BY <2>4
      <4>2. \A j \in GroupsOf(R) : gid <= j => k <= j
        BY <3>1
      <4> HIDE DEF T, gid
      <4> QED BY <1>3, <3>3, <3>4, <4>1, <4>2, FirstBehind
    <3>7. Same(c, entered)
      BY <2>3, <3>2, SameOn
    <3>8. CASE gid < entered.gid
      <4>1. id < y
        BY <1>3, <3>4, <3>5, <3>8, LevelOrder
      <4>2. y \in A
        BY <1>2, <3>4, <3>5, <4>1 DEF IdsFrom
      <4>3. Yes(entered) \in Results /\ y # x /\ \A z \in A : y <= z
        BY <1>2, <1>5, <3>2, <3>5, <3>6 DEF Yes, Results
      <4> HIDE DEF A
      <4>4. Arrives(R, m, hi, L, c, x, A, Yes(entered))
        BY <3>3, <3>7, <4>2, <4>3 DEF Arrives, Yes
      <4> QED BY <1>4, <1>8, <2>6, <3>8, <4>4 DEF A, r
    <3>9. CASE ~(gid < entered.gid)
      <4> DEFINE f == FinishAdvanceTo(m, entered, id)
      <4>1. GroupOf(y) = GroupOf(id)
        BY <1>3, <3>4, <3>5, <3>9
      <4>2. Arrives(R, m, hi, L, entered, y, IdsFrom(R, y, id), f)
        BY <3>3, <4>1, FinishArrives
      <4> HIDE DEF f
      <4>3. IdsFrom(R, y, id) = A
        <5>1. \A z \in IdsOf(R) : id <= z => y <= z /\ x <= z
          BY <1>2, <3>5, <3>6
        <5> QED BY <5>1 DEF IdsFrom
      <4> HIDE DEF A
      <4>4. f \in Results /\ Same(entered, f.t)
        BY <4>2 DEF Arrives
      <4>5. Same(c, f.t)
        BY <3>7, <4>4, SameOn
      <4>6. ASSUME f.ok PROVE Arrives(R, m, hi, L, c, x, A, f)
        <5>1. PICK w \in A : On(R, m, hi, L, f.t, w) /\ \A z \in A : w <= z
          BY <4>2, <4>3, <4>6 DEF Arrives
        <5>2. w # x
          <6>1. w \in Nat /\ id <= w
            BY <1>2, <1>5, <5>1
          <6> QED BY <1>2, <1>8, <6>1
        <5> QED BY <4>4, <4>5, <4>6, <5>1, <5>2 DEF Arrives
      <4>7. ASSUME ~f.ok PROVE Arrives(R, m, hi, L, c, x, A, f)
        <5>1. A = {} /\ f.t.id \in IdsOf(R) /\ y <= f.t.id
          BY <4>2, <4>3, <4>7 DEF Arrives
        <5>2. x <= f.t.id
          <6>1. f.t.id \in Nat
            BY <1>2, <5>1
          <6> QED BY <1>2, <3>5, <5>1, <6>1
        <5> QED BY <4>4, <4>5, <4>7, <5>1, <5>2 DEF Arrives
      <4>8. Arrives(R, m, hi, L, c, x, A, f)
        BY <4>6, <4>7
      <4> QED BY <1>4, <1>8, <2>6, <3>9, <4>8 DEF A, r, f
    <3> QED BY <3>8, <3>9
  <2> QED BY <2>5, <2>6
<1> QED BY <1>6, <1>7, <1>8

\* The header in front of a term; a cursor that was just looked up.
Heads(m, header, lo, hi) ==
    /\ header \in Nat /\ lo = header + HeaderSize
    /\ U32At(m, header - 4) = hi - lo + HeaderSize /\ U32At(m, header) \in Nat
AtFirst(R, m, hi, L, n, c) ==
    \E y \in IdsOf(R) :
       /\ On(R, m, hi, L, c, y) /\ \A z \in IdsOf(R) : y <= z
       /\ c.fresh = TRUE /\ c.positions = <<>> /\ c.max_term_size = n
       /\ \/ OnlyValue(RecordsOf(R, y)) \/ ValueFirst(RecordsOf(R, y))
          \/ c.value = 0

\* fill_term puts the cursor on the first posting of the term.
LEMMA FillTermOpens ==
    ASSUME NEW R, NEW m, NEW lo, NEW hi, NEW L, LaidTerm(R, m, lo, hi, L),
           NEW header, Heads(m, header, lo, hi)
    PROVE  AtFirst(R, m, hi, L, U32At(m, header), FillTerm(m, header))
<1>0. /\ header \in Nat /\ lo = header + HeaderSize
      /\ U32At(m, header - 4) = hi - lo + HeaderSize /\ U32At(m, header) \in Nat
  BY DEF Heads
<1>1. PICK h \in HighsOf(R) : L.high[h] = lo /\ \A k \in HighsOf(R) : h <= k
  BY HighOrder
<1>2. PICK g \in GroupsIn(R, h) : L.small[g] = L.highStart[h]
  BY SmallOrder
<1>3. g \in GroupsOf(R) /\ HighBase(g) = h
  BY DEF GroupsIn
<1>4. /\ L.highStart[h] \in Nat /\ L.highEnd[h] \in Nat /\ L.highEnd[h] <= hi
      /\ At(m, lo) = HighOf(h)
      /\ ExtractGroup(m, lo + 1).start = L.highStart[h]
      /\ ExtractGroup(m, lo + 1).end = L.highEnd[h]
  BY <1>1, HighOrder
<1>5. /\ L.smallStart[g] \in Nat /\ L.smallEnd[g] \in Nat
      /\ At(m, L.highStart[h]) = MidOf(g)
      /\ ExtractGroup(m, L.highStart[h] + 1).start = L.smallStart[g]
      /\ ExtractGroup(m, L.highStart[h] + 1).end = L.smallEnd[g]
  <2>1. /\ L.smallStart[g] \in Nat /\ L.smallEnd[g] \in Nat
        /\ At(m, L.small[g]) = MidOf(g)
        /\ ExtractGroup(m, L.small[g] + 1).start = L.smallStart[g]
        /\ ExtractGroup(m, L.small[g] + 1).end = L.smallEnd[g]
    BY <1>3, SmallOrder
  <2> QED BY <1>2, <2>1
<1>6. HighOf(h) * HighSpan + MidOf(g) * SmallSpan = g /\ g \in Nat
  BY <1>1, <1>3, GroupFacts DEF LaidTerm, Storable, Encodable
<1>7. m \in Seq(Nat) /\ lo \in Nat /\ hi \in Nat
  BY DEF LaidTerm
<1>8. lo + U32At(m, header - 4) = hi + 8
  BY <1>0, <1>7 DEF HeaderSize
<1> DEFINE n == U32At(m, header)
           f == U32At(m, header + 4)
           e == [NoCursor EXCEPT
                   !.gid = At(m, lo) * HighSpan + At(m, ExtractGroup(m, lo + 1).start) * SmallSpan,
                   !.p = ExtractGroup(m, ExtractGroup(m, lo + 1).start + 1).start,
                   !.ep = ExtractGroup(m, ExtractGroup(m, lo + 1).start + 1).end,
                   !.tp = ExtractGroup(m, lo + 1).end,
                   !.etp = lo + U32At(m, header - 4),
                   !.max_term_size = n, !.document_frequency = f, !.fresh = TRUE]
           d == [NoCursor EXCEPT
                   !.gid = g, !.p = L.smallStart[g], !.ep = L.smallEnd[g], !.tp = L.highEnd[h],
                   !.etp = hi + 8, !.max_term_size = n, !.document_frequency = f, !.fresh = TRUE]
<1>9. FillTerm(m, header) = AdvanceId(m, e)
  BY <1>0 DEF FillTerm
<1>10. f \in Nat /\ n \in Nat
  <2>1. header + 4 \in Nat
    BY <1>0
  <2> QED BY <1>0, <1>7, <2>1, ReadNat
<1> HIDE DEF n, f
<1>11. e = d
  BY <1>4, <1>5, <1>6, <1>8
<1>12. /\ d \in Cursor /\ d.gid = g /\ d.p = L.smallStart[g] /\ d.ep = L.smallEnd[g]
       /\ d.tp = L.highEnd[h] /\ d.etp = hi + 8 /\ d.max_term_size = n
       /\ d.fresh = TRUE /\ d.positions = <<>> /\ d.value = 0
  <2>1. hi + 8 \in Nat
    BY <1>7
  <2>2. <<>> \in Seq(Nat)
    OBVIOUS
  <2> QED BY <1>4, <1>5, <1>6, <1>10, <2>1, <2>2 DEF NoCursor, Cursor
<1> HIDE DEF d, e
<1>13. Entered(R, hi, L, d, g)
  BY <1>3, <1>12 DEF Entered
<1> DEFINE c == AdvanceId(m, d)
<1>14. PICK y \in SmallIds(R, g) :
          /\ On(R, m, hi, L, c, y) /\ \A z \in SmallIds(R, g) : y <= z
          /\ Same(d, c)
          /\ OnlyValue(RecordsOf(R, y)) \/ ValueFirst(RecordsOf(R, y)) \/ c.value = d.value
  BY <1>13, FirstOfGroup
<1> HIDE DEF c
<1>15. ASSUME NEW z \in IdsOf(R) PROVE y <= z
  <2>1. \A k \in GroupsOf(R) : g <= k
    <3>1. Rest(R, L, L.highStart[h]) = {k \in GroupsOf(R) : h <= HighBase(k)}
      BY ONLY LaidTerm(R, m, lo, hi, L), <1>1, HighRest
    <3>2. \A k \in Rest(R, L, L.small[g]) : g <= k
      BY <1>3, RestStarts
    <3>3. \A k \in GroupsOf(R) : h <= HighBase(k)
      BY <1>1 DEF HighsOf
    <3> QED BY <1>2, <3>1, <3>2, <3>3
  <2>2. GroupOf(z) \in GroupsOf(R)
    BY IdFacts
  <2>3. g <= GroupOf(z) /\ g <= g
    BY <1>6, <2>1, <2>2
  <2>4. \A k \in GroupsOf(R) : g <= k => g <= k
    OBVIOUS
  <2> QED BY <1>3, <1>6, <1>14, <2>3, <2>4, FirstBehind
<1>16. y \in IdsOf(R)
  BY DEF SmallIds
<1>17. c.fresh = TRUE /\ c.positions = <<>> /\ c.max_term_size = n
  BY <1>12, <1>14 DEF Same
<1>18. FillTerm(m, header) = c
  BY <1>9, <1>11 DEF c
<1> QED BY <1>12, <1>14, <1>15, <1>16, <1>17, <1>18 DEF n, AtFirst

\* The pointers of a cursor on a posting are nested in the term.
LEMMA OnNested ==
    ASSUME NEW R, NEW m, NEW lo, NEW hi, NEW L, LaidTerm(R, m, lo, hi, L),
           NEW c, NEW x, On(R, m, hi, L, c, x)
    PROVE  lo < c.wp /\ c.wp <= c.p /\ c.p <= c.ep /\ c.ep <= c.tp /\ c.tp <= hi
<1> DEFINE g == GroupOf(x)
           h == HighBase(g)
<1>1. /\ x \in IdsOf(R) /\ c \in Cursor /\ g \in GroupsOf(R) /\ x \in SmallIds(R, g)
      /\ c.p = L.end[x] /\ c.ep = L.smallEnd[g] /\ c.tp = L.highEnd[h]
      /\ L.at[x] + 2 <= c.wp /\ c.wp <= c.p
  BY DEF On, InSmall, SmallIds
<1>2. h \in HighsOf(R)
  BY <1>1, GroupFacts DEF LaidTerm, Storable, Encodable
<1> HIDE DEF g, h
<1>3. L.end[x] <= L.smallEnd[g] /\ L.smallEnd[g] <= L.highEnd[h] /\ L.highEnd[h] <= hi
  BY <1>1, <1>2, PostingOrder, SmallOrder, HighOrder DEF h
<1>4. L.at[x] \in Nat /\ lo <= L.at[x]
  <2>1. Storable(R) /\ lo \in Nat /\ hi \in Nat /\ Layout(R, m, lo, hi, L)
    BY DEF LaidTerm
  <2>2. /\ L.at[x] \in Nat /\ L.end[x] \in Nat /\ L.at[x] < L.end[x]
        /\ lo <= L.at[x] /\ L.end[x] <= hi
        /\ L.end[x] = L.at[x] + Len(Posting(x % SmallSpan, RecordsOf(R, x)))
        /\ StoredAt(m, L.at[x], Posting(x % SmallSpan, RecordsOf(R, x)))
    BY ONLY <1>1, <2>1, PostingPlace, Zenon
  <2> QED BY <2>2
<1>5. lo < c.wp
  <2>1. c.wp \in Nat /\ lo \in Nat
    BY <1>1 DEF Cursor, LaidTerm
  <2> QED BY <1>1, <1>4, <2>1
<1> QED BY <1>1, <1>3, <1>5

\* Decoding, and the first advance, leave the cursor where it is.
LEMMA StaysOn ==
    ASSUME NEW R, NEW m, NEW hi, NEW L, NEW c, NEW x, On(R, m, hi, L, c, x),
           NEW b \in BOOLEAN, NEW s \in Seq(Nat)
    PROVE  /\ On(R, m, hi, L, [c EXCEPT !.fresh = b], x)
           /\ On(R, m, hi, L, [c EXCEPT !.positions = s], x)
<1>1. c \in Cursor
  BY DEF On, InSmall
<1>2. ASSUME NEW d \in Cursor, d.id = c.id, d.value = c.value, d.gid = c.gid,
             d.first_base = c.first_base, d.wp = c.wp, d.p = c.p, d.ep = c.ep,
             d.tp = c.tp, d.etp = c.etp
      PROVE  On(R, m, hi, L, d, x)
  <2>1. Decoded(m, d) = Decoded(m, c)
    BY <1>2 DEF Decoded
  <2> QED BY <1>2, <2>1 DEF On, InSmall, HasRead
<1>3. [c EXCEPT !.fresh = b] \in Cursor /\ [c EXCEPT !.positions = s] \in Cursor
  BY <1>1 DEF Cursor
<1> QED BY <1>1, <1>2, <1>3 DEF Cursor

-----------------------------------------------------------------------------
(***************************************************************************)
(* A readable index holds terms the format keeps.                          *)
(***************************************************************************)
\* The two ways of writing 32 bits agree.
LEMMA Words32 ==
    ASSUME NEW v \in Nat, Fits32(v)
    PROVE  IsWord(v)
<1>1. v \div 65536 \in Nat /\ v < 65536 * (v \div 65536) + 65536
  BY SMT
<1>2. v \div 65536 < 65536
  BY DEF Fits32
<1> QED BY SMT, <1>1, <1>2 DEF IsWord

\* The records of an id: one for each of its positions, in order.
RecordsAt(R, id)   == {s \in R : s.id = id}
PositionsAt(R, id) == {r.position : r \in RecordsAt(R, id)}

\* The records of a term as a reducer leaves them, with values of 32 bits.
Reduced(R) ==
    /\ R # {} /\ IsFiniteSet(R)
    /\ \A r, s \in R : r.id = s.id /\ r.position = s.position => r = s
    /\ \A r \in R : Fits32(r.value)

\* A posting has a record for each of its positions, in order.
LEMMA RecordsInOrder ==
    ASSUME NEW R \in SUBSET PostingRecord, Reduced(R), NEW id \in IdsOf(R)
    PROVE  /\ OneRecordEach(RecordsOf(R, id))
           /\ \A i \in 1..Len(RecordsOf(R, id)) :
                 RecordsOf(R, id)[i] \in R /\ RecordsOf(R, id)[i].id = id
           /\ \A r \in R : r.id = id => \E i \in 1..Len(RecordsOf(R, id)) :
                                             RecordsOf(R, id)[i] = r
           /\ Len(RecordsOf(R, id)) <= Cardinality(RecordsAt(R, id))
<1> DEFINE P    == PositionsAt(R, id)
           a    == Ascending(P)
           n    == Cardinality(P)
           rec(p) == CHOOSE r \in R : r.id = id /\ r.position = p
           recs == [i \in 1..n |-> rec(a[i])]
<1>1. P \in SUBSET Nat /\ P # {}
  <2>1. \A r \in R : r.position \in Nat
    BY DEF PostingRecord
  <2>2. PICK r \in R : r.id = id
    BY DEF IdsOf
  <2>3. r \in RecordsAt(R, id)
    BY <2>2 DEF RecordsAt
  <2>4. RecordsAt(R, id) \in SUBSET R
    BY DEF RecordsAt
  <2> QED BY <2>1, <2>3, <2>4 DEF PositionsAt
<1>2. IsFiniteSet(P) /\ Cardinality(P) <= Cardinality(RecordsAt(R, id))
  <2> DEFINE h == [r \in R |-> r.position]
  <2>1. IsFiniteSet(R)
    BY DEF Reduced
  <2>2. RecordsAt(R, id) \in SUBSET R
    BY DEF RecordsAt
  <2>3. /\ IsFiniteSet(Mapped(h, RecordsAt(R, id)))
        /\ Cardinality(Mapped(h, RecordsAt(R, id))) <= Cardinality(RecordsAt(R, id))
    <3> HIDE DEF h
    <3> QED BY <2>1, <2>2, MappedSets
  <2>4. Mapped(h, RecordsAt(R, id)) = P
    BY <2>2 DEF Mapped, PositionsAt
  <2> QED BY <2>3, <2>4
<1>3. /\ n \in Nat /\ a \in [1..n -> P]
      /\ \A i, j \in 1..n : i < j => a[i] < a[j]
      /\ \A x \in P : \E i \in 1..n : a[i] = x
  <2> HIDE DEF P
  <2> QED BY <1>1, <1>2, AscendingFacts
<1>4. n # 0
  <2> HIDE DEF P
  <2> QED BY <1>1, <1>2, FS_EmptySet
<1>5. \A p \in P : rec(p) \in R /\ rec(p).id = id /\ rec(p).position = p
  <2>1. TAKE p \in P
  <2>2. PICK r \in RecordsAt(R, id) : r.position = p
    BY DEF PositionsAt
  <2>3. r \in R /\ r.id = id /\ r.position = p
    BY <2>2 DEF RecordsAt
  <2> QED BY <2>3
<1>6. RecordsOf(R, id) = recs
  <2>1. P = {r.position : r \in {s \in R : s.id = id}}
    BY DEF PositionsAt, RecordsAt
  <2>2. Len(a) = n
    <3>1. a = [i \in 1..n |-> CHOOSE x \in P : Cardinality({y \in P : y < x}) = i - 1]
      BY DEF Ascending
    <3> HIDE DEF P, a, n
    <3> QED BY <1>3, <3>1
  <2> HIDE DEF P, n
  <2> QED BY <2>1, <2>2 DEF RecordsOf
<1>16. n <= Cardinality(RecordsAt(R, id))
  BY <1>2
<1>14. \A r \in R : r.id = id => r.position \in P
  BY DEF PositionsAt, RecordsAt
<1> HIDE DEF P, a, n, rec
<1>7. \A i \in 1..n : /\ recs[i] \in R /\ recs[i].position = a[i] /\ a[i] \in Nat
                      /\ recs[i].id = id
  BY <1>1, <1>3, <1>5
<1>8. Len(recs) = n /\ recs # <<>>
  BY <1>3, <1>4
<1>9. \A r \in R : r.value \in Nat /\ IsWord(r.value)
  <2>1. \A r \in R : r.value \in Nat /\ Fits32(r.value)
    BY DEF Reduced, PostingRecord
  <2> QED BY <2>1, Words32
<1>10. \A i \in 1..n : recs[i].position \in Nat /\ recs[i].value \in Nat /\ IsWord(recs[i].value)
  BY <1>7, <1>9
<1>11. \A i, j \in 1..n : i < j => recs[i].position < recs[j].position
  BY <1>3, <1>7
<1> HIDE DEF recs
<1>12. recs = [i \in 1..n |-> recs[i]]
  BY DEF recs
<1>13. OneRecordEach(recs)
  BY <1>3, <1>8, <1>10, <1>11, <1>12 DEF OneRecordEach, RecordsAscend
<1>15. ASSUME NEW r \in R, r.id = id PROVE \E i \in 1..n : recs[i] = r
  <2>1. PICK i \in 1..n : a[i] = r.position
    BY <1>3, <1>14, <1>15
  <2>2. recs[i] \in R /\ recs[i].id = r.id /\ recs[i].position = r.position
    BY <1>7, <1>15, <2>1
  <2> QED BY <2>2 DEF Reduced
<1> QED BY <1>6, <1>7, <1>8, <1>13, <1>15, <1>16

\* A readable term is reduced.
LEMMA ReadableIsReduced == \A R : ReadableTerm(R) => Reduced(R)
BY DEF ReadableTerm, InWidths, Reduced

\* The positions of a posting are those of its records, 0 aside.
LEMMA PositionsRecorded ==
    ASSUME NEW R \in SUBSET PostingRecord, Reduced(R), NEW id \in IdsOf(R),
           NEW ps, ps = PositionsOf(RecordsOf(R, id))
    PROVE  /\ ps \in Seq(Nat)
           /\ \A i, j \in 1..Len(ps) : i < j => ps[i] < ps[j]
           /\ \A i \in 1..Len(ps) : \E r \in R : r.id = id /\ r.position = ps[i]
           /\ \A r \in R : r.id = id /\ r.position # 0 =>
                 \E i \in 1..Len(ps) : ps[i] = r.position
<1> DEFINE recs == RecordsOf(R, id)
           n    == Len(recs)
<1>1. /\ OneRecordEach(recs)
      /\ \A i \in 1..n : recs[i] \in R /\ recs[i].id = id
      /\ \A r \in R : r.id = id => \E i \in 1..n : recs[i] = r
  BY RecordsInOrder
<1>2. ps = PositionsOf(recs)
  OBVIOUS
<1> HIDE DEF recs
<1>3. n \in Nat \ {0} /\ recs = [i \in 1..n |-> recs[i]]
  BY <1>1 DEF OneRecordEach, RecordsAscend
<1>4. CASE OnlyValue(recs)
  <2>1. ps = <<>>
    BY <1>2, <1>4 DEF PositionsOf
  <2>2. n = 1 /\ recs[1].position = 0
    BY <1>4 DEF OnlyValue
  <2>3. \A r \in R : r.id = id => r.position = 0
    BY <1>1, <2>2
  <2> QED BY <2>1, <2>3
<1>5. CASE ~OnlyValue(recs)
  <2>1. /\ ps \in Seq(Nat)
        /\ \A i, j \in 1..Len(ps) : i < j => ps[i] < ps[j]
    BY <1>1, <1>2, <1>5, PositionsOfRecords
  <2>2. CASE ValueFirst(recs)
    <3> DEFINE k == n - 1
    <3>1. n # 1 /\ recs[1].position = 0
      BY <1>3, <1>5, <2>2 DEF OnlyValue, ValueFirst
    <3>2. k \in Nat \ {0} /\ n = k + 1
      BY <1>3, <3>1
    <3>3. Len(Tail(recs)) = k /\ \A i \in 1..k : Tail(recs)[i] = recs[i + 1]
      <4>1. recs \in Seq({recs[i] : i \in 1..n})
        BY <1>3
      <4> HIDE DEF n
      <4> QED BY <1>3, <3>1, <4>1 DEF n
    <3> HIDE DEF n, k
    <3>4. ps = [i \in 1..k |-> recs[i + 1].position]
      BY <1>2, <1>5, <2>2, <3>3 DEF PositionsOf
    <3>5. Len(ps) = k /\ \A i \in 1..k : ps[i] = recs[i + 1].position /\ i + 1 \in 1..n
      BY <3>2, <3>4
    <3>6. \A i \in 1..Len(ps) : \E r \in R : r.id = id /\ r.position = ps[i]
      BY <1>1, <3>5 DEF n
    <3>7. ASSUME NEW r \in R, r.id = id, r.position # 0
          PROVE  \E i \in 1..Len(ps) : ps[i] = r.position
      <4>1. PICK j \in 1..n : recs[j] = r
        BY <1>1, <3>7 DEF n
      <4>2. j # 1
        BY <3>1, <3>7, <4>1
      <4>3. j - 1 \in 1..k /\ (j - 1) + 1 = j
        BY <3>2, <4>2
      <4>4. ps[j - 1] = r.position
        BY <3>5, <4>1, <4>3
      <4> QED BY <3>5, <4>3, <4>4
    <3> QED BY <2>1, <3>6, <3>7
  <2>3. CASE ~ValueFirst(recs)
    <3>1. ps = [i \in 1..n |-> recs[i].position]
      BY <1>2, <1>5, <2>3 DEF PositionsOf
    <3> HIDE DEF n
    <3>2. Len(ps) = n /\ \A i \in 1..n : ps[i] = recs[i].position
      BY <1>3, <3>1
    <3>3. \A i \in 1..Len(ps) : \E r \in R : r.id = id /\ r.position = ps[i]
      BY <1>1, <3>2 DEF n
    <3>4. \A r \in R : r.id = id => \E i \in 1..Len(ps) : ps[i] = r.position
      BY <1>1, <3>2 DEF n
    <3> QED BY <2>1, <3>3, <3>4
  <2> QED BY <2>2, <2>3
<1> QED BY <1>4, <1>5

\* The format holds the postings of a reduced term whose positions are near.
LEMMA ReducedIsEncodable ==
    ASSUME NEW R \in SUBSET PostingRecord, Reduced(R),
           \A id \in IdsOf(R) : NearPositions(PositionsOf(RecordsOf(R, id)))
    PROVE  Encodable(R)
<1>1. IdsInRange(R)
  <2> DEFINE h == [r \in R |-> r.id]
  <2>1. IsFiniteSet(R) /\ R # {}
    BY DEF Reduced
  <2>2. IsFiniteSet(Mapped(h, R))
    <3> HIDE DEF h
    <3>1. R \in SUBSET R
      OBVIOUS
    <3> QED BY <2>1, <3>1, MappedSets
  <2>3. Mapped(h, R) = IdsOf(R)
    BY DEF Mapped, IdsOf
  <2>4. \A r \in R : r.id \in Nat /\ r.id < IdLimit
    <3>1. IdLimit \in Nat
      BY SMT DEF IdLimit
    <3> QED BY <3>1 DEF PostingRecord
  <2>5. IdsOf(R) # {} /\ \A id \in IdsOf(R) : id \in Nat /\ id < IdLimit
    BY <2>1, <2>4 DEF IdsOf
  <2> QED BY <2>2, <2>3, <2>5 DEF IdsInRange
<1>2. ASSUME NEW id \in IdsOf(R) PROVE NarrowPosting(RecordsOf(R, id))
  <2> DEFINE recs == RecordsOf(R, id)
             ps   == PositionsOf(recs)
  <2>1. OneRecordEach(recs)
    BY RecordsInOrder
  <2>2. NearPositions(ps)
    OBVIOUS
  <2>3. ASSUME ~OnlyValue(recs) PROVE Narrow(ps)
    <3>1. /\ ps \in Seq(Nat) /\ ps # <<>>
          /\ \A i, j \in 1..Len(ps) : i < j => ps[i] < ps[j]
      <4> HIDE DEF recs
      <4> QED BY <2>1, <2>3, PositionsOfRecords
    <3> HIDE DEF ps
    <3>2. \A i, j \in 1..Len(ps) : i < j => ps[i] <= ps[j]
      <4> HIDE DEF ps
      <4> QED BY <3>1
    <3> HIDE DEF ps
    <3> QED BY <2>2, <3>1, <3>2 DEF Narrow, NearPositions, Gap, Below28
  <2> QED BY <2>1, <2>3 DEF NarrowPosting, OneRecordEach
<1> QED BY <1>1, <1>2 DEF Encodable

\* The format holds a readable term.
LEMMA ReadableIsStorable ==
    ASSUME NEW R \in SUBSET PostingRecord, ReadableTerm(R)
    PROVE  Storable(R)
<1>3. Encodable(R)
  <2>1. Reduced(R)
    BY ReadableIsReduced
  <2>2. \A id \in IdsOf(R) : NearPositions(PositionsOf(RecordsOf(R, id)))
    BY DEF ReadableTerm, InWidths
  <2> QED BY <2>1, <2>2, ReducedIsEncodable
<1>4. Len(CompressGroups(R)) \in Nat
  BY <1>3, GroupsAreBytes
<1>5. IsWord(Len(CompressGroups(R)) + HeaderSize)
  <2>1. Len(CompressGroups(R)) + HeaderSize \in Nat
    BY <1>4 DEF HeaderSize
  <2>2. Fits32(Len(CompressGroups(R)) + HeaderSize)
    BY DEF ReadableTerm, InWidths
  <2> QED BY <2>1, <2>2, Words32
<1> QED BY <1>3, <1>5 DEF Storable

-----------------------------------------------------------------------------
\* The memory of the reader, and the groups of term k in it.
FileMemory(ix, tail) == TermFile(ix) \o tail
GroupsAt(ix, k)  == HeaderAt(ix, k) + HeaderSize
GroupsEnd(ix, k) == GroupsAt(ix, k) + Len(CompressGroups(ix[k]))

\* Term k lies in the memory where the index says, behind a header that says
\* how long it is and how many positions its postings have at most.
LEMMA TermInFile ==
    ASSUME NEW ix, NEW tail, ReadableIndex(ix, tail), NEW k \in 1..Len(ix)
    PROVE  /\ HeaderAt(ix, k) \in Nat
           /\ \E L : LaidTerm(ix[k], FileMemory(ix, tail), GroupsAt(ix, k), GroupsEnd(ix, k), L)
           /\ Quiet(FileMemory(ix, tail), GroupsEnd(ix, k))
           /\ U32At(FileMemory(ix, tail), HeaderAt(ix, k) - 4)
                = GroupsEnd(ix, k) - GroupsAt(ix, k) + HeaderSize
           /\ U32At(FileMemory(ix, tail), HeaderAt(ix, k)) = MaxPositions(ix[k])
           /\ MaxPositions(ix[k]) \in Nat
<1> DEFINE m  == FileMemory(ix, tail)
           h  == HeaderAt(ix, k)
           R  == ix[k]
           n  == Len(CompressGroups(R))
           lo == GroupsAt(ix, k)
           hi == GroupsEnd(ix, k)
<1>1. /\ Len(ix) \in Nat /\ ix = [j \in 1..Len(ix) |-> ix[j]]
      /\ \A j \in 1..Len(ix) : ix[j] \in SUBSET PostingRecord
  BY DEF ReadableIndex
<1>2. \A j \in 1..Len(ix) : Storable(ix[j])
  BY <1>1, ReadableIsStorable DEF ReadableIndex
<1>3. \A j \in 1..Len(ix) : TermBlock(ix[j]) \in Seq(Nat)
  BY <1>2, BlockBytes
<1>4. m \in Seq(Nat) /\ h \in Nat /\ h - 4 \in Nat /\ StoredAt(m, h - 4, TermBlock(R))
  <2>1. tail \in Seq(Nat)
    BY DEF ReadableIndex
  <2> QED BY <1>1, <1>3, <2>1, FileBlocks DEF FileMemory
<1>5. /\ n \in Nat /\ Len(TermBlock(R)) = n + 12
      /\ \A mm, a : StoredAt(mm, a, TermBlock(R)) =>
           /\ U32At(mm, a) = n + HeaderSize
           /\ U32At(mm, a + 4) = MaxPositions(R)
           /\ StoredAt(mm, a + 12, CompressGroups(R))
  <2>1. Storable(R)
    BY <1>2
  <2> HIDE DEF R
  <2> QED BY <2>1, BlockBytes
<1>6. h \in Nat
  BY <1>4
<1> HIDE DEF h
<1>7. lo = h + 8 /\ hi = lo + n /\ lo \in Nat /\ hi \in Nat
  BY <1>5, <1>6 DEF GroupsAt, GroupsEnd, HeaderSize, h
<1>8. (h - 4) + 4 = h /\ (h - 4) + 12 = lo
  <2> HIDE DEF lo
  <2> QED BY <1>6, <1>7
<1> HIDE DEF m, n, R, lo, hi
<1>9. StoredAt(m, lo, CompressGroups(R))
  BY <1>4, <1>5, <1>8
<1>10. \E L : LaidTerm(R, m, lo, hi, L)
  <2>1. Storable(R)
    BY <1>2 DEF R
  <2>2. PICK L : Layout(R, m, lo, hi, L)
    BY <1>4, <1>7, <1>9, <2>1, LayoutExists DEF n
  <2> QED BY <1>4, <1>7, <2>1, <2>2 DEF LaidTerm
<1>11. U32At(m, h - 4) = hi - lo + HeaderSize /\ U32At(m, h) = MaxPositions(R)
  <2>1. hi - lo = n
    BY <1>5, <1>7
  <2> QED BY <1>4, <1>5, <1>8, <2>1
<1>12. Quiet(m, hi)
  <2>1. \A i \in {1, 3, 5, 7} : At(m, (h - 4 + Len(TermBlock(R))) + i) = 0
    BY DEF ReadableIndex, EmptyBehind, FileMemory, m, h, R
  <2>2. h - 4 + Len(TermBlock(R)) = hi
    BY <1>5, <1>6, <1>7
  <2> QED BY <2>1, <2>2 DEF Quiet
<1>13. MaxPositions(R) \in Nat
  BY <1>2, PositionsBounded DEF R
<1> QED BY <1>6, <1>10, <1>11, <1>12, <1>13 DEF m, h, R, lo, hi

-----------------------------------------------------------------------------
(***************************************************************************)
(* The calls of a client, for a cursor somewhere in a term.                *)
(***************************************************************************)
\* The cursor c is on the posting of its id.
StandsOn(R, m, lo, hi, c) ==
    \E L : LaidTerm(R, m, lo, hi, L) /\ On(R, m, hi, L, c, c.id)

\* The call moved c to the first posting of A, or said that there is none.
Moves(R, m, lo, hi, c, A, r) ==
    /\ r \in Results /\ Same(c, r.t)
    /\ \/ /\ r.ok /\ StandsOn(R, m, lo, hi, r.t)
          /\ r.t.id \in A /\ \A z \in A : r.t.id <= z
          /\ r.t.id = c.id => r.t.value = c.value
       \/ ~r.ok /\ A = {} /\ r.t.id \in IdsOf(R) /\ c.id <= r.t.id

\* The same, said without the layout.
LEMMA ArrivesMoves ==
    ASSUME NEW R, NEW m, NEW lo, NEW hi, NEW L, LaidTerm(R, m, lo, hi, L),
           NEW c, NEW A, NEW r, Arrives(R, m, hi, L, c, c.id, A, r)
    PROVE  Moves(R, m, lo, hi, c, A, r)
<1>1. CASE ~r.ok
  BY <1>1 DEF Arrives, Moves
<1>2. CASE r.ok
  <2>1. PICK y \in A : /\ On(R, m, hi, L, r.t, y) /\ \A z \in A : y <= z
                       /\ y = c.id => r.t.value = c.value
    BY <1>2 DEF Arrives
  <2>2. y = r.t.id
    BY <2>1 DEF On
  <2>3. StandsOn(R, m, lo, hi, r.t)
    BY <2>1, <2>2 DEF StandsOn
  <2> QED BY <1>2, <2>1, <2>2, <2>3 DEF Arrives, Moves
<1> QED BY <1>1, <1>2

\* advance, from the second one on.
LEMMA AdvanceMoves ==
    ASSUME NEW R, NEW m, NEW lo, NEW hi, NEW c, StandsOn(R, m, lo, hi, c),
           Quiet(m, hi), ~c.fresh
    PROVE  Moves(R, m, lo, hi, c, IdsBehind(R, c.id), ImageAdvance(m, c))
<1>1. PICK L : LaidTerm(R, m, lo, hi, L) /\ On(R, m, hi, L, c, c.id)
  BY DEF StandsOn
<1>2. Arrives(R, m, hi, L, c, c.id, IdsBehind(R, c.id), ImageAdvance(m, c))
  BY <1>1, AdvanceArrives
<1> QED BY <1>1, <1>2, ArrivesMoves

\* advance_to.
LEMMA ToMoves ==
    ASSUME NEW R, NEW m, NEW lo, NEW hi, NEW c, StandsOn(R, m, lo, hi, c),
           Quiet(m, hi), NEW id \in Nat, id < IdLimit, Covers(R, c.id, id)
    PROVE  Moves(R, m, lo, hi, c, IdsFrom(R, c.id, id), ImageAdvanceTo(m, c, id))
<1>1. PICK L : LaidTerm(R, m, lo, hi, L) /\ On(R, m, hi, L, c, c.id)
  BY DEF StandsOn
<1>2. Arrives(R, m, hi, L, c, c.id, IdsFrom(R, c.id, id), ImageAdvanceTo(m, c, id))
  BY <1>1, ToArrives
<1> QED BY <1>1, <1>2, ArrivesMoves

\* What is known of a cursor on a posting.
LEMMA StandsFacts ==
    ASSUME NEW R, NEW m, NEW lo, NEW hi, NEW c, StandsOn(R, m, lo, hi, c)
    PROVE  /\ c \in Cursor /\ c.id \in IdsOf(R) /\ c.etp # 0
           /\ OnlyValue(RecordsOf(R, c.id)) \/ ValueFirst(RecordsOf(R, c.id))
                => c.value = RecordsOf(R, c.id)[1].value
           /\ Decoded(m, c) = PositionsOf(RecordsOf(R, c.id))
           /\ lo < c.wp /\ c.wp <= c.p /\ c.p <= c.ep /\ c.ep <= c.tp /\ c.tp <= hi
           /\ \A b \in BOOLEAN : StandsOn(R, m, lo, hi, [c EXCEPT !.fresh = b])
           /\ \A s \in Seq(Nat) : StandsOn(R, m, lo, hi, [c EXCEPT !.positions = s])
<1>1. PICK L : LaidTerm(R, m, lo, hi, L) /\ On(R, m, hi, L, c, c.id)
  BY DEF StandsOn
<1>2. c \in Cursor /\ c.id \in IdsOf(R) /\ c.etp = hi + 8 /\ hi \in Nat
  BY <1>1 DEF On, InSmall, LaidTerm
<1>3. HasRead(RecordsOf(R, c.id), m, c)
  BY <1>1 DEF On
<1>4. lo < c.wp /\ c.wp <= c.p /\ c.p <= c.ep /\ c.ep <= c.tp /\ c.tp <= hi
  BY <1>1, OnNested
<1>5. ASSUME NEW b \in BOOLEAN PROVE StandsOn(R, m, lo, hi, [c EXCEPT !.fresh = b])
  <2> DEFINE d == [c EXCEPT !.fresh = b]
  <2>1. On(R, m, hi, L, d, c.id)
    <3>1. <<>> \in Seq(Nat)
      OBVIOUS
    <3> QED BY <1>1, <3>1, StaysOn
  <2>2. d.id = c.id
    BY <1>2 DEF Cursor
  <2> HIDE DEF d
  <2>3. StandsOn(R, m, lo, hi, d)
    BY <1>1, <2>1, <2>2 DEF StandsOn
  <2> QED BY <2>3 DEF d
<1>6. ASSUME NEW s \in Seq(Nat) PROVE StandsOn(R, m, lo, hi, [c EXCEPT !.positions = s])
  <2> DEFINE d == [c EXCEPT !.positions = s]
  <2>1. On(R, m, hi, L, d, c.id)
    <3>1. TRUE \in BOOLEAN
      OBVIOUS
    <3> QED BY <1>1, <3>1, StaysOn
  <2>2. d.id = c.id
    BY <1>2 DEF Cursor
  <2> HIDE DEF d
  <2>3. StandsOn(R, m, lo, hi, d)
    BY <1>1, <2>1, <2>2 DEF StandsOn
  <2> QED BY <2>3 DEF d
<1>7. c.etp # 0
  BY <1>2
<1> QED BY <1>2, <1>3, <1>4, <1>5, <1>6, <1>7 DEF HasRead

\* The lookup of term k.
LEMMA LookupStands ==
    ASSUME NEW ix, NEW tail, ReadableIndex(ix, tail), NEW k \in 1..Len(ix)
    PROVE  LET c == FillTerm(FileMemory(ix, tail), HeaderAt(ix, k))
           IN  /\ StandsOn(ix[k], FileMemory(ix, tail), GroupsAt(ix, k), GroupsEnd(ix, k), c)
               /\ \A z \in IdsOf(ix[k]) : c.id <= z
               /\ c.fresh = TRUE /\ c.positions = <<>>
               /\ c.max_term_size = MaxPositions(ix[k])
               /\ \/ OnlyValue(RecordsOf(ix[k], c.id)) \/ ValueFirst(RecordsOf(ix[k], c.id))
                  \/ c.value = 0
<1> DEFINE m  == FileMemory(ix, tail)
           h  == HeaderAt(ix, k)
           R  == ix[k]
           lo == GroupsAt(ix, k)
           hi == GroupsEnd(ix, k)
           c  == FillTerm(m, h)
<1>1. /\ h \in Nat /\ U32At(m, h - 4) = hi - lo + HeaderSize
      /\ U32At(m, h) = MaxPositions(R) /\ MaxPositions(R) \in Nat
      /\ \E L : LaidTerm(R, m, lo, hi, L)
  BY TermInFile
<1>2. PICK L : LaidTerm(R, m, lo, hi, L)
  BY <1>1
<1>3. lo = h + HeaderSize
  BY DEF GroupsAt
<1> HIDE DEF m, h, R, lo, hi
<1>4. AtFirst(R, m, hi, L, U32At(m, h), c)
  <2>1. Heads(m, h, lo, hi)
    BY <1>1, <1>3 DEF Heads
  <2> QED BY <1>2, <2>1, FillTermOpens
<1> HIDE DEF c
<1>5. PICK y \in IdsOf(R) :
         /\ On(R, m, hi, L, c, y) /\ \A z \in IdsOf(R) : y <= z
         /\ c.fresh = TRUE /\ c.positions = <<>>
         /\ c.max_term_size = U32At(m, h)
         /\ \/ OnlyValue(RecordsOf(R, y)) \/ ValueFirst(RecordsOf(R, y))
            \/ c.value = 0
  BY <1>4 DEF AtFirst
<1>6. y = c.id
  BY <1>5 DEF On
<1>7. StandsOn(R, m, lo, hi, c)
  BY <1>2, <1>5, <1>6 DEF StandsOn
<1> QED BY <1>1, <1>5, <1>6, <1>7 DEF m, h, R, lo, hi, c
=============================================================================
