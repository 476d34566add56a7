----------------------- MODULE DocumentBuilderProofs -----------------------
(***************************************************************************)
(* Lemmas about documents.                                                 *)
(***************************************************************************)
EXTENDS DocumentBuilder, PostingFormatProofs

\* advance_document_id goes on behind the posting, whose positions do not
\* depend on the value that was there before.
LEMMA AdvanceFacts ==
    ASSUME NEW m \in Seq(Nat), NEW p \in Nat, NEW old \in Nat
    PROVE  LET a == AdvanceDocumentId(m, p, old)
               z == AdvanceDocumentId(m, p, 0)
           IN  /\ a.value \in Nat /\ a.first_base \in Nat
               /\ a.wp \in Nat /\ a.p \in Nat /\ a.wp <= a.p /\ p < a.p
               /\ a.p = z.p /\ a.wp = z.wp /\ a.first_base = z.first_base
<1> DEFINE flags  == At(m, p)
           value(o) == IF ~HasFlag(flags, POS_PRESENT)
                       THEN DecodeSingleValue(m, flags, p + 1)
                       ELSE IF HasFlag(flags, VALUE_PRESENT)
                       THEN DecodePositionValue(m, p + 1)
                       ELSE [value |-> o, next |-> p + 1]
           pos(o) == IF HasFlag(flags, POS_PRESENT)
                     THEN DecodeTermPositions(m, flags, value(o).next)
                     ELSE [base |-> 0, start |-> value(o).next, end |-> value(o).next]
<1>1. flags \in Nat
  BY ReadNat
<1> HIDE DEF flags
<1>2. ASSUME NEW o \in Nat
      PROVE  /\ value(o).value \in Nat /\ value(o).next \in Nat
             /\ p + 1 <= value(o).next /\ value(o).next = value(0).next
  <2>1. p + 1 \in Nat
    OBVIOUS
  <2> DEFINE one == DecodeSingleValue(m, flags, p + 1)
             two == DecodePositionValue(m, p + 1)
  <2>2. /\ one.value \in Nat /\ one.next \in Nat /\ p + 1 <= one.next
        /\ two.value \in Nat /\ two.next \in Nat /\ p + 1 <= two.next
    BY <1>1, <2>1, ValueNat
  <2> HIDE DEF one, two
  <2>3. \/ value(o) = one /\ value(0) = one
        \/ value(o) = two /\ value(0) = two
        \/ value(o) = [value |-> o, next |-> p + 1]
           /\ value(0) = [value |-> 0, next |-> p + 1]
    BY DEF one, two
  <2> HIDE DEF value
  <2>4. CASE value(o) = one /\ value(0) = one
    BY <2>2, <2>4
  <2>5. CASE value(o) = two /\ value(0) = two
    BY <2>2, <2>5
  <2>6. CASE /\ value(o) = [value |-> o, next |-> p + 1]
             /\ value(0) = [value |-> 0, next |-> p + 1]
    BY <2>1, <2>6
  <2> QED BY <2>3, <2>4, <2>5, <2>6
<1>3. ASSUME NEW o \in Nat
      PROVE  AdvanceDocumentId(m, p, o) =
               [value |-> value(o).value, first_base |-> pos(o).base,
                wp |-> pos(o).start, p |-> pos(o).end]
  BY DEF AdvanceDocumentId, flags
<1>4. pos(old) = pos(0)
  <2> HIDE DEF value
  <2> QED BY <1>2
<1>5. /\ pos(0).base \in Nat /\ pos(0).start \in Nat /\ pos(0).end \in Nat
      /\ pos(0).start <= pos(0).end /\ p < pos(0).end
  <2> DEFINE q == value(0).next
             d == DecodeTermPositions(m, flags, q)
  <2>1. q \in Nat /\ p + 1 <= q
    <3> HIDE DEF value
    <3> QED BY <1>2
  <2> HIDE DEF q
  <2>2. /\ d.base \in Nat /\ d.start \in Nat /\ d.end \in Nat
        /\ q <= d.start /\ d.start < d.end
    BY <1>1, <2>1, PositionsNat
  <2>3. pos(0) = IF HasFlag(flags, POS_PRESENT) THEN d
                 ELSE [base |-> 0, start |-> q, end |-> q]
    BY DEF q
  <2> HIDE DEF d, pos
  <2>4. CASE pos(0) = d
    BY <2>1, <2>2, <2>4
  <2>5. CASE pos(0) = [base |-> 0, start |-> q, end |-> q]
    BY <2>1, <2>5
  <2> QED BY <2>3, <2>4, <2>5
<1> HIDE DEF value, pos
<1>6. 0 \in Nat
  OBVIOUS
<1> DEFINE a == AdvanceDocumentId(m, p, old)
           z == AdvanceDocumentId(m, p, 0)
<1>7. /\ a.value = value(old).value /\ a.first_base = pos(0).base
      /\ a.wp = pos(0).start /\ a.p = pos(0).end
      /\ z.first_base = pos(0).base /\ z.wp = pos(0).start /\ z.p = pos(0).end
  BY <1>3, <1>4, <1>6
<1> HIDE DEF a, z
<1>8. /\ a.value \in Nat /\ a.first_base \in Nat
      /\ a.wp \in Nat /\ a.p \in Nat /\ a.wp <= a.p /\ p < a.p
      /\ a.p = z.p /\ a.wp = z.wp /\ a.first_base = z.first_base
  BY <1>2, <1>5, <1>7
<1> QED BY <1>8 DEF a, z

\* So does sil_skip_id.
LEMMA SkipFacts ==
    ASSUME NEW m \in Seq(Nat), NEW p \in Nat
    PROVE  SkipId(m, p) \in Nat /\ p < SkipId(m, p)
<1> DEFINE flags == At(m, p)
           first == At(m, p + 1)
           q     == p + 1 + (IF ~HasFlag(flags, VALUE_PRESENT) THEN 0
                             ELSE IF first < POS_VALUE_2BYTE THEN 1
                             ELSE IF first < POS_VALUE_4BYTE THEN 3 ELSE 5)
           long  == DecodeHighBit(m, q)
           size  == (flags \div 4) % 4
           k     == CASE flags < VALUE_1BYTE -> 0 [] flags = VALUE_1BYTE -> 1
                      [] flags = VALUE_2BYTE -> 2 [] OTHER -> 4
<1>1. flags \in Nat
  BY ReadNat
<1>2. q \in Nat /\ p < q
  <2> HIDE DEF flags, first
  <2> QED OBVIOUS
<1>3. long.value \in Nat /\ long.next \in Nat /\ q < long.next
  <2> HIDE DEF q
  <2> QED BY <1>2, HighBitNat
<1>4. size \in Nat
  <2> HIDE DEF flags
  <2>1. flags \div 4 \in Nat
    BY SMT, <1>1
  <2> QED BY SMT, <2>1
<1>5. k \in Nat
  <2> HIDE DEF flags
  <2> QED BY <1>1 DEF VALUE_1BYTE, VALUE_2BYTE
<1>6. SkipId(m, p) = IF ~HasFlag(flags, POS_PRESENT) THEN p + 1 + k
                     ELSE IF size < 3 THEN q + size + 1 ELSE long.next + long.value + 1
  BY DEF SkipId
<1> HIDE DEF flags, q, long, size, k
<1> QED BY <1>2, <1>3, <1>4, <1>5, <1>6

\* What the merge makes of the bytes from p to end and the keys from i on.
IsMerging(m, end, keys, F) ==
    \A p, i \in Nat :
        F[<<p, i>>] = IF p >= end \/ i > Len(keys) THEN {}
                      ELSE IF keys[i] < At(m, p) THEN F[<<p, i + 1>>]
                      ELSE IF keys[i] = At(m, p)
                      THEN {<<i, p + 2>>}
                           \cup F[<<AdvanceDocumentId(m, p + 2, 0).p, i + 1>>]
                      ELSE F[<<SkipId(m, p + 2), i>>]

\* The merge ends, whatever the bytes are, with places in the memory.
LEMMA MergeCalls ==
    ASSUME NEW m \in Seq(Nat), NEW image, image.terms \in Nat, image.content \in Nat,
           NEW keys \in Seq(Nat)
    PROVE  \E F : /\ IsMerging(m, image.content, keys, F)
                  /\ Merge(m, image, keys) = F[<<image.terms, 1>>]
                  /\ Merge(m, image, keys) \in SUBSET (Nat \X Nat)
<1> DEFINE D    == Nat \X Nat
           V    == SUBSET (Nat \X Nat)
           left(x, y) == IF x >= y THEN 0 ELSE y - x
           after(p) == AdvanceDocumentId(m, p + 2, 0).p
           over(p)  == SkipId(m, p + 2)
           mu   == [s \in D |-> left(s[1], image.content) + left(s[2], Len(keys) + 1)]
           stop == {s \in D : s[1] >= image.content \/ s[2] > Len(keys)}
           next(s) == IF keys[s[2]] < At(m, s[1]) THEN <<s[1], s[2] + 1>>
                      ELSE IF keys[s[2]] = At(m, s[1]) THEN <<after(s[1]), s[2] + 1>>
                      ELSE <<over(s[1]), s[2]>>
           here(s) == IF keys[s[2]] < At(m, s[1]) THEN {}
                      ELSE IF keys[s[2]] = At(m, s[1]) THEN {<<s[2], s[1] + 2>>} ELSE {}
           step == [s \in D |-> IF s \in stop THEN s ELSE next(s)]
           base == [s \in D |-> {}]
           g    == [x \in D \X V |-> IF x[1] \in stop THEN {} ELSE here(x[1]) \cup x[2]]
           body(f) == [s \in D |->
              LET p == s[1]
                  i == s[2]
              IN  IF p >= image.content \/ i > Len(keys) THEN {}
                  ELSE IF keys[i] < At(m, p) THEN f[<<p, i + 1>>]
                  ELSE IF keys[i] = At(m, p)
                  THEN {<<i, p + 2>>}
                       \cup f[<<AdvanceDocumentId(m, p + 2, 0).p, i + 1>>]
                  ELSE f[<<SkipId(m, p + 2), i>>]]
           F    == CHOOSE f : f = body(f)
<1>1. ASSUME NEW s \in D
      PROVE  /\ s[1] \in Nat /\ s[2] \in Nat /\ s = <<s[1], s[2]>>
             /\ after(s[1]) \in Nat /\ s[1] < after(s[1])
             /\ over(s[1]) \in Nat /\ s[1] < over(s[1])
  <2>1. s[1] \in Nat /\ s[2] \in Nat /\ s = <<s[1], s[2]>>
    OBVIOUS
  <2> DEFINE q == s[1] + 2
  <2>2. after(s[1]) = AdvanceDocumentId(m, q, 0).p /\ over(s[1]) = SkipId(m, q)
        /\ q \in Nat /\ 0 \in Nat /\ s[1] < q
    BY <2>1
  <2> HIDE DEF q, after, over
  <2>3. after(s[1]) \in Nat /\ q < after(s[1])
    BY <2>2, AdvanceFacts
  <2>4. over(s[1]) \in Nat /\ q < over(s[1])
    BY <2>2, SkipFacts
  <2> QED BY <2>1, <2>2, <2>3, <2>4
<1> HIDE DEF after, over
<1>2. \A x, y \in Int : left(x, y) \in Nat
  OBVIOUS
<1>3. \A x, y, z \in Int : x < y /\ x < z => left(z, y) < left(x, y)
  OBVIOUS
<1>4. Len(keys) \in Nat
  OBVIOUS
<1>5. ASSUME NEW s \in D, s \notin stop
      PROVE  /\ next(s) \in D /\ here(s) \in V
             /\ mu[next(s)] < mu[s]
  <2>1. s[1] < image.content /\ s[2] <= Len(keys) /\ s[2] < Len(keys) + 1
    BY <1>1, <1>4, <1>5
  <2>2. next(s) \in D
    BY <1>1
  <2>3. here(s) \in V
    BY <1>1
  <2>4. mu[next(s)] < mu[s]
    <3> DEFINE x == left(s[1], image.content)
               y == left(s[2], Len(keys) + 1)
               y1 == left(s[2] + 1, Len(keys) + 1)
               xa == left(after(s[1]), image.content)
               xo == left(over(s[1]), image.content)
    <3>1. x \in Nat /\ y \in Nat /\ y1 \in Nat /\ xa \in Nat /\ xo \in Nat
          /\ y1 < y /\ xa < x /\ xo < x
      <4>1. /\ s[1] \in Int /\ s[2] \in Int /\ s[2] + 1 \in Int
            /\ after(s[1]) \in Int /\ over(s[1]) \in Int /\ image.content \in Int
            /\ Len(keys) + 1 \in Int /\ s[2] < s[2] + 1
        BY <1>1, <1>4
      <4> HIDE DEF left
      <4> QED BY <1>1, <1>2, <1>3, <2>1, <4>1
    <3>2. mu[s] = x + y
      OBVIOUS
    <3>3. \/ mu[next(s)] = x + y1
          \/ mu[next(s)] = xa + y1
          \/ mu[next(s)] = xo + y
      <4> HIDE DEF left
      <4>1. CASE next(s) = <<s[1], s[2] + 1>>
        <5> HIDE DEF next
        <5> QED BY <2>2, <4>1
      <4>2. CASE next(s) = <<after(s[1]), s[2] + 1>>
        <5> HIDE DEF next
        <5> QED BY <2>2, <4>2
      <4>3. CASE next(s) = <<over(s[1]), s[2]>>
        <5> HIDE DEF next
        <5> QED BY <2>2, <4>3
      <4> QED BY <4>1, <4>2, <4>3
    <3> HIDE DEF x, y, y1, xa, xo, mu, next
    <3> QED BY <3>1, <3>2, <3>3
  <2> QED BY <2>2, <2>3, <2>4
<1>6. Descends(D, V, mu, step, stop, base, g)
  <2>1. mu \in [D -> Nat]
    <3> HIDE DEF left
    <3>1. ASSUME NEW s \in D
          PROVE  left(s[1], image.content) \in Nat /\ left(s[2], Len(keys) + 1) \in Nat
      <4>1. s[1] \in Int /\ s[2] \in Int /\ image.content \in Int /\ Len(keys) + 1 \in Int
        BY <1>1, <1>4
      <4> HIDE DEF mu
      <4> QED BY <1>2, <4>1
    <3> QED BY <3>1
  <2>2. stop \in SUBSET D /\ base \in [D -> V]
    OBVIOUS
  <2>3. step \in [D -> D]
    <3> HIDE DEF next, stop, mu
    <3> QED BY <1>5
  <2>4. g \in [D \X V -> V]
    <3>1. ASSUME NEW x \in D \X V
          PROVE  (IF x[1] \in stop THEN {} ELSE here(x[1]) \cup x[2]) \in V
      <4>1. x[1] \in D /\ x[2] \in V
        OBVIOUS
      <4> HIDE DEF stop, here, next, mu, D
      <4> QED BY <1>5, <4>1
    <3> HIDE DEF stop, here, D, V
    <3> QED BY <3>1
  <2>5. \A s \in D \ stop : mu[step[s]] < mu[s]
    <3> HIDE DEF stop, next, mu
    <3> QED BY <1>5
  <2> HIDE DEF D, V, mu, step, stop, base, g
  <2> QED BY <2>1, <2>2, <2>3, <2>4, <2>5 DEF Descends
<1>7. PICK f \in [D -> V] : \A s \in D :
         f[s] = IF s \in stop THEN base[s] ELSE g[<<s, f[step[s]]>>]
  <2> HIDE DEF D, V, mu, step, stop, base, g
  <2> QED BY <1>6, DescendingFunction
<1>8. ASSUME NEW s \in D
      PROVE  f[s] = IF s \in stop THEN {} ELSE here(s) \cup f[next(s)]
  <2>1. CASE s \in stop
    BY <1>7, <2>1
  <2>2. CASE s \notin stop
    <3>1. step[s] = next(s) /\ next(s) \in D
      <4> HIDE DEF stop, next, mu
      <4> QED BY <1>5, <2>2
    <3>2. f[next(s)] \in V
      <4> HIDE DEF V, next
      <4> QED BY <1>7, <3>1
    <3>3. g[<<s, f[next(s)]>>] = here(s) \cup f[next(s)]
      <4> DEFINE w == f[next(s)]
                 x == <<s, w>>
      <4>1. x \in D \X V /\ x[1] = s /\ x[2] = w
        <5> HIDE DEF D, V, next
        <5> QED BY <3>2
      <4> HIDE DEF x, w, V, stop, here, D
      <4>2. g[x] = here(s) \cup w
        BY <2>2, <4>1
      <4> QED BY <4>2 DEF x, w
    <3> HIDE DEF step, stop, base, g, D, next, here
    <3> QED BY <1>7, <2>2, <3>1, <3>3
  <2> QED BY <2>1, <2>2
<1>9. f = body(f)
  <2>1. ASSUME NEW s \in D PROVE f[s] = body(f)[s]
    <3>1. CASE s \in stop
      BY <1>8, <3>1
    <3>2. CASE s \notin stop
      <4>0. f[s] = here(s) \cup f[next(s)]
        <5> HIDE DEF here, next, stop
        <5> QED BY <1>8, <3>2
      <4>1. ~(s[1] >= image.content \/ s[2] > Len(keys))
        BY <3>2
      <4> HIDE DEF stop
      <4>2. CASE keys[s[2]] < At(m, s[1])
        BY <4>0, <4>1, <4>2
      <4>3. CASE ~(keys[s[2]] < At(m, s[1])) /\ keys[s[2]] = At(m, s[1])
        BY <4>0, <4>1, <4>3 DEF after
      <4>4. CASE ~(keys[s[2]] < At(m, s[1])) /\ keys[s[2]] # At(m, s[1])
        BY <4>0, <4>1, <4>4 DEF over
      <4> QED BY <4>2, <4>3, <4>4
    <3> QED BY <3>1, <3>2
  <2> HIDE DEF D, V
  <2> QED BY <1>7, <2>1
<1>10. F = body(F)
  <2> HIDE DEF body
  <2> QED BY <1>9
<1>11. Merge(m, image, keys) = F[<<image.terms, 1>>]
  BY DEF Merge
<1> HIDE DEF F
<1>12. ASSUME NEW s \in D
       PROVE  F[s] = IF s \in stop THEN {} ELSE here(s) \cup F[next(s)]
  <2>1. F[s] = body(F)[s]
    <3> HIDE DEF body
    <3> QED BY <1>10
  <2>2. CASE s \in stop
    BY <2>1, <2>2
  <2>3. CASE s \notin stop
    <3>1. ~(s[1] >= image.content \/ s[2] > Len(keys))
      BY <2>3
    <3> HIDE DEF stop
    <3>2. F[s] = here(s) \cup F[next(s)]
      <4>0. F[s] = body(F)[s]
        BY <2>1
      <4>1. ~(s[1] >= image.content \/ s[2] > Len(keys))
        BY <3>1
      <4>2. CASE keys[s[2]] < At(m, s[1])
        BY <4>0, <4>1, <4>2
      <4>3. CASE ~(keys[s[2]] < At(m, s[1])) /\ keys[s[2]] = At(m, s[1])
        BY <4>0, <4>1, <4>3 DEF after
      <4>4. CASE ~(keys[s[2]] < At(m, s[1])) /\ keys[s[2]] # At(m, s[1])
        BY <4>0, <4>1, <4>4 DEF over
      <4> QED BY <4>2, <4>3, <4>4
    <3> QED BY <2>3, <3>2
  <2> QED BY <2>2, <2>3
<1> DEFINE Good == {s \in D : F[s] \in V}
<1>13. Good = D
  <2>1. mu \in [D -> Nat]
    BY <1>6 DEF Descends
  <2>2. ASSUME NEW s \in D, \A t \in D : mu[t] < mu[s] => t \in Good
        PROVE  F[s] \in V
    <3>1. CASE s \in stop
      <4>1. F[s] = {}
        <5> HIDE DEF stop, here, next
        <5> QED BY <1>12, <3>1
      <4> QED BY <4>1
    <3>2. CASE s \notin stop
      <4> HIDE DEF stop, here, next, mu, V, D
      <4>1. F[s] = here(s) \cup F[next(s)]
        BY <1>12, <3>2
      <4>2. here(s) \in V /\ F[next(s)] \in V
        BY <1>5, <2>2, <3>2
      <4> QED BY <4>1, <4>2 DEF V
    <3> QED BY <3>1, <3>2
  <2>3. Inductive(D, mu, Good)
    <3> HIDE DEF D, mu, V
    <3> QED BY <2>1, <2>2 DEF Inductive
  <2> HIDE DEF Good, mu, D
  <2> QED BY <2>3, DescentInduction
<1>14. <<image.terms, 1>> \in D
  OBVIOUS
<1> HIDE DEF D, V
<1>15. F[<<image.terms, 1>>] \in V
  BY <1>13, <1>14
<1>16. IsMerging(m, image.content, keys, F)
  <2> SUFFICES ASSUME NEW p \in Nat, NEW i \in Nat
               PROVE  F[<<p, i>>] =
                        IF p >= image.content \/ i > Len(keys) THEN {}
                        ELSE IF keys[i] < At(m, p) THEN F[<<p, i + 1>>]
                        ELSE IF keys[i] = At(m, p)
                        THEN {<<i, p + 2>>}
                             \cup F[<<AdvanceDocumentId(m, p + 2, 0).p, i + 1>>]
                        ELSE F[<<SkipId(m, p + 2), i>>]
    BY DEF IsMerging
  <2> DEFINE s == <<p, i>>
  <2>1. s \in D /\ s[1] = p /\ s[2] = i
    BY DEF D
  <2>2. F[s] = body(F)[s]
    <3> HIDE DEF body
    <3> QED BY <1>10
  <2> HIDE DEF s
  <2>3. body(F)[s] = IF s[1] >= image.content \/ s[2] > Len(keys) THEN {}
                     ELSE IF keys[s[2]] < At(m, s[1]) THEN F[<<s[1], s[2] + 1>>]
                     ELSE IF keys[s[2]] = At(m, s[1])
                     THEN {<<s[2], s[1] + 2>>}
                          \cup F[<<AdvanceDocumentId(m, s[1] + 2, 0).p, s[2] + 1>>]
                     ELSE F[<<SkipId(m, s[1] + 2), s[2]>>]
    BY <2>1
  <2> HIDE DEF body
  <2> QED BY <2>1, <2>2, <2>3 DEF s
<1> QED BY <1>11, <1>15, <1>16 DEF V

\* The merge finds terms of the query, with places in the memory.
LEMMA MergeFacts ==
    ASSUME NEW m \in Seq(Nat), NEW image, image.terms \in Nat, image.content \in Nat,
           NEW keys \in Seq(Nat)
    PROVE  Merge(m, image, keys) \in SUBSET (Nat \X Nat)
BY MergeCalls
-----------------------------------------------------------------------------
(***************************************************************************)
(* A serialized document is bytes.                                         *)
(***************************************************************************)
\* The records of the builder.
LEMMA RecordFacts ==
    /\ \A letter \in 1..255 : Lower(letter) \in 1..255
    /\ \A r \in Record : r.term \in 1..255 /\ r.position \in Nat /\ r.value \in Nat
<1>1. ASSUME NEW letter \in 1..255 PROVE Lower(letter) \in 1..255
  BY DEF Lower
<1>2. ASSUME NEW r \in Record
      PROVE  r.term \in 1..255 /\ r.position \in Nat /\ r.value \in Nat
  <2>1. PICK l \in Letters : r.term = Lower(l)
    BY DEF Record
  <2>2. l \in 1..255 /\ Positions \cup {0} \subseteq Nat /\ Values \cup {0} \subseteq Nat
    BY DocumentBuilderAssumption
  <2> QED BY <1>1, <2>1, <2>2 DEF Record
<1> QED BY <1>1, <1>2

\* The indexes of a finite sequence that some of them have in common.
LEMMA IndexSets ==
    ASSUME NEW n \in Nat, NEW I \in SUBSET (1..n)
    PROVE  I \in SUBSET Nat /\ IsFiniteSet(I) /\ Cardinality(I) \in 0..n
<1>1. IsFiniteSet(1..n) /\ Cardinality(1..n) = n
  BY FS_Interval
<1>2. IsFiniteSet(I) /\ Cardinality(I) <= n
  BY <1>1, FS_Subset
<1>3. Cardinality(I) \in Nat
  BY <1>2, FS_CardinalityType
<1> QED BY <1>2, <1>3

\* The records of a term, of which there is one at least.
LEMMA RecordsWithFacts ==
    ASSUME NEW d, d.records \in Seq(Record), NEW i \in 1..Len(d.records)
    PROVE  LET rs == RecordsWith(d, d.records[i].term)
           IN  rs \in Seq(Record) /\ rs # <<>>
<1> DEFINE n      == Len(d.records)
           term   == d.records[i].term
           I      == {k \in 1..n : d.records[k].term = term}
           places == Ascending(I)
           c      == Cardinality(I)
<1>1. n \in Nat /\ i \in I
  OBVIOUS
<1>2. I \in SUBSET Nat /\ IsFiniteSet(I) /\ c \in Nat
  BY <1>1, IndexSets
<1>3. c # 0
  <2> HIDE DEF I
  <2> QED BY <1>1, <1>2, FS_EmptySet
<1>4. places \in [1..c -> I]
  <2> HIDE DEF I, c
  <2> QED BY <1>2, AscendingFacts DEF c
<1>5. RecordsWith(d, term) = [k \in 1..Len(places) |-> d.records[places[k]]]
  BY DEF RecordsWith
<1>6. Len(places) = c
  <2> HIDE DEF I, c, places
  <2> QED BY <1>2, <1>4
<1>7. ASSUME NEW k \in 1..c PROVE d.records[places[k]] \in Record
  <2>1. places[k] \in I
    <3> HIDE DEF I, c, places
    <3> QED BY <1>4
  <2> DEFINE j == places[k]
  <2>2. j \in 1..n
    <3> HIDE DEF places, c
    <3> QED BY <2>1
  <2> HIDE DEF j
  <2>3. d.records[j] \in Record
    BY <2>2
  <2> QED BY <2>3 DEF j
<1> HIDE DEF places, c, I, n
<1>8. RecordsWith(d, term) \in Seq(Record) /\ Len(RecordsWith(d, term)) = c
  BY <1>2, <1>5, <1>6, <1>7
<1> QED BY <1>3, <1>8

\* The terms of a document.
LEMMA TermsFacts ==
    ASSUME NEW d, d.records \in Seq(Record)
    PROVE  /\ Len(TermsOf(d)) \in Nat
           /\ \A k \in 1..Len(TermsOf(d)) :
                 \E i \in 1..Len(d.records) : TermsOf(d)[k] = d.records[i].term
<1> DEFINE n == Len(d.records)
           T == {d.records[i].term : i \in 1..n}
<1>1. n \in Nat /\ \A i \in 1..n : d.records[i] \in Record
  OBVIOUS
<1>2. T \in SUBSET (1..255)
  BY <1>1, RecordFacts
<1>3. T \in SUBSET Nat /\ IsFiniteSet(T)
  <2> HIDE DEF T
  <2>1. 255 \in Nat
    OBVIOUS
  <2> QED BY <1>2, <2>1, IndexSets
<1>4. TermsOf(d) = Ascending(T)
  BY DEF TermsOf
<1>5. Cardinality(T) \in Nat /\ Ascending(T) \in [1..Cardinality(T) -> T]
  <2> HIDE DEF T
  <2> QED BY <1>3, AscendingFacts
<1>6. \A x \in T : \E i \in 1..n : x = d.records[i].term
  OBVIOUS
<1> HIDE DEF T, n
<1>7. Len(Ascending(T)) = Cardinality(T)
  BY <1>5
<1> QED BY <1>4, <1>5, <1>6, <1>7 DEF n

\* The terms and their postings are bytes.
LEMMA TermAreaBytes ==
    ASSUME NEW d, d.records \in Seq(Record)
    PROVE  TermArea(d) \in Seq(Nat)
<1> DEFINE n  == Len(TermsOf(d))
           ss == [k \in 1..n |-> CompressTerm(d, TermsOf(d)[k])]
<1>1. ASSUME NEW k \in 1..n PROVE CompressTerm(d, TermsOf(d)[k]) \in Seq(Nat)
  <2> DEFINE term == TermsOf(d)[k]
  <2>1. PICK i \in 1..Len(d.records) : term = d.records[i].term
    BY TermsFacts
  <2> HIDE DEF term
  <2>2. term \in Nat
    <3>1. d.records[i] \in Record
      OBVIOUS
    <3>2. 1..255 \subseteq Nat
      OBVIOUS
    <3> QED BY <2>1, <3>1, <3>2, RecordFacts
  <2> DEFINE rs == RecordsWith(d, term)
             c  == EncodePosting(rs)
  <2>3. rs \in Seq(Record) /\ rs # <<>>
    BY <2>1, RecordsWithFacts
  <2>4. c.flags \in Nat /\ c.payload \in Seq(Nat)
    <3> HIDE DEF rs
    <3> QED BY <2>3, RecordFacts, PostingBytes
  <2>5. CompressTerm(d, term) = <<term, 0, c.flags>> \o c.payload
    BY DEF CompressTerm
  <2> HIDE DEF c
  <2>6. CompressTerm(d, term) \in Seq(Nat)
    BY <2>2, <2>4, <2>5
  <2> QED BY <2>6 DEF term
<1>2. ss \in Seq(Seq(Nat))
  BY <1>1, TermsFacts
<1>3. Concatenated(ss) \in Seq(Nat)
  <2> HIDE DEF ss
  <2> QED BY <1>2, FlattenLayout DEF Concatenated
<1>4. TermArea(d) = Concatenated(ss)
  BY DEF TermArea, Concatenated
<1> QED BY <1>3, <1>4

\* What the client gives is bytes here.
LEMMA CellsBytes ==
    ASSUME NEW n \in Nat
    PROVE  Cells(n) \in Seq(Nat)
<1>1. \A i \in 1..n : i % 256 \in Nat
  OBVIOUS
<1> QED BY <1>1 DEF Cells

\* A document as it is given to sil_document_builder_global.
GivenDocument == [records : Seq(Record), document_length : Nat, data_length : Nat,
                  content_length : ContentLengths, num_embeddings : EmbeddingCounts]

\* The header and the parts in front of the padding are bytes and cells.
LEMMA BodyBytes ==
    ASSUME NEW d \in GivenDocument
    PROVE  Body(d) \in Seq(Nat) /\ Len(Body(d)) \in Nat
<1>1. /\ d.records \in Seq(Record) /\ d.document_length \in Nat
      /\ d.data_length \in Nat /\ d.content_length \in Nat /\ d.num_embeddings \in Nat
  BY DocumentBuilderAssumption DEF GivenDocument
<1>2. TermArea(d) \in Seq(Nat) /\ Len(TermArea(d)) \in Nat
  BY <1>1, TermAreaBytes
<1>3. /\ Cells(d.data_length) \in Seq(Nat) /\ Cells(d.content_length) \in Seq(Nat)
  BY <1>1, CellsBytes
<1>4. Len(d.records) \in Nat
  BY <1>1
<1>5. /\ U32(d.document_length) \in Seq(Nat) /\ U32(Len(TermArea(d))) \in Seq(Nat)
      /\ U32(d.data_length) \in Seq(Nat) /\ U32(d.content_length) \in Seq(Nat)
      /\ U32(d.num_embeddings) \in Seq(Nat) /\ U32(Len(d.records)) \in Seq(Nat)
  <2>1. \A v \in Nat : U32(v) \in Seq(Nat)
    BY MachineIntegers
  <2> QED BY <1>1, <1>2, <1>4, <2>1
<1>6. Body(d) = U32(d.document_length) \o U32(Len(TermArea(d))) \o U32(d.data_length)
                \o U32(d.content_length) \o U32(d.num_embeddings)
                \o U32(Len(d.records))
                \o Cells(d.data_length) \o TermArea(d) \o Cells(d.content_length)
  BY DEF Body, HeaderOf
<1>7. \A s, t \in Seq(Nat) : s \o t \in Seq(Nat)
  OBVIOUS
<1>8. Body(d) \in Seq(Nat)
  BY <1>2, <1>3, <1>5, <1>6, <1>7
<1> QED BY <1>8

\* What the builder writes for a document is a sequence of bytes and cells.
LEMMA BlobBytes ==
    ASSUME NEW d \in GivenDocument
    PROVE  Blob(d) \in Seq(Nat)
<1>1. d.num_embeddings \in Nat
  BY DocumentBuilderAssumption DEF GivenDocument
<1>3. Body(d) \in Seq(Nat) /\ Len(Body(d)) \in Nat
  BY BodyBytes
<1>4. Padding(d) \in Seq(Nat)
  <2> DEFINE used == PrefixSize + Len(Body(d))
             k    == AlignUp(used) - used
  <2>1. used \in Nat
    BY <1>3 DEF PrefixSize
  <2>2. k \in Nat
    <3> HIDE DEF used
    <3> QED BY SMT, <2>1 DEF AlignUp
  <2>3. Padding(d) = [i \in 1..k |-> 0]
    BY DEF Padding
  <2> HIDE DEF k
  <2> QED BY <2>2, <2>3
<1>5. Cells(EmbeddingBytes * d.num_embeddings) \in Seq(Nat)
  <2>1. EmbeddingBytes * d.num_embeddings \in Nat
    BY <1>1, DocumentFormatAssumption
  <2> QED BY <2>1, CellsBytes
<1> DEFINE document == Body(d) \o Padding(d) \o Cells(EmbeddingBytes * d.num_embeddings)
<1>6. document \in Seq(Nat)
  BY <1>3, <1>4, <1>5
<1>7. Blob(d) = U32(Len(document)) \o document
  BY DEF Blob
<1> HIDE DEF document
<1>8. U32(Len(document)) \in Seq(Nat)
  BY <1>6, MachineIntegers
<1> QED BY <1>6, <1>7, <1>8

\* An image of such a document is where the memory says.
LEMMA ImageFacts ==
    ASSUME NEW m \in Seq(Nat)
    PROVE  /\ Image(m, DocumentAt).terms \in Nat
           /\ Image(m, DocumentAt).content \in Nat
<1> DEFINE at == DocumentAt
           p2 == at + 4
           p3 == at + 8
           w2 == U32At(m, p2)
           w3 == U32At(m, p3)
<1>1. at \in Nat
  BY DocumentBuilderAssumption
<1>2. p2 \in Nat /\ p3 \in Nat
  BY <1>1
<1>3. w2 \in Nat /\ w3 \in Nat
  <2> HIDE DEF p2, p3
  <2> QED BY <1>2, ReadNat
<1>4. at + 4 * (2 - 1) = p2 /\ at + 4 * (3 - 1) = p3
  BY <1>1
<1>5. /\ Image(m, at).terms = at + 24 + w3
      /\ Image(m, at).content = at + 24 + w3 + w2
  <2> HIDE DEF at, p2, p3
  <2> QED BY <1>4 DEF Image, DocumentHeader
<1> HIDE DEF w2, w3, p2, p3, at
<1>6. at + 24 + w3 \in Nat /\ at + 24 + w3 + w2 \in Nat
  BY <1>1, <1>3
<1> QED BY <1>5, <1>6 DEF at
\* sil_skip_id goes over exactly the bytes that advance_document_id reads,
\* whatever they are.
LEMMA SkipIsAdvance ==
    ASSUME NEW m \in Seq(Nat), NEW p \in Nat, NEW old
    PROVE  SkipId(m, p) = AdvanceDocumentId(m, p, old).p
<1> DEFINE flags  == At(m, p)
           first  == At(m, p + 1)
           k      == CASE flags < VALUE_1BYTE -> 0 [] flags = VALUE_1BYTE -> 1
                       [] flags = VALUE_2BYTE -> 2 [] OTHER -> 4
           j      == IF ~HasFlag(flags, VALUE_PRESENT) THEN 0
                     ELSE IF first < POS_VALUE_2BYTE THEN 1
                     ELSE IF first < POS_VALUE_4BYTE THEN 3 ELSE 5
           q      == p + 1 + j
           size   == (flags \div 4) % 4
           long(x) == DecodeHighBit(m, x)
           single == DecodeSingleValue(m, flags, p + 1)
           both   == DecodePositionValue(m, p + 1)
           value  == IF ~HasFlag(flags, POS_PRESENT) THEN single
                     ELSE IF HasFlag(flags, VALUE_PRESENT) THEN both
                     ELSE [value |-> old, next |-> p + 1]
           pos(x) == DecodeTermPositions(m, flags, x)
<1>1. flags \in Nat /\ first \in Nat
  <2>1. p \in Nat /\ p + 1 \in Nat
    OBVIOUS
  <2> QED BY <2>1, ReadNat
<1>2. single.next = p + 1 + k
  <2> HIDE DEF flags
  <2> QED BY <1>1 DEF DecodeSingleValue, VALUE_1BYTE, VALUE_2BYTE
<1>3. both.next = p + 1 + (IF first < POS_VALUE_2BYTE THEN 1
                           ELSE IF first < POS_VALUE_4BYTE THEN 3 ELSE 5)
  <2>1. both = IF first < POS_VALUE_2BYTE THEN [value |-> first, next |-> p + 1 + 1]
               ELSE IF first < POS_VALUE_4BYTE
                    THEN [value |-> U16At(m, p + 1 + 1), next |-> p + 1 + 3]
               ELSE [value |-> U32At(m, p + 1 + 1), next |-> p + 1 + 5]
    BY DEF DecodePositionValue
  <2> HIDE DEF first, both
  <2> QED BY <2>1
<1>4. ASSUME NEW x
      PROVE  pos(x).end = IF size < 3 THEN x + size + 1 ELSE long(x).next + long(x).value + 1
  BY DEF DecodeTermPositions
<1>5. AdvanceDocumentId(m, p, old).p = IF HasFlag(flags, POS_PRESENT)
                                       THEN pos(value.next).end ELSE value.next
  BY DEF AdvanceDocumentId
<1>6. SkipId(m, p) = IF ~HasFlag(flags, POS_PRESENT) THEN p + 1 + k
                     ELSE IF size < 3 THEN q + size + 1
                     ELSE long(q).next + long(q).value + 1
  BY DEF SkipId
<1> HIDE DEF flags, first, k, size, long, single, both, pos
<1>7. CASE ~HasFlag(flags, POS_PRESENT)
  BY <1>2, <1>5, <1>6, <1>7
<1>8. CASE HasFlag(flags, POS_PRESENT)
  <2>1. value.next = q
    <3>1. p + 1 = p + 1 + 0
      OBVIOUS
    <3> QED BY <1>3, <1>8, <3>1
  <2> HIDE DEF value, q
  <2> QED BY <1>4, <1>5, <1>6, <1>8, <2>1
<1> QED BY <1>7, <1>8

-----------------------------------------------------------------------------
(***************************************************************************)
(* One posting of a document.                                              *)
(***************************************************************************)
\* A posting as it lies behind the name of its term.
DocumentPosting(recs) == <<EncodePosting(recs).flags>> \o EncodePosting(recs).payload

\* What advance_document_id makes of it.
DocumentDecoding(recs, m, a, old, end) ==
    /\ a.p = end
    /\ a.value = IF OnlyValue(recs) \/ ValueFirst(recs) THEN recs[1].value ELSE old
    /\ OnlyValue(recs) => a.wp = end
    /\ ~OnlyValue(recs) =>
          LET ps == PositionsOf(recs)
          IN  /\ a.first_base = FirstBase(ps[1])
              /\ a.wp + Len(EncodeTermPositions(ps)) = end
              /\ StoredAt(m, a.wp, EncodeTermPositions(ps))

\* The posting of a document is read back as it was written.
LEMMA DocumentPostingBack ==
    ASSUME NEW recs, NarrowPosting(recs), NEW m, NEW p, NEW old,
           StoredAt(m, p, DocumentPosting(recs))
    PROVE  /\ Len(DocumentPosting(recs)) \in Nat \ {0}
           /\ DocumentDecoding(recs, m, AdvanceDocumentId(m, p, old), old,
                               p + Len(DocumentPosting(recs)))
<1> DEFINE c     == EncodePosting(recs)
           f     == c.flags
           pay   == c.payload
           a     == AdvanceDocumentId(m, p, old)
           q     == p + 1
           end   == p + Len(DocumentPosting(recs))
           value == IF ~HasFlag(f, POS_PRESENT)
                    THEN DecodeSingleValue(m, f, q)
                    ELSE IF HasFlag(f, VALUE_PRESENT)
                    THEN DecodePositionValue(m, q)
                    ELSE [value |-> old, next |-> q]
           pos   == IF HasFlag(f, POS_PRESENT)
                    THEN DecodeTermPositions(m, f, value.next)
                    ELSE [base |-> 0, start |-> value.next, end |-> value.next]
<1>1. f \in 0..63 /\ pay \in Seq(Nat) /\ Len(pay) \in Nat
  BY PayloadFacts
<1>2. StoredAt(m, p, <<f>> \o pay) /\ DocumentPosting(recs) = <<f>> \o pay
  BY DEF DocumentPosting
<1> HIDE DEF c, f, pay, value
<1>3. At(m, p) = f /\ StoredAt(m, q, pay) /\ p \in Nat
  <2>1. f \in Int /\ pay \in Seq(Int)
    BY <1>1
  <2> QED BY <1>2, <2>1, StoredHead DEF StoredAt
<1>4. q \in Nat /\ end = q + Len(pay) /\ Len(DocumentPosting(recs)) \in Nat \ {0}
  <2>1. Len(<<f>> \o pay) = Len(pay) + 1
    <3>1. f \in Int /\ pay \in Seq(Int)
      BY <1>1
    <3> QED BY ONLY <3>1, ConsLen
  <2> QED BY <1>1, <1>2, <1>3, <2>1
<1>5. a = [value |-> value.value, first_base |-> pos.base, wp |-> pos.start, p |-> pos.end]
  BY <1>3, Zenon DEF AdvanceDocumentId, value
<1> HIDE DEF a, pos, end
<1>6. /\ value.value = IF OnlyValue(recs) \/ ValueFirst(recs) THEN recs[1].value ELSE old
      /\ pos.end = end
      /\ OnlyValue(recs) => pos.start = end
      /\ ~OnlyValue(recs) =>
            LET ps == PositionsOf(recs)
            IN  /\ pos.base = FirstBase(ps[1])
                /\ pos.start + Len(EncodeTermPositions(ps)) = end
                /\ StoredAt(m, pos.start, EncodeTermPositions(ps))
  <2>1. CASE OnlyValue(recs)
    <3> DEFINE v == recs[1].value
    <3>1. v \in Nat /\ IsWord(v)
      BY DEF NarrowPosting, RecordsAscend
    <3> HIDE DEF v
    <3>2. f = EncodeSingleValue(v).flags /\ pay = EncodeSingleValue(v).payload
      BY <2>1 DEF EncodePosting, f, pay, c, v
    <3>3. ~HasFlag(f, POS_PRESENT)
      <4>1. f \in 0..31
        BY <3>1, <3>2, ValueBytes
      <4> QED BY <4>1, NoPositionFlag
    <3>4. value = [value |-> v, next |-> q + Len(pay)]
      <4>1. DecodeSingleValue(m, f, q) = [value |-> v, next |-> q + Len(pay)]
        BY <1>3, <3>1, <3>2, SingleValueRoundTrip
      <4> QED BY <3>3, <4>1 DEF value
    <3>5. pos = [base |-> 0, start |-> value.next, end |-> value.next]
      BY <3>3 DEF pos
    <3> QED BY <1>1, <1>4, <2>1, <3>4, <3>5 DEF v
  <2>2. CASE ~OnlyValue(recs)
    <3> DEFINE ps   == PositionsOf(recs)
               body == EncodeTermPositions(ps)
               pv   == PostingValue(recs)
               sz   == PostingSize(ps)
               v    == recs[1].value
    <3>1. Narrow(ps) /\ ps \in Seq(Nat) /\ ps # <<>>
      BY <2>2 DEF NarrowPosting, Narrow
    <3>2. f = PostingFlags(recs, ps) /\ pay = pv \o sz \o body
      BY <2>2, PostingParts DEF f, pay, c
    <3>3. HasFlag(f, POS_PRESENT) /\ (HasFlag(f, VALUE_PRESENT) <=> ValueFirst(recs))
      BY <3>1, <3>2, PostingFlagFields
    <3>4. v \in Nat /\ IsWord(v)
      BY DEF NarrowPosting, RecordsAscend
    <3>5. body \in Seq(Nat) /\ Len(body) \in Nat
      BY <3>1, PositionsLength
    <3>6. pv \in Seq(Nat) /\ sz \in Seq(Nat) /\ Len(pv) \in Nat /\ Len(sz) \in Nat
      <4>1. pv \in Seq(Nat)
        BY <3>4, ValueBytes DEF PostingValue
      <4>2. sz \in Seq(Nat)
        BY <3>5, HighBitBytes DEF PostingSize
      <4> QED BY <4>1, <4>2
    <3> HIDE DEF ps, body, pv, sz, v
    <3>7. pay = pv \o (sz \o body) /\ sz \o body \in Seq(Nat)
      <4>1. (pv \o sz) \o body = pv \o (sz \o body)
        <5>1. pv \in Seq(Nat) /\ sz \in Seq(Nat) /\ body \in Seq(Nat)
          BY <3>5, <3>6
        <5> QED BY ONLY <5>1
      <4>2. sz \o body \in Seq(Nat)
        BY <3>5, <3>6, ConcatFacts
      <4> QED BY <3>2, <4>1, <4>2
    <3>8. StoredAt(m, q, pv) /\ StoredAt(m, q + Len(pv), sz \o body)
      BY <1>3, <3>6, <3>7, StoredConcat
    <3>9. value = [value |-> IF ValueFirst(recs) THEN v ELSE old, next |-> q + Len(pv)]
      <4>1. CASE ValueFirst(recs)
        <5>1. pv = EncodePositionValue(v)
          BY <4>1 DEF pv, v, PostingValue
        <5>2. DecodePositionValue(m, q) = [value |-> v, next |-> q + Len(pv)]
          BY <3>4, <3>8, <5>1, PositionValueRoundTrip
        <5> QED BY <3>3, <4>1, <5>2 DEF value
      <4>2. CASE ~ValueFirst(recs)
        <5>1. pv = <<>> /\ Len(pv) = 0
          BY <4>2 DEF pv, PostingValue
        <5> QED BY <1>4, <3>3, <4>2, <5>1 DEF value
      <4> QED BY <4>1, <4>2
    <3> DEFINE at == value.next + Len(sz)
    <3>10. /\ DecodeTermPositions(m, PostingFlags(recs, ps), value.next) =
                 [base |-> FirstBase(ps[1]), start |-> at, end |-> at + Len(body)]
           /\ StoredAt(m, at, body)
      BY <3>1, <3>8, <3>9, PositionsFound DEF sz, body
    <3>11. pos = [base |-> FirstBase(ps[1]), start |-> at, end |-> at + Len(body)]
      BY <3>2, <3>3, <3>10 DEF pos
    <3>12. Len(pay) = Len(pv) + (Len(sz) + Len(body))
      BY <3>5, <3>6, <3>7, ConcatFacts
    <3>13. at + Len(body) = end
      <4> DEFINE x == Len(pv)
                 y == Len(sz)
                 z == Len(body)
      <4>1. x \in Nat /\ y \in Nat /\ z \in Nat /\ q \in Nat
        BY <1>4, <3>5, <3>6
      <4>2. at = (q + x) + y /\ end = q + (x + (y + z))
        BY <1>4, <3>9, <3>12
      <4> HIDE DEF x, y, at, z
      <4>3. at + z = end
        BY ONLY <4>1, <4>2
      <4> QED BY <4>3 DEF z
    <3>14. value.value = IF ValueFirst(recs) THEN v ELSE old
      BY <3>9
    <3> HIDE DEF at
    <3> QED BY <2>2, <3>10, <3>11, <3>13, <3>14 DEF ps, body, v
  <2> QED BY <2>1, <2>2
<1> QED
  <2>1. a.value = value.value /\ a.first_base = pos.base /\ a.wp = pos.start /\ a.p = pos.end
    BY <1>5
  <2> QED BY <1>4, <1>6, <2>1 DEF DocumentDecoding, a, end

\* And its positions are decoded to those of the records.
LEMMA DocumentPositionsBack ==
    ASSUME NEW recs, NarrowPosting(recs), NEW m \in Seq(Nat), NEW p \in Nat, NEW old \in Nat,
           StoredAt(m, p, DocumentPosting(recs)), NEW c,
           c.wp = AdvanceDocumentId(m, p, old).wp, c.p = AdvanceDocumentId(m, p, old).p,
           c.first_base = AdvanceDocumentId(m, p, old).first_base
    PROVE  /\ Decoded(m, c) = PositionsOf(recs)
           /\ Decoded(m, c) \in Seq(Nat) /\ Len(Decoded(m, c)) <= c.p - c.wp
<1>1. DocumentDecoding(recs, m, AdvanceDocumentId(m, p, old), old,
                       p + Len(DocumentPosting(recs)))
  BY DocumentPostingBack
<1>2. c.wp \in Nat /\ c.p \in Nat /\ c.first_base \in Nat /\ c.wp <= c.p
  BY AdvanceFacts
<1>3. Decoded(m, c) \in Seq(Nat) /\ Len(Decoded(m, c)) <= c.p - c.wp
  BY <1>2, DecodedFits
<1>4. CASE OnlyValue(recs)
  <2>1. c.wp = c.p
    BY <1>1, <1>4 DEF DocumentDecoding
  <2>2. Len(Decoded(m, c)) = 0
    BY <1>2, <1>3, <2>1
  <2>3. Decoded(m, c) = <<>>
    BY <1>3, <2>2
  <2> QED BY <1>3, <1>4, <2>3 DEF PositionsOf
<1>5. CASE ~OnlyValue(recs)
  <2> DEFINE ps == PositionsOf(recs)
  <2>1. Narrow(ps)
    BY <1>5 DEF NarrowPosting
  <2>2. /\ c.first_base = FirstBase(ps[1]) /\ StoredAt(m, c.wp, EncodeTermPositions(ps))
        /\ c.p = c.wp + Len(EncodeTermPositions(ps))
    BY <1>1, <1>5 DEF DocumentDecoding
  <2> HIDE DEF ps
  <2>3. Decoded(m, c) = ps
    BY <1>2, <2>1, <2>2, DecodedExact
  <2> QED BY <1>3, <2>3 DEF ps
<1> QED BY <1>4, <1>5

-----------------------------------------------------------------------------
(***************************************************************************)
(* The walks over the terms of a document end, whatever the bytes are.     *)
(***************************************************************************)
Found == [term : Nat, at : Nat]

\* What sil_document_image_terms makes of the bytes up to end, from each place
\* on; and sil_document_image_match_term, for a key.
IsTermWalk(m, end, F) ==
    \A p \in Nat : F[p] = IF p >= end THEN <<>>
                          ELSE <<[term |-> At(m, p), at |-> p + 2]>> \o F[SkipId(m, p + 2)]
IsMatching(m, end, key, F) ==
    \A p \in Nat : F[p] = IF p >= end \/ key < At(m, p) THEN {}
                          ELSE IF key = At(m, p) THEN {p + 2}
                          ELSE F[SkipId(m, p + 2)]

\* The bytes that are left get less with every posting that is skipped.
LEMMA SkipsOn ==
    ASSUME NEW m \in Seq(Nat), NEW end \in Nat
    PROVE  LET mu   == [p \in Nat |-> IF p >= end THEN 0 ELSE end - p]
               step == [p \in Nat |-> SkipId(m, p + 2)]
           IN  /\ mu \in [Nat -> Nat] /\ step \in [Nat -> Nat]
               /\ \A p \in Nat : p < end => mu[step[p]] < mu[p]
<1> DEFINE skip(p) == SkipId(m, p + 2)
           mu   == [p \in Nat |-> IF p >= end THEN 0 ELSE end - p]
           step == [p \in Nat |-> skip(p)]
<1>1. ASSUME NEW p \in Nat PROVE skip(p) \in Nat /\ p < skip(p)
  <2> DEFINE q == p + 2
  <2>1. q \in Nat /\ p < q
    OBVIOUS
  <2> HIDE DEF q
  <2>2. SkipId(m, q) \in Nat /\ q < SkipId(m, q)
    BY <2>1, SkipFacts
  <2> DEFINE k == SkipId(m, q)
  <2> HIDE DEF k
  <2>3. k \in Nat /\ p < k
    BY <2>1, <2>2 DEF k
  <2> QED BY <2>3 DEF k, q
<1> HIDE DEF skip
<1>2. mu \in [Nat -> Nat] /\ step \in [Nat -> Nat]
  BY <1>1
<1>3. ASSUME NEW p \in Nat, p < end PROVE mu[step[p]] < mu[p]
  <2>1. step[p] = skip(p) /\ skip(p) \in Nat /\ p < skip(p)
    BY <1>1
  <2> QED BY <1>3, <2>1
<1> QED BY <1>2, <1>3 DEF skip

\* The walk of sil_document_image_terms, unfolded call by call.
LEMMA TermWalkCalls ==
    ASSUME NEW m \in Seq(Nat), NEW image, image.content \in Nat
    PROVE  \E F : IsTermWalk(m, image.content, F) /\ TermsIn(m, image) = F[image.terms]
<1> DEFINE end  == image.content
           V    == Seq(Found)
           here(p) == [term |-> At(m, p), at |-> p + 2]
           mu   == [p \in Nat |-> IF p >= end THEN 0 ELSE end - p]
           step == [p \in Nat |-> SkipId(m, p + 2)]
           stop == {p \in Nat : p >= end}
           base == [p \in Nat |-> <<>>]
           g    == [x \in Nat \X V |-> <<here(x[1])>> \o x[2]]
           body(f) == [p \in Nat |-> IF p >= end THEN <<>>
                         ELSE <<[term |-> At(m, p), at |-> p + 2]>> \o f[SkipId(m, p + 2)]]
           F    == CHOOSE f : f = body(f)
<1>1. ASSUME NEW p \in Nat PROVE here(p) \in Found
  <2>1. At(m, p) \in Nat
    BY ReadNat
  <2> QED BY <2>1 DEF Found
<1>2. /\ mu \in [Nat -> Nat] /\ step \in [Nat -> Nat]
      /\ \A p \in Nat : p < end => mu[step[p]] < mu[p]
  BY SkipsOn
<1> HIDE DEF here
<1>3. Descends(Nat, V, mu, step, stop, base, g)
  <2>1. stop \in SUBSET Nat /\ base \in [Nat -> V]
    OBVIOUS
  <2>2. ASSUME NEW x \in Nat \X V PROVE <<here(x[1])>> \o x[2] \in V
    <3>1. x[1] \in Nat /\ x[2] \in V
      OBVIOUS
    <3>2. here(x[1]) \in Found
      BY <1>1, <3>1
    <3> DEFINE y == here(x[1])
               z == x[2]
    <3> HIDE DEF y, z
    <3>3. <<y>> \o z \in V
      BY <3>1, <3>2 DEF y, z
    <3> QED BY <3>3 DEF y, z
  <2>3. g \in [Nat \X V -> V]
    <3> HIDE DEF V
    <3> QED BY <2>2
  <2>4. \A p \in Nat \ stop : mu[step[p]] < mu[p]
    <3>1. \A p \in Nat \ stop : p \in Nat /\ p < end
      OBVIOUS
    <3> HIDE DEF mu, step, stop
    <3> QED BY <1>2, <3>1
  <2> HIDE DEF V, mu, step, stop, base, g
  <2> QED BY <1>2, <2>1, <2>3, <2>4 DEF Descends
<1>4. PICK f \in [Nat -> V] : \A p \in Nat :
         f[p] = IF p \in stop THEN base[p] ELSE g[<<p, f[step[p]]>>]
  <2> HIDE DEF V, mu, step, stop, base, g
  <2> QED BY <1>3, DescendingFunction
<1>5. ASSUME NEW p \in Nat
      PROVE  f[p] = IF p >= end THEN <<>> ELSE <<here(p)>> \o f[SkipId(m, p + 2)]
  <2>1. CASE p \in stop
    BY <1>4, <2>1
  <2>2. CASE p \notin stop
    <3>1. step[p] = SkipId(m, p + 2) /\ step[p] \in Nat /\ ~(p >= end)
      <4> HIDE DEF mu
      <4> QED BY <1>2, <2>2
    <3>2. f[step[p]] \in V
      <4> HIDE DEF V, step
      <4> QED BY <1>4, <3>1
    <3>3. g[<<p, f[step[p]]>>] = <<here(p)>> \o f[step[p]]
      <4> HIDE DEF step, stop, V
      <4> QED BY <3>2
    <3> HIDE DEF step, stop, base, g, V
    <3> QED BY <1>4, <2>2, <3>1, <3>3
  <2> QED BY <2>1, <2>2
<1>6. f = body(f)
  <2>1. ASSUME NEW p \in Nat PROVE f[p] = body(f)[p]
    BY <1>5 DEF here
  <2> QED BY <1>4, <2>1
<1>7. F = body(F)
  <2> HIDE DEF body
  <2> QED BY <1>6
<1>8. TermsIn(m, image) = F[image.terms]
  BY DEF TermsIn
<1> HIDE DEF F
<1>9. ASSUME NEW p \in Nat
      PROVE  F[p] = IF p >= end THEN <<>>
                    ELSE <<[term |-> At(m, p), at |-> p + 2]>> \o F[SkipId(m, p + 2)]
  <2>1. F[p] = body(F)[p]
    <3> HIDE DEF body
    <3> QED BY <1>7
  <2> QED BY <2>1
<1> QED BY <1>8, <1>9 DEF IsTermWalk

\* The walk of sil_document_image_match_term, unfolded call by call.
LEMMA MatchingCalls ==
    ASSUME NEW m \in Seq(Nat), NEW image, image.content \in Nat, NEW key
    PROVE  \E F : /\ IsMatching(m, image.content, key, F)
                  /\ MatchTerm(m, image, key) = F[image.terms]
<1> DEFINE end  == image.content
           V    == SUBSET Nat
           mu   == [p \in Nat |-> IF p >= end THEN 0 ELSE end - p]
           step == [p \in Nat |-> SkipId(m, p + 2)]
           stop == {p \in Nat : p >= end \/ key < At(m, p) \/ key = At(m, p)}
           base == [p \in Nat |-> IF p >= end \/ key < At(m, p) THEN {} ELSE {p + 2}]
           body(f) == [p \in Nat |-> IF p >= end \/ key < At(m, p) THEN {}
                         ELSE IF key = At(m, p) THEN {p + 2} ELSE f[SkipId(m, p + 2)]]
           F    == CHOOSE f : f = body(f)
<1>1. /\ mu \in [Nat -> Nat] /\ step \in [Nat -> Nat]
      /\ \A p \in Nat : p < end => mu[step[p]] < mu[p]
  BY SkipsOn
<1>2. Loops(Nat, V, mu, step, stop, base)
  <2>1. stop \in SUBSET Nat
    OBVIOUS
  <2>2. base \in [Nat -> V]
    <3>1. \A p \in Nat : p + 2 \in Nat
      OBVIOUS
    <3> QED BY <3>1
  <2>3. \A p \in Nat \ stop : mu[step[p]] < mu[p]
    <3>1. \A p \in Nat \ stop : p \in Nat /\ p < end
      OBVIOUS
    <3> HIDE DEF mu, step, stop
    <3> QED BY <1>1, <3>1
  <2> HIDE DEF V, mu, step, stop, base
  <2> QED BY <1>1, <2>1, <2>2, <2>3 DEF Loops
<1>3. PICK f : Runs(Nat, step, stop, base, f)
  <2> HIDE DEF V, mu, step, stop, base
  <2> QED BY <1>2, LoopExists
<1>4. f = [p \in Nat |-> IF p \in stop THEN base[p] ELSE f[step[p]]]
  BY <1>3 DEF Runs
<1>5. f = body(f)
  <2>1. ASSUME NEW p \in Nat PROVE f[p] = body(f)[p]
    <3>1. f[p] = IF p \in stop THEN base[p] ELSE f[step[p]]
      <4> HIDE DEF stop, base, step
      <4> QED BY <1>4
    <3> QED BY <3>1
  <2>2. DOMAIN f = Nat
    <3> HIDE DEF stop, base, step
    <3> QED BY <1>4
  <2>3. f = [p \in Nat |-> f[p]]
    <3> HIDE DEF stop, base, step
    <3> QED BY <1>4
  <2> QED BY <2>1, <2>2, <2>3
<1>6. F = body(F)
  <2> HIDE DEF body
  <2> QED BY <1>5
<1>7. MatchTerm(m, image, key) = F[image.terms]
  BY DEF MatchTerm
<1> HIDE DEF F
<1>8. ASSUME NEW p \in Nat
      PROVE  F[p] = IF p >= end \/ key < At(m, p) THEN {}
                    ELSE IF key = At(m, p) THEN {p + 2} ELSE F[SkipId(m, p + 2)]
  <2>1. F[p] = body(F)[p]
    <3> HIDE DEF body
    <3> QED BY <1>6
  <2> QED BY <2>1
<1> QED BY <1>7, <1>8 DEF IsMatching

-----------------------------------------------------------------------------
\* The positions of a posting are those of its records, 0 aside, in order.
LEMMA PositionsOfDocument ==
    ASSUME NEW recs, RecordsAscend(recs), NEW ps, ps = PositionsOf(recs)
    PROVE  /\ ps \in Seq(Nat) /\ (~OnlyValue(recs) => ps # <<>>)
           /\ \A i, j \in 1..Len(ps) : i < j => ps[i] <= ps[j]
           /\ \A i \in 1..Len(ps) : \E k \in 1..Len(recs) : ps[i] = recs[k].position
           /\ \A k \in 1..Len(recs) : recs[k].position # 0 =>
                 \E i \in 1..Len(ps) : ps[i] = recs[k].position
<1> DEFINE n  == Len(recs)
           r(i) == recs[i].position
<1>1. n \in Nat \ {0} /\ recs = [i \in 1..n |-> recs[i]] /\ \A i \in 1..n : r(i) \in Nat
  BY DEF RecordsAscend
<1>2. \A i, j \in 1..n : i < j => r(i) <= r(j)
  BY DEF RecordsAscend
<1>3. CASE OnlyValue(recs)
  <2>1. ps = <<>>
    BY <1>3 DEF PositionsOf
  <2>2. n = 1 /\ r(1) = 0
    BY <1>3 DEF OnlyValue
  <2> QED BY <1>3, <2>1, <2>2
<1>4. CASE ~OnlyValue(recs) /\ ValueFirst(recs)
  <2> DEFINE k == n - 1
  <2>1. n # 1 /\ r(1) = 0
    BY <1>1, <1>4 DEF OnlyValue, ValueFirst
  <2>2. k \in Nat \ {0} /\ n = k + 1
    BY <1>1, <2>1
  <2>3. Len(Tail(recs)) = k /\ \A i \in 1..k : Tail(recs)[i] = recs[i + 1]
    <3>1. recs \in Seq({recs[i] : i \in 1..n})
      BY <1>1
    <3> HIDE DEF n
    <3> QED BY <1>1, <2>1, <3>1 DEF n
  <2>4. ps = [i \in 1..k |-> r(i + 1)]
    BY <1>4, <2>3 DEF PositionsOf
  <2> HIDE DEF n, r, k
  <2>5. ASSUME NEW i \in 1..k, NEW j \in 1..k
        PROVE  r(i + 1) \in Nat /\ i + 1 \in 1..n /\ (i < j => r(i + 1) <= r(j + 1))
    <3>1. i + 1 \in 1..n /\ j + 1 \in 1..n /\ (i < j => i + 1 < j + 1)
      BY <2>2
    <3> QED BY <1>1, <1>2, <3>1
  <2>6. ps \in Seq(Nat) /\ Len(ps) = k /\ \A i \in 1..k : ps[i] = r(i + 1)
    BY <2>2, <2>4, <2>5
  <2>7. ps # <<>>
    BY <2>2, <2>6
  <2>8. \A i, j \in 1..Len(ps) : i < j => ps[i] <= ps[j]
    BY <2>5, <2>6
  <2>9. \A i \in 1..Len(ps) : \E j \in 1..n : ps[i] = r(j)
    BY <2>5, <2>6
  <2>10. ASSUME NEW j \in 1..n, r(j) # 0 PROVE \E i \in 1..Len(ps) : ps[i] = r(j)
    <3>1. j # 1
      BY <2>1, <2>10
    <3>2. j - 1 \in 1..k /\ (j - 1) + 1 = j
      BY <2>2, <3>1
    <3>3. ps[j - 1] = r(j)
      BY <2>6, <3>2
    <3> QED BY <2>6, <3>2, <3>3
  <2> QED BY <2>6, <2>7, <2>8, <2>9, <2>10 DEF n, r
<1>5. CASE ~OnlyValue(recs) /\ ~ValueFirst(recs)
  <2>1. ps = [i \in 1..n |-> r(i)]
    BY <1>5 DEF PositionsOf
  <2> HIDE DEF n, r
  <2>2. ps \in Seq(Nat) /\ Len(ps) = n /\ \A i \in 1..n : ps[i] = r(i)
    <3>1. n \in Nat /\ \A i \in 1..n : r(i) \in Nat
      BY <1>1
    <3> QED BY ONLY <2>1, <3>1
  <2>3. ps # <<>>
    BY <1>1, <2>2
  <2>4. /\ \A i, j \in 1..Len(ps) : i < j => ps[i] <= ps[j]
        /\ \A i \in 1..Len(ps) : \E j \in 1..n : ps[i] = r(j)
        /\ \A j \in 1..n : r(j) # 0 => \E i \in 1..Len(ps) : ps[i] = r(j)
    BY <1>2, <2>2
  <2> QED BY <2>2, <2>3, <2>4 DEF n, r
<1> QED BY <1>3, <1>4, <1>5

\* The records of a document as sort_term_data leaves them.
InSortOrder(d) ==
    /\ d.records \in Seq(Record)
    /\ \A i, j \in 1..Len(d.records) : i < j => InOrder(d.records[i], d.records[j])
LettersOf(d) == {d.records[i].term : i \in 1..Len(d.records)}

\* The posting of a term holds its records, in order of their positions.
LEMMA RecordsOfTerm ==
    ASSUME NEW d, InSortOrder(d), DocumentInWidths(d), NEW x \in LettersOf(d)
    PROVE  LET recs == RecordsWith(d, x)
           IN  /\ RecordsAscend(recs)
               /\ \A k \in 1..Len(recs) : recs[k] \in ToSet(d.records) /\ recs[k].term = x
               /\ \A r \in ToSet(d.records) : r.term = x => \E k \in 1..Len(recs) : recs[k] = r
<1> DEFINE n      == Len(d.records)
           I      == {k \in 1..n : d.records[k].term = x}
           places == Ascending(I)
           c      == Cardinality(I)
           recs   == [k \in 1..c |-> d.records[places[k]]]
<1>1. n \in Nat /\ \A k \in 1..n : d.records[k] \in Record
  BY DEF InSortOrder
<1>2. I \in SUBSET Nat /\ IsFiniteSet(I) /\ c \in Nat
  BY <1>1, IndexSets
<1>3. c # 0
  <2>1. I # {}
    BY DEF LettersOf
  <2> HIDE DEF I
  <2> QED BY <1>2, <2>1, FS_EmptySet
<1>4. /\ places \in [1..c -> I]
      /\ \A i, j \in 1..c : i < j => places[i] < places[j]
      /\ \A k \in I : \E i \in 1..c : places[i] = k
  <2> HIDE DEF I, c
  <2> QED BY <1>2, AscendingFacts DEF c
<1>5. RecordsWith(d, x) = recs
  <2>1. Len(places) = c
    <3> HIDE DEF I, c, places
    <3> QED BY <1>2, <1>4
  <2>2. RecordsWith(d, x) = [k \in 1..Len(places) |-> d.records[places[k]]]
    BY DEF RecordsWith
  <2> HIDE DEF places, c
  <2> QED BY <2>1, <2>2
<1>6. ASSUME NEW k \in 1..c PROVE places[k] \in 1..n /\ d.records[places[k]].term = x
  <2>1. places[k] \in I
    <3> HIDE DEF I, c, places
    <3> QED BY <1>4
  <2> HIDE DEF places, c
  <2> QED BY <2>1
<1> HIDE DEF places, c, n
<1>7. Len(recs) = c /\ recs = [k \in 1..c |-> recs[k]] /\ recs # <<>>
      /\ \A k \in 1..c : recs[k] = d.records[places[k]]
  BY <1>2, <1>3
<1> HIDE DEF recs
<1>8. \A k \in 1..n : d.records[k] \in ToSet(d.records)
  BY DEF ToSet, n, InSortOrder
<1>9. ASSUME NEW k \in 1..c
      PROVE  recs[k] \in ToSet(d.records) /\ recs[k].term = x /\ recs[k] \in Record
             /\ Fits32(recs[k].value)
  <2>1. recs[k] = d.records[places[k]] /\ places[k] \in 1..n /\ d.records[places[k]].term = x
    BY <1>6, <1>7
  <2>2. Fits32(d.records[places[k]].value)
    BY <2>1 DEF DocumentInWidths, n
  <2> QED BY <1>1, <1>8, <2>1, <2>2
<1>10. ASSUME NEW k \in 1..c
       PROVE  recs[k].position \in Nat /\ recs[k].value \in Nat /\ IsWord(recs[k].value)
  BY <1>9, RecordFacts, Words32
<1>11. ASSUME NEW i \in 1..c, NEW j \in 1..c, i < j
       PROVE  recs[i].position <= recs[j].position
  <2>1. places[i] < places[j] /\ places[i] \in 1..n /\ places[j] \in 1..n
    BY <1>4, <1>6, <1>11
  <2>2. InOrder(d.records[places[i]], d.records[places[j]])
    BY <2>1 DEF InSortOrder, n
  <2>3. InOrder(recs[i], recs[j]) /\ recs[i].term = x /\ recs[j].term = x
    BY <1>7, <1>9, <2>2
  <2>4. x \in Nat
    <3>1. x \in 1..255
      BY <1>9, <2>3, RecordFacts
    <3> QED BY <3>1
  <2> QED BY <2>3, <2>4 DEF InOrder
<1>12. RecordsAscend(recs)
  BY <1>2, <1>7, <1>10, <1>11 DEF RecordsAscend
<1>13. ASSUME NEW r \in ToSet(d.records), r.term = x PROVE \E k \in 1..c : recs[k] = r
  <2>1. PICK i \in 1..n : d.records[i] = r
    BY DEF ToSet, n, InSortOrder
  <2>2. i \in I
    BY <1>13, <2>1
  <2> HIDE DEF I
  <2>3. PICK k \in 1..c : places[k] = i
    BY <1>4, <2>2
  <2> QED BY <1>7, <2>1, <2>3
<1> QED BY <1>5, <1>7, <1>9, <1>12, <1>13

\* The format holds the posting.
LEMMA TermIsNarrow ==
    ASSUME NEW d, InSortOrder(d), DocumentInWidths(d), NEW x \in LettersOf(d)
    PROVE  NarrowPosting(RecordsWith(d, x))
<1> DEFINE recs == RecordsWith(d, x)
           ps   == PositionsOf(recs)
<1>1. RecordsAscend(recs)
  BY RecordsOfTerm
<1>2. NearPositions(ps)
  BY DEF DocumentInWidths, LettersOf
<1>3. ASSUME ~OnlyValue(recs) PROVE Narrow(ps)
  <2> HIDE DEF recs
  <2>1. /\ ps \in Seq(Nat) /\ ps # <<>>
        /\ \A i, j \in 1..Len(ps) : i < j => ps[i] <= ps[j]
    BY <1>1, <1>3, PositionsOfDocument
  <2> HIDE DEF ps
  <2> QED BY <1>2, <2>1 DEF Narrow, NearPositions, Gap, Below28
<1> QED BY <1>1, <1>3 DEF NarrowPosting

-----------------------------------------------------------------------------
(***************************************************************************)
(* Where the terms of a document are.                                      *)
(***************************************************************************)
TermPiece(d) == [x \in LettersOf(d) |-> CompressTerm(d, x)]

\* The terms are different bytes, no more than the records.
LEMMA LettersFacts ==
    ASSUME NEW d, d.records \in Seq(Record)
    PROVE  LET S == LettersOf(d)
           IN  /\ S \in SUBSET (1..255) /\ S \in SUBSET Nat /\ IsFiniteSet(S)
               /\ TermsOf(d) = Ascending(S) /\ Len(TermsOf(d)) = Cardinality(S)
               /\ Cardinality(S) \in Nat /\ Cardinality(S) <= Len(d.records)
<1> DEFINE S == LettersOf(d)
           n == Len(d.records)
           h == [i \in 1..n |-> d.records[i].term]
<1>1. n \in Nat /\ \A i \in 1..n : d.records[i] \in Record
  OBVIOUS
<1>2. S \in SUBSET (1..255)
  BY <1>1, RecordFacts DEF LettersOf
<1>3. IsFiniteSet(S) /\ Cardinality(S) <= n
  <2> DEFINE A == 1..n
  <2>1. IsFiniteSet(A) /\ Cardinality(A) = n
    BY <1>1, FS_Interval
  <2>2. Mapped(h, A) = S
    BY DEF Mapped, LettersOf
  <2>3. A \in SUBSET A
    OBVIOUS
  <2> HIDE DEF A, h, n, S
  <2>4. IsFiniteSet(Mapped(h, A)) /\ Cardinality(Mapped(h, A)) <= Cardinality(A)
    BY <2>1, <2>3, MappedSets
  <2> QED BY <2>1, <2>2, <2>4
<1>4. S \in SUBSET Nat
  <2> HIDE DEF S
  <2>1. \A i \in 1..255 : i \in Nat
    OBVIOUS
  <2> QED BY <1>2, <2>1
<1>5. TermsOf(d) = Ascending(S)
  BY DEF TermsOf, LettersOf
<1> HIDE DEF S, h, n
<1>6. Cardinality(S) \in Nat /\ Ascending(S) \in [1..Cardinality(S) -> S]
  BY <1>3, <1>4, AscendingFacts
<1>7. Len(TermsOf(d)) = Cardinality(S)
  BY <1>5, <1>6
<1> QED BY <1>2, <1>3, <1>4, <1>5, <1>6, <1>7 DEF S, n

\* Three elements in front of a sequence.
LEMMA ThreeInFront ==
    ASSUME NEW x \in Nat, NEW z \in Nat, NEW f \in Nat, NEW y \in Seq(Nat)
    PROVE  <<x, z, f>> \o y = <<x>> \o (<<z>> \o (<<f>> \o y))
<1> DEFINE n  == Len(y)
           t  == <<x, z, f>>
           v1 == <<f>> \o y
           v2 == <<z>> \o v1
           v3 == <<x>> \o v2
           u  == t \o y
<1>1. \A a \in Nat : <<a>> \in Seq(Nat) /\ Len(<<a>>) = 1 /\ <<a>>[1] = a
  OBVIOUS
<1>2. t \in Seq(Nat) /\ Len(t) = 3 /\ t[1] = x /\ t[2] = z /\ t[3] = f /\ n \in Nat
  OBVIOUS
<1>3. ASSUME NEW a \in Nat, NEW s \in Seq(Nat)
      PROVE  /\ <<a>> \o s \in Seq(Nat) /\ Len(<<a>> \o s) = 1 + Len(s) /\ Len(s) \in Nat
             /\ (<<a>> \o s)[1] = a /\ \A j \in 1..Len(s) : (<<a>> \o s)[1 + j] = s[j]
  <2> DEFINE h == <<a>>
  <2>1. h \in Seq(Nat) /\ Len(h) = 1 /\ h[1] = a
    BY <1>1
  <2>0. h \in Seq(Nat) /\ s \in Seq(Nat)
    BY <1>1
  <2> HIDE DEF h
  <2>2. /\ h \o s \in Seq(Nat) /\ Len(s) \in Nat /\ Len(h \o s) = Len(h) + Len(s)
        /\ \A i \in 1..Len(h) : (h \o s)[i] = h[i]
        /\ \A j \in 1..Len(s) : (h \o s)[Len(h) + j] = s[j]
    BY ONLY <2>0, ConcatFacts
  <2> DEFINE w == h \o s
  <2> HIDE DEF w
  <2>3. w[1] = a
    <3>1. 1 \in 1..Len(h)
      BY <2>1
    <3> QED BY <2>1, <2>2, <3>1 DEF w
  <2> QED BY <2>1, <2>2, <2>3 DEF w, h
<1>4. /\ u \in Seq(Nat) /\ Len(u) = 3 + n
      /\ \A i \in 1..3 : u[i] = t[i]
      /\ \A j \in 1..n : u[3 + j] = y[j]
  <2> HIDE DEF t
  <2>1. t \in Seq(Nat) /\ y \in Seq(Nat)
    BY <1>2
  <2>2. /\ t \o y \in Seq(Nat) /\ Len(t \o y) = Len(t) + Len(y)
        /\ \A i \in 1..Len(t) : (t \o y)[i] = t[i]
        /\ \A j \in 1..Len(y) : (t \o y)[Len(t) + j] = y[j]
    BY ONLY <2>1, ConcatFacts
  <2> HIDE DEF n
  <2> QED BY <1>2, <2>2 DEF n
<1>5. /\ v1 \in Seq(Nat) /\ Len(v1) = 1 + n /\ v1[1] = f /\ \A j \in 1..n : v1[1 + j] = y[j]
  BY <1>3
<1> HIDE DEF n, t, u, v1
<1>6. /\ v2 \in Seq(Nat) /\ Len(v2) = 1 + Len(v1) /\ v2[1] = z
      /\ \A j \in 1..Len(v1) : v2[1 + j] = v1[j]
  BY <1>3, <1>5
<1> HIDE DEF v2
<1>7. /\ v3 \in Seq(Nat) /\ Len(v3) = 1 + Len(v2) /\ v3[1] = x
      /\ \A j \in 1..Len(v2) : v3[1 + j] = v2[j]
  BY <1>3, <1>6
<1> HIDE DEF v3
<1>8. Len(v3) = 3 + n
  BY <1>2, <1>5, <1>6, <1>7
<1>9. ASSUME NEW i \in 1..(3 + n) PROVE u[i] = v3[i]
  <2>1. v3[2] = z /\ v3[3] = f
    <3>1. v3[1 + 1] = v2[1]
      BY <1>2, <1>5, <1>6, <1>7
    <3>2. v3[1 + 2] = v2[1 + 1] /\ v2[1 + 1] = v1[1]
      BY <1>2, <1>5, <1>6, <1>7
    <3> QED BY <1>5, <1>6, <3>1, <3>2
  <2>2. CASE i \in 1..3
    <3>1. i = 1 \/ i = 2 \/ i = 3
      BY <2>2
    <3> QED BY <1>2, <1>4, <1>7, <2>1, <2>2, <3>1
  <2>3. CASE i \notin 1..3
    <3> DEFINE j == i - 3
    <3>1. j \in 1..n /\ i = 3 + j
      BY <1>2, <2>3
    <3> HIDE DEF j
    <3>2. 1 + j \in 1..Len(v1) /\ 1 + (1 + j) \in 1..Len(v2) /\ i = 1 + (1 + (1 + j))
      BY <1>2, <1>5, <1>6, <3>1
    <3>3. v3[1 + (1 + (1 + j))] = v2[1 + (1 + j)] /\ v2[1 + (1 + j)] = v1[1 + j]
          /\ v1[1 + j] = y[j] /\ u[3 + j] = y[j]
      BY <1>4, <1>5, <1>6, <1>7, <3>1, <3>2
    <3> QED BY <3>1, <3>2, <3>3
  <2> QED BY <2>2, <2>3
<1>10. u = [i \in 1..(3 + n) |-> u[i]] /\ v3 = [i \in 1..(3 + n) |-> v3[i]]
  BY <1>4, <1>7, <1>8
<1>11. u = v3
  BY <1>9, <1>10
<1> QED BY <1>11 DEF u, v3, v2, v1, t

\* A term and its posting are bytes.
LEMMA TermPieceBytes ==
    ASSUME NEW d, InSortOrder(d), DocumentInWidths(d), NEW x \in LettersOf(d)
    PROVE  LET p == DocumentPosting(RecordsWith(d, x))
           IN  /\ CompressTerm(d, x) = <<x>> \o (<<0>> \o p)
               /\ p \in Seq(Nat) /\ Len(p) \in Nat \ {0} /\ x \in Nat
               /\ CompressTerm(d, x) \in Seq(Nat)
               /\ Len(CompressTerm(d, x)) = Len(p) + 2
<1> DEFINE c == EncodePosting(RecordsWith(d, x))
           f == c.flags
           y == c.payload
           p == <<f>> \o y
<1>1. f \in 0..63 /\ y \in Seq(Nat) /\ Len(y) \in Nat
  BY TermIsNarrow, PayloadFacts
<1>2. x \in Nat
  <2>1. LettersOf(d) \in SUBSET Nat
    BY LettersFacts DEF InSortOrder
  <2> QED BY <2>1
<1>3. CompressTerm(d, x) = <<x, 0, f>> \o y /\ p = DocumentPosting(RecordsWith(d, x))
  BY DEF CompressTerm, DocumentPosting
<1> HIDE DEF f, y
<1>4. f \in Nat
  BY <1>1
<1>5. p \in Seq(Nat) /\ Len(p) = Len(y) + 1
  BY <1>1, <1>4
<1>6. <<x, 0, f>> \o y = <<x>> \o (<<0>> \o p)
  <2>1. x \in Nat /\ 0 \in Nat /\ f \in Nat /\ y \in Seq(Nat)
    BY <1>1, <1>2, <1>4
  <2> QED BY <2>1, ThreeInFront, Zenon DEF p
<1> HIDE DEF p
<1>7. <<x>> \o (<<0>> \o p) \in Seq(Nat) /\ Len(<<x>> \o (<<0>> \o p)) = Len(p) + 2
  BY <1>2, <1>5
<1> QED BY <1>1, <1>2, <1>3, <1>5, <1>6, <1>7

\* The area of the terms has one piece for each of them, in their order.
LEMMA AreaJoined ==
    ASSUME NEW d, InSortOrder(d), DocumentInWidths(d)
    PROVE  /\ TermArea(d) \in Seq(Nat) /\ Len(TermArea(d)) \in Nat
           /\ TermArea(d) = Joined(LettersOf(d), TermPiece(d))
           /\ LettersOf(d) # {} => Pieces(LettersOf(d), TermPiece(d))
           /\ LettersOf(d) = {} => Len(TermArea(d)) = 0
<1> DEFINE S  == LettersOf(d)
           n  == Cardinality(S)
           a  == Ascending(S)
           ss == [i \in 1..n |-> TermPiece(d)[a[i]]]
<1>1. /\ S \in SUBSET Nat /\ IsFiniteSet(S) /\ TermsOf(d) = a /\ Len(TermsOf(d)) = n
      /\ n \in Nat
  BY LettersFacts DEF InSortOrder
<1>2. a \in [1..n -> S]
  <2> HIDE DEF S, n
  <2> QED BY <1>1, AscendingFacts DEF n
<1>3. \A x \in S : TermPiece(d)[x] = CompressTerm(d, x)
  BY DEF TermPiece
<1>4. ASSUME NEW x \in S PROVE TermPiece(d)[x] \in Seq(Nat) /\ TermPiece(d)[x] # <<>>
  <2> DEFINE p == DocumentPosting(RecordsWith(d, x))
  <2>1. CompressTerm(d, x) \in Seq(Nat) /\ Len(CompressTerm(d, x)) = Len(p) + 2
        /\ Len(p) \in Nat
    BY TermPieceBytes
  <2> HIDE DEF p
  <2> QED BY <1>3, <2>1
<1> HIDE DEF S, n, a
<1>5. TermArea(d) = Concatenated(ss)
  <2>1. ss = [i \in 1..n |-> CompressTerm(d, a[i])]
    BY <1>2, <1>3
  <2>2. TermArea(d) = Concatenated([i \in 1..n |-> CompressTerm(d, a[i])])
    BY <1>1 DEF TermArea, Concatenated
  <2> HIDE DEF ss
  <2> QED BY <2>1, <2>2
<1>6. TermArea(d) = Joined(S, TermPiece(d))
  BY <1>5 DEF Joined, S, n, a
<1>7. ss \in Seq(Seq(Nat)) /\ Len(ss) = n
  BY <1>1, <1>2, <1>4
<1> HIDE DEF ss
<1>8. Concatenated(ss) \in Seq(Nat)
  BY <1>7, FlattenLayout DEF Concatenated
<1>9. ASSUME S = {} PROVE Len(TermArea(d)) = 0
  <2>1. n = 0
    BY <1>1, <1>9, FS_EmptySet DEF n
  <2>2. PICK off : Offsets(ss, off)
    <3>1. StoredAt(Concatenated(ss), 1, Concatenated(ss))
      BY <1>8, StoredInItself
    <3> QED BY <1>7, <3>1, StoredPieces
  <2>3. off[1] = 0 /\ off[n + 1] = Len(Concatenated(ss))
    BY <1>7, <2>2 DEF Offsets
  <2>4. n + 1 = 1
    BY <2>1
  <2> QED BY <1>5, <2>3, <2>4
<1>10. S # {} => Pieces(S, TermPiece(d))
  BY <1>1, <1>4 DEF Pieces
<1>11. Len(TermArea(d)) \in Nat /\ TermArea(d) \in Seq(Nat)
  BY <1>5, <1>8
<1> QED BY <1>6, <1>9, <1>10, <1>11 DEF S

\* A walk from lo to hi that meets the letters of S in ascending order: the
\* one of x is at at[x], and its posting ends at end[x].
Walk(S, m, lo, hi, at, end) ==
    /\ \A x \in S : /\ at[x] \in Nat /\ at[x] < hi /\ At(m, at[x]) = x
                    /\ SkipId(m, at[x] + 2) = end[x]
    /\ \A x \in S : \/ end[x] = hi /\ \A y \in S : y <= x
                    \/ \E y \in S : at[y] = end[x] /\ x < y /\ \A z \in S : z <= x \/ y <= z
    /\ S = {} => lo = hi
    /\ S # {} => \E x \in S : at[x] = lo /\ \A y \in S : x <= y

\* A term in the memory.
LEMMA TermThere ==
    ASSUME NEW d, InSortOrder(d), DocumentInWidths(d), NEW x \in LettersOf(d),
           NEW m \in Seq(Nat), NEW p, StoredAt(m, p, CompressTerm(d, x))
    PROVE  /\ At(m, p) = x /\ p \in Nat
           /\ StoredAt(m, p + 2, DocumentPosting(RecordsWith(d, x)))
           /\ SkipId(m, p + 2) = p + Len(CompressTerm(d, x))
           /\ AdvanceDocumentId(m, p + 2, 0).p = p + Len(CompressTerm(d, x))
<1> DEFINE recs == RecordsWith(d, x)
           r    == DocumentPosting(recs)
           c    == CompressTerm(d, x)
           a    == AdvanceDocumentId(m, p + 2, 0)
<1>1. c = <<x>> \o (<<0>> \o r) /\ r \in Seq(Nat) /\ Len(r) \in Nat /\ x \in Nat
      /\ Len(c) = Len(r) + 2
  BY TermPieceBytes
<1>2. p \in Nat
  BY DEF StoredAt
<1>3. NarrowPosting(recs)
  BY TermIsNarrow
<1> HIDE DEF recs, c
<1>4. StoredAt(m, p, <<x>> \o (<<0>> \o r))
  BY <1>1 DEF c
<1> HIDE DEF r
<1>5. At(m, p) = x /\ StoredAt(m, p + 1, <<0>> \o r)
  <2>1. x \in Int /\ <<0>> \o r \in Seq(Int) /\ r \in Seq(Int) /\ 0 \in Int
    BY <1>1, BytesAreInts
  <2> QED BY <1>4, <2>1, StoredHead
<1>6. StoredAt(m, p + 2, r)
  <2>1. r \in Seq(Int) /\ 0 \in Int
    BY <1>1, BytesAreInts
  <2> DEFINE q == p + 1
  <2>2. p + 2 = q + 1
    BY <1>2
  <2> HIDE DEF q
  <2>3. StoredAt(m, q, <<0>> \o r)
    BY <1>5 DEF q
  <2>4. StoredAt(m, q + 1, r)
    BY <2>1, <2>3, StoredHead
  <2> QED BY <2>2, <2>4
<1> DEFINE q == p + 2
<1>7. q \in Nat
  BY <1>2
<1>8. a.p = q + Len(r)
  <2>1. DocumentDecoding(recs, m, AdvanceDocumentId(m, q, 0), 0, q + Len(DocumentPosting(recs)))
    <3> HIDE DEF q
    <3>1. StoredAt(m, q, DocumentPosting(recs))
      BY <1>6 DEF q, r
    <3> QED BY <1>3, <3>1, DocumentPostingBack
  <2> QED BY <2>1 DEF DocumentDecoding, r
<1>9. SkipId(m, q) = a.p
  <2> HIDE DEF q
  <2> QED BY <1>7, SkipIsAdvance DEF a, q
<1>10. q + Len(r) = p + Len(c)
  BY <1>1, <1>2
<1> QED BY <1>2, <1>5, <1>6, <1>8, <1>9, <1>10 DEF a, c, r, recs

\* The terms of a document in memory are walked in order.
LEMMA AreaWalk ==
    ASSUME NEW d, InSortOrder(d), DocumentInWidths(d), NEW m \in Seq(Nat), NEW lo,
           StoredAt(m, lo, TermArea(d)), NEW hi, hi = lo + Len(TermArea(d))
    PROVE  \E at, end :
              /\ Walk(LettersOf(d), m, lo, hi, at, end)
              /\ \A x \in LettersOf(d) :
                    /\ StoredAt(m, at[x] + 2, DocumentPosting(RecordsWith(d, x)))
                    /\ AdvanceDocumentId(m, at[x] + 2, 0).p = end[x]
<1> DEFINE S == LettersOf(d)
           F == TermPiece(d)
<1>1. /\ Len(TermArea(d)) \in Nat /\ TermArea(d) = Joined(S, F)
      /\ S # {} => Pieces(S, F)
      /\ S = {} => Len(TermArea(d)) = 0
  BY AreaJoined
<1>2. lo \in Nat /\ hi \in Nat
  BY <1>1 DEF StoredAt
<1>3. CASE S = {}
  <2>1. lo = hi
    BY <1>1, <1>2, <1>3
  <2>2. Walk(S, m, lo, hi, {}, {})
    BY <1>3, <2>1 DEF Walk
  <2> QED BY <1>3, <2>2
<1>4. CASE S # {}
  <2> HIDE DEF S, F
  <2>1. PICK at, end : LaidOut(S, F, m, lo, hi, at, end)
    <3>1. StoredAt(m, lo, Joined(S, F)) /\ hi = lo + Len(Joined(S, F))
      BY <1>1
    <3> QED BY <1>1, <1>4, <3>1, JoinedPlaced
  <2>2. /\ Tiled(S, at, end, lo, hi)
        /\ \A x \in S : end[x] = at[x] + Len(F[x]) /\ StoredAt(m, at[x], F[x])
    BY <2>1 DEF LaidOut
  <2>3. S \in SUBSET Nat
    BY LettersFacts DEF S, InSortOrder
  <2>4. Ordered(S, at, end, lo, hi)
    BY <1>2, <2>2, <2>3, TileOrder
  <2>5. ASSUME NEW x \in S
        PROVE  /\ At(m, at[x]) = x /\ SkipId(m, at[x] + 2) = end[x]
               /\ StoredAt(m, at[x] + 2, DocumentPosting(RecordsWith(d, x)))
               /\ AdvanceDocumentId(m, at[x] + 2, 0).p = end[x]
               /\ at[x] \in Nat /\ at[x] < hi
    <3>1. x \in LettersOf(d)
      BY DEF S
    <3>2. F[x] = CompressTerm(d, x)
      BY <3>1 DEF F, TermPiece
    <3>3. StoredAt(m, at[x], CompressTerm(d, x)) /\ end[x] = at[x] + Len(CompressTerm(d, x))
      BY <2>2, <3>2
    <3>4. at[x] \in Nat /\ end[x] \in Nat /\ at[x] < end[x] /\ end[x] <= hi
      BY <2>2 DEF Tiled
    <3>5. at[x] < hi
      BY <1>2, <3>4
    <3> QED BY <3>1, <3>3, <3>4, <3>5, TermThere
  <2>6. ASSUME NEW x \in S
        PROVE  \/ end[x] = hi /\ \A y \in S : y <= x
               \/ \E y \in S : at[y] = end[x] /\ x < y /\ \A z \in S : z <= x \/ y <= z
    BY <2>4 DEF Ordered
  <2>7. \E x \in S : at[x] = lo /\ \A y \in S : x <= y
    BY <2>2, <2>4 DEF Tiled, Ordered
  <2>8. Walk(S, m, lo, hi, at, end)
    BY <1>4, <2>5, <2>6, <2>7 DEF Walk
  <2> QED BY <2>5, <2>8 DEF S
<1> QED BY <1>3, <1>4

\* sil_document_image_match_term finds a term where it is, and nothing for
\* another key.
LEMMA MatchFinds ==
    ASSUME NEW S, S \in SUBSET (1..255), NEW m \in Seq(Nat), NEW image,
           image.terms \in Nat, image.content \in Nat, NEW at, NEW end,
           Walk(S, m, image.terms, image.content, at, end), NEW key \in Nat
    PROVE  MatchTerm(m, image, key) = IF key \in S THEN {at[key] + 2} ELSE {}
<1> DEFINE lo == image.terms
           hi == image.content
           result(x) == IF key \in S /\ x <= key THEN {at[key] + 2} ELSE {}
<1>1. PICK F : IsMatching(m, hi, key, F) /\ MatchTerm(m, image, key) = F[lo]
  BY MatchingCalls
<1>2. \A x \in S : x \in Nat /\ x <= 255
  OBVIOUS
<1>3. \A x \in S : /\ at[x] \in Nat /\ at[x] < hi /\ At(m, at[x]) = x
                   /\ SkipId(m, at[x] + 2) = end[x]
  BY DEF Walk
<1>4. lo \in Nat /\ hi \in Nat
  OBVIOUS
<1>5. F[hi] = {}
  <2> HIDE DEF hi
  <2>1. hi \in Nat /\ hi >= hi
    BY <1>4
  <2> QED BY <1>1, <2>1 DEF IsMatching
<1> DEFINE Bad == {x \in S : F[at[x]] # result(x)}
<1>6. Bad = {}
  <2>1. SUFFICES ASSUME Bad # {} PROVE FALSE
    OBVIOUS
  <2>2. Bad \in SUBSET Nat /\ 255 \in Nat /\ \A x \in Bad : x <= 255
    BY <1>2
  <2>3. PICK b \in Bad : \A x \in Bad : x <= b
    <3> HIDE DEF Bad
    <3> QED BY <2>1, <2>2, MaximumExists
  <2>4. b \in S /\ b \in Nat /\ F[at[b]] # result(b)
    BY <1>2
  <2>5. F[at[b]] = IF key < b THEN {} ELSE IF key = b THEN {at[b] + 2} ELSE F[end[b]]
    <3> DEFINE p == at[b]
    <3>1. p \in Nat /\ ~(p >= hi) /\ At(m, p) = b /\ SkipId(m, p + 2) = end[b]
      BY <1>3, <1>4, <2>4
    <3> HIDE DEF p, hi
    <3>2. F[p] = IF p >= hi \/ key < At(m, p) THEN {}
                 ELSE IF key = At(m, p) THEN {p + 2} ELSE F[SkipId(m, p + 2)]
      BY <1>1, <3>1 DEF IsMatching
    <3> QED BY <3>1, <3>2 DEF p
  <2>6. CASE key < b
    BY <2>4, <2>5, <2>6
  <2>7. CASE key = b
    BY <2>4, <2>5, <2>7
  <2>8. CASE b < key
    <3>1. F[at[b]] = F[end[b]] /\ result(b) = IF key \in S THEN {at[key] + 2} ELSE {}
      BY <2>4, <2>5, <2>8
    <3>2. CASE end[b] = hi /\ \A y \in S : y <= b
      <4>1. key \notin S
        BY <2>4, <2>8, <3>2
      <4> QED BY <1>5, <2>4, <3>1, <3>2, <4>1
    <3>3. CASE \E y \in S : at[y] = end[b] /\ b < y /\ \A z \in S : z <= b \/ y <= z
      <4>1. PICK y \in S : at[y] = end[b] /\ b < y /\ \A z \in S : z <= b \/ y <= z
        BY <3>3
      <4>2. y \notin Bad
        <5> HIDE DEF Bad
        <5>1. y \in Nat /\ ~(y <= b)
          BY <1>2, <2>4, <4>1
        <5> QED BY <2>3, <5>1
      <4>3. F[at[y]] = result(y)
        BY <4>2
      <4>4. key \in S => y <= key
        BY <2>4, <2>8, <4>1
      <4> QED BY <2>4, <3>1, <4>1, <4>3, <4>4
    <3> QED BY <2>4, <3>2, <3>3 DEF Walk
  <2> QED BY <2>4, <2>6, <2>7, <2>8
<1>7. \A x \in S : F[at[x]] = result(x)
  BY <1>6
<1>8. CASE S = {}
  <2>1. lo = hi
    BY <1>8 DEF Walk
  <2> QED BY <1>1, <1>5, <1>8, <2>1
<1>9. CASE S # {}
  <2>1. PICK x \in S : at[x] = lo /\ \A y \in S : x <= y
    BY <1>9 DEF Walk
  <2> QED BY <1>1, <1>7, <2>1
<1> QED BY <1>8, <1>9

\* The keys from i on that are letters, x or behind it; and their postings.
Wanted(S, keys, x, i) ==
    {j \in 1..Len(keys) : i <= j /\ x <= keys[j] /\ keys[j] \in S}
Places(at, keys, js) == {<<j, at[keys[j]] + 2>> : j \in js}

\* What the merge finds: each key that is a letter.
KeyHits(S, at, keys) ==
    Places(at, keys, {j \in 1..Len(keys) : keys[j] \in S})

StrictlyUp(keys) == \A i, j \in 1..Len(keys) : i < j => keys[i] < keys[j]

\* y is the next letter behind x.
NextLetter(S, x, y) == x < y /\ \A z \in S : z <= x \/ y <= z

\* Which keys are wanted after a step of the merge.
LEMMA WantedSteps ==
    ASSUME NEW S \in SUBSET Nat, NEW keys \in Seq(Nat), StrictlyUp(keys), NEW x \in S,
           NEW i \in 1..Len(keys)
    PROVE  /\ keys[i] < x => Wanted(S, keys, x, i) = Wanted(S, keys, x, i + 1)
           /\ (\A y \in S : y <= x) =>
                 /\ keys[i] = x => Wanted(S, keys, x, i) = {i}
                 /\ x < keys[i] => Wanted(S, keys, x, i) = {}
           /\ \A y \in S : NextLetter(S, x, y) =>
                 /\ keys[i] = x =>
                       Wanted(S, keys, x, i) = {i} \cup Wanted(S, keys, y, i + 1)
                 /\ x < keys[i] => Wanted(S, keys, x, i) = Wanted(S, keys, y, i)
<1> DEFINE n == Len(keys)
<1>1. n \in Nat /\ x \in Nat /\ i \in Nat /\ \A j \in 1..n : keys[j] \in Nat /\ j \in Nat
  OBVIOUS
<1>2. \A j \in 1..n : i < j => keys[i] < keys[j]
  BY DEF StrictlyUp
<1>3. \A j \in 1..n : i <= j <=> (j = i \/ i + 1 <= j)
  BY <1>1
<1>4. \A j \in 1..n : i + 1 <= j <=> i < j
  BY <1>1
<1>5. \A y : Wanted(S, keys, y, i) = {j \in 1..n : i <= j /\ y <= keys[j] /\ keys[j] \in S}
  BY DEF Wanted
<1>6. \A y : Wanted(S, keys, y, i + 1)
                = {j \in 1..n : i + 1 <= j /\ y <= keys[j] /\ keys[j] \in S}
  BY DEF Wanted
<1>7. \A j \in 1..n : i <= j => keys[i] <= keys[j]
  BY <1>1, <1>2
<1> HIDE DEF n
<1>8. ASSUME keys[i] < x
      PROVE  Wanted(S, keys, x, i) = Wanted(S, keys, x, i + 1)
  <2>1. \A j \in 1..n : i <= j /\ x <= keys[j] <=> i + 1 <= j /\ x <= keys[j]
    <3>1. ~(x <= keys[i])
      BY <1>1, <1>8 DEF n
    <3> QED BY <1>3, <3>1
  <2> QED BY <1>5, <1>6, <2>1
<1>9. ASSUME \A y \in S : y <= x, keys[i] = x PROVE Wanted(S, keys, x, i) = {i}
  <2>1. ASSUME NEW j \in 1..n, i < j PROVE keys[j] \notin S
    BY <1>1, <1>2, <1>9, <2>1
  <2>2. i \in 1..n /\ i <= i /\ x <= x
    BY <1>1 DEF n
  <2>3. \A j \in 1..n : i <= j /\ x <= keys[j] /\ keys[j] \in S <=> j = i
    BY <1>3, <1>4, <1>9, <2>1, <2>2
  <2> QED BY <1>5, <2>2, <2>3
<1>10. ASSUME \A y \in S : y <= x, x < keys[i] PROVE Wanted(S, keys, x, i) = {}
  <2>1. ASSUME NEW j \in 1..n, i <= j PROVE keys[j] \notin S
    <3>1. x < keys[j] /\ keys[j] \in Nat
      BY <1>1, <1>7, <1>10, <2>1 DEF n
    <3> QED BY <1>1, <1>10, <3>1
  <2> QED BY <1>5, <2>1
<1>11. ASSUME NEW y \in S, NextLetter(S, x, y), keys[i] = x
       PROVE  Wanted(S, keys, x, i) = {i} \cup Wanted(S, keys, y, i + 1)
  <2>1. ASSUME NEW j \in 1..n, keys[j] \in S, i < j PROVE x <= keys[j] /\ y <= keys[j]
    BY <1>1, <1>2, <1>11, <2>1 DEF NextLetter
  <2>2. i \in 1..n /\ i <= i /\ x <= x
    BY <1>1 DEF n
  <2>3. \A j \in 1..n : i <= j /\ x <= keys[j] /\ keys[j] \in S
                        <=> j = i \/ (i + 1 <= j /\ y <= keys[j] /\ keys[j] \in S)
    BY <1>3, <1>4, <1>11, <2>1, <2>2
  <2> QED BY <1>5, <1>6, <2>2, <2>3
<1>12. ASSUME NEW y \in S, NextLetter(S, x, y), x < keys[i]
       PROVE  Wanted(S, keys, x, i) = Wanted(S, keys, y, i)
  <2>1. ASSUME NEW j \in 1..n, keys[j] \in S, i <= j PROVE x <= keys[j] /\ y <= keys[j]
    <3>1. x < keys[j] /\ keys[j] \in Nat
      BY <1>1, <1>7, <1>12, <2>1 DEF n
    <3> QED BY <1>1, <1>12, <2>1, <3>1 DEF NextLetter
  <2> QED BY <1>5, <2>1
<1> QED BY <1>8, <1>9, <1>10, <1>11, <1>12

\* A document whose terms are S, and keys to look for.
Mergeable(S, m, image, at, end, keys) ==
    /\ S \in SUBSET (1..255) /\ m \in Seq(Nat) /\ keys \in Seq(Nat)
    /\ image.terms \in Nat /\ image.content \in Nat
    /\ Walk(S, m, image.terms, image.content, at, end) /\ StrictlyUp(keys)

\* update_frequency and match_set find every key that the document has, with
\* its place, and no other.
LEMMA MergeFinds ==
    ASSUME NEW S, NEW m, NEW image, NEW at, NEW end, NEW keys,
           Mergeable(S, m, image, at, end, keys)
    PROVE  Merge(m, image, keys) = KeyHits(S, at, keys)
<1> USE DEF Mergeable
<1> DEFINE lo == image.terms
           hi == image.content
           n  == Len(keys)
           hits(x, i) == Places(at, keys, Wanted(S, keys, x, i))
<1>1. PICK F : IsMerging(m, hi, keys, F) /\ Merge(m, image, keys) = F[<<lo, 1>>]
  BY MergeCalls
<1>0. S \in SUBSET (1..255)
  OBVIOUS
<1>2. (\A x \in S : x \in Nat /\ x <= 255) /\ S \in SUBSET Nat
  BY ONLY <1>0
<1>3. \A x \in S : /\ at[x] \in Nat /\ at[x] < hi /\ At(m, at[x]) = x
                   /\ SkipId(m, at[x] + 2) = end[x]
                   /\ AdvanceDocumentId(m, at[x] + 2, 0).p = end[x]
  <2> SUFFICES ASSUME NEW x \in S
               PROVE  /\ at[x] \in Nat /\ at[x] < hi /\ At(m, at[x]) = x
                      /\ SkipId(m, at[x] + 2) = end[x]
                      /\ AdvanceDocumentId(m, at[x] + 2, 0).p = end[x]
    OBVIOUS
  <2>1. /\ at[x] \in Nat /\ at[x] < hi /\ At(m, at[x]) = x
        /\ SkipId(m, at[x] + 2) = end[x]
    BY DEF Walk
  <2> DEFINE p == at[x] + 2
  <2>2. p \in Nat
    BY <2>1
  <2> HIDE DEF p
  <2>3. SkipId(m, p) = AdvanceDocumentId(m, p, 0).p
    BY <2>2, SkipIsAdvance
  <2> QED BY <2>1, <2>3 DEF p
<1>4. lo \in Nat /\ hi \in Nat /\ n \in Nat /\ \A i \in 1..n : keys[i] \in Nat
  OBVIOUS
<1> HIDE DEF hi, lo
<1>5. \A i \in Nat : F[<<hi, i>>] = {}
  <2> SUFFICES ASSUME NEW i \in Nat PROVE F[<<hi, i>>] = {}
    OBVIOUS
  <2> DEFINE rest == IF keys[i] < At(m, hi) THEN F[<<hi, i + 1>>]
                     ELSE IF keys[i] = At(m, hi)
                     THEN {<<i, hi + 2>>}
                          \cup F[<<AdvanceDocumentId(m, hi + 2, 0).p, i + 1>>]
                     ELSE F[<<SkipId(m, hi + 2), i>>]
  <2>1. IsMerging(m, hi, keys, F)
    BY <1>1
  <2>2. F[<<hi, i>>] = IF hi >= hi \/ i > Len(keys) THEN {} ELSE rest
    BY ONLY <1>4, <2>1, Zenon DEF IsMerging
  <2> HIDE DEF rest, Mergeable
  <2> QED BY ONLY <1>4, <2>2
<1> DEFINE D    == S \X (1..(n + 1))
           mu   == [s \in D |-> (n + 1 - s[2]) + (255 - s[1])]
           Good == {s \in D : F[<<at[s[1]], s[2]>>] = hits(s[1], s[2])}
<1>6. ASSUME NEW x \in S, NEW i \in 1..(n + 1),
             \A y \in S, j \in 1..(n + 1) :
                mu[<<y, j>>] < mu[<<x, i>>] => F[<<at[y], j>>] = hits(y, j)
      PROVE  F[<<at[x], i>>] = hits(x, i)
  <2> HIDE DEF hits
  <2>1. x \in Nat /\ x <= 255 /\ i \in Nat /\ at[x] \in Nat /\ i + 1 \in Nat
    BY <1>2, <1>3, <1>4
  <2>2. ASSUME NEW y \in S, NEW j \in 1..(n + 1), x <= y, i <= j, x < y \/ i < j
        PROVE  F[<<at[y], j>>] = hits(y, j)
    <3>1. mu[<<x, i>>] = (n + 1 - i) + (255 - x) /\ mu[<<y, j>>] = (n + 1 - j) + (255 - y)
      OBVIOUS
    <3>2. y \in Nat /\ y <= 255 /\ j \in Nat
      BY <1>2, <1>4
    <3>3. mu[<<y, j>>] < mu[<<x, i>>]
      <4> HIDE DEF mu
      <4> QED BY <1>4, <2>1, <2>2, <3>1, <3>2
    <3> HIDE DEF mu
    <3> QED BY <1>6, <3>3
  <2> HIDE DEF mu
  <2>3. F[<<at[x], i>>] =
          IF i > n THEN {}
          ELSE IF keys[i] < x THEN F[<<at[x], i + 1>>]
          ELSE IF keys[i] = x THEN {<<i, at[x] + 2>>} \cup F[<<end[x], i + 1>>]
          ELSE F[<<end[x], i>>]
    <3> DEFINE p == at[x]
    <3>1. /\ p \in Nat /\ ~(p >= hi) /\ At(m, p) = x /\ SkipId(m, p + 2) = end[x]
          /\ AdvanceDocumentId(m, p + 2, 0).p = end[x]
      BY <1>3, <1>4
    <3> HIDE DEF p
    <3>2. F[<<p, i>>] = IF p >= hi \/ i > Len(keys) THEN {}
                        ELSE IF keys[i] < At(m, p) THEN F[<<p, i + 1>>]
                        ELSE IF keys[i] = At(m, p)
                        THEN {<<i, p + 2>>}
                             \cup F[<<AdvanceDocumentId(m, p + 2, 0).p, i + 1>>]
                        ELSE F[<<SkipId(m, p + 2), i>>]
      BY <1>1, <2>1, <3>1 DEF IsMerging
    <3> QED BY <3>1, <3>2 DEF p
  <2>4. hits(x, i) = Places(at, keys, Wanted(S, keys, x, i))
    BY DEF hits
  <2>5. CASE i > n
    <3>1. Wanted(S, keys, x, i) = {}
      BY <1>4, <2>1, <2>5 DEF Wanted
    <3>2. hits(x, i) = {}
      BY <2>4, <3>1 DEF Places
    <3> QED BY <2>3, <2>5, <3>2
  <2>6. CASE ~(i > n)
    <3>1. i \in 1..n /\ i + 1 \in 1..(n + 1) /\ i < i + 1 /\ i <= i + 1 /\ keys[i] \in Nat
      BY <1>4, <2>1, <2>6
    <3> DEFINE W(y, j) == Wanted(S, keys, y, j)
    <3>2. /\ keys[i] < x => W(x, i) = W(x, i + 1)
          /\ (\A y \in S : y <= x) => /\ keys[i] = x => W(x, i) = {i}
                                      /\ x < keys[i] => W(x, i) = {}
          /\ \A y \in S : NextLetter(S, x, y) =>
                /\ keys[i] = x => W(x, i) = {i} \cup W(y, i + 1)
                /\ x < keys[i] => W(x, i) = W(y, i)
      BY <1>2, <3>1, WantedSteps
    <3>3. \A y, j : hits(y, j) = Places(at, keys, W(y, j))
      BY DEF hits
    <3> HIDE DEF W
    <3>4. CASE keys[i] < x
      <4>1. F[<<at[x], i + 1>>] = hits(x, i + 1)
        BY <2>1, <2>2, <3>1
      <4>2. hits(x, i + 1) = hits(x, i)
        BY <3>2, <3>3, <3>4
      <4> QED BY <2>3, <2>6, <3>4, <4>1, <4>2
    <3>5. CASE end[x] = hi /\ \A y \in S : y <= x
      <4>1. CASE keys[i] = x
        <5>1. F[<<at[x], i>>] = {<<i, at[x] + 2>>}
          BY <1>5, <2>1, <2>3, <2>6, <3>5, <4>1
        <5>2. W(x, i) = {i}
          BY <3>2, <3>5, <4>1
        <5> QED BY <3>3, <4>1, <5>1, <5>2 DEF Places
      <4>2. CASE x < keys[i]
        <5>1. F[<<at[x], i>>] = {}
          BY <1>5, <2>1, <2>3, <2>6, <3>1, <3>5, <4>2
        <5>2. W(x, i) = {}
          BY <3>2, <3>5, <4>2
        <5> QED BY <3>3, <5>1, <5>2 DEF Places
      <4> QED BY <2>1, <3>1, <3>4, <4>1, <4>2
    <3>6. CASE \E y \in S : at[y] = end[x] /\ x < y /\ \A z \in S : z <= x \/ y <= z
      <4>1. PICK y \in S : at[y] = end[x] /\ x < y /\ \A z \in S : z <= x \/ y <= z
        BY <3>6
      <4>2. NextLetter(S, x, y) /\ y \in Nat /\ x <= y
        BY <1>2, <2>1, <4>1 DEF NextLetter
      <4>3. F[<<at[y], i + 1>>] = hits(y, i + 1) /\ F[<<at[y], i>>] = hits(y, i)
        <5>1. i <= i /\ i \in 1..(n + 1)
          BY <2>1, <3>1
        <5> QED BY <2>2, <3>1, <4>1, <4>2, <5>1
      <4>4. CASE keys[i] = x
        <5>1. F[<<at[x], i>>] = {<<i, at[x] + 2>>} \cup hits(y, i + 1)
          BY <2>1, <2>3, <2>6, <4>1, <4>3, <4>4
        <5>2. W(x, i) = {i} \cup W(y, i + 1)
          BY <3>2, <4>2, <4>4
        <5> QED BY <3>3, <4>4, <5>1, <5>2 DEF Places
      <4>5. CASE x < keys[i]
        <5>1. F[<<at[x], i>>] = hits(y, i)
          BY <2>1, <2>3, <2>6, <3>1, <4>1, <4>3, <4>5
        <5>2. W(x, i) = W(y, i)
          BY <3>2, <4>2, <4>5
        <5> QED BY <3>3, <5>1, <5>2
      <4> QED BY <2>1, <3>1, <3>4, <4>4, <4>5
    <3> QED BY <3>5, <3>6 DEF Walk, hi
  <2> QED BY <2>5, <2>6
<1>7. Good = D
  <2>1. mu \in [D -> Nat]
    <3>1. ASSUME NEW s \in D PROVE (n + 1 - s[2]) + (255 - s[1]) \in Nat
      <4>1. s[1] \in Nat /\ s[1] <= 255 /\ s[2] \in 1..(n + 1)
        BY <1>2
      <4> QED BY <1>4, <4>1
    <3> QED BY <3>1
  <2>2. ASSUME NEW s \in D, \A t \in D : mu[t] < mu[s] => t \in Good
        PROVE  s \in Good
    <3> DEFINE x == s[1]
               i == s[2]
    <3>1. x \in S /\ i \in 1..(n + 1) /\ s = <<x, i>>
      OBVIOUS
    <3>2. ASSUME NEW y \in S, NEW j \in 1..(n + 1), mu[<<y, j>>] < mu[<<x, i>>]
          PROVE  F[<<at[y], j>>] = hits(y, j)
      <4> DEFINE t == <<y, j>>
      <4>1. t \in D /\ t[1] = y /\ t[2] = j
        OBVIOUS
      <4> HIDE DEF mu, t, hits
      <4>2. mu[t] < mu[s]
        BY <3>1, <3>2 DEF t
      <4>3. t \in Good
        BY <2>2, <4>1, <4>2
      <4> QED BY <4>1, <4>3
    <3> HIDE DEF mu, hits, x, i
    <3>3. F[<<at[x], i>>] = hits(x, i)
      BY <1>6, <3>1, <3>2
    <3> QED BY <3>3 DEF x, i
  <2>3. Inductive(D, mu, Good)
    <3> HIDE DEF mu, hits
    <3>1. Good \in SUBSET D
      OBVIOUS
    <3> HIDE DEF D, Good
    <3> QED BY <2>1, <2>2, <3>1 DEF Inductive
  <2> HIDE DEF Good, mu, D
  <2> QED BY <2>3, DescentInduction
<1>8. \A x \in S, i \in 1..(n + 1) : F[<<at[x], i>>] = hits(x, i)
  <2> HIDE DEF hits, mu
  <2> SUFFICES ASSUME NEW x \in S, NEW i \in 1..(n + 1)
               PROVE  F[<<at[x], i>>] = hits(x, i)
    OBVIOUS
  <2> DEFINE s == <<x, i>>
  <2>1. s \in D /\ s[1] = x /\ s[2] = i
    OBVIOUS
  <2> HIDE DEF s
  <2>2. s \in Good
    BY <1>7, <2>1
  <2> QED BY <2>1, <2>2
<1> HIDE DEF Good, D, mu
<1>9. CASE S = {}
  <2>1. lo = hi
    BY <1>9 DEF Walk, lo, hi
  <2>2. KeyHits(S, at, keys) = {}
    BY <1>9 DEF KeyHits, Places
  <2>3. 1 \in Nat
    OBVIOUS
  <2> QED BY <1>1, <1>5, <2>1, <2>2, <2>3
<1>10. CASE S # {}
  <2>1. PICK x \in S : at[x] = lo /\ \A y \in S : x <= y
    BY <1>10 DEF Walk, lo
  <2>2. 1 \in 1..(n + 1)
    BY <1>4
  <2>3. F[<<lo, 1>>] = hits(x, 1)
    <3> HIDE DEF hits
    <3> QED BY <1>8, <2>1, <2>2
  <2>4. Wanted(S, keys, x, 1) = {j \in 1..n : keys[j] \in S}
    BY <2>1 DEF Wanted
  <2> QED BY <1>1, <2>3, <2>4 DEF KeyHits
<1> QED BY <1>9, <1>10

\* The letters in order, with the places of their postings.
FoundTerms(S, at) == [k \in 1..Cardinality(S) |->
                        [term |-> Ascending(S)[k], at |-> at[Ascending(S)[k]] + 2]]

\* The posting of the last of them ends at hi.
LastEnds(S, end, hi) ==
    \A k \in 1..Cardinality(S) :
        Ascending(S)[k] \in S /\ (k = Cardinality(S) => end[Ascending(S)[k]] = hi)

\* sil_document_image_terms shows all the terms in order.
LEMMA TermsFound ==
    ASSUME NEW S, S \in SUBSET Nat, IsFiniteSet(S), NEW m \in Seq(Nat), NEW image,
           image.terms \in Nat, image.content \in Nat, NEW at, NEW end,
           Walk(S, m, image.terms, image.content, at, end)
    PROVE  TermsIn(m, image) = FoundTerms(S, at) /\ LastEnds(S, end, image.content)
<1> DEFINE lo == image.terms
           hi == image.content
           n  == Cardinality(S)
           a  == Ascending(S)
           R  == FoundTerms(S, at)
<1>1. PICK F : IsTermWalk(m, hi, F) /\ TermsIn(m, image) = F[lo]
  BY TermWalkCalls
<1>2. /\ n \in Nat /\ a \in [1..n -> S]
      /\ \A i, j \in 1..n : i < j => a[i] < a[j]
      /\ \A x \in S : \E i \in 1..n : a[i] = x
  BY AscendingFacts
<1>3. \A x \in S : /\ at[x] \in Nat /\ at[x] < hi /\ At(m, at[x]) = x
                   /\ SkipId(m, at[x] + 2) = end[x] /\ x \in Nat
  BY DEF Walk
<1>4. lo \in Nat /\ hi \in Nat
  OBVIOUS
<1>5. F[hi] = <<>>
  <2> HIDE DEF hi
  <2>1. hi \in Nat /\ hi >= hi
    BY <1>4
  <2> QED BY <1>1, <2>1 DEF IsTermWalk
<1>6. /\ R \in Seq(Found) /\ Len(R) = n
      /\ \A k \in 1..n : R[k] = [term |-> a[k], at |-> at[a[k]] + 2]
  <2>1. \A k \in 1..n : a[k] \in S
    BY <1>2
  <2> DEFINE r(k) == [term |-> a[k], at |-> at[a[k]] + 2]
  <2>2. ASSUME NEW k \in 1..n PROVE r(k) \in Found
    <3>1. a[k] \in Nat /\ at[a[k]] \in Nat
      BY <1>3, <2>1
    <3> DEFINE x == a[k]
               p == at[x]
    <3> HIDE DEF x, p
    <3>2. x \in Nat /\ p + 2 \in Nat
      BY <3>1 DEF x, p
    <3>3. [term |-> x, at |-> p + 2] \in Found
      BY <3>2 DEF Found
    <3> QED BY <3>3 DEF x, p
  <2>3. R = [k \in 1..n |-> r(k)]
    BY DEF FoundTerms
  <2>4. n \in Nat
    BY <1>2
  <2> HIDE DEF n, a, R, r
  <2>5. R \in Seq(Found) /\ Len(R) = n /\ \A k \in 1..n : R[k] = r(k)
    BY ONLY <2>2, <2>3, <2>4
  <2> QED BY <2>5 DEF r
<1> HIDE DEF n, a, R, lo, hi
<1>7. ASSUME NEW k \in 1..n
      PROVE  /\ k < n => end[a[k]] = at[a[k + 1]]
             /\ k = n => end[a[k]] = hi
  <2> DEFINE x == a[k]
  <2>1. x \in S /\ x \in Nat
    BY <1>2, <1>3
  <2>2. \/ end[x] = hi /\ \A y \in S : y <= x
        \/ \E y \in S : at[y] = end[x] /\ x < y /\ \A z \in S : z <= x \/ y <= z
    BY <2>1 DEF Walk, hi
  <2>3. CASE k < n
    <3>1. k + 1 \in 1..n /\ k < k + 1
      BY <1>2, <2>3
    <3>2. a[k + 1] \in S /\ a[k + 1] \in Nat /\ x < a[k + 1]
      BY <1>2, <1>3, <3>1
    <3> HIDE DEF x
    <3>3. PICK y \in S : at[y] = end[x] /\ x < y /\ \A z \in S : z <= x \/ y <= z
      <4>1. ~(a[k + 1] <= x)
        BY <2>1, <3>2
      <4> QED BY <2>2, <3>2, <4>1
    <3>4. PICK j \in 1..n : a[j] = y
      BY <1>2
    <3>5. y \in Nat
      BY <1>3
    <3>6. y <= a[k + 1]
      <4>1. a[k + 1] <= x \/ y <= a[k + 1]
        BY <3>2, <3>3
      <4> QED BY <2>1, <3>2, <4>1
    <3>7. ~(j <= k)
      <4>1. j < k => a[j] < a[k]
        BY <1>2
      <4>2. a[k] = x
        BY DEF x
      <4> QED BY <2>1, <3>3, <3>4, <3>5, <4>1, <4>2
    <3>8. ~(k + 1 < j)
      <4>1. k + 1 < j => a[k + 1] < a[j]
        BY <1>2, <3>1
      <4> QED BY <3>2, <3>4, <3>5, <3>6, <4>1
    <3>9. j = k + 1
      BY <3>7, <3>8
    <3> QED BY <2>3, <3>3, <3>4, <3>9 DEF x
  <2>4. CASE k = n
    <3>1. ASSUME NEW y \in S, x < y PROVE FALSE
      <4>1. PICK j \in 1..n : a[j] = y
        BY <1>2
      <4>2. j < k \/ j = k
        BY <1>2, <2>4
      <4>3. j < k => a[j] < a[k]
        BY <1>2
      <4>4. y \in Nat
        BY <1>3
      <4> HIDE DEF x
      <4>5. a[k] = x
        BY DEF x
      <4> QED BY <2>1, <3>1, <4>1, <4>2, <4>3, <4>4, <4>5
    <3> QED BY <2>2, <2>4, <3>1
  <2> QED BY <2>3, <2>4
<1> DEFINE H(k) == IF k = n + 1 THEN <<>> ELSE F[at[a[k]]]
<1>8. ASSUME NEW k \in 1..n PROVE H(k) = <<R[k]>> \o H(k + 1)
  <2> DEFINE x == a[k]
             p == at[x]
  <2>1. p \in Nat /\ ~(p >= hi) /\ At(m, p) = x /\ SkipId(m, p + 2) = end[x] /\ x \in S
    <3>1. x \in S
      BY <1>2
    <3> HIDE DEF x
    <3>2. p \in Nat /\ p < hi /\ At(m, p) = x /\ SkipId(m, p + 2) = end[x]
      BY <1>3, <3>1
    <3>3. hi \in Nat
      BY <1>4 DEF hi
    <3> HIDE DEF p
    <3> QED BY <3>1, <3>2, <3>3
  <2>2. F[p] = <<[term |-> x, at |-> p + 2]>> \o F[end[x]]
    <3> HIDE DEF p, x
    <3> QED BY <1>1, <2>1 DEF IsTermWalk
  <2>3. F[end[x]] = H(k + 1)
    <3>1. CASE k < n
      <4>1. k + 1 # n + 1
        BY <1>2, <3>1
      <4> QED BY <1>7, <3>1, <4>1
    <3>2. CASE k = n
      <4>1. end[x] = hi /\ k + 1 = n + 1
        BY <1>7, <3>2
      <4> QED BY <1>5, <4>1 DEF hi
    <3>3. k < n \/ k = n
      BY <1>2
    <3> QED BY <3>1, <3>2, <3>3
  <2>4. k # n + 1
    BY <1>2
  <2> QED BY <1>6, <2>2, <2>3, <2>4
<1>9. H(n + 1) = <<>>
  OBVIOUS
<1> HIDE DEF H
<1> DEFINE Bad == {j \in Nat : j \in 0..n /\ H(n + 1 - j) # From(R, n + 1 - j)}
<1>10. Bad = {}
  <2>1. SUFFICES ASSUME Bad # {} PROVE FALSE
    OBVIOUS
  <2>2. Bad \in SUBSET Nat
    OBVIOUS
  <2> HIDE DEF Bad
  <2>3. PICK b \in Bad : \A j \in Bad : b <= j
    BY <2>1, <2>2, MinimumExists
  <2>4. b \in 0..n /\ H(n + 1 - b) # From(R, n + 1 - b)
    BY <2>3 DEF Bad
  <2>5. CASE b = 0
    <3>1. n + 1 - b = n + 1
      BY <1>2, <2>5
    <3>2. From(R, n + 1) = <<>>
      BY <1>6, FromFacts
    <3> QED BY <1>9, <2>4, <3>1, <3>2
  <2>6. CASE b # 0
    <3> DEFINE i == n + 1 - b
    <3>1. i \in 1..n /\ b - 1 \in 0..n /\ n + 1 - (b - 1) = i + 1 /\ b - 1 \in Nat /\ ~(b <= b - 1)
      BY <1>2, <2>4, <2>6
    <3>2. b - 1 \notin Bad
      BY <2>3, <3>1
    <3>3. H(i + 1) = From(R, i + 1)
      BY <3>1, <3>2 DEF Bad
    <3>4. From(R, i) = <<R[i]>> \o From(R, i + 1)
      BY <1>6, <3>1, FromFacts
    <3> QED BY <1>8, <2>4, <3>1, <3>3, <3>4
  <2> QED BY <2>5, <2>6
<1>11. H(1) = From(R, 1)
  <2>1. n \in 0..n /\ n \in Nat /\ n + 1 - n = 1
    BY <1>2
  <2>2. n \notin Bad
    BY <1>10
  <2> QED BY <2>1, <2>2
<1>12. From(R, 1) = R
  BY <1>6, FromFacts
<1>13. H(1) = F[lo]
  <2>1. CASE S = {}
    <3>1. n = 0
      BY <2>1, FS_EmptySet DEF n
    <3>2. lo = hi
      BY <2>1 DEF Walk, lo, hi
    <3>3. 1 = n + 1
      BY <3>1
    <3> QED BY <1>5, <3>2, <3>3 DEF H, hi
  <2>2. CASE S # {}
    <3>1. PICK x \in S : at[x] = lo /\ \A y \in S : x <= y
      BY <2>2 DEF Walk, lo
    <3>2. PICK i \in 1..n : a[i] = x
      BY <1>2
    <3>3. 1 \in 1..n /\ 1 # n + 1
      BY <1>2, <3>2
    <3>4. a[1] \in S /\ a[1] \in Nat /\ x \in Nat
      BY <1>2, <1>3, <3>3
    <3>5. i # 1 => a[1] < a[i]
      <4>1. i # 1 => 1 < i
        OBVIOUS
      <4> QED BY <1>2, <3>3, <4>1
    <3>6. x <= a[1]
      BY <3>1, <3>4
    <3>7. a[1] = x
      BY <3>2, <3>4, <3>5, <3>6
    <3> QED BY <3>1, <3>3, <3>7 DEF H
  <2> QED BY <2>1, <2>2
<1>14. \A k \in 1..n : a[k] \in S /\ (k = n => end[a[k]] = hi)
  BY <1>2, <1>7
<1>15. LastEnds(S, end, hi)
  BY <1>14 DEF LastEnds, n, a
<1> QED BY <1>1, <1>11, <1>12, <1>13, <1>15 DEF R, lo, hi

-----------------------------------------------------------------------------
(***************************************************************************)
(* The parts of a serialized document.                                     *)
(***************************************************************************)
\* What is stored somewhere is a slice of the memory.
LEMMA StoredSlice ==
    ASSUME NEW m \in Seq(Nat), NEW s \in Seq(Nat), NEW p, StoredAt(m, p, s),
           p + Len(s) <= Len(m) + 1
    PROVE  SubSeq(m, p, p + Len(s) - 1) = s
<1> DEFINE n == Len(s)
           l == Len(m)
           q == p + n - 1
           u == SubSeq(m, p, q)
<1>1. n \in Nat /\ l \in Nat /\ p \in Nat \ {0} /\ \A i \in 1..n : At(m, p + i - 1) = s[i]
  BY DEF StoredAt
<1>2. q - p + 1 = n /\ q \in Int /\ p \in Int
  BY <1>1
<1>3. \A i \in 1..n : p + i - 1 \in 1..l
  BY <1>1
<1>4. u \in Seq(Nat) /\ Len(u) = n /\ \A i \in 1..n : u[i] = m[p + i - 1]
  <2>1. u = [i \in 1..n |-> m[i + p - 1]]
    <3>1. 1 + q - p = n
      BY <1>2
    <3> HIDE DEF q, n
    <3> QED BY <1>1, <1>2, <3>1
  <2>2. \A i \in 1..n : i + p - 1 = p + i - 1
    BY <1>1
  <2>3. \A i \in 1..n : m[p + i - 1] \in Nat
    BY <1>3
  <2> HIDE DEF n, q, u, l
  <2> QED BY <1>1, <2>1, <2>2, <2>3
<1>5. \A i \in 1..n : u[i] = s[i]
  BY <1>1, <1>3, <1>4 DEF At
<1> HIDE DEF u, n
<1>6. u = [i \in 1..n |-> u[i]] /\ s = [i \in 1..n |-> s[i]]
  BY <1>1, <1>4 DEF n
<1>7. u = s
  BY <1>5, <1>6
<1> QED BY <1>7 DEF u, q, n

\* A part behind a prefix.
LEMMA StoredBehind ==
    ASSUME NEW s \in Seq(Nat), NEW u \in Seq(Nat), NEW m, NEW p, StoredAt(m, p, s \o u)
    PROVE  /\ s \o u \in Seq(Nat) /\ Len(s \o u) = Len(s) + Len(u)
           /\ Len(s) \in Nat /\ Len(u) \in Nat
           /\ StoredAt(m, p, s) /\ StoredAt(m, p + Len(s), u)
<1>1. s \in Seq(Nat) /\ u \in Seq(Nat)
  OBVIOUS
<1>2. s \o u \in Seq(Nat) /\ Len(s \o u) = Len(s) + Len(u) /\ Len(s) \in Nat /\ Len(u) \in Nat
  BY ONLY <1>1, ConcatFacts
<1>3. StoredAt(m, p, s) /\ StoredAt(m, p + Len(s), u)
  BY <1>1, StoredConcat
<1> QED BY <1>2, <1>3

\* The client's parts have the length that is given.
LEMMA CellsLength ==
    ASSUME NEW n \in Nat
    PROVE  Cells(n) \in Seq(Nat) /\ Len(Cells(n)) = n
<1>1. Cells(n) \in Seq(Nat)
  BY CellsBytes
<1>2. Len(Cells(n)) = n
  BY DEF Cells
<1> QED BY <1>1, <1>2

\* The next multiple of 64.
LEMMA AlignedUp ==
    ASSUME NEW x \in Nat
    PROVE  AlignUp(x) \in Nat /\ x <= AlignUp(x) /\ AlignUp(x) % 64 = 0
<1> DEFINE k == (x + 63) \div 64
<1>1. k \in Nat /\ x <= k * 64
  BY SMT
<1> HIDE DEF k
<1>2. (k * 64) % 64 = 0
  BY SMT, <1>1
<1>3. AlignUp(x) = k * 64
  BY DEF AlignUp, k
<1> QED BY <1>1, <1>2, <1>3

\* Rounding up an address leads to where rounding up the offset does exactly if
\* the offsets are counted from an aligned address.
LEMMA AlignedPlace ==
    ASSUME NEW x \in Nat, NEW base \in Nat
    PROVE  AlignUp(base + x) - base = AlignUp(x) <=> base % 64 = 0
<1> DEFINE j == (base + x + 63) \div 64
           k == (x + 63) \div 64
<1>1. j \in Nat /\ k \in Nat /\ AlignUp(base + x) = j * 64 /\ AlignUp(x) = k * 64
  BY SMT DEF AlignUp
<1>2. ASSUME base % 64 = 0 PROVE j * 64 - base = k * 64
  <2> DEFINE q == base \div 64
  <2>1. q \in Nat /\ base = q * 64
    BY <1>2, SMT
  <2> HIDE DEF q
  <2>2. j = q + k
    BY <2>1, SMT
  <2> HIDE DEF j, k
  <2> QED BY <1>1, <2>1, <2>2
<1> HIDE DEF j, k
<1>3. ASSUME j * 64 - base = k * 64 PROVE base % 64 = 0
  <2>1. base = (j - k) * 64 /\ j - k \in Int
    BY <1>1, <1>3
  <2> DEFINE l == j - k
  <2> HIDE DEF l
  <2>2. l \in Int /\ base = l * 64
    BY <2>1 DEF l
  <2> QED BY <2>2, SMT
<1> QED BY <1>1, <1>2, <1>3

\* The header of a document at p.
HeaderStored(d, m, p) ==
    /\ U32At(m, p) = d.document_length
    /\ U32At(m, p + 4) = Len(TermArea(d))
    /\ U32At(m, p + 8) = d.data_length
    /\ U32At(m, p + 12) = d.content_length
    /\ U32At(m, p + 16) = d.num_embeddings
    /\ U32At(m, p + 20) = Len(d.records)

\* The header, the terms and the content in the memory.
BodyStored(d, m, p) ==
    LET terms == p + 24 + d.data_length
    IN  /\ HeaderStored(d, m, p)
        /\ StoredAt(m, p + 24, Cells(d.data_length))
        /\ StoredAt(m, terms, TermArea(d))
        /\ StoredAt(m, terms + Len(TermArea(d)), Cells(d.content_length))
        /\ Len(Body(d)) = 24 + d.data_length + Len(TermArea(d)) + d.content_length

\* In memory the parts are one behind the other, and the header says where.
LEMMA StoredBody ==
    ASSUME NEW d \in GivenDocument, DocumentInWidths(d), NEW m, NEW p, StoredAt(m, p, Body(d))
    PROVE  BodyStored(d, m, p)
<1> DEFINE T  == TermArea(d)
           n  == Len(d.records)
           u1 == U32(d.document_length)
           u2 == U32(Len(T))
           u3 == U32(d.data_length)
           u4 == U32(d.content_length)
           u5 == U32(d.num_embeddings)
           u6 == U32(n)
           c1 == Cells(d.data_length)
           c2 == Cells(d.content_length)
           b2 == u1 \o u2
           b3 == b2 \o u3
           b4 == b3 \o u4
           b5 == b4 \o u5
           b6 == b5 \o u6
           b7 == b6 \o c1
           b8 == b7 \o T
           b9 == b8 \o c2
<1>1. /\ d.records \in Seq(Record) /\ d.document_length \in Nat
      /\ d.data_length \in Nat /\ d.content_length \in Nat /\ d.num_embeddings \in Nat
      /\ n \in Nat
  <2> HIDE DEF n
  <2>1. /\ d.records \in Seq(Record) /\ d.document_length \in Nat
        /\ d.data_length \in Nat /\ d.content_length \in Nat /\ d.num_embeddings \in Nat
    BY DocumentBuilderAssumption DEF GivenDocument
  <2>2. n \in Nat
    BY <2>1 DEF n
  <2> QED BY <2>1, <2>2
<1>2. T \in Seq(Nat) /\ Len(T) \in Nat
  BY <1>1, TermAreaBytes
<1>3. c1 \in Seq(Nat) /\ Len(c1) = d.data_length /\ c2 \in Seq(Nat) /\ Len(c2) = d.content_length
  BY <1>1, CellsLength
<1>4. \A v \in Nat : U32(v) \in Seq(Nat) /\ Len(U32(v)) = 4
  <2>1. ASSUME NEW v \in Nat PROVE U32(v) \in Seq(Nat) /\ Len(U32(v)) = 4
    <3>1. v \in Int
      OBVIOUS
    <3> QED BY <3>1, MachineIntegers
  <2> QED BY <2>1
<1>5. /\ u1 \in Seq(Nat) /\ Len(u1) = 4 /\ u2 \in Seq(Nat) /\ Len(u2) = 4
      /\ u3 \in Seq(Nat) /\ Len(u3) = 4 /\ u4 \in Seq(Nat) /\ Len(u4) = 4
      /\ u5 \in Seq(Nat) /\ Len(u5) = 4 /\ u6 \in Seq(Nat) /\ Len(u6) = 4
  <2> HIDE DEF T, n
  <2> QED BY <1>1, <1>2, <1>4
<1>6. Body(d) = b9
  BY DEF Body, HeaderOf
<1>7. /\ IsWord(d.document_length) /\ IsWord(Len(T)) /\ IsWord(d.data_length)
      /\ IsWord(d.content_length) /\ IsWord(d.num_embeddings) /\ IsWord(n)
  <2>1. /\ Fits32(d.document_length) /\ Fits32(Len(T)) /\ Fits32(d.data_length)
        /\ Fits32(d.content_length) /\ Fits32(d.num_embeddings) /\ Fits32(n)
    BY DEF DocumentInWidths
  <2> HIDE DEF T, n
  <2> QED BY <1>1, <1>2, <2>1, Words32
<1>8. p \in Nat
  BY DEF StoredAt
<1> HIDE DEF T, n, u1, u2, u3, u4, u5, u6, c1, c2
<1>9. \A s, u \in Seq(Nat) : s \o u \in Seq(Nat)
  OBVIOUS
<1>10. /\ b2 \in Seq(Nat) /\ b3 \in Seq(Nat) /\ b4 \in Seq(Nat) /\ b5 \in Seq(Nat)
       /\ b6 \in Seq(Nat) /\ b7 \in Seq(Nat) /\ b8 \in Seq(Nat)
  BY <1>2, <1>3, <1>5, <1>9
<1>11. StoredAt(m, p, b8 \o c2)
  BY <1>6
<1> HIDE DEF b8
<1>12. /\ StoredAt(m, p, b8) /\ StoredAt(m, p + Len(b8), c2)
       /\ Len(b8 \o c2) = Len(b8) + Len(c2) /\ Len(b8) \in Nat
  BY <1>3, <1>10, <1>11, StoredBehind
<1>13. StoredAt(m, p, b7 \o T)
  BY <1>12 DEF b8
<1> HIDE DEF b7
<1>14. /\ StoredAt(m, p, b7) /\ StoredAt(m, p + Len(b7), T)
       /\ Len(b7 \o T) = Len(b7) + Len(T)
  BY <1>2, <1>10, <1>13, StoredBehind
<1>15. StoredAt(m, p, b6 \o c1)
  BY <1>14 DEF b7
<1> HIDE DEF b6
<1>16. /\ StoredAt(m, p, b6) /\ StoredAt(m, p + Len(b6), c1)
       /\ Len(b6 \o c1) = Len(b6) + Len(c1)
  BY <1>3, <1>10, <1>15, StoredBehind
<1>17. StoredAt(m, p, b5 \o u6)
  BY <1>16 DEF b6
<1> HIDE DEF b5
<1>18. /\ StoredAt(m, p, b5) /\ StoredAt(m, p + Len(b5), u6)
       /\ Len(b5 \o u6) = Len(b5) + Len(u6)
  BY <1>5, <1>10, <1>17, StoredBehind
<1>19. StoredAt(m, p, b4 \o u5)
  BY <1>18 DEF b5
<1> HIDE DEF b4
<1>20. /\ StoredAt(m, p, b4) /\ StoredAt(m, p + Len(b4), u5)
       /\ Len(b4 \o u5) = Len(b4) + Len(u5)
  BY <1>5, <1>10, <1>19, StoredBehind
<1>21. StoredAt(m, p, b3 \o u4)
  BY <1>20 DEF b4
<1> HIDE DEF b3
<1>22. /\ StoredAt(m, p, b3) /\ StoredAt(m, p + Len(b3), u4)
       /\ Len(b3 \o u4) = Len(b3) + Len(u4)
  BY <1>5, <1>10, <1>21, StoredBehind
<1>23. StoredAt(m, p, b2 \o u3)
  BY <1>22 DEF b3
<1> HIDE DEF b2
<1>24. /\ StoredAt(m, p, b2) /\ StoredAt(m, p + Len(b2), u3)
       /\ Len(b2 \o u3) = Len(b2) + Len(u3)
  BY <1>5, <1>10, <1>23, StoredBehind
<1>25. StoredAt(m, p, u1 \o u2)
  BY <1>24 DEF b2
<1>26. /\ StoredAt(m, p, u1) /\ StoredAt(m, p + Len(u1), u2)
       /\ Len(u1 \o u2) = Len(u1) + Len(u2)
  BY <1>5, <1>25, StoredBehind
<1>27. /\ Len(b2) = 8 /\ Len(b3) = 12 /\ Len(b4) = 16 /\ Len(b5) = 20 /\ Len(b6) = 24
  BY <1>5, <1>18, <1>20, <1>22, <1>24, <1>26 DEF b2, b3, b4, b5, b6
<1>28. Len(b7) = 24 + d.data_length /\ Len(b8) = 24 + d.data_length + Len(T)
  BY <1>3, <1>14, <1>16, <1>27 DEF b7, b8
<1>29. HeaderStored(d, m, p)
  <2>1. /\ StoredAt(m, p, u1) /\ StoredAt(m, p + 4, u2) /\ StoredAt(m, p + 8, u3)
        /\ StoredAt(m, p + 12, u4) /\ StoredAt(m, p + 16, u5) /\ StoredAt(m, p + 20, u6)
    BY <1>5, <1>18, <1>20, <1>22, <1>24, <1>26, <1>27
  <2> HIDE DEF T, n
  <2>2. U32At(m, p) = d.document_length
    BY <1>1, <1>7, <2>1, U32Back DEF u1
  <2>3. U32At(m, p + 4) = Len(T)
    BY <1>2, <1>7, <2>1, U32Back DEF u2
  <2>4. U32At(m, p + 8) = d.data_length
    BY <1>1, <1>7, <2>1, U32Back DEF u3
  <2>5. U32At(m, p + 12) = d.content_length
    BY <1>1, <1>7, <2>1, U32Back DEF u4
  <2>6. U32At(m, p + 16) = d.num_embeddings
    BY <1>1, <1>7, <2>1, U32Back DEF u5
  <2>7. U32At(m, p + 20) = n
    BY <1>1, <1>7, <2>1, U32Back DEF u6
  <2> QED BY <2>2, <2>3, <2>4, <2>5, <2>6, <2>7 DEF HeaderStored, T, n
<1>30. /\ StoredAt(m, p + 24 + d.data_length, T)
       /\ StoredAt(m, p + 24 + d.data_length + Len(T), c2)
       /\ Len(Body(d)) = 24 + d.data_length + Len(T) + d.content_length
  <2> DEFINE x == d.data_length
             y == Len(T)
             z == d.content_length
  <2>1. x \in Nat /\ y \in Nat /\ z \in Nat
    BY <1>1, <1>2
  <2>2. Len(b7) = 24 + x /\ Len(b8) = 24 + x + y /\ Len(Body(d)) = Len(b8) + z
    BY <1>3, <1>6, <1>12, <1>28
  <2> HIDE DEF x, y, z
  <2>3. p + Len(b7) = p + 24 + x /\ p + Len(b8) = p + 24 + x + y
    BY <1>8, <2>1, <2>2
  <2> QED BY <1>12, <1>14, <2>2, <2>3 DEF x, y, z
<1>31. StoredAt(m, p + 24, c1)
  BY <1>16, <1>27
<1> QED BY <1>29, <1>30, <1>31 DEF BodyStored, T, c1, c2

\* What an image shows of a document in memory: what DocumentImage.ImageIsDocument
\* says of everything but the terms.
PartsShown(d, m, image) ==
    LET slice(from, n) == SubSeq(m, from, from + n - 1)
        size       == EmbeddingBytes * d.num_embeddings
        embeddings == Len(m) + 1 - size
    IN  /\ image.header = HeaderOf(d)
        /\ U32At(m, 1) = Len(m) - PrefixSize
        /\ image.terms \in Nat /\ image.content = image.terms + Len(TermArea(d))
        /\ StoredAt(m, image.terms, TermArea(d))
        /\ slice(image.data, d.data_length) = Cells(d.data_length)
        /\ slice(image.content, d.content_length) = Cells(d.content_length)
        /\ slice(embeddings, size) = Cells(size)
        /\ \A base \in Nat :
              EmbeddingsAt(image, base) = embeddings <=> base % 64 = 0

\* A document is read back as it was written.
LEMMA BlobShown ==
    ASSUME NEW d \in GivenDocument, DocumentInWidths(d), NEW at, at = PrefixSize + 1
    PROVE  PartsShown(d, Blob(d), Image(Blob(d), at))
<1> DEFINE m     == Blob(d)
           image == Image(m, at)
           T     == TermArea(d)
           B     == Body(d)
           P     == Padding(d)
           e     == EmbeddingBytes * d.num_embeddings
           C     == Cells(e)
           doc   == B \o P \o C
           used  == PrefixSize + Len(B)
           k     == AlignUp(used) - used
<1>1. /\ d.records \in Seq(Record) /\ d.data_length \in Nat
      /\ d.content_length \in Nat /\ d.num_embeddings \in Nat
  BY DocumentBuilderAssumption DEF GivenDocument
<1>2. T \in Seq(Nat) /\ Len(T) \in Nat
  BY <1>1, TermAreaBytes
<1>3. m \in Seq(Nat)
  BY BlobBytes
<1>4. StoredAt(m, 1, m)
  <2> HIDE DEF m
  <2> QED BY <1>3, StoredInItself
<1>5. B \in Seq(Nat) /\ Len(B) \in Nat
  BY BodyBytes
<1>6. used \in Nat /\ k \in Nat /\ P \in Seq(Nat) /\ Len(P) = k
  <2>1. used \in Nat
    <3> HIDE DEF B
    <3> QED BY <1>5 DEF PrefixSize
  <2>2. k \in Nat
    <3> HIDE DEF used
    <3>1. AlignUp(used) \in Nat /\ used <= AlignUp(used)
      BY <2>1, AlignedUp
    <3> QED BY <2>1, <3>1
  <2>3. P = [i \in 1..k |-> 0]
    BY DEF Padding
  <2> HIDE DEF k, P, used
  <2>4. P \in Seq(Nat) /\ Len(P) = k
    BY ONLY <2>2, <2>3
  <2> QED BY <2>1, <2>2, <2>4
<1>7. e \in Nat /\ C \in Seq(Nat) /\ Len(C) = e
  <2>1. e \in Nat
    BY <1>1, DocumentFormatAssumption
  <2> HIDE DEF e
  <2> QED BY <2>1, CellsLength
<1>8. m = U32(Len(doc)) \o doc
  BY DEF Blob
<1>9. doc \in Seq(Nat) /\ Len(doc) \in Nat
  <2> HIDE DEF B, P, C
  <2>1. B \o P \in Seq(Nat)
    BY <1>5, <1>6
  <2>2. (B \o P) \o C \in Seq(Nat)
    BY <1>7, <2>1
  <2> HIDE DEF doc
  <2>3. doc \in Seq(Nat)
    BY <2>2 DEF doc
  <2> QED BY <2>3
<1> HIDE DEF m
<1>10. /\ StoredAt(m, 1, U32(Len(doc))) /\ StoredAt(m, 5, doc) /\ Len(m) = 4 + Len(doc)
  <2> DEFINE u == U32(Len(doc))
  <2>1. u \in Seq(Nat) /\ Len(u) = 4
    <3> HIDE DEF doc
    <3>1. Len(doc) \in Int
      BY <1>9
    <3> QED BY <3>1, MachineIntegers
  <2>2. StoredAt(m, 1, u \o doc) /\ m = u \o doc
    BY <1>4, <1>8
  <2> HIDE DEF u, doc
  <2>3. StoredAt(m, 1, u) /\ StoredAt(m, 1 + Len(u), doc) /\ Len(u \o doc) = Len(u) + Len(doc)
    BY <1>9, <2>1, <2>2, StoredBehind
  <2>4. 1 + Len(u) = 5
    BY <2>1
  <2> QED BY <2>1, <2>2, <2>3, <2>4 DEF u
<1>11. U32At(m, 1) = Len(m) - PrefixSize
  <2> HIDE DEF doc
  <2>1. Fits32(Len(m) - PrefixSize)
    BY DEF DocumentInWidths, m
  <2>2. Len(m) - PrefixSize = Len(doc)
    BY <1>9, <1>10 DEF PrefixSize
  <2>3. IsWord(Len(doc))
    BY <1>9, <2>1, <2>2, Words32
  <2>4. U32At(m, 1) = Len(doc)
    BY <1>9, <1>10, <2>3, U32Back
  <2> QED BY <2>2, <2>4
<1>12. /\ StoredAt(m, 5, B) /\ StoredAt(m, 5 + Len(B) + Len(P), C)
       /\ Len(doc) = Len(B) + Len(P) + Len(C)
  <2> DEFINE v == B \o P
  <2>1. B \in Seq(Nat) /\ P \in Seq(Nat)
    BY <1>5, <1>6
  <2> HIDE DEF B, P, C
  <2>2. v \in Seq(Nat) /\ doc = v \o C
    BY <2>1
  <2> HIDE DEF v, doc
  <2>21. StoredAt(m, 5, v \o C) /\ C \in Seq(Nat)
    BY <1>7, <1>10, <2>2
  <2>3. /\ StoredAt(m, 5, v) /\ StoredAt(m, 5 + Len(v), C)
        /\ Len(v \o C) = Len(v) + Len(C)
    BY ONLY <2>2, <2>21, StoredBehind
  <2>4. StoredAt(m, 5, B \o P)
    BY <2>3 DEF v
  <2>5. /\ StoredAt(m, 5, B) /\ Len(B \o P) = Len(B) + Len(P)
        /\ Len(B) \in Nat /\ Len(P) \in Nat
    BY <2>1, <2>4, StoredBehind
  <2>6. Len(v) = Len(B) + Len(P)
    BY <2>5 DEF v
  <2>7. 5 + (Len(B) + Len(P)) = 5 + Len(B) + Len(P)
    BY <2>5
  <2> QED BY <2>2, <2>3, <2>5, <2>6, <2>7
<1> HIDE DEF doc, B, P, C, T
<1>13. BodyStored(d, m, 5)
  BY <1>12, StoredBody DEF B
<1> DEFINE terms   == 29 + d.data_length
           content == terms + Len(T)
           last    == content + d.content_length
<1>14. /\ terms \in Nat /\ content \in Nat /\ last \in Nat
  <2> HIDE DEF last, content, terms
  <2>1. terms \in Nat
    BY <1>1 DEF terms
  <2>2. content \in Nat
    BY <1>2, <2>1 DEF content
  <2> QED BY <1>1, <2>1, <2>2 DEF last
<1>15. /\ HeaderStored(d, m, 5) /\ StoredAt(m, 29, Cells(d.data_length))
       /\ StoredAt(m, terms, T) /\ StoredAt(m, content, Cells(d.content_length))
       /\ last = 5 + Len(B)
  <2> DEFINE x == d.data_length
             y == Len(T)
             z == d.content_length
             b == Len(B)
  <2>1. x \in Nat /\ y \in Nat /\ z \in Nat
    BY <1>1, <1>2
  <2>2. /\ HeaderStored(d, m, 5) /\ StoredAt(m, 5 + 24, Cells(x))
        /\ StoredAt(m, 5 + 24 + x, T) /\ StoredAt(m, 5 + 24 + x + y, Cells(z))
        /\ b = 24 + x + y + z
    BY <1>13 DEF BodyStored, T, B
  <2> HIDE DEF x, y, z, b
  <2>3. 5 + 24 = 29 /\ 5 + 24 + x = 29 + x /\ 5 + 24 + x + y = 29 + x + y
        /\ 29 + x + y + z = 5 + b
    BY <2>1, <2>2
  <2> QED BY <2>2, <2>3 DEF x, y, z, b
<1>16. /\ image.data = 29 /\ image.terms = terms /\ image.content = content
       /\ image.header = HeaderOf(d)
  <2> DEFINE w(i) == U32At(m, 5 + 4 * (i - 1))
  <2>1. at = 5
    BY DEF PrefixSize
  <2>2. /\ image.header = [document_length |-> w(1), term_length |-> w(2),
                           data_length |-> w(3), content_length |-> w(4),
                           num_embeddings |-> w(5), num_terms |-> w(6)]
        /\ image.data = 5 + 24
        /\ image.terms = 5 + 24 + w(3) /\ image.content = 5 + 24 + w(3) + w(2)
    BY <2>1 DEF Image, DocumentHeader
  <2>3. 5 + 4 * (1 - 1) = 5 /\ 5 + 4 * (2 - 1) = 5 + 4 /\ 5 + 4 * (3 - 1) = 5 + 8
        /\ 5 + 4 * (4 - 1) = 5 + 12 /\ 5 + 4 * (5 - 1) = 5 + 16 /\ 5 + 4 * (6 - 1) = 5 + 20
    OBVIOUS
  <2>4. /\ w(1) = d.document_length /\ w(2) = Len(T) /\ w(3) = d.data_length
        /\ w(4) = d.content_length /\ w(5) = d.num_embeddings /\ w(6) = Len(d.records)
    BY <1>15, <2>3, Zenon DEF HeaderStored, T
  <2> HIDE DEF w, image
  <2>5. image.header = HeaderOf(d)
    BY <2>2, <2>4 DEF HeaderOf, T
  <2>6. 5 + 24 = 29
    OBVIOUS
  <2>7. image.terms = terms
    BY ONLY <2>2, <2>4, <2>6
  <2>8. image.content = content
    BY ONLY <2>2, <2>4, <2>6
  <2>9. image.data = 29
    BY ONLY <2>2, <2>6
  <2> QED BY ONLY <2>5, <2>7, <2>8, <2>9
<1> HIDE DEF image, content, terms, last
<1>17. SubSeq(m, content, content + d.content_length - 1) = Cells(d.content_length)
  <2> DEFINE s == Cells(d.content_length)
  <2>1. s \in Seq(Nat) /\ Len(s) = d.content_length
    BY <1>1, CellsLength
  <2> HIDE DEF s
  <2>2. content + Len(s) = last
    BY <2>1 DEF last
  <2>3. last <= Len(m) + 1
    <3>1. Len(m) = 4 + (Len(B) + k + e) /\ Len(B) \in Nat /\ k \in Nat /\ e \in Nat
      BY <1>5, <1>6, <1>7, <1>10, <1>12
    <3> HIDE DEF k, e
    <3> QED BY <1>15, <3>1
  <2>4. StoredAt(m, content, s)
    BY <1>15 DEF s
  <2>5. SubSeq(m, content, content + Len(s) - 1) = s
    BY <1>3, <2>1, <2>2, <2>3, <2>4, StoredSlice DEF m
  <2> QED BY <2>1, <2>5 DEF s
<1>18. AlignUp(used) \in Nat /\ last - 1 = used
  <2>1. last - 1 = used
    BY <1>5, <1>15 DEF PrefixSize
  <2> HIDE DEF used
  <2> QED BY <1>6, <2>1, AlignedUp
<1>19. /\ StoredAt(m, AlignUp(used) + 1, C) /\ AlignUp(used) + 1 + Len(C) <= Len(m) + 1
       /\ Len(m) + 1 - e = AlignUp(used) + 1
  <2> DEFINE a == AlignUp(used)
             b == Len(B)
  <2>1. k = a - used /\ used = 4 + b /\ a \in Nat /\ b \in Nat /\ e \in Nat /\ Len(P) = k
        /\ Len(C) = e /\ Len(m) = 4 + (b + k + e)
    BY <1>5, <1>6, <1>7, <1>10, <1>12, <1>18 DEF PrefixSize
  <2> HIDE DEF a, b, k, used, e
  <2>2. 5 + b + k = a + 1 /\ a + 1 + e <= Len(m) + 1 /\ Len(m) + 1 - e = a + 1
    BY <2>1
  <2> QED BY <1>12, <2>1, <2>2 DEF a, b
<1>20. SubSeq(m, Len(m) + 1 - e, Len(m) + 1 - e + e - 1) = C
  <2> DEFINE p == AlignUp(used) + 1
  <2> HIDE DEF used, e
  <2>1. StoredAt(m, p, C) /\ p + Len(C) <= Len(m) + 1 /\ Len(m) + 1 - e = p
    BY <1>19
  <2> HIDE DEF p
  <2>2. SubSeq(m, p, p + Len(C) - 1) = C
    BY <1>3, <1>7, <2>1, StoredSlice DEF m
  <2> QED BY <1>7, <2>1, <2>2
<1>21. image.terms \in Nat /\ image.content = image.terms + Len(T)
  BY <1>14, <1>16 DEF content
<1>22. StoredAt(m, image.terms, T)
  BY <1>15, <1>16
<1>23. SubSeq(m, image.content, image.content + d.content_length - 1)
          = Cells(d.content_length)
  BY <1>16, <1>17
<1>24. SubSeq(m, image.data, image.data + d.data_length - 1) = Cells(d.data_length)
  <2> DEFINE s == Cells(d.data_length)
  <2>1. s \in Seq(Nat) /\ Len(s) = d.data_length
    BY <1>1, CellsLength
  <2>2. StoredAt(m, 29, s) /\ image.data = 29
    BY <1>15, <1>16
  <2> HIDE DEF s
  <2>3. 29 + Len(s) <= Len(m) + 1
    <3> DEFINE x == Len(s)
               y == Len(T)
               z == d.content_length
    <3>1. x \in Nat /\ y \in Nat /\ z \in Nat
      BY <1>1, <1>2, <2>1
    <3>2. last = 29 + x + y + z
      BY <2>1 DEF last, content, terms
    <3>3. Len(m) = 4 + (Len(B) + k + e) /\ Len(B) \in Nat /\ k \in Nat /\ e \in Nat
      BY <1>5, <1>6, <1>7, <1>10, <1>12
    <3> HIDE DEF k, e, x, y, z
    <3>4. 29 + x <= Len(m) + 1
      BY <1>15, <3>1, <3>2, <3>3
    <3> QED BY <3>4 DEF x
  <2>4. SubSeq(m, 29, 29 + Len(s) - 1) = s
    BY <1>3, <2>1, <2>2, <2>3, StoredSlice DEF m
  <2> QED BY <2>1, <2>2, <2>4 DEF s
<1>25. image.header = HeaderOf(d)
  BY <1>16
<1>26. ASSUME NEW base \in Nat
       PROVE  EmbeddingsAt(image, base) = Len(m) + 1 - e <=> base % 64 = 0
  <2>1. image.header.content_length = d.content_length
    BY <1>25 DEF HeaderOf
  <2>2. EmbeddingsAt(image, base) = AlignUp(base + content + d.content_length - 1) - base + 1
    BY <1>16, <2>1 DEF EmbeddingsAt
  <2>3. base + content + d.content_length - 1 = base + used
    <3>1. last = content + d.content_length
      BY DEF last
    <3> DEFINE z == d.content_length
    <3> HIDE DEF z
    <3>2. content \in Nat /\ z \in Nat /\ used \in Nat /\ content + z - 1 = used
      BY <1>1, <1>6, <1>14, <1>18, <3>1 DEF z
    <3> HIDE DEF used
    <3>3. base + content + z - 1 = base + used
      BY <3>2
    <3> QED BY <3>3 DEF z
  <2> DEFINE a == AlignUp(base + used)
             c == AlignUp(used)
             l == Len(m) + 1 - e
  <2>4. EmbeddingsAt(image, base) = a - base + 1 /\ l = c + 1
    BY <1>19, <2>2, <2>3
  <2> HIDE DEF used
  <2>5. base + used \in Nat
    BY <1>6
  <2>6. a \in Nat /\ c \in Nat
    BY <1>6, <2>5, AlignedUp
  <2>7. a - base = c <=> base % 64 = 0
    BY <1>6, AlignedPlace
  <2> HIDE DEF a, c, l
  <2>8. EmbeddingsAt(image, base) = l <=> a - base = c
    BY <2>4, <2>6
  <2>9. EmbeddingsAt(image, base) = l <=> base % 64 = 0
    BY <2>7, <2>8
  <2> QED BY <2>9 DEF l
<1>27. PartsShown(d, m, image)
  BY ONLY <1>11, <1>20, <1>21, <1>22, <1>23, <1>24, <1>25, <1>26 DEF PartsShown, T, C, e
<1> QED BY ONLY <1>27 DEF m, image

\* A document in the memory, the letters of its terms at "at".
Shown(d, m, image, at, end) ==
    /\ PartsShown(d, m, image)
    /\ Walk(LettersOf(d), m, image.terms, image.content, at, end)
    /\ \A x \in LettersOf(d) :
          /\ StoredAt(m, at[x] + 2, DocumentPosting(RecordsWith(d, x)))
          /\ AdvanceDocumentId(m, at[x] + 2, 0).p = end[x]

\* An image behind the length prefix shows what was written.
LEMMA DocumentShown ==
    ASSUME NEW d \in GivenDocument, InSortOrder(d), DocumentInWidths(d),
           DocumentAt = PrefixSize + 1
    PROVE  \E at, end : Shown(d, Blob(d), Image(Blob(d), DocumentAt), at, end)
<1> DEFINE m     == Blob(d)
           image == Image(m, DocumentAt)
           T     == TermArea(d)
<1>1. PartsShown(d, m, image)
  BY BlobShown
<1>2. m \in Seq(Nat)
  BY BlobBytes
<1> HIDE DEF m, image
<1>3. StoredAt(m, image.terms, T) /\ image.content = image.terms + Len(T)
  BY <1>1 DEF PartsShown
<1>4. \E at, end :
         /\ Walk(LettersOf(d), m, image.terms, image.content, at, end)
         /\ \A x \in LettersOf(d) :
               /\ StoredAt(m, at[x] + 2, DocumentPosting(RecordsWith(d, x)))
               /\ AdvanceDocumentId(m, at[x] + 2, 0).p = end[x]
  BY <1>2, <1>3, AreaWalk
<1> QED BY <1>1, <1>4 DEF Shown, m, image

-----------------------------------------------------------------------------
(***************************************************************************)
(* The state of the builder.                                               *)
(***************************************************************************)
Placed(b) == {q \in b : q.record.position # 0}

\* What DocumentImage.LengthIsOwn says of one document.
OwnLength(given) ==
    given.document_length \in
        Cardinality({i \in DOMAIN given.records : given.records[i].position # 0})
            .. Len(given.records)

\* The equal records are numbered below their number, so the next one is new.
CopiesDense ==
    \A q \in term_bh : /\ q.copy \in Nat
                       /\ q.copy < Cardinality({p \in term_bh : p.record = q.record})

RecordsInv ==
    /\ IsFiniteSet(term_bh) /\ term_bh \in SUBSET [record : Record, copy : Nat]
    /\ Cardinality(term_bh) <= MaxTerms
    /\ CopiesDense

\* document_length_for_bm25 is between the records that have a position and
\* all of them.
LengthInv ==
    /\ document_length \in Nat /\ document_length <= Cardinality(term_bh)
    /\ Cardinality(Placed(term_bh)) <= document_length

\* A document in the memory is what was written for its records in order.
Written(x) ==
    OwnLength(x.given) /\ InSortOrder(x.given) /\ x.document = Blob(x.given)

DocumentsInv ==
    /\ documents \in Seq([given : GivenDocument, document : Seq(Nat)])
    /\ Len(documents) <= MaxDocuments
    /\ \A d \in DOMAIN documents : Written(documents[d])

DocumentInv == RecordsInv /\ LengthInv /\ DocumentsInv

\* A new builder has no record and no document.
LEMMA DocumentInvInit == BuilderInit => DocumentInv
<1> SUFFICES ASSUME BuilderInit PROVE DocumentInv
  OBVIOUS
<1> USE DEF BuilderInit
<1>1. RecordsInv
  BY FS_EmptySet, DocumentBuilderAssumption DEF RecordsInv, CopiesDense
<1>2. LengthInv
  BY FS_EmptySet DEF LengthInv, Placed
<1>3. DocumentsInv
  BY DocumentBuilderAssumption DEF DocumentsInv
<1> QED BY <1>1, <1>2, <1>3 DEF DocumentInv

\* One more record: it is new, and it has a position or not.
LEMMA AddKeepsRecords ==
    ASSUME RecordsInv, NEW letter \in Letters, NEW value \in Values \cup {0},
           NEW pos \in Positions \cup {0}, Add(letter, value, pos)
    PROVE  /\ RecordsInv'
           /\ Cardinality(term_bh) \in Nat
           /\ Cardinality(term_bh') = Cardinality(term_bh) + 1
           /\ Cardinality(Placed(term_bh)) \in Nat
           /\ Cardinality(Placed(term_bh)') =
                  Cardinality(Placed(term_bh)) + (IF pos = 0 THEN 0 ELSE 1)
<1> DEFINE r     == [term |-> Lower(letter), position |-> pos, value |-> value]
           equal == {q \in term_bh : q.record = r}
           n     == Cardinality(equal)
           x     == [record |-> r, copy |-> n]
<1>1. IsFiniteSet(term_bh) /\ term_bh \in SUBSET [record : Record, copy : Nat]
  BY DEF RecordsInv
<1>2. term_bh' = term_bh \cup {x} /\ Cardinality(term_bh) < MaxTerms
  BY DEF Add
<1>3. IsFiniteSet(equal) /\ n \in Nat
  <2>1. equal \in SUBSET term_bh
    OBVIOUS
  <2> HIDE DEF equal
  <2> QED BY <1>1, <2>1, FS_Subset, FS_CardinalityType
<1>4. r \in Record
  BY DEF Record
<1>5. x \notin term_bh /\ x \in [record : Record, copy : Nat] /\ x.record = r /\ x.copy = n
  <2>1. x.record = r /\ x.copy = n
    OBVIOUS
  <2>2. x \in [record : Record, copy : Nat]
    BY <1>3, <1>4
  <2>3. ASSUME x \in term_bh PROVE FALSE
    <3>1. n < Cardinality({p \in term_bh : p.record = r})
      <4> HIDE DEF r, n
      <4> QED BY <2>1, <2>3 DEF RecordsInv, CopiesDense
    <3>2. n < n
      BY <3>1
    <3> HIDE DEF n
    <3> QED BY <1>3, <3>2
  <2> QED BY <2>1, <2>2, <2>3
<1> HIDE DEF x
<1>6. Cardinality(term_bh) \in Nat /\ IsFiniteSet(term_bh')
      /\ Cardinality(term_bh') = Cardinality(term_bh) + 1
  BY <1>1, <1>2, <1>5, FS_AddElement, FS_CardinalityType
<1>7. /\ Cardinality(Placed(term_bh)) \in Nat
      /\ Cardinality(Placed(term_bh)') =
            Cardinality(Placed(term_bh)) + (IF pos = 0 THEN 0 ELSE 1)
  <2> DEFINE P == Placed(term_bh)
  <2>1. P \in SUBSET term_bh /\ x \notin P
    BY <1>5 DEF Placed
  <2>2. Placed(term_bh)' = IF pos = 0 THEN P ELSE P \cup {x}
    <3>1. x.record.position = pos
      BY <1>5
    <3> HIDE DEF r
    <3> QED BY <1>2, <3>1 DEF Placed
  <2> HIDE DEF P
  <2>3. IsFiniteSet(P) /\ Cardinality(P) \in Nat
    BY <1>1, <2>1, FS_Subset, FS_CardinalityType
  <2>4. Cardinality(P \cup {x}) = Cardinality(P) + 1
    BY <2>1, <2>3, FS_AddElement
  <2> QED BY <2>2, <2>3, <2>4 DEF P
<1>8. CopiesDense'
  <2> SUFFICES ASSUME NEW q \in term_bh'
               PROVE  /\ q.copy \in Nat
                      /\ q.copy < Cardinality({p \in term_bh' : p.record = q.record})
    BY DEF CopiesDense
  <2> DEFINE old == {p \in term_bh : p.record = q.record}
             new == {p \in term_bh' : p.record = q.record}
  <2>1. IsFiniteSet(old) /\ Cardinality(old) \in Nat
    <3>1. old \in SUBSET term_bh
      OBVIOUS
    <3> HIDE DEF old
    <3> QED BY <1>1, <3>1, FS_Subset, FS_CardinalityType
  <2>2. CASE q.record = r
    <3>1. old = equal /\ x \notin old /\ new = old \cup {x}
      BY <1>2, <1>5, <2>2
    <3>2. Cardinality(old) = n
      BY <3>1
    <3> HIDE DEF old, new, n, equal
    <3>3. Cardinality(new) = n + 1
      BY <2>1, <3>1, <3>2, FS_AddElement
    <3>4. q.copy \in Nat /\ q.copy <= n
      <4>1. CASE q = x
        BY <1>3, <1>5, <4>1
      <4>2. CASE q \in term_bh
        BY <1>3, <3>2, <4>2 DEF RecordsInv, CopiesDense, old
      <4> QED BY <1>2, <4>1, <4>2
    <3>5. q.copy < Cardinality(new)
      BY <1>3, <3>3, <3>4
    <3> QED BY <3>4, <3>5 DEF new
  <2>3. CASE q.record # r
    <3>1. q \in term_bh /\ new = old
      BY <1>2, <1>5, <2>3
    <3> QED BY <3>1 DEF RecordsInv, CopiesDense
  <2> QED BY <2>2, <2>3
<1>9. RecordsInv'
  <2>1. term_bh' \in SUBSET [record : Record, copy : Nat]
    BY <1>1, <1>2, <1>5
  <2>2. Cardinality(term_bh') <= MaxTerms
    BY <1>2, <1>6, DocumentBuilderAssumption
  <2> QED BY <1>6, <1>8, <2>1, <2>2 DEF RecordsInv
<1> QED BY <1>6, <1>7, <1>9

\* The list that is serialized has every record once, so it has as many
\* records with a position as were added, and it is in order.
LEMMA SortedFacts ==
    ASSUME RecordsInv, NEW s \in Sorted(term_bh)
    PROVE  LET rs == [i \in DOMAIN s |-> s[i].record]
           IN  /\ rs \in Seq(Record) /\ Len(rs) = Cardinality(term_bh)
               /\ Cardinality({i \in DOMAIN rs : rs[i].position # 0})
                      <= Cardinality(Placed(term_bh))
               /\ \A i, j \in 1..Len(rs) : i < j => InOrder(rs[i], rs[j])
<1> DEFINE n  == Cardinality(term_bh)
           rs == [i \in DOMAIN s |-> s[i].record]
           I  == {i \in DOMAIN rs : rs[i].position # 0}
           P  == Placed(term_bh)
<1>1. IsFiniteSet(term_bh) /\ n \in Nat
      /\ \A q \in term_bh : q.record \in Record
  BY FS_CardinalityType DEF RecordsInv
<1>2. s \in [1..n -> term_bh] /\ \A i, j \in 1..n : i < j => s[i] # s[j]
  BY DEF Sorted
<1>3. /\ DOMAIN rs = 1..n /\ \A i \in 1..n : rs[i] = s[i].record /\ s[i] \in term_bh
  <2> HIDE DEF n
  <2> QED BY <1>2
<1>4. rs \in Seq(Record) /\ Len(rs) = n
  <2>1. rs \in [1..n -> Record]
    <3> HIDE DEF n
    <3> QED BY <1>1, <1>2
  <2> HIDE DEF rs, n
  <2> QED BY <1>1, <2>1
<1>5. Cardinality(I) <= Cardinality(P)
  <2>1. I \in SUBSET (1..n) /\ \A i \in I : s[i] \in P
    <3> HIDE DEF rs, n
    <3> QED BY <1>3 DEF Placed
  <2>2. IsFiniteSet(I) /\ Cardinality(I) \in Nat
    <3> HIDE DEF I, n
    <3>1. IsFiniteSet(I) /\ Cardinality(I) \in 0..n
      BY <1>1, <2>1, IndexSets
    <3> QED BY <1>1, <3>1
  <2>3. IsFiniteSet(P) /\ Cardinality(P) \in Nat
    BY <1>1, FS_Subset, FS_CardinalityType DEF Placed
  <2> DEFINE f == [i \in I |-> s[i]]
  <2>4. f \in [I -> P]
    <3> HIDE DEF I, P
    <3> QED BY <2>1
  <2>5. \A i, j \in I : f[i] = f[j] => i = j
    <3> HIDE DEF I, n
    <3> SUFFICES ASSUME NEW i \in I, NEW j \in I, f[i] = f[j] PROVE i = j
      OBVIOUS
    <3>1. i \in 1..n /\ j \in 1..n /\ s[i] = s[j]
      BY <2>1
    <3>2. ~(i < j) /\ ~(j < i)
      BY <1>2, <3>1
    <3> QED BY <1>1, <3>1, <3>2
  <2> HIDE DEF f, I, P
  <2>6. ~(Cardinality(P) < Cardinality(I))
    BY <2>2, <2>3, <2>4, <2>5, FS_PigeonHole
  <2> QED BY <2>2, <2>3, <2>6
<1>6. \A i, j \in 1..Len(rs) : i < j => InOrder(rs[i], rs[j])
  <2>1. \A i, j \in 1..n : i < j => InOrder(s[i].record, s[j].record)
    BY DEF Sorted
  <2> HIDE DEF rs, n
  <2> QED BY <1>3, <1>4, <2>1
<1> HIDE DEF rs
<1> QED BY <1>4, <1>5, <1>6 DEF rs

\* Every call of the builder preserves the invariant.
LEMMA DocumentInvStep == DocumentInv /\ BuilderNext => DocumentInv'
<1> SUFFICES ASSUME DocumentInv, BuilderNext PROVE DocumentInv'
  OBVIOUS
<1> USE DEF DocumentInv
<1>1. 0 \in Positions \cup {0} /\ 0 \in Values \cup {0}
  OBVIOUS
<1>2. ASSUME NEW letter \in Letters, Term(letter) PROVE DocumentInv'
  <2>1. Add(letter, 0, 0) /\ document_length' = document_length /\ documents' = documents
    BY <1>2 DEF Term, Add
  <2>2. RecordsInv'
    BY <1>1, <2>1, AddKeepsRecords
  <2>3. LengthInv'
    BY <1>1, <2>1, AddKeepsRecords DEF LengthInv
  <2> QED BY <2>1, <2>2, <2>3 DEF DocumentsInv
<1>3. ASSUME NEW letter \in Letters, NEW pos \in Positions, TermPosition(letter, pos)
      PROVE  DocumentInv'
  <2>1. Add(letter, 0, pos) /\ document_length' = document_length + 1
        /\ documents' = documents
    BY <1>3 DEF TermPosition, Add
  <2>2. pos \in Positions \cup {0}
    OBVIOUS
  <2>3. RecordsInv'
    BY <1>1, <2>1, <2>2, AddKeepsRecords
  <2>4. LengthInv'
    <3>1. /\ Cardinality(term_bh) \in Nat
          /\ Cardinality(term_bh') = Cardinality(term_bh) + 1
          /\ Cardinality(Placed(term_bh)) \in Nat
          /\ \/ Cardinality(Placed(term_bh)') = Cardinality(Placed(term_bh)) + 0
             \/ Cardinality(Placed(term_bh)') = Cardinality(Placed(term_bh)) + 1
      BY <1>1, <2>1, <2>2, AddKeepsRecords
    <3> QED BY <2>1, <3>1 DEF LengthInv
  <2> QED BY <2>1, <2>3, <2>4 DEF DocumentsInv
<1>4. ASSUME NEW letter \in Letters, NEW value \in Values, TermValue(letter, value)
      PROVE  DocumentInv'
  <2>1. Add(letter, value, 0) /\ document_length' = document_length
        /\ documents' = documents /\ value \in Values \cup {0}
    BY <1>4 DEF TermValue, Add
  <2>2. RecordsInv'
    BY <1>1, <2>1, AddKeepsRecords
  <2>3. LengthInv'
    BY <1>1, <2>1, AddKeepsRecords DEF LengthInv
  <2> QED BY <2>1, <2>2, <2>3 DEF DocumentsInv
<1>5. ASSUME NEW c \in ContentLengths, NEW e \in EmbeddingCounts, BuildDocument(c, e)
      PROVE  DocumentInv'
  <2>1. PICK s \in Sorted(term_bh) :
          documents' = Append(documents,
             Serialized([records |-> [i \in DOMAIN s |-> s[i].record],
                         document_length |-> document_length,
                         data_length |-> 4, content_length |-> c,
                         num_embeddings |-> e]))
    BY <1>5 DEF BuildDocument
  <2>2. term_bh' = {} /\ document_length' = 0 /\ Len(documents) < MaxDocuments
    BY <1>5 DEF BuildDocument, ClearBuilder
  <2>3. RecordsInv'
    BY <2>2, FS_EmptySet, DocumentBuilderAssumption DEF RecordsInv, CopiesDense
  <2>4. LengthInv'
    BY <2>2, FS_EmptySet DEF LengthInv, Placed
  <2> DEFINE rs == [i \in DOMAIN s |-> s[i].record]
             g  == [records |-> rs, document_length |-> document_length,
                    data_length |-> 4, content_length |-> c, num_embeddings |-> e]
             x  == Serialized(g)
  <2>5. /\ rs \in Seq(Record) /\ Len(rs) = Cardinality(term_bh)
        /\ Cardinality({i \in DOMAIN rs : rs[i].position # 0})
               <= Cardinality(Placed(term_bh))
        /\ \A i, j \in 1..Len(rs) : i < j => InOrder(rs[i], rs[j])
    BY SortedFacts
  <2> HIDE DEF rs
  <2>6. g \in GivenDocument
    BY <2>5 DEF GivenDocument, LengthInv
  <2>7. OwnLength(g)
    <3> DEFINE k == Cardinality({i \in DOMAIN rs : rs[i].position # 0})
    <3>1. k \in Nat
      <4>1. {i \in DOMAIN rs : rs[i].position # 0} \in SUBSET (1..Len(rs))
            /\ Len(rs) \in Nat
        BY <2>5
      <4> QED BY <4>1, IndexSets
    <3>2. Cardinality(Placed(term_bh)) \in Nat
      <4>1. Placed(term_bh) \in SUBSET term_bh
        BY DEF Placed
      <4> QED BY <4>1, FS_Subset, FS_CardinalityType DEF RecordsInv
    <3>3. g.records = rs /\ g.document_length = document_length
      OBVIOUS
    <3> HIDE DEF g
    <3>4. OwnLength(g) <=> document_length \in k .. Len(rs)
      BY <3>3 DEF OwnLength
    <3> HIDE DEF k
    <3>5. k <= document_length /\ document_length <= Len(rs)
      BY <2>5, <3>1, <3>2 DEF LengthInv, k
    <3>6. document_length \in Int /\ k \in Int /\ Len(rs) \in Int
      BY <2>5, <3>1 DEF LengthInv
    <3> QED BY <3>4, <3>5, <3>6
  <2>71. InSortOrder(g)
    <3>1. g.records = rs
      OBVIOUS
    <3> HIDE DEF g
    <3> QED BY <2>5, <3>1 DEF InSortOrder
  <2> HIDE DEF g
  <2>8. x \in [given : GivenDocument, document : Seq(Nat)] /\ Written(x)
    <3>1. Blob(g) \in Seq(Nat)
      BY <2>6, BlobBytes
    <3>2. x.given = g /\ x.document = Blob(g)
      BY DEF Serialized
    <3>3. x \in [given : GivenDocument, document : Seq(Nat)]
      BY <2>6, <3>1 DEF Serialized
    <3> HIDE DEF x
    <3> QED BY <2>7, <2>71, <3>2, <3>3 DEF Written
  <2>9. documents' = Append(documents, x)
    BY <2>1 DEF g, rs
  <2> HIDE DEF x
  <2>10. DocumentsInv'
    <3>1. documents' \in Seq([given : GivenDocument, document : Seq(Nat)])
          /\ Len(documents') = Len(documents) + 1
          /\ documents'[Len(documents) + 1] = x
          /\ \A d \in 1..Len(documents) : documents'[d] = documents[d]
          /\ Len(documents) \in Nat
      BY <2>8, <2>9 DEF DocumentsInv
    <3>2. Len(documents') <= MaxDocuments
      BY <2>2, <3>1, DocumentBuilderAssumption
    <3>3. ASSUME NEW d \in DOMAIN documents' PROVE Written(documents'[d])
      <4>1. d \in 1..Len(documents) \/ d = Len(documents) + 1
        BY <3>1
      <4>2. CASE d \in 1..Len(documents)
        <5>1. d \in DOMAIN documents /\ documents'[d] = documents[d]
          BY <3>1, <4>2 DEF DocumentsInv
        <5> QED BY <5>1 DEF DocumentsInv
      <4>3. CASE d = Len(documents) + 1
        BY <2>8, <3>1, <4>3
      <4> QED BY <4>1, <4>2, <4>3
    <3> QED BY <3>1, <3>2, <3>3 DEF DocumentsInv
  <2> QED BY <2>3, <2>4, <2>10
<1> QED BY <1>2, <1>3, <1>4, <1>5 DEF BuilderNext

\* So does everything that leaves the builder alone.
LEMMA DocumentInvStutters == DocumentInv /\ UNCHANGED builderVars => DocumentInv'
BY DEF builderVars, DocumentInv, RecordsInv, CopiesDense, LengthInv, Placed, DocumentsInv
=============================================================================
