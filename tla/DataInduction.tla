--------------------------- MODULE DataInduction ---------------------------
(***************************************************************************)
(* Induction over data.  A set of natural numbers has a least element;     *)
(* what is said of all numbers is proved by way of the least one it is not *)
(* true of.  So a function whose calls descend has the value its           *)
(* definition says (DescendingFunction), and what the operators of the     *)
(* community modules that are defined by such a function return can be     *)
(* stated: concatenating sequences and summing over a set.                 *)
(***************************************************************************)
EXTENDS Sorting, FiniteSetTheorems, WellFoundedInduction, TLAPS

\* What a search for the first index of some kind relies on.
LEMMA MinimumExists ==
    ASSUME NEW S \in SUBSET Nat, S # {}
    PROVE  \E m \in S : \A x \in S : m <= x
<1> DEFINE R == OpToRel(<, Nat)
<1>1. PICK m \in S : \A x \in S : ~(<<x, m>> \in R)
  <2> HIDE DEF R
  <2> QED BY NatLessThanWellFounded, WFMin DEF R
<1>2. \A x \in S : ~(x < m)
  BY <1>1 DEF OpToRel
<1> QED BY <1>2

\* What a search for the highest score relies on.
LEMMA MaximumExists ==
    ASSUME NEW S \in SUBSET Nat, S # {}, NEW n \in Nat, \A x \in S : x <= n
    PROVE  \E m \in S : \A x \in S : x <= m
<1> DEFINE T == {n - x : x \in S}
<1>1. T \in SUBSET Nat /\ T # {}
  <2>1. ASSUME NEW x \in S PROVE n - x \in Nat
    OBVIOUS
  <2> QED BY <2>1
<1>2. PICK t \in T : \A u \in T : t <= u
  <2> HIDE DEF T
  <2> QED BY <1>1, MinimumExists
<1>3. PICK m \in S : t = n - m
  OBVIOUS
<1>4. ASSUME NEW x \in S PROVE x <= m
  <2>1. n - m <= n - x
    BY <1>2, <1>3
  <2> QED BY <2>1
<1> QED BY <1>4
-----------------------------------------------------------------------------
(***************************************************************************)
(* Functions.                                                              *)
(***************************************************************************)
\* The calls of f[s] == IF s \in stop THEN base[s] ELSE g[s, f[step[s]]] descend
\* in the measure mu.
Descends(D, V, mu, step, stop, base, g) ==
    /\ mu \in [D -> Nat] /\ step \in [D -> D] /\ stop \in SUBSET D
    /\ base \in [D -> V] /\ g \in [D \X V -> V]
    /\ \A s \in D \ stop : mu[step[s]] < mu[s]

\* Such a function has a value, whatever the measure is.
LEMMA DescendingFunction ==
    ASSUME NEW D, NEW V, NEW mu, NEW step, NEW stop, NEW base, NEW g,
           Descends(D, V, mu, step, stop, base, g)
    PROVE  \E f \in [D -> V] : \A s \in D :
              f[s] = IF s \in stop THEN base[s] ELSE g[<<s, f[step[s]]>>]
<1> USE DEF Descends
<1> DEFINE Holds(f, s) == f[s] = IF s \in stop THEN base[s]
                                 ELSE g[<<s, f[step[s]]>>]
           UpTo(n)     == {f \in [D -> V] : \A s \in D : mu[s] < n => Holds(f, s)}
\* A function that fits below a measure has only one value there.
<1>1. ASSUME NEW n \in Nat, NEW f \in UpTo(n), NEW h \in UpTo(n),
             NEW s \in D, mu[s] < n
      PROVE  f[s] = h[s]
  <2> DEFINE Differ == {k \in Nat : \E d \in D : /\ mu[d] = k /\ k < n
                                                /\ f[d] # h[d]}
  <2>1. SUFFICES ASSUME f[s] # h[s] PROVE FALSE
    OBVIOUS
  <2>2. mu[s] \in Differ
    BY <1>1, <2>1
  <2>3. PICK k \in Differ : \A j \in Differ : k <= j
    <3> HIDE DEF Differ
    <3>1. Differ # {}
      BY <2>2
    <3>2. Differ \in SUBSET Nat
      BY DEF Differ
    <3> QED BY <3>1, <3>2, MinimumExists
  <2>4. PICK d \in D : mu[d] = k /\ k < n /\ f[d] # h[d]
    BY <2>3
  <2>5. Holds(f, d) /\ Holds(h, d)
    BY <1>1, <2>4
  <2>6. d \notin stop
    BY <2>4, <2>5
  <2>7. step[d] \in D /\ mu[step[d]] < mu[d]
    BY <2>6
  <2>8. mu[step[d]] \notin Differ
    BY <2>3, <2>4, <2>7
  <2>9. f[step[d]] = h[step[d]]
    BY <2>4, <2>7, <2>8
  <2> QED BY <2>4, <2>5, <2>6, <2>9
<1>2. ASSUME NEW n \in Nat PROVE UpTo(n) # {}
  <2> DEFINE Empty == {k \in Nat : UpTo(k) = {}}
  <2>1. SUFFICES ASSUME n \in Empty PROVE FALSE
    OBVIOUS
  <2>2. PICK k \in Empty : \A j \in Empty : k <= j
    <3> HIDE DEF UpTo
    <3>1. Empty # {} /\ Empty \in SUBSET Nat
      BY <2>1
    <3> HIDE DEF Empty
    <3> QED BY <3>1, MinimumExists
  <2>3. base \in UpTo(0)
    OBVIOUS
  <2>4. k # 0
    BY <2>2, <2>3
  <2>5. k - 1 \in Nat /\ k - 1 \notin Empty
    BY <2>2, <2>4
  <2>6. PICK f \in UpTo(k - 1) : TRUE
    BY <2>5
  <2> DEFINE h == [s \in D |-> IF s \in stop THEN base[s]
                               ELSE g[<<s, f[step[s]]>>]]
  <2>7. f \in [D -> V] /\ h \in [D -> V]
    BY <2>6
  <2>8. ASSUME NEW s \in D, mu[s] < k PROVE Holds(h, s)
    <3>1. CASE s \in stop
      BY <3>1
    <3>2. CASE s \notin stop
      <4>1. step[s] \in D /\ mu[step[s]] < k - 1
        BY <2>8, <3>2
      <4>2. Holds(f, step[s])
        BY <2>6, <4>1
      <4>3. h[step[s]] = f[step[s]]
        BY <4>1, <4>2
      <4> QED BY <3>2, <4>3
    <3> QED BY <3>1, <3>2
  <2>9. h \in UpTo(k)
    <3> HIDE DEF h, Holds
    <3> QED BY <2>7, <2>8
  <2> QED BY <2>2, <2>9
<1> DEFINE F == [s \in D |-> (CHOOSE f \in UpTo(mu[s] + 1) : TRUE)[s]]
<1>3. ASSUME NEW s \in D, NEW n \in Nat, mu[s] < n, NEW h \in UpTo(n)
      PROVE  F[s] = h[s]
  <2> DEFINE k == mu[s] + 1
             e == CHOOSE f \in UpTo(k) : TRUE
  <2>1. e \in UpTo(k) /\ k \in Nat /\ mu[s] < k
    <3>1. k \in Nat /\ mu[s] < k
      OBVIOUS
    <3>2. UpTo(k) # {}
      BY <1>2, <3>1
    <3> HIDE DEF UpTo, k
    <3> QED BY <3>1, <3>2
  <2>2. h \in UpTo(k)
    BY <1>3
  <2>3. F[s] = e[s]
    OBVIOUS
  <2> HIDE DEF F, e, UpTo, k
  <2>4. e[s] = h[s]
    BY <1>1, <2>1, <2>2
  <2> QED BY <2>3, <2>4
<1>4. ASSUME NEW s \in D
      PROVE  \E h \in [D -> V] : /\ Holds(h, s) /\ F[s] = h[s]
                                 /\ s \notin stop => F[step[s]] = h[step[s]]
  <2> DEFINE n == mu[s] + 1
  <2>1. n \in Nat /\ mu[s] < n
    OBVIOUS
  <2>2. PICK h \in UpTo(n) : TRUE
    <3> HIDE DEF UpTo, n
    <3> QED BY <1>2, <2>1
  <2>3. h \in [D -> V] /\ Holds(h, s)
    BY <2>1, <2>2
  <2>4. s \notin stop => step[s] \in D /\ mu[step[s]] < n
    BY <2>1
  <2>5. F[s] = h[s] /\ (s \notin stop => F[step[s]] = h[step[s]])
    <3> HIDE DEF UpTo, F, n
    <3> QED BY <1>3, <2>1, <2>2, <2>4
  <2> HIDE DEF F, UpTo, Holds
  <2> QED BY <2>3, <2>5
<1>5. F \in [D -> V]
  <2>1. ASSUME NEW s \in D PROVE F[s] \in V
    <3> HIDE DEF F
    <3> QED BY <1>4
  <2> QED BY <2>1
<1>6. ASSUME NEW s \in D PROVE Holds(F, s)
  <2> HIDE DEF F
  <2> QED BY <1>4
<1> HIDE DEF F
<1> QED BY <1>5, <1>6

\* An element is in P when those of a smaller measure are.
Inductive(D, mu, P) ==
    /\ mu \in [D -> Nat] /\ P \in SUBSET D
    /\ \A s \in D : (\A t \in D : mu[t] < mu[s] => t \in P) => s \in P

\* Then all elements are.
LEMMA DescentInduction ==
    ASSUME NEW D, NEW mu, NEW P, Inductive(D, mu, P)
    PROVE  P = D
<1> USE DEF Inductive
<1> DEFINE Bad == {n \in Nat : \E s \in D : mu[s] = n /\ s \notin P}
<1>1. SUFFICES ASSUME NEW s \in D, s \notin P PROVE FALSE
  OBVIOUS
<1>2. mu[s] \in Bad /\ Bad \in SUBSET Nat
  BY <1>1
<1> HIDE DEF Bad
<1>3. PICK n \in Bad : \A k \in Bad : n <= k
  BY <1>2, MinimumExists
<1>4. PICK d \in D : mu[d] = n /\ d \notin P
  BY <1>3 DEF Bad
<1>5. PICK t \in D : mu[t] < mu[d] /\ t \notin P
  BY <1>4
<1>6. mu[t] \in Bad /\ mu[t] \in Nat /\ n \in Nat
  BY <1>2, <1>5 DEF Bad
<1> QED BY <1>3, <1>4, <1>5, <1>6

-----------------------------------------------------------------------------
(***************************************************************************)
(* Sums over sets.                                                         *)
(***************************************************************************)
\* How FoldSet takes a set apart.
Sums(f, S, g) ==
    g = [s \in SUBSET S |-> IF s = {} THEN 0
                           ELSE f[CHOOSE x \in s : TRUE]
                                + g[s \ {CHOOSE x \in s : TRUE}]]

Weights(S, f) == IsFiniteSet(S) /\ f \in [S -> Nat]

\* Every set of weighed elements has a sum.
LEMMA SumExists ==
    ASSUME NEW S, NEW f, Weights(S, f)
    PROVE  \E g : Sums(f, S, g)
<1> USE DEF Weights
<1> DEFINE D       == SUBSET S
           first(s) == CHOOSE x \in s : TRUE
           mu      == [s \in D |-> Cardinality(s)]
           step    == [s \in D |-> IF s = {} THEN s ELSE s \ {first(s)}]
           stop    == {{}}
           base    == [s \in D |-> 0]
           g       == [x \in D \X Nat |-> IF x[1] = {} THEN 0 ELSE f[first(x[1])] + x[2]]
<1>1. ASSUME NEW s \in D
      PROVE  /\ IsFiniteSet(s) /\ Cardinality(s) \in Nat
             /\ s # {} => /\ first(s) \in s /\ f[first(s)] \in Nat
                         /\ s \ {first(s)} \in D
                         /\ Cardinality(s \ {first(s)}) = Cardinality(s) - 1
  <2>1. IsFiniteSet(s) /\ Cardinality(s) \in Nat
    BY FS_Subset, FS_CardinalityType
  <2>2. ASSUME s # {} PROVE first(s) \in s
    BY <2>2
  <2>3. ASSUME s # {} PROVE Cardinality(s \ {first(s)}) = Cardinality(s) - 1
    <3> HIDE DEF first
    <3> QED BY <2>1, <2>2, <2>3, FS_RemoveElement
  <2> HIDE DEF first
  <2> QED BY <2>1, <2>2, <2>3
<1>2. Descends(D, Nat, mu, step, stop, base, g)
  <2> HIDE DEF first
  <2>1. mu \in [D -> Nat] /\ stop \in SUBSET D /\ base \in [D -> Nat]
    BY <1>1
  <2>2. step \in [D -> D]
    BY <1>1
  <2>3. ASSUME NEW x \in D \X Nat PROVE g[x] \in Nat
    <3>1. x[1] \in D /\ x[2] \in Nat
      OBVIOUS
    <3>2. x[1] # {} => f[first(x[1])] \in Nat
      BY <1>1, <3>1
    <3> QED BY <3>1, <3>2
  <2>4. g \in [D \X Nat -> Nat]
    BY <2>3
  <2>5. ASSUME NEW s \in D \ stop PROVE mu[step[s]] < mu[s]
    <3>1. step[s] = s \ {first(s)} /\ step[s] \in D
      BY <1>1
    <3>2. mu[step[s]] = Cardinality(s) - 1 /\ mu[s] = Cardinality(s)
      BY <1>1, <3>1
    <3>3. Cardinality(s) \in Nat
      BY <1>1
    <3> HIDE DEF D, mu, step, stop
    <3> QED BY <3>2, <3>3
  <2> HIDE DEF D, mu, step, stop, base, g
  <2> QED BY <2>1, <2>2, <2>4, <2>5 DEF Descends
<1>3. PICK h \in [D -> Nat] : \A s \in D :
         h[s] = IF s \in stop THEN base[s] ELSE g[<<s, h[step[s]]>>]
  <2> HIDE DEF D, mu, step, stop, base, g
  <2> QED BY <1>2, DescendingFunction
<1>4. ASSUME NEW s \in D
      PROVE  h[s] = IF s = {} THEN 0 ELSE f[first(s)] + h[s \ {first(s)}]
  <2> HIDE DEF first
  <2>1. CASE s = {}
    BY <1>3, <2>1
  <2>2. CASE s # {}
    <3>1. step[s] = s \ {first(s)} /\ step[s] \in D /\ s \notin stop
      BY <1>1, <2>2
    <3>2. h[step[s]] \in Nat
      BY <1>3, <3>1
    <3>3. g[<<s, h[step[s]]>>] = f[first(s)] + h[step[s]]
      <4> HIDE DEF D, step, stop, base
      <4> QED BY <2>2, <3>2
    <3> QED BY <1>3, <2>2, <3>1, <3>3
  <2> QED BY <2>1, <2>2
<1>5. Sums(f, S, h)
  <2> DEFINE new == [s \in D |-> IF s = {} THEN 0 ELSE f[first(s)] + h[s \ {first(s)}]]
  <2>1. h = new
    <3> HIDE DEF first, D
    <3> QED BY <1>3, <1>4
  <2> QED BY <2>1 DEF Sums
<1> QED BY <1>5

\* The order in which the elements are taken does not matter.
Adds(f, S, g) ==
    /\ g[{}] = 0
    /\ \A T \in SUBSET S : g[T] \in Nat
    /\ \A T \in SUBSET S : \A x \in T : g[T] = f[x] + g[T \ {x}]

\* That sum counts every element once.
LEMMA SumFacts ==
    ASSUME NEW S, NEW f, Weights(S, f), NEW g, Sums(f, S, g)
    PROVE  Adds(f, S, g)
<1> USE DEF Weights
<1> DEFINE first(s) == CHOOSE x \in s : TRUE
           Good(T) == g[T] \in Nat /\ \A x \in T : g[T] = f[x] + g[T \ {x}]
<1>1. ASSUME NEW s \in SUBSET S
      PROVE  g[s] = IF s = {} THEN 0 ELSE f[first(s)] + g[s \ {first(s)}]
  <2> DEFINE new == [u \in SUBSET S |-> IF u = {} THEN 0
                                       ELSE f[first(u)] + g[u \ {first(u)}]]
  <2>1. g = new
    BY DEF Sums
  <2>2. new[s] = IF s = {} THEN 0 ELSE f[first(s)] + g[s \ {first(s)}]
    OBVIOUS
  <2> HIDE DEF new
  <2> QED BY <2>1, <2>2
<1>2. ASSUME NEW s \in SUBSET S
      PROVE  /\ IsFiniteSet(s) /\ Cardinality(s) \in Nat
             /\ \A x \in s : /\ f[x] \in Nat /\ s \ {x} \in SUBSET S
                             /\ Cardinality(s \ {x}) = Cardinality(s) - 1
             /\ s # {} => first(s) \in s
  <2>1. IsFiniteSet(s) /\ Cardinality(s) \in Nat
    BY FS_Subset, FS_CardinalityType
  <2>2. ASSUME NEW x \in s PROVE Cardinality(s \ {x}) = Cardinality(s) - 1
    BY <2>1, FS_RemoveElement
  <2> QED BY <2>1, <2>2
<1> HIDE DEF first
<1>3. ASSUME NEW T \in SUBSET S,
             \A U \in SUBSET S : Cardinality(U) < Cardinality(T) => Good(U)
      PROVE  Good(T)
  <2>1. CASE T = {}
    BY <1>1, <2>1
  <2>2. CASE T # {}
    <3> DEFINE a == first(T)
               A == T \ {a}
    <3>1. a \in T /\ f[a] \in Nat /\ A \in SUBSET S
          /\ Cardinality(A) < Cardinality(T)
      BY <1>2, <2>2
    <3>2. Good(A)
      BY <1>3, <3>1
    <3>3. g[T] = f[a] + g[A]
      BY <1>1, <2>2
    <3> HIDE DEF a
    <3>4. ASSUME NEW x \in T PROVE g[T] = f[x] + g[T \ {x}]
      <4>1. CASE x = a
        BY <3>3, <4>1
      <4>2. CASE x # a
        <5> DEFINE B == T \ {x}
                   C == A \ {x}
        <5>1. B \in SUBSET S /\ Cardinality(B) < Cardinality(T) /\ f[x] \in Nat
          BY <1>2
        <5>2. Good(B) /\ a \in B /\ x \in A
          BY <1>3, <3>1, <4>2, <5>1
        <5>3. C = B \ {a} /\ C \in SUBSET S /\ Cardinality(C) < Cardinality(T)
          <6>1. C = B \ {a} /\ C \in SUBSET S
            BY <3>1
          <6>2. Cardinality(C) = Cardinality(B) - 1 /\ Cardinality(B) \in Nat
            BY <1>2, <5>1, <5>2, <6>1
          <6>3. Cardinality(T) \in Nat
            BY <1>2
          <6> QED BY <5>1, <6>1, <6>2, <6>3
        <5>4. g[A] = f[x] + g[C] /\ g[B] = f[a] + g[C]
          BY <3>2, <5>2, <5>3
        <5>5. g[C] \in Nat
          BY <1>3, <5>3
        <5> HIDE DEF A, B, C, Good
        <5>6. g[T] = f[x] + g[B]
          BY <3>1, <3>3, <5>1, <5>4, <5>5
        <5> QED BY <5>6 DEF B
      <4> QED BY <4>1, <4>2
    <3>5. g[T] \in Nat
      BY <3>1, <3>2, <3>3
    <3> QED BY <3>4, <3>5
  <2> QED BY <2>1, <2>2
<1>4. ASSUME NEW T \in SUBSET S PROVE Good(T)
  <2> DEFINE Bad == {n \in Nat : \E U \in SUBSET S : Cardinality(U) = n /\ ~Good(U)}
  <2>1. SUFFICES ASSUME ~Good(T) PROVE FALSE
    OBVIOUS
  <2> HIDE DEF Good
  <2>2. Cardinality(T) \in Bad /\ Bad \in SUBSET Nat
    BY <1>2, <2>1
  <2> HIDE DEF Bad
  <2>3. PICK n \in Bad : \A m \in Bad : n <= m
    BY <2>2, MinimumExists
  <2>4. PICK U \in SUBSET S : Cardinality(U) = n /\ ~Good(U)
    BY <2>3 DEF Bad
  <2>5. PICK W \in SUBSET S : Cardinality(W) < Cardinality(U) /\ ~Good(W)
    BY <1>3, <2>4
  <2>6. Cardinality(W) \in Bad
    BY <1>2, <2>5 DEF Bad
  <2>7. n \in Nat /\ Cardinality(W) \in Nat
    BY <1>2, <2>2
  <2> QED BY <2>3, <2>4, <2>5, <2>6, <2>7
<1> QED BY <1>1, <1>4 DEF Adds

\* A renaming of the elements of a set.
Renames(S, h) == \A x, y \in S : h[x] = h[y] => x = y
Mapped(h, A)  == {h[x] : x \in A}

\* A set has as many elements when they are renamed, and not more when they
\* are mapped.
LEMMA MappedSets ==
    ASSUME NEW S, IsFiniteSet(S), NEW h
    PROVE  \A A \in SUBSET S :
              /\ IsFiniteSet(Mapped(h, A))
              /\ Cardinality(Mapped(h, A)) <= Cardinality(A)
              /\ Renames(S, h) => Cardinality(Mapped(h, A)) = Cardinality(A)
<1> DEFINE D      == SUBSET S
           im(A)  == {h[x] : x \in A}
           mu     == [A \in D |-> Cardinality(A)]
           ok(A)  == /\ IsFiniteSet(im(A)) /\ Cardinality(im(A)) <= Cardinality(A)
                     /\ Renames(S, h) => Cardinality(im(A)) = Cardinality(A)
           Good   == {A \in D : ok(A)}
<1>1. ASSUME NEW A \in D
      PROVE  /\ IsFiniteSet(A) /\ Cardinality(A) \in Nat
             /\ \A x \in A : Cardinality(A \ {x}) = Cardinality(A) - 1
  <2>1. IsFiniteSet(A) /\ Cardinality(A) \in Nat
    BY FS_Subset, FS_CardinalityType
  <2> QED BY <2>1, FS_RemoveElement
<1>2. mu \in [D -> Nat] /\ Good \in SUBSET D
  BY <1>1
<1>3. ASSUME NEW A \in D, \A B \in D : mu[B] < mu[A] => B \in Good
      PROVE  A \in Good
  <2>1. CASE A = {}
    <3>1. im(A) = {}
      BY <2>1
    <3> QED BY <2>1, <3>1, FS_EmptySet
  <2>2. CASE A # {}
    <3>1. PICK x \in A : TRUE
      BY <2>2
    <3> DEFINE B == A \ {x}
               I == im(B)
               y == h[x]
    <3>2. B \in D /\ Cardinality(B) = Cardinality(A) - 1 /\ Cardinality(A) \in Nat
      BY <1>1
    <3>3. B \in Good
      <4>1. mu[B] < mu[A]
        BY <3>2
      <4> HIDE DEF D, mu, Good, B
      <4> QED BY <1>3, <3>2, <4>1
    <3>4. im(A) = I \cup {y}
      OBVIOUS
    <3>5. ASSUME Renames(S, h) PROVE y \notin I
      BY <3>5 DEF Renames
    <3>6. IsFiniteSet(I) /\ Cardinality(I) <= Cardinality(B)
          /\ (Renames(S, h) => Cardinality(I) = Cardinality(B))
      <4>1. ok(B)
        <5> HIDE DEF ok, D
        <5> QED BY <3>3
      <4> QED BY <4>1
    <3> HIDE DEF B, I, y, im, mu
    <3>7. Cardinality(I) \in Nat
      BY <3>6, FS_CardinalityType
    <3>8. /\ IsFiniteSet(I \cup {y})
          /\ Cardinality(I \cup {y}) =
                IF y \in I THEN Cardinality(I) ELSE Cardinality(I) + 1
      BY <3>6, FS_AddElement
    <3>9. /\ IsFiniteSet(im(A)) /\ Cardinality(im(A)) <= Cardinality(A)
          /\ Renames(S, h) => Cardinality(im(A)) = Cardinality(A)
      BY <3>2, <3>4, <3>5, <3>6, <3>7, <3>8
    <3> QED BY <3>9
  <2> QED BY <2>1, <2>2
<1>4. Inductive(D, mu, Good)
  <2> HIDE DEF D, mu, Good
  <2> QED BY <1>2, <1>3 DEF Inductive
<1>5. Good = D
  <2> HIDE DEF D, mu, Good
  <2> QED BY <1>4, DescentInduction
<1>6. ASSUME NEW A \in D
      PROVE  /\ IsFiniteSet(im(A)) /\ Cardinality(im(A)) <= Cardinality(A)
             /\ Renames(S, h) => Cardinality(im(A)) = Cardinality(A)
  <2>1. A \in Good
    <3> HIDE DEF Good
    <3> QED BY <1>5
  <2>2. ok(A)
    <3> HIDE DEF ok, D
    <3> QED BY <2>1
  <2> QED BY <2>2
<1> QED BY <1>6 DEF Mapped

\* Elements of another set, each of the same weight.
SameWeights(S, f, T, k, h) ==
    Renames(S, h) /\ \A x \in S : h[x] \in T /\ k[h[x]] = f[x]

\* They have the same sum.
LEMMA SumRenamed ==
    ASSUME NEW S, NEW f, Weights(S, f), NEW g, Sums(f, S, g),
           NEW T, NEW k, Weights(T, k), NEW w, Sums(k, T, w),
           NEW h, SameWeights(S, f, T, k, h)
    PROVE  \A A \in SUBSET S : g[A] = w[Mapped(h, A)]
<1> DEFINE D      == SUBSET S
           im(A)  == {h[x] : x \in A}
           mu     == [A \in D |-> Cardinality(A)]
           Good   == {A \in D : g[A] = w[im(A)]}
<1>1. ASSUME NEW A \in D
      PROVE  /\ Cardinality(A) \in Nat /\ im(A) \in SUBSET T
             /\ \A x \in A : Cardinality(A \ {x}) = Cardinality(A) - 1
  <2>1. IsFiniteSet(A) /\ Cardinality(A) \in Nat
    BY FS_Subset, FS_CardinalityType DEF Weights
  <2>2. im(A) \in SUBSET T
    BY DEF SameWeights
  <2> QED BY <2>1, <2>2, FS_RemoveElement
<1>2. mu \in [D -> Nat] /\ Good \in SUBSET D
  BY <1>1
<1>3. /\ g[{}] = 0 /\ \A A \in D : \A x \in A : g[A] = f[x] + g[A \ {x}]
      /\ w[{}] = 0 /\ \A B \in SUBSET T : \A y \in B : w[B] = k[y] + w[B \ {y}]
  BY SumFacts DEF Adds
<1>4. ASSUME NEW A \in D, \A B \in D : mu[B] < mu[A] => B \in Good
      PROVE  g[A] = w[im(A)]
  <2>1. CASE A = {}
    <3>1. im(A) = {}
      BY <2>1
    <3> QED BY <1>3, <2>1, <3>1
  <2>2. CASE A # {}
    <3>1. PICK x \in A : TRUE
      BY <2>2
    <3> DEFINE B == A \ {x}
               y == h[x]
    <3>2. B \in D /\ mu[B] < mu[A]
      BY <1>1
    <3>3. g[B] = w[im(B)]
      BY <1>4, <3>2
    <3>4. im(B) = im(A) \ {y} /\ y \in im(A) /\ k[y] = f[x]
      BY DEF SameWeights, Renames
    <3>5. g[A] = f[x] + g[B]
      BY <1>3
    <3> HIDE DEF im
    <3>6. w[im(A)] = k[y] + w[im(A) \ {y}]
      BY <1>1, <1>3, <3>4
    <3> QED BY <3>3, <3>4, <3>5, <3>6
  <2> QED BY <2>1, <2>2
<1>5. Inductive(D, mu, Good)
  <2> HIDE DEF mu
  <2> QED BY <1>2, <1>4 DEF Inductive
<1>6. Good = D
  <2> HIDE DEF D, mu, Good
  <2> QED BY <1>5, DescentInduction
<1> QED BY <1>6 DEF Mapped

\* The weights k of more elements are those of f where f has some.
Agree(S, f, k) == S \subseteq DOMAIN k /\ \A x \in S : k[x] = f[x]

\* They have the same sums there.
LEMMA SumOfPart ==
    ASSUME NEW S, NEW f, Weights(S, f), NEW g, Sums(f, S, g),
           NEW T, NEW k, Weights(T, k), NEW w, Sums(k, T, w),
           S \in SUBSET T, Agree(S, f, k)
    PROVE  \A A \in SUBSET S : g[A] = w[A]
<1> DEFINE h == [x \in S |-> x]
<1>1. SameWeights(S, f, T, k, h)
  BY DEF SameWeights, Renames, Agree
<1>2. \A A \in SUBSET S : g[A] = w[Mapped(h, A)]
  <2> HIDE DEF h
  <2> QED BY <1>1, SumRenamed
<1>3. ASSUME NEW A \in SUBSET S PROVE Mapped(h, A) = A
  BY DEF Mapped
<1> HIDE DEF h
<1> QED BY <1>2, <1>3

\* The sum grows by the weight of an element that is added.
LEMMA OneMore ==
    ASSUME NEW S, NEW f, Weights(S, f), NEW g, Sums(f, S, g),
           NEW T, NEW k, Weights(T, k), NEW w, Sums(k, T, w),
           NEW x, x \notin S, T = S \cup {x}, Agree(S, f, k)
    PROVE  w[T] = k[x] + g[S]
<1>1. S \in SUBSET T /\ T \in SUBSET T /\ x \in T /\ T \ {x} = S /\ S \in SUBSET S
  OBVIOUS
<1>2. g[S] = w[S]
  BY <1>1, SumOfPart
<1>3. w[T] = k[x] + w[T \ {x}]
  BY <1>1, SumFacts DEF Adds
<1> QED BY <1>1, <1>2, <1>3
-----------------------------------------------------------------------------
(***************************************************************************)
(* The operators of the community modules that the modules use.            *)
(***************************************************************************)

Total(f, A)      == SumFunctionOnSet(f, A)
Concatenated(ss) == FlattenSeq(ss)

\* The fold is a sum.
LEMMA TotalIsSum ==
    ASSUME NEW S, NEW f, Weights(S, f), NEW g, Sums(f, S, g), NEW A \in SUBSET S
    PROVE  Total(f, A) = g[A]
<1> DEFINE first(s) == CHOOSE x \in s : TRUE
           body(h) == [s \in SUBSET A |-> IF s = {} THEN 0
                                          ELSE f[first(s)] + h[s \ {first(s)}]]
           iter    == CHOOSE h : h = body(h)
           k       == [x \in A |-> f[x]]
<1>1. Total(f, A) = iter[A]
  BY DEF Total, SumFunctionOnSet, FoldFunctionOnSet, MapThenFoldSet
<1>2. Weights(A, k)
  BY FS_Subset DEF Weights
<1>3. ASSUME NEW h PROVE Sums(k, A, h) <=> h = body(h)
  <2>1. ASSUME NEW s \in SUBSET A, s # {} PROVE k[first(s)] = f[first(s)]
    BY <2>1
  <2> HIDE DEF first, k
  <2>2. body(h) = [s \in SUBSET A |-> IF s = {} THEN 0
                                      ELSE k[first(s)] + h[s \ {first(s)}]]
    BY <2>1
  <2> QED BY <2>2, Zenon DEF Sums, first
<1>4. Sums(k, A, iter)
  <2>1. \E h : h = body(h)
    <3>1. PICK h : Sums(k, A, h)
      BY <1>2, SumExists
    <3> HIDE DEF body
    <3> QED BY <1>3, <3>1
  <2>2. iter = body(iter)
    <3> HIDE DEF body
    <3> QED BY <2>1
  <2> HIDE DEF body, iter
  <2> QED BY <1>3, <2>2
<1>5. Agree(A, k, f)
  BY DEF Agree, Weights
<1>6. A \in SUBSET A
  OBVIOUS
<1> HIDE DEF iter, k
<1>7. iter[A] = g[A]
  BY <1>2, <1>4, <1>5, <1>6, SumOfPart
<1> QED BY <1>1, <1>7
-----------------------------------------------------------------------------
(***************************************************************************)
(* Concatenating sequences.                                                *)
(***************************************************************************)
\* The maximum of two numbers.
LEMMA MaxOfTwo ==
    ASSUME NEW a \in Nat, NEW b \in Nat
    PROVE  Max({a, b}) \in Nat /\ a <= Max({a, b}) /\ b <= Max({a, b})
<1>1. \E x \in {a, b} : \A y \in {a, b} : x >= y
  OBVIOUS
<1> DEFINE x == CHOOSE x \in {a, b} : \A y \in {a, b} : x >= y
<1>2. x \in {a, b} /\ \A y \in {a, b} : x >= y
  BY <1>1
<1>3. Max({a, b}) = x
  BY DEF Max
<1> HIDE DEF x
<1> QED BY <1>2, <1>3

\* FlattenSeq is what it says, by its last sequence.
LEMMA FlattenCalls ==
    ASSUME NEW X, NEW ss \in Seq(Seq(X)), ss # <<>>
    PROVE  \E f \in [1..Len(ss) -> Seq(X)] :
              /\ FlattenSeq(ss) = f[Len(ss)] /\ f[1] = ss[1]
              /\ \A i \in 1..Len(ss) : i # 1 => f[i] = f[i - 1] \o ss[i]
<1> DEFINE D    == 1..Len(ss)
           V    == Seq(X)
           mu   == [i \in D |-> i]
           step == [i \in D |-> IF i = 1 THEN 1 ELSE i - 1]
           stop == {1}
           base == [i \in D |-> ss[i]]
           g    == [x \in D \X V |-> x[2] \o ss[x[1]]]
           body(f) == [i \in D |-> IF i = 1 THEN ss[i] ELSE f[i - 1] \o ss[i]]
           F    == CHOOSE f : f = body(f)
<1>1. Len(ss) \in Nat \ {0} /\ DOMAIN ss = D /\ \A i \in D : ss[i] \in V
  OBVIOUS
<1>2. PICK f \in [D -> V] : \A i \in D :
         f[i] = IF i \in stop THEN base[i] ELSE g[<<i, f[step[i]]>>]
  <2>1. mu \in [D -> Nat] /\ step \in [D -> D] /\ stop \in SUBSET D
    BY <1>1
  <2>2. base \in [D -> V] /\ g \in [D \X V -> V]
    BY <1>1
  <2>3. \A i \in D \ stop : mu[step[i]] < mu[i]
    BY <1>1
  <2>4. Descends(D, V, mu, step, stop, base, g)
    <3> HIDE DEF D, V, mu, step, stop, base, g
    <3> QED BY <2>1, <2>2, <2>3 DEF Descends
  <2> HIDE DEF D, V, mu, step, stop, base, g
  <2> QED BY <2>4, DescendingFunction
<1>3. ASSUME NEW i \in D PROVE f[i] = IF i = 1 THEN ss[i] ELSE f[i - 1] \o ss[i]
  <2>1. CASE i = 1
    BY <1>2, <2>1
  <2>2. CASE i # 1
    <3>1. i - 1 \in D /\ step[i] = i - 1 /\ i \notin stop
      BY <1>1, <2>2
    <3>2. f[i - 1] \in V
      BY <1>2, <3>1
    <3>3. g[<<i, f[i - 1]>>] = f[i - 1] \o ss[i]
      <4> HIDE DEF V
      <4> QED BY <3>2
    <3> QED BY <1>2, <2>2, <3>1, <3>3
  <2> QED BY <2>1, <2>2
<1>4. f = body(f)
  <2> HIDE DEF D, V
  <2> QED BY <1>2, <1>3
<1>5. F = body(F)
  <2> HIDE DEF body
  <2> QED BY <1>4
<1>6. FlattenSeq(ss) = F[Len(ss)]
  BY <1>1 DEF FlattenSeq
<1>7. \A i \in D : F[i] = IF i = 1 THEN ss[i] ELSE F[i - 1] \o ss[i]
  <2> HIDE DEF F
  <2> QED BY <1>5
<1>8. ASSUME NEW i \in D PROVE F[i] = f[i]
  <2> DEFINE Differ == {k \in D : F[k] # f[k]}
  <2>1. SUFFICES ASSUME Differ # {} PROVE FALSE
    OBVIOUS
  <2>2. PICK k \in Differ : \A j \in Differ : k <= j
    <3>1. Differ \in SUBSET Nat
      BY <1>1
    <3> HIDE DEF Differ
    <3> QED BY <2>1, <3>1, MinimumExists
  <2>3. k # 1
    BY <1>3, <1>7
  <2>4. k \in D /\ k - 1 \in D /\ k - 1 < k
    BY <1>1, <2>2, <2>3
  <2>5. F[k - 1] = f[k - 1]
    <3>1. k - 1 \notin Differ
      <4> HIDE DEF Differ
      <4> QED BY <1>1, <2>2, <2>4
    <3> HIDE DEF F
    <3> QED BY <2>4, <3>1
  <2>6. F[k] = f[k]
    <3> HIDE DEF F, V
    <3> QED BY <1>3, <1>7, <2>3, <2>4, <2>5
  <2> HIDE DEF F
  <2> QED BY <2>2, <2>6
<1>9. F \in [D -> V]
  <2>1. DOMAIN F = D /\ F = [i \in DOMAIN F |-> F[i]]
    <3> HIDE DEF F
    <3> QED BY <1>5
  <2> HIDE DEF F
  <2> QED BY <1>2, <1>8, <2>1
<1>10. /\ F \in [1..Len(ss) -> Seq(X)] /\ F[1] = ss[1]
       /\ \A i \in 1..Len(ss) : i # 1 => F[i] = F[i - 1] \o ss[i]
  <2> HIDE DEF F
  <2> QED BY <1>1, <1>7, <1>9
<1> HIDE DEF F
<1> QED BY <1>6, <1>10

\* What concatenation returns.
LEMMA ConcatFacts ==
    ASSUME NEW X, NEW s \in Seq(X), NEW t \in Seq(X)
    PROVE  /\ s \o t \in Seq(X) /\ Len(s) \in Nat /\ Len(t) \in Nat
           /\ Len(s \o t) = Len(s) + Len(t)
           /\ \A i \in 1..Len(s) : (s \o t)[i] = s[i]
           /\ \A j \in 1..Len(t) : (s \o t)[Len(s) + j] = t[j]
OBVIOUS

\* Concatenated sequences lie one behind the other: the k-th begins where the
\* one before it ends.
LEMMA FlattenLayout ==
    ASSUME NEW X, NEW ss \in Seq(Seq(X))
    PROVE  /\ FlattenSeq(ss) \in Seq(X)
           /\ \E off \in [1..(Len(ss) + 1) -> Nat] :
                 /\ off[1] = 0 /\ off[Len(ss) + 1] = Len(FlattenSeq(ss))
                 /\ \A k \in 1..Len(ss) :
                       /\ off[k + 1] = off[k] + Len(ss[k])
                       /\ off[k + 1] <= Len(FlattenSeq(ss))
                       /\ \A j \in 1..Len(ss[k]) :
                             FlattenSeq(ss)[off[k] + j] = ss[k][j]
<1>1. CASE ss = <<>>
  <2>1. FlattenSeq(ss) = ss /\ Len(ss) = 0
    BY <1>1 DEF FlattenSeq
  <2> DEFINE off == [k \in 1..1 |-> 0]
  <2>2. off \in [1..1 -> Nat] /\ off[1] = 0
    OBVIOUS
  <2>3. <<>> \in Seq(X) /\ Len(<<>>) = 0 /\ 1..0 = {} /\ 0 + 1 = 1
    OBVIOUS
  <2> HIDE DEF off
  <2>4. off[Len(ss) + 1] = Len(FlattenSeq(ss)) /\ off \in [1..(Len(ss) + 1) -> Nat]
    BY <1>1, <2>1, <2>2, <2>3
  <2>5. FlattenSeq(ss) \in Seq(X) /\ 1..Len(ss) = {}
    BY <1>1, <2>1, <2>3
  <2> QED BY <2>2, <2>4, <2>5
<1>2. CASE ss # <<>>
  <2> DEFINE n == Len(ss)
  <2>1. PICK f \in [1..n -> Seq(X)] :
           /\ FlattenSeq(ss) = f[n] /\ f[1] = ss[1]
           /\ \A i \in 1..n : i # 1 => f[i] = f[i - 1] \o ss[i]
    BY <1>2, FlattenCalls
  <2>2. n \in Nat \ {0} /\ \A i \in 1..n : ss[i] \in Seq(X)
    BY <1>2
  <2> DEFINE off == [k \in 1..(n + 1) |-> IF k = 1 THEN 0 ELSE Len(f[k - 1])]
  <2> HIDE DEF n
  <2>3. off \in [1..(n + 1) -> Nat] /\ off[1] = 0 /\ off[n + 1] = Len(f[n])
    <3>1. ASSUME NEW k \in 1..(n + 1) PROVE off[k] \in Nat
      <4>1. CASE k = 1
        BY <4>1
      <4>2. CASE k # 1
        <5>1. k - 1 \in 1..n
          BY <2>2, <4>2
        <5> QED BY <2>1, <4>2, <5>1
      <4> QED BY <4>1, <4>2
    <3>2. 1 \in 1..(n + 1) /\ n + 1 \in 1..(n + 1) /\ n + 1 # 1 /\ (n + 1) - 1 = n
      BY <2>2
    <3> QED BY <3>1, <3>2
  <2>4. ASSUME NEW k \in 1..n
        PROVE  /\ off[k] \in Nat /\ Len(ss[k]) \in Nat
               /\ off[k + 1] = Len(f[k]) /\ Len(f[k]) = off[k] + Len(ss[k])
               /\ \A j \in 1..Len(ss[k]) : f[k][off[k] + j] = ss[k][j]
               /\ k # 1 => /\ k - 1 \in 1..n /\ off[k] = Len(f[k - 1])
                           /\ f[k] = f[k - 1] \o ss[k]
    <3>1. k + 1 \in 1..(n + 1) /\ k + 1 # 1 /\ (k + 1) - 1 = k /\ k \in 1..(n + 1)
      BY <2>2
    <3>2. off[k + 1] = Len(f[k]) /\ off[k] \in Nat /\ Len(ss[k]) \in Nat
      <4>1. off[k + 1] = Len(f[k])
        BY <3>1
      <4>2. off[k] \in Nat
        <5> HIDE DEF off
        <5> QED BY <2>3, <3>1
      <4> QED BY <2>2, <4>1, <4>2
    <3>3. CASE k = 1
      BY <2>1, <2>2, <3>1, <3>2, <3>3
    <3>4. CASE k # 1
      <4>1. k - 1 \in 1..n
        BY <2>2, <3>4
      <4>2. f[k] = f[k - 1] \o ss[k] /\ f[k - 1] \in Seq(X) /\ ss[k] \in Seq(X)
        BY <2>1, <2>2, <3>4, <4>1
      <4>3. off[k] = Len(f[k - 1])
        BY <3>1, <3>4
      <4> HIDE DEF off
      <4>4. Len(f[k]) = Len(f[k - 1]) + Len(ss[k])
        BY <4>2
      <4>5. ASSUME NEW j \in 1..Len(ss[k])
            PROVE  f[k][Len(f[k - 1]) + j] = ss[k][j]
        <5> DEFINE u == f[k - 1]
                   v == ss[k]
        <5>1. f[k] = u \o v /\ u \in Seq(X) /\ v \in Seq(X) /\ j \in 1..Len(v)
          BY <4>2
        <5> HIDE DEF u, v
        <5>2. (u \o v)[Len(u) + j] = v[j]
          BY <5>1, ConcatFacts
        <5> QED BY <5>1, <5>2 DEF u, v
      <4> QED BY <3>2, <3>4, <4>1, <4>2, <4>3, <4>4, <4>5
    <3> QED BY <3>3, <3>4
  <2> HIDE DEF off
  \* A part stays where it is when others follow.
  <2> DEFINE Stays(m) == \A k \in 1..m :
                            /\ off[k + 1] <= Len(f[m])
                            /\ \A j \in 1..Len(ss[k]) : f[m][off[k] + j] = ss[k][j]
  <2>5. ASSUME NEW m \in 1..n, m # 1 => Stays(m - 1)
        PROVE  Stays(m)
    <3>1. SUFFICES ASSUME NEW k \in 1..m
                   PROVE  /\ off[k + 1] <= Len(f[m])
                          /\ \A j \in 1..Len(ss[k]) : f[m][off[k] + j] = ss[k][j]
      OBVIOUS
    <3>2. k \in 1..n
      BY <2>2
    <3>3. /\ off[k] \in Nat /\ Len(ss[k]) \in Nat
          /\ off[k + 1] = Len(f[k]) /\ off[k + 1] = off[k] + Len(ss[k])
          /\ \A j \in 1..Len(ss[k]) : f[k][off[k] + j] = ss[k][j]
      BY <2>4, <3>2
    <3>4. CASE k = m
      <4> HIDE DEF Stays
      <4>1. off[k + 1] <= Len(f[m])
        <5>1. off[k + 1] \in Nat
          BY <3>3
        <5>2. off[k + 1] = Len(f[m])
          BY <3>3, <3>4, Zenon
        <5> QED BY <5>1, <5>2
      <4>2. \A j \in 1..Len(ss[k]) : f[m][off[k] + j] = ss[k][j]
        BY <3>3, <3>4, Zenon
      <4> QED BY <4>1, <4>2
    <3>5. CASE k # m
      <4>1. k \in 1..(m - 1) /\ m # 1 /\ m - 1 \in 1..n
        BY <2>2, <3>5
      <4>2. /\ off[k + 1] <= Len(f[m - 1])
            /\ \A j \in 1..Len(ss[k]) : f[m - 1][off[k] + j] = ss[k][j]
        BY <2>5, <4>1
      <4>3. f[m] = f[m - 1] \o ss[m] /\ f[m - 1] \in Seq(X) /\ ss[m] \in Seq(X)
        BY <2>1, <2>2, <4>1
      <4> HIDE DEF Stays
      <4>4. /\ Len(f[m - 1]) \in Nat /\ Len(f[m]) \in Nat
            /\ Len(f[m - 1]) <= Len(f[m])
            /\ \A i \in 1..Len(f[m - 1]) : f[m][i] = f[m - 1][i]
        <5> DEFINE u == f[m - 1]
                   v == ss[m]
        <5>1. f[m] = u \o v /\ u \in Seq(X) /\ v \in Seq(X)
          BY <4>3
        <5> HIDE DEF u, v
        <5>2. Len(u \o v) = Len(u) + Len(v) /\ Len(u) \in Nat /\ Len(v) \in Nat
              /\ \A i \in 1..Len(u) : (u \o v)[i] = u[i]
          BY <5>1, ConcatFacts
        <5> QED BY <5>1, <5>2 DEF u
      <4>5. ASSUME NEW j \in 1..Len(ss[k])
            PROVE  off[k] + j \in 1..Len(f[m - 1])
        BY <3>3, <4>2, <4>4
      <4>6. ASSUME NEW j \in 1..Len(ss[k])
            PROVE  f[m][off[k] + j] = ss[k][j]
        <5>1. f[m - 1][off[k] + j] = ss[k][j]
          BY <4>2
        <5>2. f[m][off[k] + j] = f[m - 1][off[k] + j]
          BY <4>4, <4>5
        <5> QED BY <5>1, <5>2
      <4>7. off[k + 1] <= Len(f[m])
        <5>1. off[k + 1] \in Nat
          BY <3>3
        <5> QED BY <4>2, <4>4, <5>1
      <4> QED BY <4>6, <4>7
    <3> QED BY <3>4, <3>5
  <2> HIDE DEF Stays
  <2> DEFINE Bad == {m \in 1..n : ~Stays(m)}
  <2>6. Stays(n)
    <3>1. SUFFICES ASSUME ~Stays(n) PROVE FALSE
      OBVIOUS
    <3>2. Bad # {} /\ Bad \in SUBSET Nat
      <4>1. n \in 1..n /\ 1..n \subseteq Nat
        BY <2>2
      <4>2. n \in Bad
        BY <3>1, <4>1
      <4> QED BY <4>1, <4>2
    <3> HIDE DEF Bad
    <3>3. PICK m \in Bad : \A x \in Bad : m <= x
      BY <3>2, MinimumExists
    <3>4. m \in 1..n /\ ~Stays(m)
      BY <3>3 DEF Bad
    <3>5. m # 1 /\ ~Stays(m - 1)
      BY <2>5, <3>4
    <3>6. m - 1 \in Bad /\ m - 1 < m
      BY <2>2, <3>4, <3>5 DEF Bad
    <3> QED BY <2>2, <3>3, <3>4, <3>6
  <2>7. f[n] \in Seq(X)
    BY <2>1, <2>2
  <2>8. \A k \in 1..n : off[k + 1] = off[k] + Len(ss[k])
    BY <2>4
  <2>9. /\ f[n] \in Seq(X)
        /\ \A k \in 1..n : /\ off[k + 1] = off[k] + Len(ss[k])
                            /\ off[k + 1] <= Len(f[n])
                            /\ \A j \in 1..Len(ss[k]) : f[n][off[k] + j] = ss[k][j]
    BY <2>6, <2>7, <2>8 DEF Stays
  <2> QED BY <2>1, <2>3, <2>9 DEF n
<1> QED BY <1>1, <1>2
-----------------------------------------------------------------------------
(***************************************************************************)
(* Sorting.                                                                *)
(***************************************************************************)
\* Ascending lists a set in its order, each element once.
LEMMA AscendingFacts ==
    ASSUME NEW S \in SUBSET Nat, IsFiniteSet(S)
    PROVE  /\ Cardinality(S) \in Nat
           /\ Ascending(S) \in [1..Cardinality(S) -> S]
           /\ \A i, j \in 1..Cardinality(S) : i < j => Ascending(S)[i] < Ascending(S)[j]
           /\ \A x \in S : \E i \in 1..Cardinality(S) : Ascending(S)[i] = x
<1> DEFINE n        == Cardinality(S)
           below(x) == {y \in S : y < x}
           rank     == [x \in S |-> Cardinality(below(x)) + 1]
           A        == Ascending(S)
<1>1. n \in Nat
  BY FS_CardinalityType
<1>2. ASSUME NEW x \in S
      PROVE  /\ IsFiniteSet(below(x)) /\ Cardinality(below(x)) \in Nat
             /\ Cardinality(below(x)) + 1 <= n /\ x \notin below(x)
  <2>1. below(x) \in SUBSET S /\ x \notin below(x) /\ below(x) \cup {x} \in SUBSET S
    OBVIOUS
  <2> HIDE DEF below
  <2>2. IsFiniteSet(below(x)) /\ Cardinality(below(x)) \in Nat
    BY <2>1, FS_Subset, FS_CardinalityType
  <2>3. Cardinality(below(x) \cup {x}) = Cardinality(below(x)) + 1
    BY <2>1, <2>2, FS_AddElement
  <2>4. Cardinality(below(x) \cup {x}) <= n
    BY <2>1, FS_Subset
  <2> QED BY <2>1, <2>2, <2>3, <2>4
<1>3. ASSUME NEW x \in S, NEW y \in S, x < y
      PROVE  rank[x] < rank[y]
  <2>1. x \in Nat /\ y \in Nat
    OBVIOUS
  <2>2. below(x) \cup {x} \in SUBSET below(y)
    <3>1. ASSUME NEW z \in below(x) PROVE z < y
      BY <1>3, <2>1
    <3> QED BY <1>3, <2>1, <3>1
  <2> HIDE DEF below
  <2>3. Cardinality(below(x) \cup {x}) = Cardinality(below(x)) + 1
    BY <1>2, FS_AddElement
  <2>4. Cardinality(below(x) \cup {x}) <= Cardinality(below(y))
    BY <1>2, <2>2, FS_Subset
  <2> QED BY <1>2, <2>3, <2>4
<1>4. rank \in [S -> 1..n]
  <2> HIDE DEF below
  <2>1. ASSUME NEW x \in S PROVE Cardinality(below(x)) + 1 \in 1..n
    BY <1>1, <1>2
  <2> QED BY <2>1
<1>5. ASSUME NEW i \in 1..n PROVE \E x \in S : rank[x] = i
  <2>1. ASSUME NEW x \in S, NEW y \in S, rank[x] = rank[y] PROVE x = y
    <3>1. rank[x] \in Nat /\ rank[y] \in Nat /\ x \in Nat /\ y \in Nat
      BY <1>1, <1>4
    <3> HIDE DEF rank
    <3> QED BY <1>3, <2>1, <3>1
  <2>2. SUFFICES ASSUME \A x \in S : rank[x] # i PROVE FALSE
    OBVIOUS
  <2> DEFINE T == (1..n) \ {i}
  <2> HIDE DEF rank, n
  <2>3. rank \in [S -> T]
    BY <1>4, <2>2
  <2>4. IsFiniteSet(T) /\ Cardinality(T) < n
    <3>1. IsFiniteSet(1..n) /\ Cardinality(1..n) = n
      BY <1>1, FS_Interval
    <3>2. IsFiniteSet(T) /\ Cardinality(T) = n - 1
      <4> DEFINE U == 1..n
      <4>1. IsFiniteSet(U) /\ Cardinality(U) = n /\ i \in U /\ T = U \ {i}
        BY <3>1
      <4> HIDE DEF U, T
      <4> QED BY <4>1, FS_RemoveElement
    <3> QED BY <1>1, <3>2
  <2> HIDE DEF T
  <2>5. Cardinality(T) < Cardinality(S)
    BY <2>4 DEF n
  <2>6. \E x, y \in S : x # y /\ rank[x] = rank[y]
    BY <2>3, <2>4, <2>5, FS_PigeonHole
  <2> QED BY <2>1, <2>6
<1>6. ASSUME NEW i \in 1..n
      PROVE  A[i] \in S /\ rank[A[i]] = i
  <2>1. PICK x \in S : rank[x] = i
    <3> HIDE DEF rank
    <3> QED BY <1>5
  <2>2. i \in Nat
    BY <1>1
  <2>3. Cardinality(below(x)) = i - 1
    <3>1. rank[x] = Cardinality(below(x)) + 1
      OBVIOUS
    <3> HIDE DEF below, rank
    <3> QED BY <1>2, <2>1, <2>2, <3>1
  <2>4. A[i] = CHOOSE z \in S : Cardinality({y \in S : y < z}) = i - 1
    BY DEF Ascending
  <2>5. A[i] \in S /\ Cardinality(below(A[i])) = i - 1
    BY <2>3, <2>4
  <2> HIDE DEF A
  <2>6. rank[A[i]] = Cardinality(below(A[i])) + 1
    BY <2>5
  <2> QED BY <2>2, <2>5, <2>6
<1>7. ASSUME NEW i \in 1..n, NEW j \in 1..n, i < j
      PROVE  A[i] < A[j]
  <2> DEFINE x == A[i]
             y == A[j]
  <2>1. x \in S /\ y \in S /\ rank[x] = i /\ rank[y] = j /\ i \in Nat /\ j \in Nat
    BY <1>1, <1>6
  <2> HIDE DEF x, y, rank, A
  <2>2. ~(y < x) /\ x # y /\ x \in Nat /\ y \in Nat
    BY <1>3, <1>7, <2>1
  <2> QED BY <2>2 DEF x, y
<1>8. ASSUME NEW x \in S PROVE \E i \in 1..n : A[i] = x
  <2> DEFINE i == rank[x]
  <2>1. i \in 1..n
    <3> HIDE DEF rank
    <3> QED BY <1>4
  <2>2. A[i] \in S /\ rank[A[i]] = i
    BY <1>6, <2>1
  <2> DEFINE y == A[i]
  <2> HIDE DEF A, rank
  <2>3. y \in S /\ rank[y] = rank[x] /\ x \in Nat /\ y \in Nat /\ rank[x] \in Nat
    <3>1. rank[x] \in Nat
      BY <1>1, <2>1
    <3>2. y \in S /\ rank[y] = rank[x]
      BY <2>2
    <3> QED BY <3>1, <3>2
  <2>4. y = x
    <3> HIDE DEF y, i
    <3> QED BY <1>3, <2>3
  <2> QED BY <2>1, <2>4
<1>9. A \in [1..n -> S]
  <2>1. A = [i \in 1..n |-> A[i]]
    BY DEF Ascending
  <2> HIDE DEF A
  <2> QED BY <1>6, <2>1
<1> QED BY <1>1, <1>7, <1>8, <1>9

\* f lists the n elements of S in order.
Listed(f, n, S) ==
    /\ f \in [1..n -> S]
    /\ \A i, j \in 1..n : i < j => f[i] < f[j]
    /\ \A x \in S : \E i \in 1..n : f[i] = x

\* There is one way to list a set.
LEMMA AscendingUnique ==
    ASSUME NEW S \in SUBSET Nat, IsFiniteSet(S), NEW n \in Nat, NEW f, Listed(f, n, S)
    PROVE  n = Cardinality(S) /\ f = Ascending(S)
<1> DEFINE c == Cardinality(S)
           a == Ascending(S)
<1>1. /\ c \in Nat /\ a \in [1..c -> S]
      /\ \A i, j \in 1..c : i < j => a[i] < a[j]
      /\ \A x \in S : \E i \in 1..c : a[i] = x
  BY AscendingFacts
<1> HIDE DEF c, a
<1>2. /\ f \in [1..n -> S]
      /\ \A i, j \in 1..n : i < j => f[i] < f[j]
      /\ \A x \in S : \E i \in 1..n : f[i] = x
  BY DEF Listed
<1>3. (\A i \in 1..n : f[i] \in S /\ f[i] \in Nat) /\ (\A i \in 1..c : a[i] \in S /\ a[i] \in Nat)
  BY <1>1, <1>2
<1> DEFINE Bad == {i \in 1..n : ~(i <= c /\ f[i] = a[i])}
<1>4. Bad = {}
  <2>1. SUFFICES ASSUME Bad # {} PROVE FALSE
    OBVIOUS
  <2>2. Bad \in SUBSET Nat
    OBVIOUS
  <2>3. PICK i \in Bad : \A k \in Bad : i <= k
    <3> HIDE DEF Bad
    <3> QED BY <2>1, <2>2, MinimumExists
  <2>4. i \in 1..n /\ ~(i <= c /\ f[i] = a[i])
    OBVIOUS
  <2>5. ASSUME NEW k \in 1..n, k < i PROVE k \in 1..c /\ f[k] = a[k]
    <3>1. k \notin Bad
      <4> HIDE DEF Bad
      <4>1. ~(i <= k)
        BY <2>4, <2>5
      <4> QED BY <2>3, <4>1
    <3> QED BY <1>1, <3>1
  <2> HIDE DEF Bad
  <2>6. PICK j \in 1..c : a[j] = f[i]
    BY <1>1, <1>3, <2>4
  <2>7. ~(j < i)
    <3>1. SUFFICES ASSUME j < i PROVE FALSE
      OBVIOUS
    <3>2. j \in 1..n
      BY <1>1, <2>4, <3>1
    <3>3. f[j] = f[i] /\ f[j] < f[i]
      BY <1>2, <2>4, <2>5, <2>6, <3>1, <3>2
    <3> QED BY <1>3, <2>4, <3>2, <3>3
  <2>8. i \in 1..c /\ i < j
    BY <1>1, <2>4, <2>6, <2>7
  <2>9. a[i] < f[i] /\ a[i] \in S
    BY <1>1, <1>3, <2>6, <2>8
  <2>10. PICK k \in 1..n : f[k] = a[i]
    BY <1>2, <2>9
  <2>11. k < i
    <3>1. CASE i < k
      <4>1. f[i] < f[k] /\ f[k] < f[i] /\ f[i] \in Nat /\ f[k] \in Nat
        BY <1>2, <1>3, <2>4, <2>9, <2>10, <3>1
      <4> QED BY <4>1
    <3>2. CASE i = k
      <4>1. f[i] < f[i] /\ f[i] \in Nat
        BY <1>3, <2>4, <2>9, <2>10, <3>2
      <4> QED BY <4>1
    <3> QED BY <2>4, <3>1, <3>2
  <2>12. k \in 1..c /\ a[k] = a[i] /\ a[k] < a[i] /\ a[k] \in Nat
    BY <1>1, <1>3, <2>5, <2>8, <2>10, <2>11
  <2> QED BY <2>12
<1>5. \A i \in 1..n : i <= c /\ f[i] = a[i]
  BY <1>4
<1>6. n <= c
  BY <1>1, <1>5
<1>7. ~(n < c)
  <2>1. SUFFICES ASSUME n < c PROVE FALSE
    OBVIOUS
  <2>2. c \in 1..c
    BY <1>1, <2>1
  <2>3. PICK k \in 1..n : f[k] = a[c]
    BY <1>2, <1>3, <2>2
  <2>4. k \in 1..c /\ k < c
    BY <1>1, <2>1
  <2>5. a[k] = a[c] /\ a[k] < a[c] /\ a[k] \in Nat
    BY <1>1, <1>3, <1>5, <2>2, <2>3, <2>4
  <2> QED BY <2>5
<1>8. n = c
  BY <1>1, <1>6, <1>7
<1>9. f = a
  BY <1>1, <1>2, <1>5, <1>8
<1> QED BY <1>8, <1>9 DEF c, a
=============================================================================
