----------------------------- MODULE DataLemmas -----------------------------
(* Induction, stated of sets instead of predicates, and what it says of       *)
(* sequences of sequences, of sums, and of sorting.                           *)
EXTENDS Integers, Sequences, SequencesExt, FiniteSets, FiniteSetTheorems, SequenceTheorems,
        WellFoundedInduction, TLAPS

\* A set of naturals that is not empty has a least element.
LEMMA LeastNat ==
    ASSUME NEW T, T \subseteq Nat, T # {}
    PROVE  \E x \in T : \A y \in T : x <= y
<1> DEFINE R == OpToRel(<, Nat)
<1>1. IsWellFoundedOn(R, Nat)
  BY NatLessThanWellFounded
<1>2. PICK x \in T : \A y \in T : <<y, x>> \notin R
  <2> HIDE DEF R
  <2> QED
    BY <1>1, WFMin
<1>3. \A y \in T : ~(y < x)
  BY <1>2 DEF OpToRel
<1> QED
  BY <1>3

\* Induction over the naturals.
LEMMA NatInd ==
    ASSUME NEW T, 0 \in T, \A n \in Nat : n \in T => n + 1 \in T
    PROVE  Nat \subseteq T
<1> SUFFICES ASSUME Nat \ T # {} PROVE FALSE
  OBVIOUS
<1>1. PICK x \in Nat \ T : \A y \in Nat \ T : x <= y
  <2> DEFINE B == Nat \ T
  <2>1. B \subseteq Nat /\ B # {}
    OBVIOUS
  <2> HIDE DEF B
  <2>2. \E x \in B : \A y \in B : x <= y
    BY <2>1, LeastNat
  <2> QED
    BY <2>2 DEF B
<1>2. x # 0 /\ x - 1 \in Nat /\ x - 1 \in T
  BY <1>1
<1> QED
  BY <1>1, <1>2

\* Induction over sequences, at their end.
LEMMA SeqInd ==
    ASSUME NEW X, NEW T, <<>> \in T,
           \A s \in Seq(X), x \in X : s \in T => Append(s, x) \in T
    PROVE  Seq(X) \subseteq T
<1> DEFINE N == {n \in Nat : \A s \in Seq(X) : Len(s) = n => s \in T}
<1>1. 0 \in N
  BY EmptySeq
<1>2. ASSUME NEW n \in Nat, n \in N PROVE n + 1 \in N
  <2> SUFFICES ASSUME NEW s \in Seq(X), Len(s) = n + 1 PROVE s \in T
    OBVIOUS
  <2>1. s # <<>>
    BY EmptySeq
  <2>2. PICK r \in Seq(X), x \in X : s = Append(r, x)
    BY <2>1, SequenceEmptyOrAppend
  <2>3. Len(r) = n
    BY <2>2, AppendProperties, LenProperties
  <2> QED
    BY <2>2, <2>3, <1>2
<1> HIDE DEF N
<1>3. Nat \subseteq N
  BY <1>1, <1>2, NatInd
<1> QED
  BY <1>3, LenProperties DEF N

\* Induction over the subsets of a finite set.
LEMMA SubsetInd ==
    ASSUME NEW S, IsFiniteSet(S), NEW T, {} \in T,
           \A A \in SUBSET S, x \in S : A \in T /\ x \notin A => A \cup {x} \in T
    PROVE  SUBSET S \subseteq T
<1> DEFINE N == {n \in Nat : \A A \in SUBSET S : Cardinality(A) = n => A \in T}
<1>1. 0 \in N
  <2> SUFFICES ASSUME NEW A \in SUBSET S, Cardinality(A) = 0 PROVE A \in T
    OBVIOUS
  <2> QED
    BY FS_Subset, FS_EmptySet
<1>2. ASSUME NEW n \in Nat, n \in N PROVE n + 1 \in N
  <2> SUFFICES ASSUME NEW A \in SUBSET S, Cardinality(A) = n + 1 PROVE A \in T
    OBVIOUS
  <2>1. IsFiniteSet(A)
    BY FS_Subset
  <2>2. PICK x : x \in A
    BY <2>1, FS_EmptySet
  <2>3. Cardinality(A \ {x}) = Cardinality(A) - 1
    <3>1. Cardinality(A \ {x}) = IF x \in A THEN Cardinality(A) - 1 ELSE Cardinality(A)
      BY <2>1, FS_RemoveElement, Zenon
    <3> QED
      BY <3>1, <2>2
  <2>4. A \ {x} \in T
    BY <2>3, <1>2
  <2>5. A = (A \ {x}) \cup {x}
    BY <2>2
  <2> QED
    BY <2>2, <2>4, <2>5
<1> HIDE DEF N
<1>3. Nat \subseteq N
  BY <1>1, <1>2, NatInd
<1> SUFFICES ASSUME NEW A \in SUBSET S PROVE A \in T
  OBVIOUS
<1>4. Cardinality(A) \in Nat
  BY FS_Subset, FS_CardinalityType
<1> QED
  BY <1>3, <1>4 DEF N

-----------------------------------------------------------------------------
(* Sequences and numbers                                                      *)

\* A function from the first n naturals is a sequence of n.
LEMMA FunIsSeq ==
    ASSUME NEW S, NEW n \in Nat, NEW f \in [1 .. n -> S]
    PROVE  f \in Seq(S) /\ Len(f) = n /\ DOMAIN f = 1 .. n
<1>1. f \in Seq(S)
  BY SeqDef
<1>2. DOMAIN f = 1 .. n /\ DOMAIN f = 1 .. Len(f) /\ Len(f) \in Nat
  BY <1>1, LenProperties
<1>3. Len(f) = n
  <2>1. \A i \in Int : i \in 1 .. Len(f) <=> i \in 1 .. n
    BY <1>2
  <2> QED
    BY <2>1, <1>2
<1> QED
  BY <1>1, <1>2, <1>3

\* A concatenation, place by place.
LEMMA ConcatIs ==
    ASSUME NEW X, NEW s \in Seq(X), NEW t \in Seq(X), NEW u \in Seq(X), Len(u) = Len(s) + Len(t),
           \A k \in 1 .. Len(s) + Len(t) : u[k] = IF k <= Len(s) THEN s[k] ELSE t[k - Len(s)]
    PROVE  u = s \o t
<1> DEFINE v == s \o t
<1>1. v \in Seq(X) /\ Len(v) = Len(s) + Len(t)
  OBVIOUS
<1>2. \A k \in 1 .. Len(s) + Len(t) : v[k] = IF k <= Len(s) THEN s[k] ELSE t[k - Len(s)]
  OBVIOUS
<1>3. \A k \in 1 .. Len(s) + Len(t) : u[k] = v[k]
  BY <1>2
<1> HIDE DEF v
<1>4. u = v
  BY <1>1, <1>3, SeqEqual
<1> QED
  BY <1>4 DEF v

\* The beginning of a sequence in two pieces.
LEMMA SubSeqJoin ==
    ASSUME NEW X, NEW s \in Seq(X), NEW i \in Nat, NEW j \in Nat, i <= j, j <= Len(s)
    PROVE  /\ SubSeq(s, 1, j) = SubSeq(s, 1, i) \o SubSeq(s, i + 1, j)
           /\ SubSeq(s, 1, i) \in Seq(X)
<1> DEFINE t == SubSeq(s, 1, i)
           u == SubSeq(s, i + 1, j)
           v == SubSeq(s, 1, j)
<1>1. t \in Seq(X) /\ u \in Seq(X) /\ v \in Seq(X) /\ Len(t) = i /\ Len(u) = j - i /\ Len(v) = j
  OBVIOUS
<1>2. \A k \in 1 .. j : v[k] = IF k <= i THEN t[k] ELSE u[k - i]
  OBVIOUS
<1> HIDE DEF t, u, v
<1>3. Len(v) = Len(t) + Len(u) /\ \A k \in 1 .. Len(t) + Len(u) : v[k] = IF k <= Len(t) THEN t[k] ELSE u[k - Len(t)]
  BY <1>1, <1>2
<1>4. v = t \o u
  BY <1>1, <1>3, ConcatIs
<1> QED
  BY <1>1, <1>4 DEF t, u, v

\* A sequence without repetition has as many elements as places.
LEMMA InjectiveCount ==
    ASSUME NEW X, NEW s \in Seq(X), IsInjective(s)
    PROVE  IsFiniteSet(Range(s)) /\ Cardinality(Range(s)) = Len(s)
<1> DEFINE n == Len(s)
           D == 1 .. n
           R == Range(s)
<1>1. n \in Nat /\ DOMAIN s = D /\ s \in [D -> X]
  BY LenProperties
<1>2. IsFiniteSet(D) /\ Cardinality(D) = n
  <2>1. 1 \in Int /\ n \in Int
    BY <1>1
  <2>2. IsFiniteSet(D) /\ Cardinality(D) = IF 1 > n THEN 0 ELSE n - 1 + 1
    BY <2>1, FS_Interval
  <2>3. (IF 1 > n THEN 0 ELSE n - 1 + 1) = n
    BY <1>1
  <2> QED
    BY <2>2, <2>3
<1>3. s \in Injection(D, R) /\ s \in Surjection(D, R)
  <2>1. s \in [D -> R] /\ \A t \in R : \E i \in D : s[i] = t
    BY <1>1 DEF Range
  <2> HIDE DEF D, R
  <2> QED
    BY <2>1 DEF Injection, Surjection
<1> HIDE DEF D, R, n
<1>4. IsFiniteSet(R) /\ Cardinality(R) = Cardinality(D)
  BY <1>2, <1>3, FS_Surjection
<1> QED
  BY <1>2, <1>4 DEF R, n

\* Multiples of one size.
LEMMA Products ==
    ASSUME NEW s \in Nat \ {0}, NEW p \in Nat, NEW q \in Nat
    PROVE  /\ p * s \in Nat /\ (p <= q => p * s <= q * s)
           /\ (p + 1) * s = p * s + s
<1>1. p * s \in Nat /\ q * s \in Nat
  OBVIOUS
<1>2. (p + 1) * s = p * s + s
  OBVIOUS
<1>3. ASSUME p <= q PROVE p * s <= q * s
  <2> DEFINE d == q - p
  <2>1. d \in Nat /\ q = p + d
    BY <1>3
  <2> HIDE DEF d
  <2>2. d * s \in Nat /\ (p + d) * s = p * s + d * s
    BY <2>1
  <2> QED
    BY <2>1, <2>2, <1>1
<1> QED
  BY <1>1, <1>2, <1>3

\* The runs of s numbers that n numbers make, the last of them perhaps shorter.
LEMMA RunsOf ==
    ASSUME NEW n \in Nat, NEW s \in Nat \ {0}, NEW m, m = (n + s - 1) \div s
    PROVE  m \in Nat /\ n <= m * s /\ \A k \in 1 .. m : (k - 1) * s \in Nat /\ (k - 1) * s < n
<1> DEFINE a == n + s - 1
<1>1. a \in Nat /\ m = a \div s /\ n + s = a + 1
  OBVIOUS
<1> HIDE DEF a
<1>2. m \in Nat /\ m * s <= a /\ a < m * s + s
  BY <1>1
<1>3. n <= m * s
  BY <1>1, <1>2
<1>4. ASSUME NEW k \in 1 .. m PROVE (k - 1) * s \in Nat /\ (k - 1) * s < n
  <2>1. k - 1 \in Nat /\ k \in Nat /\ (k - 1) + 1 = k
    BY <1>2
  <2>2. (k - 1) * s \in Nat /\ k * s = (k - 1) * s + s
    BY <2>1, Products
  <2>3. k * s <= m * s
    BY <1>2, <2>1, Products
  <2> QED
    BY <1>1, <1>2, <2>2, <2>3
<1> QED
  BY <1>2, <1>3, <1>4

-----------------------------------------------------------------------------
(* One sequence after the other                                               *)

Flats(g, ss) == g = [i \in 1 .. Len(ss) |-> IF i = 1 THEN ss[i] ELSE g[i - 1] \o ss[i]]

LEMMA FlatsAt ==
    ASSUME NEW ss, NEW g, Flats(g, ss), NEW i \in 1 .. Len(ss)
    PROVE  g[i] = IF i = 1 THEN ss[i] ELSE g[i - 1] \o ss[i]
<1> DEFINE F == [j \in 1 .. Len(ss) |-> IF j = 1 THEN ss[j] ELSE g[j - 1] \o ss[j]]
<1>1. g = F
  BY DEF Flats
<1>2. F[i] = IF i = 1 THEN ss[i] ELSE g[i - 1] \o ss[i]
  OBVIOUS
<1> HIDE DEF F
<1> QED
  BY <1>1, <1>2

\* FlattenSeq is such a function, taken at the end.
LEMMA FlatsExists ==
    ASSUME NEW X, NEW ss \in Seq(X)
    PROVE  \E g : Flats(g, ss)
<1> DEFINE Fits(g, n) == \A i \in 1 .. n : g[i] = IF i = 1 THEN ss[i] ELSE g[i - 1] \o ss[i]
           N == {n \in Nat : \E g : Fits(g, n)}
<1>1. 0 \in N
  OBVIOUS
<1>2. ASSUME NEW n \in Nat, n \in N PROVE n + 1 \in N
  <2>1. PICK g : Fits(g, n)
    BY <1>2
  <2> DEFINE h == [i \in 1 .. n + 1 |-> IF i <= n THEN g[i] ELSE IF i = 1 THEN ss[i] ELSE g[i - 1] \o ss[i]]
  <2>2. \A i \in 1 .. n : h[i] = g[i]
    OBVIOUS
  <2>3. h[n + 1] = IF n + 1 = 1 THEN ss[n + 1] ELSE g[n] \o ss[n + 1]
    OBVIOUS
  <2> HIDE DEF h
  <2>4. ASSUME NEW i \in 1 .. n PROVE h[i] = IF i = 1 THEN ss[i] ELSE h[i - 1] \o ss[i]
    <3>1. CASE i = 1
      BY <2>1, <2>2, <3>1
    <3>2. CASE i # 1
      <4>1. i - 1 \in 1 .. n
        BY <3>2
      <4> QED
        BY <2>1, <2>2, <3>2, <4>1
    <3> QED
      BY <3>1, <3>2
  <2>5. h[n + 1] = IF n + 1 = 1 THEN ss[n + 1] ELSE h[n] \o ss[n + 1]
    BY <2>2, <2>3
  <2>6. ASSUME NEW i \in 1 .. n + 1 PROVE h[i] = IF i = 1 THEN ss[i] ELSE h[i - 1] \o ss[i]
    <3>1. i \in 1 .. n \/ i = n + 1
      OBVIOUS
    <3> QED
      BY <2>4, <2>5, <3>1
  <2>7. Fits(h, n + 1)
    BY <2>6
  <2> HIDE DEF Fits
  <2> QED
    BY <2>7
<1> HIDE DEF N
<1>3. Len(ss) \in N
  BY <1>1, <1>2, NatInd, LenProperties
<1>4. PICK g : Fits(g, Len(ss))
  BY <1>3 DEF N
<1> DEFINE h == [i \in 1 .. Len(ss) |-> g[i]]
<1>5. ASSUME NEW i \in 1 .. Len(ss) PROVE h[i] = IF i = 1 THEN ss[i] ELSE h[i - 1] \o ss[i]
  <2>1. i # 1 => h[i - 1] = g[i - 1]
    BY LenProperties
  <2> QED
    BY <1>4, <2>1
<1>6. Flats(h, ss)
  BY <1>5 DEF Flats
<1> QED
  BY <1>6

LEMMA FlatsUnique ==
    ASSUME NEW ss, NEW tt, Len(ss) \in Nat, Len(tt) \in Nat, Len(ss) <= Len(tt),
           NEW g, NEW h, Flats(g, ss), Flats(h, tt), \A i \in 1 .. Len(ss) : ss[i] = tt[i]
    PROVE  \A i \in 1 .. Len(ss) : g[i] = h[i]
<1> DEFINE N == {n \in Nat : \A i \in 1 .. Len(ss) : i <= n => g[i] = h[i]}
<1>1. 0 \in N
  OBVIOUS
<1>2. ASSUME NEW n \in Nat, n \in N PROVE n + 1 \in N
  <2> SUFFICES ASSUME NEW i \in 1 .. Len(ss), i <= n + 1 PROVE g[i] = h[i]
    OBVIOUS
  <2> i \in 1 .. Len(tt)
    OBVIOUS
  <2> g[i] = IF i = 1 THEN ss[i] ELSE g[i - 1] \o ss[i]
    BY FlatsAt
  <2> h[i] = IF i = 1 THEN tt[i] ELSE h[i - 1] \o tt[i]
    BY FlatsAt
  <2>1. CASE i = 1
    BY <2>1
  <2>2. CASE i # 1
    <3>1. i - 1 \in 1 .. Len(ss) /\ i - 1 <= n
      BY <2>2
    <3>2. g[i - 1] = h[i - 1]
      BY <1>2, <3>1
    <3> QED
      BY <2>2, <3>2
  <2> QED
    BY <2>1, <2>2
<1> HIDE DEF N
<1>3. Len(ss) \in N
  BY <1>1, <1>2, NatInd
<1> QED
  BY <1>3 DEF N

LEMMA FlatIs ==
    ASSUME NEW X, NEW ss \in Seq(X), NEW g, Flats(g, ss), ss # <<>>
    PROVE  FlattenSeq(ss) = g[Len(ss)]
<1>1. \A h : Flats(h, ss) => \A i \in 1 .. Len(ss) : h[i] = g[i]
  BY FlatsUnique, LenProperties
<1>2. ASSUME NEW h, Flats(h, ss) PROVE h = g
  <2>1. \A i \in 1 .. Len(ss) : h[i] = g[i]
    BY <1>1, <1>2
  <2>2. /\ h = [i \in 1 .. Len(ss) |-> h[i]]
        /\ g = [i \in 1 .. Len(ss) |-> g[i]]
    BY <1>2 DEF Flats
  <2> QED
    BY <2>1, <2>2
<1>3. Len(ss) \in Nat /\ Len(ss) # 0
  BY EmptySeq, LenProperties
<1> QED
  BY <1>2, <1>3 DEF FlattenSeq, Flats

LEMMA FlatEmpty == FlattenSeq(<<>>) = <<>>
BY DEF FlattenSeq

LEMMA FlatAppend ==
    ASSUME NEW X, NEW ss \in Seq(Seq(X)), NEW s \in Seq(X)
    PROVE  FlattenSeq(Append(ss, s)) = FlattenSeq(ss) \o s
<1> DEFINE tt == Append(ss, s)
<1>1. /\ tt \in Seq(Seq(X)) /\ Len(tt) = Len(ss) + 1 /\ tt[Len(ss) + 1] = s /\ Len(ss) \in Nat
      /\ \A i \in 1 .. Len(ss) : ss[i] = tt[i]
  BY AppendProperties, LenProperties
<1> HIDE DEF tt
<1>2. tt # <<>>
  BY <1>1, EmptySeq
<1>3. PICK h : Flats(h, tt)
  BY <1>1, FlatsExists
<1>4. FlattenSeq(tt) = h[Len(ss) + 1]
  BY <1>1, <1>2, <1>3, FlatIs
<1>5. h[Len(ss) + 1] = IF Len(ss) + 1 = 1 THEN s ELSE h[Len(ss)] \o s
  <2>1. Len(ss) + 1 \in 1 .. Len(tt)
    BY <1>1
  <2>2. h[Len(ss) + 1] = IF Len(ss) + 1 = 1 THEN tt[Len(ss) + 1] ELSE h[Len(ss) + 1 - 1] \o tt[Len(ss) + 1]
    BY <1>3, <2>1, FlatsAt
  <2> QED
    BY <1>1, <2>2
<1>6. CASE ss = <<>>
  BY <1>4, <1>5, <1>6, FlatEmpty DEF tt
<1>7. CASE ss # <<>>
  <2>1. PICK g : Flats(g, ss)
    BY FlatsExists
  <2>2. \A i \in 1 .. Len(ss) : g[i] = h[i]
    <3>1. Len(ss) \in Nat /\ Len(tt) \in Nat /\ Len(ss) <= Len(tt)
      BY <1>1
    <3>2. \A i \in 1 .. Len(ss) : ss[i] = tt[i]
      BY <1>1
    <3>3. Flats(h, tt) /\ Flats(g, ss)
      BY <1>3, <2>1
    <3> QED
      BY ONLY <3>1, <3>2, <3>3, FlatsUnique
  <2>3. Len(ss) # 0
    BY <1>7, EmptySeq
  <2>4. FlattenSeq(ss) = g[Len(ss)]
    BY <1>7, <2>1, FlatIs
  <2>5. Len(ss) \in 1 .. Len(ss)
    BY <1>1, <2>3
  <2>6. FlattenSeq(ss) = h[Len(ss)]
    BY <2>2, <2>4, <2>5
  <2>7. h[Len(ss) + 1] = h[Len(ss)] \o s
    BY <1>1, <1>5, <2>3
  <2>8. FlattenSeq(tt) = FlattenSeq(ss) \o s
    BY <1>4, <2>6, <2>7, Zenon
  <2> QED
    BY <2>8 DEF tt
<1> QED
  BY <1>6, <1>7

LEMMA FlatType ==
    ASSUME NEW X, NEW ss \in Seq(Seq(X))
    PROVE  FlattenSeq(ss) \in Seq(X)
<1> DEFINE T == {tt \in Seq(Seq(X)) : FlattenSeq(tt) \in Seq(X)}
<1>1. <<>> \in T
  <2>1. FlattenSeq(<<>>) \in Seq(X)
    <3>1. <<>> \in Seq(X)
      OBVIOUS
    <3> QED
      BY <3>1, FlatEmpty, Zenon
  <2> QED
    BY <2>1
<1>2. ASSUME NEW tt \in Seq(Seq(X)), NEW s \in Seq(X), tt \in T PROVE Append(tt, s) \in T
  <2>1. FlattenSeq(Append(tt, s)) = FlattenSeq(tt) \o s
    BY FlatAppend
  <2>2. Append(tt, s) \in Seq(Seq(X))
    OBVIOUS
  <2>3. FlattenSeq(tt) \o s \in Seq(X)
    BY <1>2
  <2> QED
    BY <2>1, <2>2, <2>3
<1> HIDE DEF T
<1>3. Seq(Seq(X)) \subseteq T
  BY <1>1, <1>2, SeqInd
<1> QED
  BY <1>3 DEF T

LEMMA FlatConcat ==
    ASSUME NEW X, NEW ss \in Seq(Seq(X)), NEW uu \in Seq(Seq(X))
    PROVE  FlattenSeq(ss \o uu) = FlattenSeq(ss) \o FlattenSeq(uu)
<1> DEFINE T == {tt \in Seq(Seq(X)) : FlattenSeq(ss \o tt) = FlattenSeq(ss) \o FlattenSeq(tt)}
<1>1. <<>> \in T
  BY FlatEmpty, FlatType
<1>2. ASSUME NEW tt \in Seq(Seq(X)), NEW s \in Seq(X), tt \in T PROVE Append(tt, s) \in T
  <2>1. FlattenSeq(Append(tt, s)) = FlattenSeq(tt) \o s
    BY FlatAppend
  <2>2. ss \o Append(tt, s) = Append(ss \o tt, s)
    OBVIOUS
  <2>3. FlattenSeq(Append(ss \o tt, s)) = FlattenSeq(ss \o tt) \o s
    <3>1. ss \o tt \in Seq(Seq(X))
      OBVIOUS
    <3> QED
      BY <3>1, FlatAppend
  <2>4. FlattenSeq(ss) \in Seq(X) /\ FlattenSeq(tt) \in Seq(X)
    BY FlatType
  <2>5. (FlattenSeq(ss) \o FlattenSeq(tt)) \o s = FlattenSeq(ss) \o (FlattenSeq(tt) \o s)
    BY <2>4
  <2>6. FlattenSeq(ss \o tt) = FlattenSeq(ss) \o FlattenSeq(tt)
    BY <1>2
  <2>7. FlattenSeq(ss \o Append(tt, s)) = FlattenSeq(ss) \o FlattenSeq(Append(tt, s))
    BY <2>1, <2>2, <2>3, <2>5, <2>6
  <2>8. Append(tt, s) \in Seq(Seq(X))
    OBVIOUS
  <2> QED
    BY <2>7, <2>8
<1> HIDE DEF T
<1>3. Seq(Seq(X)) \subseteq T
  BY <1>1, <1>2, SeqInd
<1> QED
  BY <1>3 DEF T

\* The first n + 1 blocks are the first n and one more.
LEMMA FlatNext ==
    ASSUME NEW X, NEW n \in Nat, NEW G, \A i \in 1 .. n + 1 : G[i] \in Seq(X)
    PROVE  FlattenSeq([i \in 1 .. n + 1 |-> G[i]]) = FlattenSeq([i \in 1 .. n |-> G[i]]) \o G[n + 1]
<1> DEFINE ss == [i \in 1 .. n |-> G[i]]
<1>1. ss \in Seq(Seq(X))
  OBVIOUS
<1>2. Append(ss, G[n + 1]) = [i \in 1 .. n + 1 |-> G[i]]
  OBVIOUS
<1> HIDE DEF ss
<1>3. FlattenSeq(Append(ss, G[n + 1])) = FlattenSeq(ss) \o G[n + 1]
  <2>1. G[n + 1] \in Seq(X)
    OBVIOUS
  <2> QED
    BY <1>1, <2>1, FlatAppend
<1> QED
  BY <1>2, <1>3 DEF ss

\* A sequence mapped to sequences, one longer.
Lengthens(f, g, n, y, Y) ==
    /\ n \in Nat
    /\ f = [m \in 1 .. n |-> f[m]] /\ g = [m \in 1 .. n + 1 |-> g[m]]
    /\ \A m \in 1 .. n : f[m] \in Seq(Y) /\ g[m] = f[m]
    /\ g[n + 1] = y /\ y \in Seq(Y)

LEMMA FlatMapped ==
    \A f, g, n, y, Y : Lengthens(f, g, n, y, Y) => FlattenSeq(g) = FlattenSeq(f) \o y
<1> SUFFICES ASSUME NEW f, NEW g, NEW n, NEW y, NEW Y, Lengthens(f, g, n, y, Y)
             PROVE  FlattenSeq(g) = FlattenSeq(f) \o y
  OBVIOUS
<1>0. n \in Nat
  BY DEF Lengthens
<1>1. f = [m \in 1 .. n |-> g[m]] /\ g = [m \in 1 .. n + 1 |-> g[m]]
  BY DEF Lengthens
<1>2. \A m \in 1 .. n + 1 : m \in 1 .. n \/ m = n + 1
  BY <1>0
<1>3. \A m \in 1 .. n + 1 : g[m] \in Seq(Y)
  BY <1>2 DEF Lengthens
<1>4. FlattenSeq([m \in 1 .. n + 1 |-> g[m]]) = FlattenSeq([m \in 1 .. n |-> g[m]]) \o g[n + 1]
  BY <1>0, <1>3, FlatNext
<1>5. g[n + 1] = y
  BY DEF Lengthens
<1> QED
  BY <1>1, <1>4, <1>5, Zenon

\* A sequence and its image, one longer.
Images(h, ss, s, f, g, X, Y) ==
    /\ ss \in Seq(X) /\ s \in X /\ \A x \in X : h[x] \in Seq(Y)
    /\ f = [n \in DOMAIN ss |-> h[ss[n]]]
    /\ g = [n \in DOMAIN Append(ss, s) |-> h[Append(ss, s)[n]]]

LEMMA ImageLonger ==
    \A h, ss, s, f, g, X, Y : Images(h, ss, s, f, g, X, Y) => FlattenSeq(g) = FlattenSeq(f) \o h[s]
<1> SUFFICES ASSUME NEW h, NEW ss, NEW s, NEW f, NEW g, NEW X, NEW Y, Images(h, ss, s, f, g, X, Y)
             PROVE  FlattenSeq(g) = FlattenSeq(f) \o h[s]
  OBVIOUS
<1>1. /\ DOMAIN ss = 1 .. Len(ss) /\ Len(ss) \in Nat /\ DOMAIN Append(ss, s) = 1 .. Len(ss) + 1
      /\ Append(ss, s)[Len(ss) + 1] = s /\ \A n \in 1 .. Len(ss) : Append(ss, s)[n] = ss[n] /\ ss[n] \in X
  BY LenProperties, AppendProperties DEF Images
<1>2. f = [m \in 1 .. Len(ss) |-> f[m]] /\ g = [m \in 1 .. Len(ss) + 1 |-> g[m]]
  BY <1>1 DEF Images
<1>3. \A m \in 1 .. Len(ss) : f[m] \in Seq(Y) /\ g[m] = f[m]
  BY <1>1 DEF Images
<1>4. g[Len(ss) + 1] = h[s] /\ h[s] \in Seq(Y)
  BY <1>1 DEF Images
<1>5. PICK n, y : n = Len(ss) /\ y = h[s]
  OBVIOUS
<1>6. Lengthens(f, g, n, y, Y)
  BY <1>1, <1>2, <1>3, <1>4, <1>5 DEF Lengthens
<1>7. FlattenSeq(g) = FlattenSeq(f) \o y
  BY ONLY <1>6, FlatMapped
<1> QED
  BY ONLY <1>5, <1>7

LEMMA ImageType ==
    ASSUME NEW X, NEW ss \in Seq(X), NEW Y, NEW f, f = [n \in DOMAIN ss |-> f[n]],
           \A n \in DOMAIN ss : f[n] \in Seq(Y)
    PROVE  FlattenSeq(f) \in Seq(Y)
<1>1. DOMAIN ss = 1 .. Len(ss) /\ Len(ss) \in Nat
  BY LenProperties
<1>2. f \in [1 .. Len(ss) -> Seq(Y)]
  BY <1>1
<1>3. f \in Seq(Seq(Y))
  BY <1>1, <1>2, FunIsSeq
<1> QED
  BY <1>3, FlatType

\* Two enumerations of one set, both in a strict order, are the same.
Strict(L)          == \A x, y : ~(<<x, y>> \in L /\ <<y, x>> \in L)
Ordered(L, s, n)   == \A i, j \in 1 .. n : i < j => <<s[i], s[j]>> \in L
Inside(s, n, t, m) == \A i \in 1 .. n : \E j \in 1 .. m : s[i] = t[j]

\* The beginning of a sorted part that holds the beginning of the whole is that.
LEMMA PrefixSame ==
    ASSUME NEW L, Strict(L), NEW n \in Nat, NEW len \in Nat, n <= len, NEW m \in Nat, NEW s, NEW t,
           Ordered(L, s, len), Ordered(L, t, m), Inside(s, n, t, m), Inside(t, m, s, len)
    PROVE  \A i \in 1 .. n : i <= m /\ s[i] = t[i]
<1> DEFINE N == {k \in Nat : \A i \in 1 .. n : i <= k => i <= m /\ s[i] = t[i]}
<1>1. 0 \in N
  OBVIOUS
<1>2. ASSUME NEW k \in Nat, k \in N PROVE k + 1 \in N
  <2>1. ASSUME NEW i \in 1 .. n, i = k + 1 PROVE i <= m /\ s[i] = t[i]
    <3>1. \A q \in 1 .. n : q < i => q <= m /\ s[q] = t[q]
      BY <1>2, <2>1
    <3>2. PICK j \in 1 .. m : s[i] = t[j]
      BY DEF Inside
    <3>0. i \in 1 .. len
      OBVIOUS
    <3>3. ASSUME j < i PROVE FALSE
      <4>1. j \in 1 .. len /\ s[j] = t[j]
        BY <3>1, <3>3
      <4>2. <<s[j], s[i]>> \in L
        BY <3>0, <3>3, <4>1 DEF Ordered
      <4>3. s[j] = s[i]
        BY <3>2, <4>1
      <4> QED
        BY <4>2, <4>3 DEF Strict
    <3>4. i \in 1 .. m
      BY <3>3
    <3>5. PICK q \in 1 .. len : t[i] = s[q]
      BY <3>4 DEF Inside
    <3>6. ASSUME q < i PROVE FALSE
      <4>1. q \in 1 .. m /\ s[q] = t[q]
        BY <3>1, <3>6
      <4>2. <<t[q], t[i]>> \in L
        BY <3>4, <3>6, <4>1 DEF Ordered
      <4>3. t[q] = t[i]
        BY <3>5, <4>1
      <4> QED
        BY <4>2, <4>3 DEF Strict
    <3>7. ASSUME i < j, i < q PROVE FALSE
      <4>1. <<t[i], t[j]>> \in L
        BY <3>4, <3>7 DEF Ordered
      <4>2. <<s[i], s[q]>> \in L
        BY <3>0, <3>7 DEF Ordered
      <4> QED
        BY <3>2, <3>5, <4>1, <4>2 DEF Strict
    <3>8. j = i \/ q = i
      BY <3>3, <3>6, <3>7
    <3> QED
      BY <3>2, <3>4, <3>5, <3>8
  <2>2. ASSUME NEW i \in 1 .. n, i <= k + 1 PROVE i <= m /\ s[i] = t[i]
    <3>1. i <= k \/ i = k + 1
      BY <2>2
    <3> QED
      BY <1>2, <2>1, <3>1
  <2> QED
    BY <2>2
<1> HIDE DEF N
<1>3. Nat \subseteq N
  BY <1>1, <1>2, NatInd
<1>4. n \in N
  BY <1>3
<1> QED
  BY <1>4 DEF N

LEMMA SameUpTo ==
    ASSUME NEW L, Strict(L), NEW n \in Nat, NEW m \in Nat, NEW s, NEW t,
           Ordered(L, s, n), Ordered(L, t, m), Inside(s, n, t, m), Inside(t, m, s, n)
    PROVE  \A i \in 1 .. n : i <= m /\ s[i] = t[i]
BY PrefixSame

LEMMA SortedUnique ==
    ASSUME NEW L, Strict(L), NEW n \in Nat, NEW m \in Nat,
           NEW A, NEW B, NEW s \in [1 .. n -> A], NEW t \in [1 .. m -> B],
           Ordered(L, s, n), Ordered(L, t, m), Inside(s, n, t, m), Inside(t, m, s, n)
    PROVE  s = t
<1>1. \A i \in 1 .. n : i <= m /\ s[i] = t[i]
  BY SameUpTo
<1>2. \A i \in 1 .. m : i <= n /\ t[i] = s[i]
  BY SameUpTo
<1>3. n = m
  BY <1>1, <1>2
<1> QED
  BY <1>1, <1>3

-----------------------------------------------------------------------------
(* Sums over finite sets                                                      *)

\* What is left of a set when the fold has taken its element.
Taken(s) == CHOOSE x \in s : TRUE
SumOver(g, f, S) == g = [s \in SUBSET S |-> IF s = {} THEN 0 ELSE f[Taken(s)] + g[s \ {Taken(s)}]]

LEMMA TakenIn == \A s : s # {} => Taken(s) \in s
BY DEF Taken

LEMMA Smaller ==
    ASSUME NEW S, IsFiniteSet(S), NEW s \in SUBSET S, s # {}
    PROVE  Cardinality(s) \in Nat \ {0} /\ Cardinality(s \ {Taken(s)}) = Cardinality(s) - 1
<1>1. IsFiniteSet(s) /\ Cardinality(s) \in Nat /\ Cardinality(s) # 0
  BY FS_Subset, FS_CardinalityType, FS_EmptySet
<1>2. Cardinality(s \ {Taken(s)}) = IF Taken(s) \in s THEN Cardinality(s) - 1 ELSE Cardinality(s)
  BY <1>1, FS_RemoveElement, Zenon
<1> QED
  BY <1>1, <1>2, TakenIn

\* The same, with the choice of the element as an argument.
SumBy(g, f, c, S) == g = [s \in SUBSET S |-> IF s = {} THEN 0 ELSE f[c[s]] + g[s \ {c[s]}]]

LEMMA FewerBy ==
    ASSUME NEW S, IsFiniteSet(S), NEW s \in SUBSET S, NEW x \in s
    PROVE  Cardinality(s) \in Nat \ {0} /\ Cardinality(s \ {x}) = Cardinality(s) - 1
<1>1. IsFiniteSet(s) /\ Cardinality(s) \in Nat /\ Cardinality(s) # 0
  BY FS_Subset, FS_CardinalityType, FS_EmptySet
<1>2. Cardinality(s \ {x}) = IF x \in s THEN Cardinality(s) - 1 ELSE Cardinality(s)
  BY <1>1, FS_RemoveElement, Zenon
<1> QED
  BY <1>1, <1>2

\* A fold of a finite set is one.
LEMMA SumByExists ==
    ASSUME NEW S, IsFiniteSet(S), NEW f, NEW c, \A s \in SUBSET S : s # {} => c[s] \in s
    PROVE  \E g : SumBy(g, f, c, S)
<1> DEFINE Small(n) == {s \in SUBSET S : Cardinality(s) <= n}
           Fits(g, n) == \A s \in Small(n) : g[s] = IF s = {} THEN 0 ELSE f[c[s]] + g[s \ {c[s]}]
           N == {n \in Nat : \E g : Fits(g, n)}
<1>1. 0 \in N
  <2>1. ASSUME NEW s \in Small(0) PROVE s = {}
    <3>1. s \in SUBSET S /\ Cardinality(s) <= 0
      OBVIOUS
    <3>2. s # {} => Cardinality(s) \in Nat \ {0}
      <4> HIDE DEF Small
      <4> QED
        BY <3>1, FewerBy
    <3> QED
      BY <3>1, <3>2
  <2> DEFINE g == [s \in {{}} |-> 0]
  <2>2. Fits(g, 0)
    BY <2>1
  <2> QED
    BY <2>2
<1>2. ASSUME NEW n \in Nat, n \in N PROVE n + 1 \in N
  <2>1. PICK g : Fits(g, n)
    BY <1>2
  <2> DEFINE h == [s \in SUBSET S |-> IF s \in Small(n) THEN g[s] ELSE f[c[s]] + g[s \ {c[s]}]]
  <2>2. ASSUME NEW s \in Small(n + 1) PROVE h[s] = IF s = {} THEN 0 ELSE f[c[s]] + h[s \ {c[s]}]
    <3>1. CASE s = {}
      <4>1. s \in Small(n)
        BY <3>1, FS_EmptySet
      <4> QED
        BY <3>1, <4>1, <2>1
    <3>2. CASE s # {}
      <4>1. s \ {c[s]} \in Small(n)
        BY <3>2, FewerBy
      <4>2. h[s \ {c[s]}] = g[s \ {c[s]}]
        BY <4>1
      <4>3. h[s] = f[c[s]] + g[s \ {c[s]}]
        BY <3>2, <2>1
      <4> QED
        BY <3>2, <4>2, <4>3
    <3> QED
      BY <3>1, <3>2
  <2>3. Fits(h, n + 1)
    <3> HIDE DEF h, Small
    <3> QED
      BY <2>2
  <2> HIDE DEF Fits
  <2> QED
    BY <2>3
<1> HIDE DEF N
<1>3. Cardinality(S) \in N
  BY <1>1, <1>2, NatInd, FS_CardinalityType
<1>4. PICK g : Fits(g, Cardinality(S))
  BY <1>3 DEF N
<1>5. \A s \in SUBSET S : s \in Small(Cardinality(S))
  BY FS_Subset
<1> DEFINE h == [s \in SUBSET S |-> g[s]]
<1>6. \A s \in SUBSET S : h[s] = IF s = {} THEN 0 ELSE f[c[s]] + h[s \ {c[s]}]
  BY <1>4, <1>5
<1>7. SumBy(h, f, c, S)
  BY <1>6 DEF SumBy
<1> QED
  BY <1>7

LEMMA SumExists ==
    ASSUME NEW S, IsFiniteSet(S), NEW f
    PROVE  \E g : SumOver(g, f, S)
<1> DEFINE c == [s \in SUBSET S |-> Taken(s)]
<1>1. \A s \in SUBSET S : s # {} => c[s] \in s
  BY TakenIn
<1>2. \A g : SumBy(g, f, c, S) <=> SumOver(g, f, S)
  <2> SUFFICES ASSUME NEW g PROVE SumBy(g, f, c, S) <=> SumOver(g, f, S)
    OBVIOUS
  <2>1. [s \in SUBSET S |-> IF s = {} THEN 0 ELSE f[c[s]] + g[s \ {c[s]}]]
        = [s \in SUBSET S |-> IF s = {} THEN 0 ELSE f[Taken(s)] + g[s \ {Taken(s)}]]
    OBVIOUS
  <2> QED
    BY <2>1, Zenon DEF SumBy, SumOver
<1> HIDE DEF c
<1>3. \E g : SumBy(g, f, c, S)
  BY <1>1, SumByExists
<1> QED
  BY <1>2, <1>3

LEMMA SumUnique ==
    ASSUME NEW S, IsFiniteSet(S), NEW f, NEW g, NEW h, SumOver(g, f, S), SumOver(h, f, S)
    PROVE  g = h
<1> DEFINE N == {n \in Nat : \A s \in SUBSET S : Cardinality(s) = n => g[s] = h[s]}
<1>1. 0 \in N
  BY Smaller DEF SumOver
<1>2. ASSUME NEW n \in Nat, n \in N PROVE n + 1 \in N
  <2> SUFFICES ASSUME NEW s \in SUBSET S, Cardinality(s) = n + 1 PROVE g[s] = h[s]
    OBVIOUS
  <2>1. s # {}
    BY FS_EmptySet
  <2>2. g[s \ {Taken(s)}] = h[s \ {Taken(s)}]
    BY <2>1, <1>2, Smaller
  <2> QED
    BY <2>1, <2>2 DEF SumOver
<1> HIDE DEF N
<1>3. Nat \subseteq N
  BY <1>1, <1>2, NatInd
<1>4. \A s \in SUBSET S : Cardinality(s) \in Nat
  BY FS_Subset, FS_CardinalityType
<1>5. \A s \in SUBSET S : g[s] = h[s]
  BY <1>3, <1>4 DEF N
<1> QED
  BY <1>5 DEF SumOver

\* Sets that are apart have together as many elements as their union.
LEMMA SumOfSizes ==
    ASSUME NEW S, IsFiniteSet(S), NEW H, \A p \in S : IsFiniteSet(H[p]),
           \A p, q \in S : p # q => H[p] \cap H[q] = {},
           NEW f, \A p \in S : f[p] = Cardinality(H[p]), NEW g, SumOver(g, f, S)
    PROVE  g[S] = Cardinality(UNION {H[p] : p \in S})
<1> DEFINE U(A) == UNION {H[p] : p \in A}
           N == {n \in Nat : \A A \in SUBSET S : Cardinality(A) = n => g[A] = Cardinality(U(A)) /\ IsFiniteSet(U(A))}
<1>1. 0 \in N
  <2> SUFFICES ASSUME NEW A \in SUBSET S, Cardinality(A) = 0 PROVE g[A] = Cardinality(U(A)) /\ IsFiniteSet(U(A))
    OBVIOUS
  <2>1. A = {}
    BY Smaller
  <2>2. U(A) = {}
    BY <2>1
  <2> HIDE DEF U
  <2> QED
    BY <2>1, <2>2, FS_EmptySet DEF SumOver
<1>2. ASSUME NEW n \in Nat, n \in N PROVE n + 1 \in N
  <2> SUFFICES ASSUME NEW A \in SUBSET S, Cardinality(A) = n + 1 PROVE g[A] = Cardinality(U(A)) /\ IsFiniteSet(U(A))
    OBVIOUS
  <2>1. A # {} /\ Taken(A) \in A
    BY FS_EmptySet, TakenIn
  <2> DEFINE x == Taken(A)
             B == A \ {x}
  <2>2. Cardinality(B) = n
    BY <2>1, Smaller
  <2>3. g[B] = Cardinality(U(B)) /\ IsFiniteSet(U(B))
    BY <1>2, <2>2
  <2>4. U(A) = U(B) \cup H[x]
    BY <2>1
  <2>5. U(B) \cap H[x] = {}
    BY <2>1
  <2>6. IsFiniteSet(H[x])
    BY <2>1
  <2>7. g[A] = f[x] + g[B]
    BY <2>1 DEF SumOver
  <2>8. f[x] = Cardinality(H[x])
    BY <2>1
  <2> HIDE DEF U, x, B
  <2>9. IsFiniteSet(U(A))
    <3>1. IsFiniteSet(U(B) \cup H[x])
      BY <2>3, <2>6, FS_Union, Zenon
    <3> QED
      BY <3>1, <2>4
  <2>10. Cardinality(U(B) \cup H[x]) = Cardinality(U(B)) + Cardinality(H[x]) - Cardinality(U(B) \cap H[x])
    BY <2>3, <2>6, FS_Union, Zenon
  <2>11. Cardinality(U(B)) \in Nat /\ Cardinality(H[x]) \in Nat /\ Cardinality(U(B) \cap H[x]) = 0
    BY <2>3, <2>5, <2>6, FS_CardinalityType, FS_EmptySet
  <2> QED
    BY <2>3, <2>4, <2>7, <2>8, <2>9, <2>10, <2>11
<1> HIDE DEF N
<1>3. Nat \subseteq N
  BY <1>1, <1>2, NatInd
<1>4. Cardinality(S) \in Nat
  BY FS_CardinalityType
<1> QED
  BY <1>3, <1>4 DEF N

-----------------------------------------------------------------------------
(* Sums along a sequence, from its end (FoldLeft of SequencesExt)             *)

Top(s) == CHOOSE x \in s : \A y \in s : x >= y
SumDown(g, v, n) == g = [s \in SUBSET (1 .. n) |-> IF s = {} THEN 0 ELSE v[Top(s)] + g[s \ {Top(s)}]]

LEMMA TopIn ==
    ASSUME NEW n \in Nat, NEW s \in SUBSET (1 .. n), s # {}
    PROVE  Top(s) \in s /\ \A y \in s : Top(s) >= y
<1> DEFINE T == {n - x : x \in s}
<1>1. T \subseteq Nat /\ T # {}
  <2>1. \A x \in s : n - x \in Nat
    OBVIOUS
  <2> QED
    BY <2>1
<1> HIDE DEF T
<1>2. PICK t \in T : \A y \in T : t <= y
  BY <1>1, LeastNat
<1>3. PICK x \in s : t = n - x
  BY DEF T
<1>4. ASSUME NEW y \in s PROVE x >= y
  <2>1. n - y \in T
    BY DEF T
  <2>2. t <= n - y /\ x \in 1 .. n /\ y \in 1 .. n
    BY <1>2, <2>1
  <2> QED
    BY <1>3, <2>2
<1>5. \E z \in s : \A y \in s : z >= y
  BY <1>4
<1> QED
  BY <1>5 DEF Top

LEMMA DownExists == ASSUME NEW n \in Nat, NEW v PROVE \E g : SumDown(g, v, n)
<1> DEFINE S == 1 .. n
           c == [s \in SUBSET S |-> Top(s)]
<1>1. IsFiniteSet(S)
  BY FS_Interval
<1>2. \A s \in SUBSET S : s # {} => c[s] \in s
  BY TopIn
<1>3. \A g : SumBy(g, v, c, S) <=> SumDown(g, v, n)
  <2> SUFFICES ASSUME NEW g PROVE SumBy(g, v, c, S) <=> SumDown(g, v, n)
    OBVIOUS
  <2>1. [s \in SUBSET S |-> IF s = {} THEN 0 ELSE v[c[s]] + g[s \ {c[s]}]]
        = [s \in SUBSET S |-> IF s = {} THEN 0 ELSE v[Top(s)] + g[s \ {Top(s)}]]
    <3> HIDE DEF S
    <3> QED
      OBVIOUS
  <2> QED
    BY <2>1, Zenon DEF SumBy, SumDown
<1> HIDE DEF S, c
<1>4. \E g : SumBy(g, v, c, S)
  BY <1>1, <1>2, SumByExists
<1> QED
  BY <1>3, <1>4

\* The sum up to a place is the sum up to the one before and what is there.
LEMMA DownAt ==
    ASSUME NEW n \in Nat, NEW v, NEW g, SumDown(g, v, n)
    PROVE  g[1 .. 0] = 0 /\ \A k \in 1 .. n : g[1 .. k] = v[k] + g[1 .. k - 1]
<1>1. \A s \in SUBSET (1 .. n) : g[s] = IF s = {} THEN 0 ELSE v[Top(s)] + g[s \ {Top(s)}]
  <2> DEFINE S == SUBSET (1 .. n)
  <2>1. g = [s \in S |-> IF s = {} THEN 0 ELSE v[Top(s)] + g[s \ {Top(s)}]]
    BY Zenon DEF SumDown
  <2> HIDE DEF S
  <2>2. \A s \in S : g[s] = IF s = {} THEN 0 ELSE v[Top(s)] + g[s \ {Top(s)}]
    BY <2>1
  <2> QED
    BY <2>2 DEF S
<1>2. g[1 .. 0] = 0
  <2>1. 1 .. 0 = {} /\ 1 .. 0 \in SUBSET (1 .. n)
    OBVIOUS
  <2> QED
    BY <1>1, <2>1
<1>3. ASSUME NEW k \in 1 .. n PROVE g[1 .. k] = v[k] + g[1 .. k - 1]
  <2> DEFINE s == 1 .. k
  <2>1. s \in SUBSET (1 .. n) /\ s # {} /\ k \in s /\ \A y \in s : y <= k /\ y \in Nat
    OBVIOUS
  <2>2. s \ {k} = 1 .. k - 1
    OBVIOUS
  <2> HIDE DEF s
  <2>3. Top(s) = k
    <3> DEFINE t == Top(s)
    <3>1. t \in s /\ t >= k
      BY <2>1, TopIn
    <3> HIDE DEF t
    <3>2. t \in Nat /\ t <= k /\ k \in Nat
      BY <2>1, <3>1
    <3>3. t = k
      BY <3>1, <3>2
    <3> QED
      BY <3>3 DEF t
  <2>4. g[s] = v[k] + g[s \ {k}]
    BY <1>1, <2>1, <2>3
  <2> QED
    BY <2>2, <2>4 DEF s
<1> QED
  BY <1>2, <1>3

\* A sum looks only at the values it adds up.
Alike(v, w, n) == \A i \in 1 .. n : v[i] = w[i]

LEMMA DownSame ==
    ASSUME NEW n \in Nat, NEW m \in Nat, n <= m, NEW v, NEW w, Alike(v, w, n),
           NEW g, NEW h, SumDown(g, v, n), SumDown(h, w, m)
    PROVE  g[1 .. n] = h[1 .. n]
<1> DEFINE N == {k \in Nat : k <= n => g[1 .. k] = h[1 .. k]}
<1>1. 0 \in N
  BY DownAt
<1>2. ASSUME NEW k \in Nat, k \in N PROVE k + 1 \in N
  <2> SUFFICES ASSUME k + 1 <= n PROVE g[1 .. k + 1] = h[1 .. k + 1]
    OBVIOUS
  <2>1. k + 1 \in 1 .. n /\ k + 1 \in 1 .. m /\ (k + 1) - 1 = k /\ k <= n
    OBVIOUS
  <2> DEFINE j == k + 1
  <2>2. g[1 .. k] = h[1 .. k]
    BY <1>2, <2>1
  <2>3. j \in 1 .. n /\ j \in 1 .. m /\ j - 1 = k
    BY <2>1
  <2> HIDE DEF j
  <2>4. g[1 .. j] = v[j] + g[1 .. j - 1] /\ h[1 .. j] = w[j] + h[1 .. j - 1]
    BY <2>3, DownAt
  <2>5. g[1 .. j] = h[1 .. j]
    BY <2>2, <2>3, <2>4 DEF Alike
  <2> QED
    BY <2>5 DEF j
<1> HIDE DEF N
<1>3. n \in N
  BY <1>1, <1>2, NatInd
<1> QED
  BY <1>3 DEF N

\* Sums of naturals are naturals, and larger values have a larger sum.
LEMMA DownLess ==
    ASSUME NEW n \in Nat, NEW v, NEW w, \A i \in 1 .. n : v[i] \in Nat /\ w[i] \in Nat /\ v[i] <= w[i],
           NEW g, NEW h, SumDown(g, v, n), SumDown(h, w, n)
    PROVE  g[1 .. n] \in Nat /\ h[1 .. n] \in Nat /\ g[1 .. n] <= h[1 .. n]
<1> DEFINE Good(k) == g[1 .. k] \in Nat /\ h[1 .. k] \in Nat /\ g[1 .. k] <= h[1 .. k]
           N == {k \in Nat : k <= n => Good(k)}
<1>1. 0 \in N
  <2>1. g[1 .. 0] = 0 /\ h[1 .. 0] = 0
    BY DownAt
  <2> QED
    BY <2>1
<1>2. ASSUME NEW k \in Nat, k \in N PROVE k + 1 \in N
  <2> SUFFICES ASSUME k + 1 <= n PROVE Good(k + 1)
    OBVIOUS
  <2> DEFINE j == k + 1
  <2>1. j \in 1 .. n /\ j - 1 = k /\ k <= n
    OBVIOUS
  <2>2. Good(k)
    BY <1>2, <2>1
  <2> HIDE DEF j
  <2>3. g[1 .. j] = v[j] + g[1 .. j - 1] /\ h[1 .. j] = w[j] + h[1 .. j - 1]
    BY <2>1, DownAt
  <2> DEFINE a == g[1 .. k]
             b == h[1 .. k]
  <2>4. g[1 .. j] = v[j] + a /\ h[1 .. j] = w[j] + b
    BY <2>1, <2>3
  <2>5. a \in Nat /\ b \in Nat /\ a <= b
    BY <2>2
  <2> HIDE DEF a, b
  <2>6. Good(j)
    BY <2>1, <2>4, <2>5
  <2> QED
    BY <2>6 DEF j
<1> HIDE DEF N
<1>3. n \in N
  BY <1>1, <1>2, NatInd
<1> QED
  BY <1>3 DEF N

-----------------------------------------------------------------------------
(* Sorting                                                                    *)

\* A strict total order of a set.
OrderOn(L, X) ==
    /\ Strict(L)
    /\ \A x, y \in X : x = y \/ <<x, y>> \in L \/ <<y, x>> \in L
    /\ \A x, y, z \in X : <<x, y>> \in L /\ <<y, z>> \in L => <<x, z>> \in L
\* A sequence that lists a set in an order.
Sorts(L, s, S) ==
    /\ s \in Seq(S) /\ Ordered(L, s, Len(s))
    /\ \A x \in S : \E i \in 1 .. Len(s) : s[i] = x
\* What is ahead of a position in the order.
Prior(L, s, i) == {j \in 1 .. Len(s) : <<s[j], s[i]>> \in L}

\* A position has fewer ahead of it than one that comes after it.
LEMMA PriorGrows ==
    ASSUME NEW X, NEW L, OrderOn(L, X), NEW s \in Seq(X), NEW i \in 1 .. Len(s), NEW k \in 1 .. Len(s),
           <<s[i], s[k]>> \in L
    PROVE  Cardinality(Prior(L, s, i)) < Cardinality(Prior(L, s, k))
<1>1. Len(s) \in Nat /\ \A j \in 1 .. Len(s) : s[j] \in X
  BY LenProperties, ElementOfSeq
<1>2. IsFiniteSet(1 .. Len(s))
  BY <1>1, FS_Interval
<1> DEFINE A == Prior(L, s, i)
           B == Prior(L, s, k)
<1>3. A \subseteq 1 .. Len(s) /\ B \subseteq 1 .. Len(s)
  BY DEF Prior
<1>4. IsFiniteSet(A) /\ IsFiniteSet(B)
  <2> HIDE DEF A, B
  <2> QED
    BY <1>2, <1>3, FS_Subset
<1>5. i \notin A /\ i \in B
  BY DEF Prior, OrderOn, Strict
<1>6. A \subseteq B
  BY <1>1 DEF Prior, OrderOn
<1> HIDE DEF A, B
<1>7. IsFiniteSet(A \cup {i}) /\ Cardinality(A \cup {i}) = Cardinality(A) + 1
  BY <1>4, <1>5, FS_AddElement
<1>8. Cardinality(A \cup {i}) <= Cardinality(B)
  <2>1. A \cup {i} \in SUBSET B
    BY <1>5, <1>6
  <2> QED
    BY <1>4, <2>1, FS_Subset
<1>9. Cardinality(A) \in Nat /\ Cardinality(B) \in Nat
  BY <1>4, FS_CardinalityType
<1> QED
  BY <1>7, <1>8, <1>9 DEF A, B

\* Each number below the length is the number of positions ahead of one position.
LEMMA RanksAll ==
    ASSUME NEW X, NEW L, OrderOn(L, X), NEW s \in Seq(X), IsInjective(s), NEW n \in 1 .. Len(s)
    PROVE  \E i \in 1 .. Len(s) : Cardinality(Prior(L, s, i)) = n - 1
<1> DEFINE len == Len(s)
           D == 1 .. len
           R == 0 .. len - 1
           r == [i \in D |-> Cardinality(Prior(L, s, i))]
<1>1. len \in Nat /\ DOMAIN s = D /\ \A j \in D : s[j] \in X
  BY LenProperties, ElementOfSeq
<1>2. IsFiniteSet(D) /\ Cardinality(D) = len
  <2>1. 1 \in Int /\ len \in Int
    BY <1>1
  <2>2. IsFiniteSet(D) /\ Cardinality(D) = IF 1 > len THEN 0 ELSE len - 1 + 1
    BY <2>1, FS_Interval
  <2>3. (IF 1 > len THEN 0 ELSE len - 1 + 1) = len
    BY <1>1
  <2> QED
    BY <2>2, <2>3
<1>3. IsFiniteSet(R) /\ Cardinality(R) = len
  <2>1. 0 \in Int /\ len - 1 \in Int
    BY <1>1
  <2>2. IsFiniteSet(R) /\ Cardinality(R) = IF 0 > len - 1 THEN 0 ELSE len - 1 - 0 + 1
    BY <2>1, FS_Interval
  <2>3. (IF 0 > len - 1 THEN 0 ELSE len - 1 - 0 + 1) = len
    BY <1>1
  <2> QED
    BY <2>2, <2>3
<1>4. ASSUME NEW i \in D PROVE Cardinality(Prior(L, s, i)) \in R
  <2>1. Prior(L, s, i) \in SUBSET (D \ {i})
    BY DEF Prior, OrderOn, Strict
  <2>2. IsFiniteSet(D \ {i}) /\ Cardinality(D \ {i}) = len - 1
    <3> HIDE DEF D
    <3> QED
      BY <1>2, FS_RemoveElement
  <2> DEFINE A == Prior(L, s, i)
             E == D \ {i}
  <2>3. A \in SUBSET E /\ IsFiniteSet(E) /\ Cardinality(E) = len - 1
    BY <2>1, <2>2
  <2> HIDE DEF A, E
  <2>4. IsFiniteSet(A) /\ Cardinality(A) <= len - 1
    BY <2>3, FS_Subset
  <2>5. Cardinality(A) \in Nat
    BY <2>4, FS_CardinalityType
  <2> QED
    BY <1>1, <2>4, <2>5 DEF A
<1>5. \A i, k \in D : r[i] = r[k] => i = k
  <2> SUFFICES ASSUME NEW i \in D, NEW k \in D, r[i] = r[k], i # k PROVE FALSE
    OBVIOUS
  <2>1. s[i] # s[k]
    BY <1>1 DEF IsInjective
  <2>2. <<s[i], s[k]>> \in L \/ <<s[k], s[i]>> \in L
    BY <1>1, <2>1 DEF OrderOn
  <2>3. r[i] < r[k] \/ r[k] < r[i]
    BY <2>2, PriorGrows
  <2>4. r[i] \in R /\ r[k] \in R
    BY <1>4
  <2> QED
    BY <1>1, <2>3, <2>4
<1>6. r \in Injection(D, R)
  <2>1. r \in [D -> R]
    BY <1>4
  <2>2. IsInjective(r)
    BY <1>5 DEF IsInjective
  <2> QED
    BY <2>1, <2>2 DEF Injection
<1>7. r \in Surjection(D, R)
  <2> HIDE DEF D, R, r
  <2> QED
    BY <1>2, <1>3, <1>6, FS_Injection
<1>8. n - 1 \in R
  BY <1>1
<1>9. PICK i \in D : r[i] = n - 1
  BY <1>7, <1>8 DEF Surjection
<1> QED
  BY <1>9

\* At each place what has that many ahead of it.
ByRank(L, s, t) ==
    /\ t = [n \in 1 .. Len(s) |-> t[n]]
    /\ \A n \in 1 .. Len(s) : \E i \in 1 .. Len(s) : Cardinality(Prior(L, s, i)) = n - 1 /\ t[n] = s[i]

LEMMA RankSorts ==
    ASSUME NEW X, NEW L, OrderOn(L, X), NEW s \in Seq(X), IsInjective(s), NEW t,
           ByRank(L, s, t)
    PROVE  Sorts(L, t, Range(s)) /\ Len(t) = Len(s)
<1> DEFINE len == Len(s)
           D == 1 .. len
           r(i) == Cardinality(Prior(L, s, i))
           c(n) == CHOOSE i \in D : r(i) = n - 1 /\ t[n] = s[i]
<1>1. len \in Nat /\ DOMAIN s = D /\ \A j \in D : s[j] \in X
  BY LenProperties, ElementOfSeq
<1>2. ASSUME NEW n \in D PROVE c(n) \in D /\ r(c(n)) = n - 1 /\ t[n] = s[c(n)]
  <2>1. \E i \in D : r(i) = n - 1 /\ t[n] = s[i]
    BY DEF ByRank
  <2> HIDE DEF r
  <2> QED
    BY <2>1
<1>3. t \in [D -> Range(s)]
  <2>1. \A n \in D : t[n] \in Range(s)
    BY <1>1 DEF Range, ByRank
  <2>2. t = [n \in D |-> t[n]]
    BY DEF ByRank
  <2> QED
    BY <2>1, <2>2
<1>4. t \in Seq(Range(s)) /\ Len(t) = len
  <2> DEFINE R == Range(s)
  <2>1. t \in [1 .. len -> R]
    BY <1>3
  <2> HIDE DEF R
  <2>2. t \in Seq(R) /\ Len(t) = len
    BY <1>1, <2>1, FunIsSeq
  <2> QED
    BY <2>2 DEF R
<1>5. ASSUME NEW i \in D, NEW k \in D, r(i) < r(k) PROVE <<s[i], s[k]>> \in L
  <2>1. r(i) \in Nat /\ r(k) \in Nat
    <3>1. IsFiniteSet(D)
      BY <1>1, FS_Interval
    <3>2. Prior(L, s, i) \in SUBSET D /\ Prior(L, s, k) \in SUBSET D
      BY DEF Prior
    <3> HIDE DEF D
    <3> QED
      BY <3>1, <3>2, FS_Subset, FS_CardinalityType
  <2>2. s[i] # s[k]
    <3> SUFFICES ASSUME s[i] = s[k] PROVE FALSE
      OBVIOUS
    <3>1. i = k
      BY <1>1 DEF IsInjective
    <3> QED
      BY <1>5, <2>1, <3>1
  <2>3. <<s[k], s[i]>> \notin L
    <3> SUFFICES ASSUME <<s[k], s[i]>> \in L PROVE FALSE
      OBVIOUS
    <3>1. r(k) < r(i)
      BY PriorGrows
    <3> QED
      BY <1>5, <2>1, <3>1
  <2> QED
    BY <1>1, <2>2, <2>3 DEF OrderOn
<1>6. Ordered(L, t, len)
  <2> SUFFICES ASSUME NEW n \in D, NEW m \in D, n < m PROVE <<t[n], t[m]>> \in L
    BY DEF Ordered
  <2>1. c(n) \in D /\ r(c(n)) = n - 1 /\ t[n] = s[c(n)]
    BY <1>2
  <2>2. c(m) \in D /\ r(c(m)) = m - 1 /\ t[m] = s[c(m)]
    BY <1>2
  <2>3. PICK i \in D : i = c(n)
    BY <2>1
  <2>4. PICK k \in D : k = c(m)
    BY <2>2
  <2>5. r(i) = n - 1 /\ r(k) = m - 1 /\ t[n] = s[i] /\ t[m] = s[k]
    BY <2>1, <2>2, <2>3, <2>4
  <2> HIDE DEF c, r
  <2>6. r(i) < r(k)
    BY <2>5
  <2> QED
    BY <1>5, <2>5, <2>6
<1>7. ASSUME NEW x \in Range(s) PROVE \E n \in D : t[n] = x
  <2>1. PICK i \in D : x = s[i]
    BY <1>1 DEF Range
  <2>2. r(i) \in 0 .. len - 1
    <3>1. Prior(L, s, i) \in SUBSET (D \ {i})
      BY DEF Prior, OrderOn, Strict
    <3>2. IsFiniteSet(D)
      BY <1>1, FS_Interval
    <3>3. Cardinality(D) = len
      <4>1. 1 \in Int /\ len \in Int
        BY <1>1
      <4>2. Cardinality(D) = IF 1 > len THEN 0 ELSE len - 1 + 1
        BY <4>1, FS_Interval
      <4> QED
        BY <1>1, <4>2
    <3> DEFINE A == Prior(L, s, i)
               E == D \ {i}
    <3>4. IsFiniteSet(E) /\ Cardinality(E) = len - 1
      <4> HIDE DEF D
      <4> QED
        BY <3>2, <3>3, FS_RemoveElement
    <3>5. A \in SUBSET E
      BY <3>1
    <3> HIDE DEF A, E
    <3>6. IsFiniteSet(A) /\ Cardinality(A) <= len - 1
      BY <3>4, <3>5, FS_Subset
    <3>7. Cardinality(A) \in Nat
      BY <3>6, FS_CardinalityType
    <3> QED
      BY <1>1, <3>6, <3>7 DEF A
  <2> DEFINE n == r(i) + 1
  <2>3. n \in D /\ n - 1 = r(i)
    BY <1>1, <2>2
  <2> HIDE DEF n
  <2>4. c(n) \in D /\ r(c(n)) = n - 1 /\ t[n] = s[c(n)]
    BY <1>2, <2>3
  <2>5. PICK k \in D : k = c(n)
    BY <2>4
  <2>6. r(k) = r(i) /\ t[n] = s[k]
    BY <2>3, <2>4, <2>5
  <2>7. s[k] = s[i]
    <3> SUFFICES ASSUME s[k] # s[i] PROVE FALSE
      OBVIOUS
    <3>1. <<s[k], s[i]>> \in L \/ <<s[i], s[k]>> \in L
      BY <1>1 DEF OrderOn
    <3>2. r(k) < r(i) \/ r(i) < r(k)
      BY <3>1, PriorGrows
    <3> QED
      BY <1>1, <2>2, <2>6, <3>2
  <2> QED
    BY <2>1, <2>3, <2>6, <2>7
<1> QED
  BY <1>4, <1>6, <1>7 DEF Sorts

\* What is at a place of a sorted part is not before that place in the whole.
LEMMA NotBefore ==
    ASSUME NEW L, Strict(L), NEW n \in Nat, NEW m \in Nat, NEW s, NEW t,
           Ordered(L, s, n), Ordered(L, t, m), Inside(s, n, t, m)
    PROVE  \A j \in 1 .. n : \A i \in 1 .. m : s[j] = t[i] => j <= i
<1> DEFINE N == {q \in Nat : \A j \in 1 .. n : j <= q => \A i \in 1 .. m : s[j] = t[i] => j <= i}
<1>1. 0 \in N
  OBVIOUS
<1>2. ASSUME NEW q \in Nat, q \in N PROVE q + 1 \in N
  <2> SUFFICES ASSUME NEW j \in 1 .. n, j = q + 1, NEW i \in 1 .. m, s[j] = t[i] PROVE j <= i
    BY <1>2
  <2>1. CASE q = 0
    BY <2>1
  <2>2. CASE q # 0
    <3>1. q \in 1 .. n /\ q < j
      BY <2>2
    <3>2. PICK k \in 1 .. m : s[q] = t[k]
      BY <3>1 DEF Inside
    <3>3. q <= k
      BY <1>2, <3>1, <3>2
    <3>4. <<t[k], t[i]>> \in L
      BY <3>1, <3>2 DEF Ordered
    <3>5. ~(i < k)
      <4> SUFFICES ASSUME i < k PROVE FALSE
        OBVIOUS
      <4>1. <<t[i], t[k]>> \in L
        BY DEF Ordered
      <4> QED
        BY <3>4, <4>1 DEF Strict
    <3>6. i # k
      BY <3>4 DEF Strict
    <3> QED
      BY <3>1, <3>3, <3>5, <3>6
  <2> QED
    BY <2>1, <2>2
<1> HIDE DEF N
<1>3. Nat \subseteq N
  BY <1>1, <1>2, NatInd
<1>4. n \in N
  BY <1>3
<1> QED
  BY <1>4 DEF N

\* There is one way to sort a set.
LEMMA SortsUnique ==
    ASSUME NEW L, Strict(L), NEW S, NEW s, NEW t, Sorts(L, s, S), Sorts(L, t, S)
    PROVE  s = t
<1> DEFINE a == Len(s)
           b == Len(t)
<1>1. /\ s \in [1 .. a -> S] /\ t \in [1 .. b -> S] /\ a \in Nat /\ b \in Nat
      /\ Ordered(L, s, a) /\ Ordered(L, t, b)
  BY LenProperties DEF Sorts
<1>2. Inside(s, a, t, b) /\ Inside(t, b, s, a)
  BY <1>1 DEF Inside, Sorts
<1> HIDE DEF a, b
<1> QED
  BY <1>1, <1>2, SortedUnique

\* The first n of a sequence, or all there are.
FirstOf(s, n) == SubSeq(s, 1, IF Len(s) < n THEN Len(s) ELSE n)

LEMMA FirstIs ==
    ASSUME NEW X, NEW s \in Seq(X), NEW n \in Nat
    PROVE  /\ FirstOf(s, n) \in Seq(X) /\ Len(FirstOf(s, n)) = IF Len(s) < n THEN Len(s) ELSE n
           /\ \A i \in 1 .. Len(FirstOf(s, n)) : FirstOf(s, n)[i] = s[i] /\ i \in 1 .. Len(s) /\ i <= n
<1> DEFINE m == IF Len(s) < n THEN Len(s) ELSE n
<1>1. Len(s) \in Nat /\ m \in Nat /\ m <= Len(s) /\ m <= n
  OBVIOUS
<1> HIDE DEF m
<1>2. SubSeq(s, 1, m) \in Seq(X) /\ Len(SubSeq(s, 1, m)) = m
  BY <1>1
<1>3. \A i \in 1 .. m : SubSeq(s, 1, m)[i] = s[i]
  BY <1>1
<1> QED
  BY <1>1, <1>2, <1>3 DEF FirstOf, m

LEMMA FirstsSame ==
    ASSUME NEW L, Strict(L), NEW S, NEW T \in SUBSET S, NEW s, NEW t, Sorts(L, s, S), Sorts(L, t, T),
           NEW n \in Nat, \A i \in 1 .. Len(s) : i <= n => s[i] \in T
    PROVE  FirstOf(t, n) = FirstOf(s, n)
<1> DEFINE a == Len(s)
           b == Len(t)
           c == IF a < n THEN a ELSE n
<1>1. s \in Seq(S) /\ t \in Seq(T) /\ a \in Nat /\ b \in Nat
  BY LenProperties DEF Sorts
<1>2. (\A i \in 1 .. a : s[i] \in S) /\ (\A i \in 1 .. b : t[i] \in T)
  BY <1>1, ElementOfSeq
<1>3. Ordered(L, s, a) /\ Ordered(L, t, b)
  BY DEF Sorts
<1>4. Inside(t, b, s, a)
  BY <1>2 DEF Inside, Sorts
<1> HIDE DEF a, b
<1>5. c \in Nat /\ c <= a /\ c <= n
  BY <1>1
<1>6. Inside(s, c, t, b)
  <2> SUFFICES ASSUME NEW i \in 1 .. c PROVE \E j \in 1 .. b : s[i] = t[j]
    BY DEF Inside
  <2>1. i \in 1 .. a /\ i <= n
    BY <1>1, <1>5
  <2>2. s[i] \in T
    BY <2>1 DEF a
  <2> QED
    BY <2>2 DEF Sorts, b
<1>7. \A i \in 1 .. c : i <= b /\ s[i] = t[i]
  <2> HIDE DEF c
  <2> QED
    BY <1>1, <1>3, <1>4, <1>5, <1>6, PrefixSame
<1>8. c = IF b < n THEN b ELSE n
  <2>1. c <= b
    BY <1>1, <1>5, <1>7
  <2>2. CASE a < n
    <3>1. c = a
      BY <2>2
    <3>2. \A i \in 1 .. b : i <= a
      <4>1. Inside(s, a, t, b) /\ Inside(t, b, s, a)
        BY <1>4, <1>6, <3>1
      <4> QED
        BY <1>1, <1>3, <4>1, SameUpTo
    <3>3. b <= a
      BY <1>1, <3>2
    <3> QED
      BY <1>1, <2>1, <2>2, <3>1, <3>3
  <2>3. CASE ~(a < n)
    BY <1>1, <2>1, <2>3
  <2> QED
    BY <2>2, <2>3
<1> DEFINE u == FirstOf(s, n)
           v == FirstOf(t, n)
<1>9. /\ u \in Seq(S) /\ Len(u) = c /\ \A i \in 1 .. c : u[i] = s[i]
  BY <1>1, FirstIs DEF a
<1>10. /\ v \in Seq(T) /\ Len(v) = c /\ \A i \in 1 .. c : v[i] = t[i]
  <2> HIDE DEF c
  <2>1. v \in Seq(T) /\ Len(v) = (IF b < n THEN b ELSE n) /\ \A i \in 1 .. Len(v) : v[i] = t[i]
    BY <1>1, FirstIs DEF b
  <2> QED
    BY <1>8, <2>1
<1> HIDE DEF u, v, c
<1>11. v \in Seq(S)
  <2>1. \A i \in 1 .. c : v[i] \in S
    BY <1>1, <1>2, <1>5, <1>7, <1>10
  <2>2. v \in [1 .. c -> S]
    <3>1. DOMAIN v = 1 .. c
      BY <1>10, LenProperties
    <3>2. v = [i \in DOMAIN v |-> v[i]]
      BY <1>10
    <3> QED
      BY <2>1, <3>1, <3>2
  <2> QED
    BY <1>5, <2>2, FunIsSeq
<1>12. \A i \in 1 .. c : v[i] = u[i]
  BY <1>7, <1>9, <1>10
<1>13. v = u
  BY <1>9, <1>10, <1>11, <1>12, SeqEqual
<1> QED
  BY <1>13 DEF u, v

\* What is at a place of a sorted part comes no earlier in the whole.
LEMMA PartLater ==
    ASSUME NEW L, Strict(L), NEW S, NEW T \in SUBSET S, NEW s, NEW t, Sorts(L, s, S), Sorts(L, t, T),
           NEW j \in 1 .. Len(t)
    PROVE  \E i \in 1 .. Len(s) : t[j] = s[i] /\ j <= i
<1> DEFINE a == Len(s)
           b == Len(t)
<1>1. s \in Seq(S) /\ t \in Seq(T) /\ a \in Nat /\ b \in Nat
  BY LenProperties DEF Sorts
<1>2. \A i \in 1 .. b : t[i] \in S
  BY <1>1, ElementOfSeq
<1>3. Inside(t, b, s, a)
  BY <1>2 DEF Inside, Sorts
<1>4. PICK i \in 1 .. a : t[j] = s[i]
  BY <1>3 DEF Inside
<1>5. Ordered(L, s, a) /\ Ordered(L, t, b)
  BY DEF Sorts
<1>0. j \in 1 .. b
  OBVIOUS
<1> HIDE DEF a, b
<1>6. j <= i
  BY <1>0, <1>1, <1>3, <1>4, <1>5, NotBefore
<1> QED
  BY <1>4, <1>6 DEF a

\* The first n of the whole are among the first n of the parts.
SortedParts(L, S, J, part, u) ==
    /\ \A j \in J : part[j] \in SUBSET S /\ Sorts(L, u[j], part[j])
    /\ \A x \in S : \E j \in J : x \in part[j]
HoldsTops(T, J, u, n) == \A j \in J : \A i \in 1 .. Len(FirstOf(u[j], n)) : FirstOf(u[j], n)[i] \in T

LEMMA TopsHold ==
    ASSUME NEW L, Strict(L), NEW S, NEW s, Sorts(L, s, S), NEW n \in Nat, NEW J, NEW part, NEW u,
           SortedParts(L, S, J, part, u), NEW T, HoldsTops(T, J, u, n)
    PROVE  \A i \in 1 .. Len(s) : i <= n => s[i] \in T
<1> SUFFICES ASSUME NEW i \in 1 .. Len(s), i <= n PROVE s[i] \in T
  OBVIOUS
<1>1. s[i] \in S
  BY ElementOfSeq, LenProperties DEF Sorts
<1>2. PICK j \in J : s[i] \in part[j]
  BY <1>1 DEF SortedParts
<1>3. PICK t : t = u[j]
  OBVIOUS
<1>4. part[j] \in SUBSET S /\ Sorts(L, t, part[j])
  BY <1>3 DEF SortedParts
<1>5. PICK p \in 1 .. Len(t) : t[p] = s[i]
  BY <1>2, <1>4 DEF Sorts
<1>6. PICK q \in 1 .. Len(s) : t[p] = s[q] /\ p <= q
  <2>1. PICK P \in SUBSET S : P = part[j]
    BY <1>4
  <2>2. Sorts(L, t, P) /\ p \in 1 .. Len(t) /\ Sorts(L, s, S) /\ Strict(L)
    BY <1>4, <2>1
  <2> QED
    BY ONLY <2>2, P \in SUBSET S, PartLater
<1>7. q = i
  <2>1. Ordered(L, s, Len(s)) /\ s[q] = s[i]
    BY <1>5, <1>6 DEF Sorts
  <2>2. ~(q < i) /\ ~(i < q)
    <3>1. ASSUME q < i PROVE FALSE
      <4>1. <<s[q], s[i]>> \in L
        BY <2>1, <3>1 DEF Ordered
      <4> QED
        BY <2>1, <4>1 DEF Strict
    <3>2. ASSUME i < q PROVE FALSE
      <4>1. <<s[i], s[q]>> \in L
        BY <2>1, <3>2 DEF Ordered
      <4> QED
        BY <2>1, <4>1 DEF Strict
    <3> QED
      BY <3>1, <3>2
  <2> QED
    BY <2>2
<1>8. t \in Seq(part[j]) /\ Len(t) \in Nat
  BY <1>4, LenProperties DEF Sorts
<1>9. p \in 1 .. Len(FirstOf(t, n)) /\ FirstOf(t, n)[p] = t[p]
  <2>1. p <= n
    BY <1>6, <1>7
  <2>2. p \in 1 .. Len(FirstOf(t, n))
    BY <1>8, <2>1, FirstIs
  <2> QED
    BY <1>8, <2>2, FirstIs
<1> QED
  BY <1>3, <1>5, <1>9 DEF HoldsTops

\* Sorted, a finite set has each of its elements once.
LEMMA SortedOnce ==
    ASSUME NEW L, Strict(L), NEW S, NEW s, Sorts(L, s, S)
    PROVE  /\ IsInjective(s) /\ Range(s) = S /\ s \in Seq(S)
           /\ IsFiniteSet(S) /\ Cardinality(S) = Len(s)
<1>1. s \in Seq(S) /\ Len(s) \in Nat /\ DOMAIN s = 1 .. Len(s) /\ \A i \in 1 .. Len(s) : s[i] \in S
  BY LenProperties, ElementOfSeq DEF Sorts
<1>2. IsInjective(s)
  <2> SUFFICES ASSUME NEW i \in 1 .. Len(s), NEW j \in 1 .. Len(s), s[i] = s[j], i # j PROVE FALSE
    BY <1>1 DEF IsInjective
  <2>1. i < j \/ j < i
    BY <1>1
  <2>2. <<s[i], s[j]>> \in L \/ <<s[j], s[i]>> \in L
    BY <2>1 DEF Sorts, Ordered
  <2> QED
    BY <2>2 DEF Strict
<1>3. Range(s) = S
  BY <1>1 DEF Range, Sorts
<1>4. IsFiniteSet(S) /\ Cardinality(S) = Len(s)
  BY <1>1, <1>2, <1>3, InjectiveCount
<1> QED
  BY <1>1, <1>2, <1>3, <1>4

\* A finite set listed in any order.
LEMMA SetListed ==
    ASSUME NEW S, IsFiniteSet(S)
    PROVE  SetToSeq(S) \in Seq(S) /\ IsInjective(SetToSeq(S)) /\ Range(SetToSeq(S)) = S
<1> DEFINE n == Cardinality(S)
           Good(f) == f \in [1 .. n -> S] /\ IsInjective(f)
<1>1. n \in Nat /\ ExistsBijection(1 .. n, S)
  BY FS_CardinalityType
<1>2. \E f : Good(f)
  BY <1>1 DEF ExistsBijection, Bijection, Injection
<1>3. SetToSeq(S) = CHOOSE f \in [1 .. n -> S] : IsInjective(f)
  BY DEF SetToSeq
<1> DEFINE s == SetToSeq(S)
<1>4. s \in [1 .. n -> S] /\ IsInjective(s)
  BY <1>2, <1>3
<1>5. n = Cardinality(S)
  OBVIOUS
<1> HIDE DEF s, n
<1>6. s \in Surjection(1 .. n, S)
  <2>1. IsFiniteSet(1 .. n) /\ Cardinality(1 .. n) = n
    <3>1. 1 \in Int /\ n \in Int
      BY <1>1
    <3>2. IsFiniteSet(1 .. n) /\ Cardinality(1 .. n) = IF 1 > n THEN 0 ELSE n - 1 + 1
      BY <3>1, FS_Interval
    <3>3. (IF 1 > n THEN 0 ELSE n - 1 + 1) = n
      BY <1>1
    <3> QED
      BY <3>2, <3>3
  <2>2. s \in Injection(1 .. n, S)
    BY <1>4 DEF Injection
  <2> DEFINE D == 1 .. n
  <2>3. IsFiniteSet(D) /\ Cardinality(D) = Cardinality(S) /\ s \in Injection(D, S)
    BY <2>1, <2>2, <1>5
  <2> HIDE DEF D
  <2>4. s \in Surjection(D, S)
    BY <2>3, FS_Injection
  <2> QED
    BY <2>4 DEF D
<1>7. s \in Seq(S) /\ DOMAIN s = 1 .. n
  BY <1>1, <1>4, FunIsSeq
<1>8. Range(s) = S
  BY <1>4, <1>6, <1>7 DEF Range, Surjection
<1> QED
  BY <1>4, <1>7, <1>8 DEF s

\* Two sequences without a common element, one after the other.
LEMMA ConcatOnce ==
    ASSUME NEW X, NEW s \in Seq(X), NEW t \in Seq(X), IsInjective(s), IsInjective(t),
           Range(s) \cap Range(t) = {}
    PROVE  s \o t \in Seq(X) /\ IsInjective(s \o t) /\ Range(s \o t) = Range(s) \cup Range(t)
<1> DEFINE u == s \o t
           a == Len(s)
           b == Len(t)
<1>1. /\ a \in Nat /\ b \in Nat /\ DOMAIN s = 1 .. a /\ DOMAIN t = 1 .. b
  BY LenProperties
<1>2. /\ u \in Seq(X) /\ Len(u) = a + b /\ DOMAIN u = 1 .. a + b
  BY ConcatProperties, LenProperties
<1>3. \A i \in 1 .. a + b : u[i] = IF i <= a THEN s[i] ELSE t[i - a]
  BY ConcatProperties
<1>4. (\A i \in 1 .. a : s[i] \in Range(s)) /\ (\A i \in 1 .. b : t[i] \in Range(t))
  BY <1>1 DEF Range
<1>5. \A i, j \in 1 .. a : s[i] = s[j] => i = j
  BY <1>1 DEF IsInjective
<1>6. \A i, j \in 1 .. b : t[i] = t[j] => i = j
  BY <1>1 DEF IsInjective
<1> HIDE DEF u, a, b
<1>7. IsInjective(u)
  <2> SUFFICES ASSUME NEW i \in 1 .. a + b, NEW j \in 1 .. a + b, u[i] = u[j] PROVE i = j
    BY <1>2 DEF IsInjective
  <2>1. i <= a => i \in 1 .. a
    BY <1>1
  <2>2. j <= a => j \in 1 .. a
    BY <1>1
  <2>3. ~(i <= a) => i - a \in 1 .. b
    BY <1>1
  <2>4. ~(j <= a) => j - a \in 1 .. b
    BY <1>1
  <2>5. CASE i <= a /\ j <= a
    BY <1>3, <1>5, <2>1, <2>2, <2>5
  <2>6. CASE ~(i <= a) /\ ~(j <= a)
    <3>1. i - a = j - a
      BY <1>3, <1>6, <2>3, <2>4, <2>6
    <3> QED
      BY <1>1, <3>1
  <2>7. CASE i <= a /\ ~(j <= a)
    <3>1. u[i] \in Range(s) /\ u[j] \in Range(t)
      BY <1>3, <1>4, <2>1, <2>4, <2>7
    <3> QED
      BY <3>1
  <2>8. CASE ~(i <= a) /\ j <= a
    <3>1. u[j] \in Range(s) /\ u[i] \in Range(t)
      BY <1>3, <1>4, <2>2, <2>3, <2>8
    <3> QED
      BY <3>1
  <2> QED
    BY <2>5, <2>6, <2>7, <2>8
<1>8. Range(u) = Range(s) \cup Range(t)
  <2>1. ASSUME NEW i \in 1 .. a + b PROVE u[i] \in Range(s) \cup Range(t)
    <3>1. CASE i <= a
      <4>1. i \in 1 .. a
        BY <1>1, <3>1
      <4> QED
        BY <1>3, <1>4, <3>1, <4>1
    <3>2. CASE ~(i <= a)
      <4>1. i - a \in 1 .. b
        BY <1>1, <3>2
      <4> QED
        BY <1>3, <1>4, <3>2, <4>1
    <3> QED
      BY <3>1, <3>2
  <2>2. ASSUME NEW x \in Range(s) PROVE x \in Range(u)
    <3>1. PICK i \in 1 .. a : x = s[i]
      BY <1>1 DEF Range
    <3>2. i \in 1 .. a + b /\ i <= a
      BY <1>1
    <3> QED
      BY <1>2, <1>3, <3>1, <3>2 DEF Range
  <2>3. ASSUME NEW x \in Range(t) PROVE x \in Range(u)
    <3>1. PICK i \in 1 .. b : x = t[i]
      BY <1>1 DEF Range
    <3> DEFINE j == i + a
    <3>2. j \in 1 .. a + b /\ ~(j <= a) /\ j - a = i
      BY <1>1
    <3> HIDE DEF j
    <3>3. u[j] = t[i]
      BY <1>3, <3>2
    <3> QED
      BY <1>2, <3>1, <3>2, <3>3 DEF Range
  <2> QED
    BY <1>2, <2>1, <2>2, <2>3 DEF Range
<1> QED
  BY <1>2, <1>7, <1>8 DEF u

\* As many of them as there are.
OnceEach(X, G, len) ==
    /\ \A i \in 1 .. len : G[i] \in Seq(X) /\ IsInjective(G[i])
    /\ \A i, j \in 1 .. len : i # j => Range(G[i]) \cap Range(G[j]) = {}

LEMMA FlatOnce ==
    ASSUME NEW X, NEW len \in Nat, NEW G, OnceEach(X, G, len)
    PROVE  LET all == FlattenSeq([i \in 1 .. len |-> G[i]])
           IN  all \in Seq(X) /\ IsInjective(all) /\ Range(all) = UNION {Range(G[i]) : i \in 1 .. len}
<1> DEFINE F(n) == FlattenSeq([i \in 1 .. n |-> G[i]])
           U(n) == UNION {Range(G[i]) : i \in 1 .. n}
           Good(n) == F(n) \in Seq(X) /\ IsInjective(F(n)) /\ Range(F(n)) = U(n)
           N == {n \in Nat : n <= len => Good(n)}
<1>1. 0 \in N
  <2>1. F(0) = <<>>
    <3>1. [i \in 1 .. 0 |-> G[i]] = <<>>
      OBVIOUS
    <3> QED
      BY <3>1, FlatEmpty
  <2>2. U(0) = {}
    OBVIOUS
  <2>3. <<>> \in Seq(X) /\ IsInjective(<<>>) /\ Range(<<>>) = {}
    BY DEF IsInjective, Range
  <2> HIDE DEF F, U
  <2> QED
    BY <2>1, <2>2, <2>3
<1>2. ASSUME NEW n \in Nat, n \in N PROVE n + 1 \in N
  <2> SUFFICES ASSUME n + 1 <= len PROVE Good(n + 1)
    OBVIOUS
  <2>1. Good(n)
    BY <1>2
  <2>2. n + 1 \in 1 .. len /\ \A i \in 1 .. n + 1 : i \in 1 .. len
    OBVIOUS
  <2>3. F(n + 1) = F(n) \o G[n + 1]
    <3>1. \A i \in 1 .. n + 1 : G[i] \in Seq(X)
      BY <2>2 DEF OnceEach
    <3> QED
      BY <3>1, FlatNext
  <2>4. U(n + 1) = U(n) \cup Range(G[n + 1])
    <3>1. 1 .. n + 1 = (1 .. n) \cup {n + 1}
      OBVIOUS
    <3> QED
      BY <3>1
  <2>5. U(n) \cap Range(G[n + 1]) = {}
    <3>1. ASSUME NEW i \in 1 .. n PROVE Range(G[i]) \cap Range(G[n + 1]) = {}
      <4>1. i \in 1 .. len /\ i # n + 1
        BY <2>2
      <4> QED
        BY <2>2, <4>1 DEF OnceEach
    <3> QED
      BY <3>1
  <2>6. G[n + 1] \in Seq(X) /\ IsInjective(G[n + 1])
    BY <2>2 DEF OnceEach
  <2> DEFINE s == F(n)
             t == G[n + 1]
  <2>7. s \in Seq(X) /\ IsInjective(s) /\ Range(s) = U(n) /\ t \in Seq(X) /\ IsInjective(t)
    BY <2>1, <2>6
  <2>8. Range(s) \cap Range(t) = {}
    BY <2>5, <2>7
  <2>9. F(n + 1) = s \o t /\ U(n + 1) = U(n) \cup Range(t)
    BY <2>3, <2>4
  <2> HIDE DEF s, t, F, U
  <2>10. s \o t \in Seq(X) /\ IsInjective(s \o t) /\ Range(s \o t) = Range(s) \cup Range(t)
    BY <2>7, <2>8, ConcatOnce
  <2> QED
    BY <2>7, <2>9, <2>10
<1> HIDE DEF N
<1>3. Nat \subseteq N
  BY <1>1, <1>2, NatInd
<1>4. len \in N
  BY <1>3
<1> QED
  BY <1>4 DEF N

-----------------------------------------------------------------------------
(* Division, and runs of equal share                                          *)

\* Division rounds down.
LEMMA DivIs ==
    ASSUME NEW a \in Nat, NEW b \in Nat \ {0}
    PROVE  a \div b \in Nat /\ b * (a \div b) <= a /\ a < b * (a \div b) + b
OBVIOUS

LEMMA DivGrows ==
    ASSUME NEW a \in Nat, NEW c \in Nat, a <= c, NEW b \in Nat \ {0}
    PROVE  a \div b <= c \div b
<1> DEFINE x == a \div b
           y == c \div b
<1>1. x \in Nat /\ y \in Nat /\ b * x <= a /\ c < b * y + b
  BY DivIs
<1> HIDE DEF x, y
<1>2. ~(x > y)
  <2> SUFFICES ASSUME x >= y + 1 PROVE FALSE
    BY <1>1
  <2>1. b * x >= b * (y + 1)
    BY <1>1
  <2>2. b * (y + 1) = b * y + b
    BY <1>1
  <2>3. b * x \in Nat /\ b * y \in Nat
    BY <1>1
  <2> QED
    BY <1>1, <2>1, <2>2, <2>3
<1> QED
  BY <1>1, <1>2 DEF x, y

LEMMA DivWhole ==
    ASSUME NEW a \in Nat, NEW b \in Nat \ {0}
    PROVE  (b * a) \div b = a
<1> DEFINE x == (b * a) \div b
<1>0. b * a \in Nat
  OBVIOUS
<1>1. x \in Nat /\ b * x <= b * a /\ b * a < b * x + b
  BY <1>0, DivIs
<1> HIDE DEF x
<1>2. ~(x > a)
  <2> SUFFICES ASSUME x >= a + 1 PROVE FALSE
    BY <1>1
  <2>1. b * x >= b * (a + 1)
    BY <1>1
  <2>2. b * (a + 1) = b * a + b
    BY <1>1
  <2> QED
    BY <1>0, <1>1, <2>1, <2>2
<1>3. ~(x < a)
  <2> SUFFICES ASSUME a >= x + 1 PROVE FALSE
    BY <1>1
  <2>1. b * a >= b * (x + 1)
    BY <1>1
  <2>2. b * (x + 1) = b * x + b
    BY <1>1
  <2>3. b * x \in Nat
    BY <1>1
  <2> QED
    BY <1>0, <1>1, <2>1, <2>2, <2>3
<1> QED
  BY <1>1, <1>2, <1>3 DEF x

\* Cut in as many runs as wanted, each at its share rounded down, every one of
\* the first n naturals is in one run and in no other.
LEMMA RunsCover ==
    ASSUME NEW n \in Nat, NEW w \in Nat \ {0}
    PROVE  /\ \A p \in 1 .. n : \E s \in 1 .. w : p \in ((s - 1) * n) \div w + 1 .. (s * n) \div w
           /\ \A s \in 1 .. w : ((s - 1) * n) \div w + 1 .. (s * n) \div w \subseteq 1 .. n
           /\ \A s, t \in 1 .. w :
                 s # t => (((s - 1) * n) \div w + 1 .. (s * n) \div w)
                             \cap (((t - 1) * n) \div w + 1 .. (t * n) \div w) = {}
<1> DEFINE h(s) == (s * n) \div w
<1>1. \A s \in Nat : s * n \in Nat
  OBVIOUS
<1>2. \A s \in Nat : h(s) \in Nat
  BY <1>1, DivIs
<1>3. \A s, t \in Nat : s <= t => h(s) <= h(t)
  <2> SUFFICES ASSUME NEW s \in Nat, NEW t \in Nat, s <= t PROVE h(s) <= h(t)
    OBVIOUS
  <2>1. s * n <= t * n
    <3>1. PICK d \in Nat : t = s + d
      <4>1. t - s \in Nat /\ t = s + (t - s)
        OBVIOUS
      <4> QED
        BY <4>1
    <3>2. t * n = s * n + d * n /\ d * n \in Nat /\ s * n \in Nat
      BY <3>1
    <3> QED
      BY <3>2
  <2> QED
    BY <1>1, <2>1, DivGrows
<1>4. h(w) = n
  BY DivWhole
<1>5. h(0) = 0
  <2>1. 0 * n = w * 0
    OBVIOUS
  <2>2. (w * 0) \div w = 0
    BY DivWhole
  <2> QED
    BY <2>1, <2>2
<1> HIDE DEF h
<1>6. ASSUME NEW p \in 1 .. n PROVE \E s \in 1 .. w : p \in h(s - 1) + 1 .. h(s)
  <2> DEFINE R == {s \in Nat : h(s) >= p}
  <2>1. w \in R
    BY <1>4
  <2>2. PICK s \in R : \A t \in R : s <= t
    <3>1. R \in SUBSET Nat /\ R # {}
      BY <2>1
    <3> HIDE DEF R
    <3> QED
      BY <3>1, LeastNat
  <2>3. s # 0
    BY <1>5, <2>2
  <2>4. s \in 1 .. w /\ s - 1 \in Nat
    BY <2>1, <2>2, <2>3
  <2>5. h(s - 1) < p
    BY <1>2, <2>2, <2>4
  <2> QED
    BY <1>2, <2>2, <2>4, <2>5
<1>7. ASSUME NEW s \in 1 .. w PROVE h(s - 1) + 1 .. h(s) \subseteq 1 .. n
  <2>1. s \in Nat /\ s - 1 \in Nat /\ s <= w
    OBVIOUS
  <2>2. h(s) <= n
    BY <1>3, <1>4, <2>1
  <2>3. h(s - 1) \in Nat /\ h(s) \in Nat
    BY <1>2, <2>1
  <2> QED
    BY <2>2, <2>3
<1>8. ASSUME NEW s \in 1 .. w, NEW t \in 1 .. w, s < t
      PROVE  (h(s - 1) + 1 .. h(s)) \cap (h(t - 1) + 1 .. h(t)) = {}
  <2>1. s \in Nat /\ t - 1 \in Nat /\ s <= t - 1 /\ s - 1 \in Nat /\ t \in Nat
    BY <1>8
  <2>2. h(s) <= h(t - 1)
    BY <1>3, <2>1
  <2>3. h(s - 1) \in Nat /\ h(s) \in Nat /\ h(t - 1) \in Nat /\ h(t) \in Nat
    BY <1>2, <2>1
  <2> QED
    BY <2>2, <2>3
<1>9. ASSUME NEW s \in 1 .. w, NEW t \in 1 .. w, s # t
      PROVE  (h(s - 1) + 1 .. h(s)) \cap (h(t - 1) + 1 .. h(t)) = {}
  <2>1. s < t \/ t < s
    BY <1>9
  <2> QED
    BY <1>8, <2>1
<1> QED
  BY <1>6, <1>7, <1>9 DEF h

\* As many finite sets as there are, together.
LEMMA UnionFinite ==
    ASSUME NEW n \in Nat, NEW f, \A p \in 1 .. n : IsFiniteSet(f[p])
    PROVE  IsFiniteSet(UNION {f[p] : p \in 1 .. n})
<1> DEFINE P == 1 .. n
           sets == {f[p] : p \in P}
           g == [p \in P |-> f[p]]
<1>1. IsFiniteSet(P)
  BY FS_Interval
<1>2. g \in Surjection(P, sets)
  BY DEF Surjection
<1>3. \A Y \in sets : IsFiniteSet(Y)
  OBVIOUS
<1> HIDE DEF P, sets, g
<1>4. IsFiniteSet(sets)
  BY <1>1, <1>2, FS_Surjection
<1>5. IsFiniteSet(UNION sets)
  BY <1>3, <1>4, FS_UNION
<1> QED
  BY <1>5 DEF sets, P

\* Division of an integer, and its order.
LEMMA DivInt ==
    ASSUME NEW a \in Int, NEW b \in Nat \ {0}
    PROVE  a \div b \in Int /\ b * (a \div b) <= a /\ a < b * (a \div b) + b
OBVIOUS

LEMMA DivLess ==
    ASSUME NEW a \in Int, NEW c \in Int, NEW b \in Nat \ {0}
    PROVE  /\ a <= c => a \div b <= c \div b
           /\ a + b <= c => a \div b < c \div b
<1>1. PICK x \in Int, y \in Int : x = a \div b /\ y = c \div b
  BY DivInt
<1>2. b * x <= a /\ c < b * y + b
  BY <1>1, DivInt
<1>3. b * x \in Int /\ b * y \in Int
  OBVIOUS
<1>4. ASSUME y < x PROVE b * y + b <= b * x
  <2>1. PICK d \in Nat : x = y + 1 + d
    <3>1. x - y - 1 \in Nat /\ x = y + 1 + (x - y - 1)
      BY <1>4
    <3> QED
      BY <3>1
  <2>2. b * d \in Nat
    OBVIOUS
  <2>3. b * x = b * y + b + b * d
    BY <2>1
  <2> QED
    BY <1>3, <2>2, <2>3
<1>5. a <= c => x <= y
  BY <1>2, <1>3, <1>4
<1>6. y <= x => b * y <= b * x
  <2>1. CASE y = x
    BY <2>1, <1>3
  <2>2. CASE y < x
    BY <2>2, <1>3, <1>4
  <2> QED
    BY <2>1, <2>2
<1>7. a + b <= c => x < y
  BY <1>2, <1>3, <1>6
<1> QED
  BY <1>1, <1>5, <1>7


\* A finite set of numbers that is not empty has a least and a greatest.
LEMMA Extremes ==
    ASSUME NEW S, IsFiniteSet(S), S \subseteq Int, S # {}
    PROVE  (\E x \in S : \A y \in S : y <= x) /\ (\E x \in S : \A y \in S : x <= y)
<1> DEFINE Great(A) == \E x \in A : \A y \in A : y <= x
           Least(A) == \E x \in A : \A y \in A : x <= y
           T == {A \in SUBSET S : A # {} => Great(A) /\ Least(A)}
<1>1. {} \in T
  OBVIOUS
<1>2. ASSUME NEW A \in SUBSET S, NEW x \in S, A \in T, x \notin A PROVE A \cup {x} \in T
  <2> DEFINE B == A \cup {x}
  <2>1. CASE A = {}
    <3>1. \A y \in B : y = x
      BY <2>1
    <3>2. x \in B /\ x \in Int
      OBVIOUS
    <3>3. Great(B) /\ Least(B)
      BY <3>1, <3>2
    <3> QED
      BY <3>3
  <2>2. CASE A # {}
    <3>1. PICK u \in A : \A y \in A : y <= u
      BY <1>2, <2>2
    <3>2. PICK v \in A : \A y \in A : v <= y
      BY <1>2, <2>2
    <3>3. x \in Int /\ u \in Int /\ v \in Int /\ \A y \in A : y \in Int
      OBVIOUS
    <3>4. Great(B)
      <4>1. CASE x <= u
        <5>1. \A y \in B : y <= u
          BY <3>1, <4>1
        <5> QED
          BY <5>1
      <4>2. CASE u <= x
        <5>1. \A y \in B : y <= x
          BY <3>1, <3>3, <4>2
        <5> QED
          BY <5>1
      <4> QED
        BY <3>3, <4>1, <4>2
    <3>5. Least(B)
      <4>1. CASE v <= x
        <5>1. \A y \in B : v <= y
          BY <3>2, <4>1
        <5> QED
          BY <5>1
      <4>2. CASE x <= v
        <5>1. \A y \in B : x <= y
          BY <3>2, <3>3, <4>2
        <5> QED
          BY <5>1
      <4> QED
        BY <3>3, <4>1, <4>2
    <3> QED
      BY <3>4, <3>5
  <2> QED
    BY <2>1, <2>2
<1> HIDE DEF T
<1>3. SUBSET S \subseteq T
  BY <1>1, <1>2, SubsetInd
<1>4. S \in T
  BY <1>3
<1> QED
  BY <1>4 DEF T

\* A sum of integers is one.
LEMMA SumInt ==
    ASSUME NEW S, IsFiniteSet(S), NEW f, \A x \in S : f[x] \in Int, NEW g, SumOver(g, f, S)
    PROVE  g[S] \in Int
<1> DEFINE N == {n \in Nat : \A s \in SUBSET S : Cardinality(s) = n => g[s] \in Int}
<1>0. \A s \in SUBSET S : g[s] = IF s = {} THEN 0 ELSE f[Taken(s)] + g[s \ {Taken(s)}]
  BY DEF SumOver
<1>1. 0 \in N
  <2> SUFFICES ASSUME NEW s \in SUBSET S, Cardinality(s) = 0 PROVE g[s] \in Int
    OBVIOUS
  <2>1. s = {}
    BY Smaller
  <2>2. g[s] = 0
    BY <1>0, <2>1, Zenon
  <2> QED
    BY <2>2
<1>2. ASSUME NEW n \in Nat, n \in N PROVE n + 1 \in N
  <2> SUFFICES ASSUME NEW s \in SUBSET S, Cardinality(s) = n + 1 PROVE g[s] \in Int
    OBVIOUS
  <2>1. s # {}
    BY FS_EmptySet
  <2>2. g[s \ {Taken(s)}] \in Int
    BY <2>1, <1>2, Smaller
  <2>3. f[Taken(s)] \in Int
    BY <2>1, TakenIn
  <2>4. PICK a \in Int, b \in Int : a = f[Taken(s)] /\ b = g[s \ {Taken(s)}]
    BY <2>2, <2>3
  <2>5. g[s] = a + b
    BY <1>0, <2>1, <2>4
  <2> QED
    BY <2>5
<1> HIDE DEF N
<1>3. Nat \subseteq N
  BY <1>1, <1>2, NatInd
<1>4. Cardinality(S) \in Nat
  BY FS_CardinalityType
<1> QED
  BY <1>3, <1>4 DEF N

-----------------------------------------------------------------------------
(* Folds along a sequence, from its end (FoldLeft of SequencesExt)            *)

\* f of what is folded so far and the place that comes next.
FoldDown(g, f, b, n) ==
    g = [s \in SUBSET (1 .. n) |-> IF s = {} THEN b ELSE f[<<g[s \ {Top(s)}], Top(s)>>]]

LEMMA FoldExists == ASSUME NEW n \in Nat, NEW f, NEW b PROVE \E g : FoldDown(g, f, b, n)
<1> DEFINE S == 1 .. n
           Small(m) == {s \in SUBSET S : Cardinality(s) <= m}
           Fits(g, m) == \A s \in Small(m) : g[s] = IF s = {} THEN b ELSE f[<<g[s \ {Top(s)}], Top(s)>>]
           N == {m \in Nat : \E g : Fits(g, m)}
<1>0. IsFiniteSet(S) /\ \A s \in SUBSET S : s # {} => Top(s) \in s
  <2>1. IsFiniteSet(S)
    BY FS_Interval
  <2>2. \A s \in SUBSET S : s # {} => Top(s) \in s
    BY TopIn
  <2> QED
    BY <2>1, <2>2
<1> HIDE DEF S
<1>1. 0 \in N
  <2>1. ASSUME NEW s \in Small(0) PROVE s = {}
    <3>1. s \in SUBSET S /\ Cardinality(s) <= 0
      OBVIOUS
    <3>2. s # {} => Cardinality(s) \in Nat \ {0}
      <4> HIDE DEF Small
      <4> QED
        BY <1>0, <3>1, FewerBy
    <3> QED
      BY <3>1, <3>2
  <2> DEFINE g == [s \in {{}} |-> b]
  <2>2. Fits(g, 0)
    BY <2>1
  <2> QED
    BY <2>2
<1>2. ASSUME NEW m \in Nat, m \in N PROVE m + 1 \in N
  <2>1. PICK g : Fits(g, m)
    BY <1>2
  <2> DEFINE h == [s \in SUBSET S |-> IF s \in Small(m) THEN g[s] ELSE f[<<g[s \ {Top(s)}], Top(s)>>]]
  <2>2. ASSUME NEW s \in Small(m + 1) PROVE h[s] = IF s = {} THEN b ELSE f[<<h[s \ {Top(s)}], Top(s)>>]
    <3>1. CASE s = {}
      <4>1. s \in Small(m)
        BY <3>1, FS_EmptySet
      <4> QED
        BY <3>1, <4>1, <2>1
    <3>2. CASE s # {}
      <4>1. s \ {Top(s)} \in Small(m)
        <5>1. Cardinality(s) \in Nat \ {0} /\ Cardinality(s \ {Top(s)}) = Cardinality(s) - 1
          BY <1>0, <3>2, FewerBy
        <5> QED
          BY <5>1
      <4>2. h[s \ {Top(s)}] = g[s \ {Top(s)}]
        BY <4>1
      <4>3. h[s] = f[<<g[s \ {Top(s)}], Top(s)>>]
        BY <3>2, <2>1
      <4> QED
        BY <3>2, <4>2, <4>3
    <3> QED
      BY <3>1, <3>2
  <2>3. Fits(h, m + 1)
    <3> HIDE DEF h, Small
    <3> QED
      BY <2>2
  <2> HIDE DEF Fits
  <2> QED
    BY <2>3
<1> HIDE DEF N
<1>3. Cardinality(S) \in N
  BY <1>0, <1>1, <1>2, NatInd, FS_CardinalityType
<1>4. PICK g : Fits(g, Cardinality(S))
  BY <1>3 DEF N
<1>5. \A s \in SUBSET S : s \in Small(Cardinality(S))
  BY <1>0, FS_Subset
<1> DEFINE h == [s \in SUBSET S |-> g[s]]
<1>6. \A s \in SUBSET S : h[s] = IF s = {} THEN b ELSE f[<<h[s \ {Top(s)}], Top(s)>>]
  BY <1>4, <1>5
<1>7. h = [s \in SUBSET S |-> IF s = {} THEN b ELSE f[<<h[s \ {Top(s)}], Top(s)>>]]
  BY <1>6
<1> QED
  BY <1>7 DEF FoldDown, S

\* It stays where every step stays.
LEMMA FoldType ==
    ASSUME NEW n \in Nat, NEW f, NEW b, NEW g, FoldDown(g, f, b, n),
           NEW X, b \in X, \A x \in X : \A i \in 1 .. n : f[<<x, i>>] \in X
    PROVE  \A s \in SUBSET (1 .. n) : g[s] \in X
<1> DEFINE D == 1 .. n
           N == {m \in Nat : \A s \in SUBSET D : Cardinality(s) = m => g[s] \in X}
<1>0. \A s \in SUBSET D : g[s] = IF s = {} THEN b ELSE f[<<g[s \ {Top(s)}], Top(s)>>]
  <2>1. g = [s \in SUBSET D |-> IF s = {} THEN b ELSE f[<<g[s \ {Top(s)}], Top(s)>>]]
    BY Zenon DEF FoldDown
  <2> HIDE DEF D
  <2> QED
    BY <2>1
<1>1. IsFiniteSet(D) /\ \A s \in SUBSET D : s # {} => Top(s) \in s
  <2>1. IsFiniteSet(D)
    BY FS_Interval
  <2>2. \A s \in SUBSET D : s # {} => Top(s) \in s
    BY TopIn
  <2> QED
    BY <2>1, <2>2
<1> HIDE DEF D
<1>2. 0 \in N
  <2> SUFFICES ASSUME NEW s \in SUBSET D, Cardinality(s) = 0 PROVE g[s] \in X
    OBVIOUS
  <2>1. s = {}
    BY <1>1, Smaller
  <2> QED
    BY <1>0, <2>1
<1>3. ASSUME NEW m \in Nat, m \in N PROVE m + 1 \in N
  <2> SUFFICES ASSUME NEW s \in SUBSET D, Cardinality(s) = m + 1 PROVE g[s] \in X
    OBVIOUS
  <2>1. s # {}
    BY FS_EmptySet
  <2>2. Cardinality(s \ {Top(s)}) = m /\ s \ {Top(s)} \in SUBSET D /\ Top(s) \in D
    <3>1. Cardinality(s \ {Top(s)}) = Cardinality(s) - 1
      BY <1>1, <2>1, FewerBy
    <3> QED
      BY <1>1, <2>1, <3>1
  <2>3. g[s \ {Top(s)}] \in X
    BY <1>3, <2>2
  <2> QED
    BY <1>0, <2>1, <2>2, <2>3 DEF D
<1> HIDE DEF N
<1>4. Nat \subseteq N
  BY <1>2, <1>3, NatInd
<1>5. \A s \in SUBSET D : Cardinality(s) \in Nat
  BY <1>1, FS_Subset, FS_CardinalityType
<1> QED
  BY <1>4, <1>5 DEF N, D

\* Up to a place it is the step at that place from the fold up to the one before.
LEMMA FoldAt ==
    ASSUME NEW n \in Nat, NEW f, NEW b, NEW g, FoldDown(g, f, b, n)
    PROVE  g[1 .. 0] = b /\ \A k \in 1 .. n : g[1 .. k] = f[<<g[1 .. k - 1], k>>]
<1>1. \A s \in SUBSET (1 .. n) : g[s] = IF s = {} THEN b ELSE f[<<g[s \ {Top(s)}], Top(s)>>]
  <2> DEFINE S == SUBSET (1 .. n)
  <2>1. g = [s \in S |-> IF s = {} THEN b ELSE f[<<g[s \ {Top(s)}], Top(s)>>]]
    BY Zenon DEF FoldDown
  <2> HIDE DEF S
  <2>2. \A s \in S : g[s] = IF s = {} THEN b ELSE f[<<g[s \ {Top(s)}], Top(s)>>]
    BY <2>1
  <2> QED
    BY <2>2 DEF S
<1>2. g[1 .. 0] = b
  <2>1. 1 .. 0 = {} /\ 1 .. 0 \in SUBSET (1 .. n)
    OBVIOUS
  <2> QED
    BY <1>1, <2>1
<1>3. ASSUME NEW k \in 1 .. n PROVE g[1 .. k] = f[<<g[1 .. k - 1], k>>]
  <2> DEFINE s == 1 .. k
  <2>1. s \in SUBSET (1 .. n) /\ s # {} /\ k \in s /\ \A y \in s : y <= k /\ y \in Nat
    OBVIOUS
  <2>2. s \ {k} = 1 .. k - 1
    OBVIOUS
  <2> HIDE DEF s
  <2>3. Top(s) = k
    <3> DEFINE t == Top(s)
    <3>1. t \in s /\ t >= k
      BY <2>1, TopIn
    <3> HIDE DEF t
    <3>2. t \in Nat /\ t <= k /\ k \in Nat
      BY <2>1, <3>1
    <3>3. t = k
      BY <3>1, <3>2
    <3> QED
      BY <3>3 DEF t
  <2>4. g[s] = f[<<g[s \ {k}], k>>]
    BY <1>1, <2>1, <2>3
  <2> QED
    BY <2>2, <2>4 DEF s
<1> QED
  BY <1>2, <1>3

-----------------------------------------------------------------------------
(* A finite set in an order                                                   *)

\* What comes n-th has n - 1 elements before it.
Counts(t, S, L, F) ==
    /\ IsFiniteSet(S) /\ OrderOn(L, S)
    /\ \A x \in S : F[x] = {y \in S : <<y, x>> \in L}
    /\ t = [n \in 1 .. Cardinality(S) |-> t[n]]
    /\ \A n \in 1 .. Cardinality(S) :
          (\E x \in S : Cardinality(F[x]) = n - 1) => t[n] \in S /\ Cardinality(F[t[n]]) = n - 1

LEMMA CountsSorts ==
    ASSUME NEW t, NEW S, NEW L, NEW F, Counts(t, S, L, F)
    PROVE  Sorts(L, t, S) /\ Len(t) = Cardinality(S)
<1> DEFINE s == SetToSeq(S)
           c == Cardinality(S)
           Below(x) == {y \in S : <<y, x>> \in L}
<1>0. IsFiniteSet(S) /\ OrderOn(L, S) /\ t = [n \in 1 .. c |-> t[n]]
  BY Zenon DEF Counts
<1>1. s \in Seq(S) /\ IsInjective(s) /\ Range(s) = S
  BY <1>0, SetListed
<1> HIDE DEF s
<1>2. Len(s) \in Nat /\ DOMAIN s = 1 .. Len(s) /\ \A i \in 1 .. Len(s) : s[i] \in S
  BY <1>1, LenProperties, ElementOfSeq
<1>3. Len(s) = c
  BY <1>1, InjectiveCount
<1>4. ASSUME NEW i \in 1 .. Len(s) PROVE Cardinality(Prior(L, s, i)) = Cardinality(Below(s[i]))
  <2> DEFINE A == Prior(L, s, i)
             B == Below(s[i])
             f == [j \in A |-> s[j]]
  <2>1. IsFiniteSet(1 .. Len(s)) /\ A \subseteq 1 .. Len(s)
    BY <1>2, FS_Interval DEF Prior
  <2>2. \A j \in A : s[j] \in B
    BY <1>2 DEF Prior
  <2>3. \A j, m \in A : s[j] = s[m] => j = m
    BY <1>1, <1>2, <2>1 DEF IsInjective
  <2>4. \A y \in B : \E j \in A : s[j] = y
    <3> SUFFICES ASSUME NEW y \in B PROVE \E j \in A : s[j] = y
      OBVIOUS
    <3>1. PICK j \in 1 .. Len(s) : s[j] = y
      BY <1>1, <1>2 DEF Range
    <3>2. j \in A
      BY <3>1 DEF Prior
    <3> QED
      BY <3>1, <3>2
  <2>5. f \in Bijection(A, B) /\ ExistsBijection(A, B)
    <3> HIDE DEF A, B
    <3>1. f \in Bijection(A, B)
      BY <2>2, <2>3, <2>4 DEF Bijection, Injection, Surjection, IsInjective
    <3> HIDE DEF f
    <3> QED
      BY <3>1 DEF ExistsBijection
  <2>6. IsFiniteSet(A)
    <3> HIDE DEF A
    <3> QED
      BY <2>1, FS_Subset
  <2> HIDE DEF A, B, f
  <2>7. Cardinality(A) = Cardinality(B)
    BY <2>5, <2>6, FS_Bijection
  <2> QED
    BY <2>7 DEF A, B
<1>5. ASSUME NEW n \in 1 .. c, NEW x \in S, Cardinality(Below(x)) = n - 1
      PROVE  t[n] \in S /\ Cardinality(Below(t[n])) = n - 1
  <2>1. F[x] = Below(x) /\ \A y \in S : F[y] = Below(y)
    BY DEF Counts
  <2>2. t[n] \in S /\ Cardinality(F[t[n]]) = n - 1
    BY <1>5, <2>1 DEF Counts
  <2> QED
    BY <2>1, <2>2
<1>6. ASSUME NEW n \in 1 .. c
      PROVE  \E i \in 1 .. Len(s) : Cardinality(Prior(L, s, i)) = n - 1 /\ t[n] = s[i]
  <2>1. PICK j \in 1 .. Len(s) : Cardinality(Prior(L, s, j)) = n - 1
    <3>1. n \in 1 .. Len(s)
      BY <1>3
    <3> QED
      BY <1>0, <1>1, <3>1, RanksAll
  <2>2. s[j] \in S /\ Cardinality(Below(s[j])) = n - 1
    BY <1>2, <1>4, <2>1
  <2> HIDE DEF Below, c
  <2>3. t[n] \in S /\ Cardinality(Below(t[n])) = n - 1
    BY <1>5, <2>2
  <2>4. PICK i \in 1 .. Len(s) : s[i] = t[n]
    BY <1>1, <1>2, <2>3 DEF Range
  <2> QED
    BY <1>4, <2>3, <2>4
<1>8. ByRank(L, s, t)
  <2> HIDE DEF c
  <2> QED
    BY <1>0, <1>3, <1>6 DEF ByRank
<1> HIDE DEF c
<1>9. Sorts(L, t, Range(s)) /\ Len(t) = Len(s)
  BY <1>0, <1>1, <1>8, RankSorts
<1> QED
  BY <1>1, <1>3, <1>9 DEF c

\* In the order of up to four numbers each.
LexOn(S, a, b, c, d) ==
    {p \in S \X S :
        \/ a[p[1]] < a[p[2]]
        \/ a[p[1]] = a[p[2]] /\ b[p[1]] < b[p[2]]
        \/ a[p[1]] = a[p[2]] /\ b[p[1]] = b[p[2]] /\ c[p[1]] < c[p[2]]
        \/ a[p[1]] = a[p[2]] /\ b[p[1]] = b[p[2]] /\ c[p[1]] = c[p[2]] /\ d[p[1]] < d[p[2]]}
Keyed(S, a, b, c, d) ==
    /\ \A x \in S : a[x] \in Int /\ b[x] \in Int /\ c[x] \in Int /\ d[x] \in Int
    /\ \A x, y \in S : a[x] = a[y] /\ b[x] = b[y] /\ c[x] = c[y] /\ d[x] = d[y] => x = y

LEMMA LexOrders ==
    ASSUME NEW S, NEW a, NEW b, NEW c, NEW d, Keyed(S, a, b, c, d)
    PROVE  OrderOn(LexOn(S, a, b, c, d), S)
<1> DEFINE L == LexOn(S, a, b, c, d)
           Less(x, y) == \/ a[x] < a[y]
                         \/ a[x] = a[y] /\ b[x] < b[y]
                         \/ a[x] = a[y] /\ b[x] = b[y] /\ c[x] < c[y]
                         \/ a[x] = a[y] /\ b[x] = b[y] /\ c[x] = c[y] /\ d[x] < d[y]
<1>1. \A x, y : <<x, y>> \in L <=> x \in S /\ y \in S /\ Less(x, y)
  BY DEF LexOn
<1> HIDE DEF L
<1>2. ASSUME NEW x, NEW y, <<x, y>> \in L, <<y, x>> \in L PROVE FALSE
  <2>1. x \in S /\ y \in S /\ Less(x, y) /\ Less(y, x)
    BY <1>1, <1>2
  <2> QED
    BY <2>1 DEF Keyed
<1>3. ASSUME NEW x \in S, NEW y \in S PROVE x = y \/ <<x, y>> \in L \/ <<y, x>> \in L
  <2>1. x = y \/ Less(x, y) \/ Less(y, x)
    BY DEF Keyed
  <2> HIDE DEF Less
  <2> QED
    BY <1>1, <2>1
<1>4. ASSUME NEW x \in S, NEW y \in S, NEW z \in S, <<x, y>> \in L, <<y, z>> \in L PROVE <<x, z>> \in L
  <2>1. Less(x, y) /\ Less(y, z)
    BY <1>1, <1>4
  <2>2. Less(x, z)
    BY <2>1 DEF Keyed
  <2> HIDE DEF Less
  <2> QED
    BY <1>1, <2>2
<1> QED
  BY <1>2, <1>3, <1>4 DEF OrderOn, Strict, L
=============================================================================
