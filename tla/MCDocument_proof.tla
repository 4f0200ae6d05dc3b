-------------------------- MODULE MCDocument_proof --------------------------
(***************************************************************************)
(* Theorems about Reconciliation and DocumentPipeline, one document from   *)
(* its sentences to its passages, as the machine of MCCorpus: for any      *)
(* texts, floors, caps, faults of the translation and budgets.  DocInv is  *)
(* the inductive invariant: Merged (units in line, cut at paragraphs),     *)
(* Translated (a text is of its row), Filed (English stands under its own  *)
(* sentences) and Packs (passages are runs that go on from each other).    *)
(***************************************************************************)
EXTENDS MCCorpus, DataLemmas

\* A text that says sentences lo to hi, and one that says them in order, each once.
Says(text, lo, hi) ==
    /\ text \in Seq(Nat)
    /\ \A i \in 1 .. Len(text) : text[i] = 0 \/ text[i] \in lo .. hi
    /\ \A s \in lo .. hi : \E i \in 1 .. Len(text) : text[i] = s
Rising(text) == \A i, j \in 1 .. Len(text) : i < j /\ text[i] # 0 /\ text[j] # 0 => text[i] < text[j]

\* Texts of adjoining sentences joined are a text of both, in order if both were.
LEMMA SaysJoin ==
    ASSUME NEW lo \in Nat, NEW mid \in Nat, NEW hi \in Nat, lo <= mid + 1, mid <= hi,
           NEW t, NEW u, Says(t, lo, mid), Says(u, mid + 1, hi)
    PROVE  Says(t \o u, lo, hi) /\ (Rising(t) /\ Rising(u) => Rising(t \o u))
<1> DEFINE v == t \o u
           p == Len(t)
           q == Len(u)
<1>1. t \in Seq(Nat) /\ u \in Seq(Nat)
  BY DEF Says
<1>2. v \in Seq(Nat) /\ Len(v) = p + q /\ p \in Nat /\ q \in Nat
  BY <1>1
<1>3. \A i \in 1 .. p + q : v[i] = IF i <= p THEN t[i] ELSE u[i - p]
  BY <1>1
<1>4. /\ \A i \in 1 .. p : (t[i] = 0 \/ t[i] \in lo .. mid) /\ t[i] \in Nat
      /\ \A i \in 1 .. q : (u[i] = 0 \/ u[i] \in mid + 1 .. hi) /\ u[i] \in Nat
  BY <1>1 DEF Says
<1>5. /\ \A s \in lo .. mid : \E i \in 1 .. p : t[i] = s
      /\ \A s \in mid + 1 .. hi : \E i \in 1 .. q : u[i] = s
  BY DEF Says
<1> HIDE DEF v
<1>6. ASSUME NEW i \in 1 .. p + q PROVE v[i] = 0 \/ v[i] \in lo .. hi
  <2>1. CASE i <= p
    <3>1. i \in 1 .. p /\ v[i] = t[i]
      BY <1>2, <1>3, <2>1
    <3> QED
      BY <1>4, <3>1
  <2>2. CASE i > p
    <3>1. i - p \in 1 .. q /\ v[i] = u[i - p]
      BY <1>2, <1>3, <2>2
    <3> QED
      BY <1>4, <3>1
  <2> QED
    BY <1>2, <2>1, <2>2
<1>7. ASSUME NEW s \in lo .. hi PROVE \E i \in 1 .. p + q : v[i] = s
  <2>1. CASE s <= mid
    <3>1. PICK i \in 1 .. p : t[i] = s
      BY <1>5, <2>1
    <3>2. i \in 1 .. p + q /\ v[i] = s
      BY <1>2, <1>3, <3>1
    <3> QED
      BY <3>2
  <2>2. CASE s > mid
    <3>1. PICK i \in 1 .. q : u[i] = s
      BY <1>5, <2>2
    <3>2. p + i \in 1 .. p + q /\ ~(p + i <= p) /\ (p + i) - p = i
      BY <1>2, <3>1
    <3>3. v[p + i] = u[(p + i) - p]
      BY <1>3, <3>2
    <3> QED
      BY <3>1, <3>2, <3>3
  <2> QED
    BY <2>1, <2>2
<1>8. ASSUME Rising(t), Rising(u), NEW i \in 1 .. p + q, NEW j \in 1 .. p + q, i < j, v[i] # 0, v[j] # 0
      PROVE  v[i] < v[j]
  <2>1. CASE j <= p
    <3>1. i \in 1 .. p /\ j \in 1 .. p /\ v[i] = t[i] /\ v[j] = t[j]
      BY <1>2, <1>3, <1>8, <2>1
    <3> QED
      BY <1>8, <3>1 DEF Rising
  <2>2. CASE i <= p /\ j > p
    <3>1. i \in 1 .. p /\ j - p \in 1 .. q /\ ~(j <= p)
      BY <1>2, <2>2
    <3>2. v[i] = t[i] /\ v[j] = u[j - p]
      BY <1>3, <2>2, <3>1
    <3> QED
      BY <1>4, <1>8, <3>1, <3>2
  <2>3. CASE i > p
    <3>1. i - p \in 1 .. q /\ j - p \in 1 .. q /\ i - p < j - p
      BY <1>2, <1>8, <2>3
    <3>2. v[i] = u[i - p] /\ v[j] = u[j - p]
      BY <1>2, <1>3, <1>8, <2>3
    <3> QED
      BY <1>8, <3>1, <3>2 DEF Rising
  <2> QED
    BY <1>2, <2>1, <2>2, <2>3
<1>9. Says(v, lo, hi)
  BY <1>2, <1>6, <1>7 DEF Says
<1>10. Rising(t) /\ Rising(u) => Rising(v)
  BY <1>2, <1>8 DEF Rising
<1> QED
  BY <1>9, <1>10 DEF v

\* The pieces a returned text is made of.
LEMMA SaysPieces ==
    ASSUME NEW s \in Nat \ {0}
    PROVE  /\ Says(<<s>>, s, s) /\ Rising(<<s>>)
           /\ Says(<<s, Doc!Marker, s>>, s, s)
           /\ Says(<<Doc!Marker>>, s + 1, s) /\ Rising(<<Doc!Marker>>)
           /\ Says(<<>>, s + 1, s) /\ Rising(<<>>)
           /\ Says(<<Doc!Marker>>, s, s - 1) /\ Says(<<>>, s, s - 1)
<1>1. Says(<<s>>, s, s) /\ Rising(<<s>>)
  <2>1. <<s>> \in Seq(Nat) /\ Len(<<s>>) = 1 /\ <<s>>[1] = s
    OBVIOUS
  <2> QED
    BY <2>1 DEF Says, Rising
<1>2. Says(<<s, Doc!Marker, s>>, s, s)
  <2> DEFINE t == <<s, Doc!Marker, s>>
  <2>1. t \in Seq(Nat) /\ Len(t) = 3 /\ t[1] = s /\ t[2] = 0 /\ t[3] = s
    BY DEF Doc!Marker
  <2> HIDE DEF t
  <2>2. \A i \in 1 .. 3 : i = 1 \/ i = 2 \/ i = 3
    OBVIOUS
  <2>3. Says(t, s, s)
    BY <2>1, <2>2 DEF Says
  <2> QED
    BY <2>3 DEF t
<1>3. /\ Says(<<Doc!Marker>>, s + 1, s) /\ Rising(<<Doc!Marker>>) /\ Says(<<Doc!Marker>>, s, s - 1)
  <2>1. <<0>> \in Seq(Nat) /\ Len(<<0>>) = 1 /\ <<0>>[1] = 0
    OBVIOUS
  <2> QED
    BY <2>1 DEF Says, Rising, Doc!Marker
<1>4. Says(<<>>, s + 1, s) /\ Rising(<<>>) /\ Says(<<>>, s, s - 1)
  <2>1. <<>> \in Seq(Nat)
    OBVIOUS
  <2>2. Len(<<>>) = 0
    BY EmptySeq
  <2> QED
    BY <2>1, <2>2 DEF Says, Rising
<1> QED
  BY <1>1, <1>2, <1>3, <1>4

\* What MT returns for a row says the sentences it kept, in order if none is torn.
LEMMA ReturnSays ==
    ASSUME NEW first \in Nat \ {0}, NEW n \in Nat \ {0}, NEW kept, NEW stray, NEW torn
    PROVE  LET text == Doc!Return(first, n, kept, stray, torn)
           IN Says(text, first, first + n - 1) /\ (torn = -1 => Rising(text))
<1> DEFINE G == [i \in 1 .. n |->
                   LET s == first + i - 1
                   IN (IF s = torn THEN <<s, Doc!Marker, s>> ELSE <<s>>)
                      \o (IF s \in kept THEN <<Doc!Marker>> ELSE <<>>)
                      \o (IF s = stray THEN <<Doc!Marker>> ELSE <<>>)]
           Upto(k) == FlattenSeq([i \in 1 .. k |-> G[i]])
           N == {k \in Nat : k <= n => Says(Upto(k), first, first + k - 1) /\ (torn = -1 => Rising(Upto(k)))}
<1>1. ASSUME NEW i \in 1 .. n
      PROVE  Says(G[i], first + i - 1, first + i - 1) /\ (torn = -1 => Rising(G[i]))
  <2> DEFINE s == first + i - 1
             A == IF s = torn THEN <<s, Doc!Marker, s>> ELSE <<s>>
             B == IF s \in kept THEN <<Doc!Marker>> ELSE <<>>
             C == IF s = stray THEN <<Doc!Marker>> ELSE <<>>
  <2>1. G[i] = A \o B \o C
    OBVIOUS
  <2>2. s \in Nat \ {0} /\ s # -1
    OBVIOUS
  <2> HIDE DEF s, G
  <2>3. Says(A, s, s) /\ (torn = -1 => Rising(A))
    BY <2>2, SaysPieces
  <2>4. Says(B, s + 1, s) /\ Rising(B) /\ Says(C, s + 1, s) /\ Rising(C)
    BY <2>2, SaysPieces
  <2> HIDE DEF A, B, C
  <2>5. Says(A \o B, s, s) /\ (torn = -1 => Rising(A \o B))
    BY <2>2, <2>3, <2>4, SaysJoin
  <2>6. Says((A \o B) \o C, s, s) /\ (torn = -1 => Rising((A \o B) \o C))
    BY <2>2, <2>4, <2>5, SaysJoin
  <2> QED
    BY <2>1, <2>6 DEF s
<1> HIDE DEF G
<1>2. 0 \in N
  <2>1. [i \in 1 .. 0 |-> G[i]] = <<>>
    OBVIOUS
  <2>2. Upto(0) = <<>>
    BY <2>1, FlatEmpty, Zenon
  <2>3. Says(<<>>, first, first - 1) /\ Rising(<<>>)
    BY SaysPieces
  <2>4. first + 0 - 1 = first - 1
    OBVIOUS
  <2> HIDE DEF Upto
  <2> QED
    BY <2>2, <2>3, <2>4
<1>3. ASSUME NEW k \in Nat, k \in N PROVE k + 1 \in N
  <2> SUFFICES ASSUME k + 1 <= n
               PROVE  Says(Upto(k + 1), first, first + (k + 1) - 1) /\ (torn = -1 => Rising(Upto(k + 1)))
    OBVIOUS
  <2>1. Says(Upto(k), first, first + k - 1) /\ (torn = -1 => Rising(Upto(k)))
    BY <1>3
  <2>2. Upto(k + 1) = Upto(k) \o G[k + 1]
    <3>1. \A i \in 1 .. k + 1 : G[i] \in Seq(Nat)
      BY <1>1 DEF Says
    <3> QED
      BY <3>1, FlatNext
  <2>3. k + 1 \in 1 .. n /\ first + (k + 1) - 1 = first + k /\ first + k - 1 \in Nat /\ first + k \in Nat
    OBVIOUS
  <2>4. Says(G[k + 1], first + k, first + k) /\ (torn = -1 => Rising(G[k + 1]))
    BY <1>1, <2>3
  <2> HIDE DEF Upto
  <2> DEFINE mid == first + k - 1
  <2>5. mid \in Nat /\ mid + 1 = first + k /\ first <= mid + 1 /\ mid <= first + k
    BY <2>3
  <2>6. Says(G[k + 1], mid + 1, first + k) /\ Says(Upto(k), first, mid)
    BY <2>1, <2>4, <2>5
  <2> HIDE DEF mid
  <2>7. Says(Upto(k) \o G[k + 1], first, first + k)
        /\ (Rising(Upto(k)) /\ Rising(G[k + 1]) => Rising(Upto(k) \o G[k + 1]))
    BY <2>3, <2>5, <2>6, SaysJoin
  <2> QED
    BY <2>1, <2>2, <2>3, <2>4, <2>7
<1> HIDE DEF N
<1>4. n \in N
  BY <1>2, <1>3, NatInd
<1>5. [i \in 1 .. n |-> G[i]] = G
  BY DEF G
<1>6. Says(FlattenSeq(G), first, first + n - 1) /\ (torn = -1 => Rising(FlattenSeq(G)))
  BY <1>4, <1>5 DEF N
<1> DEFINE pre == IF stray = first - 1 THEN <<Doc!Marker>> ELSE <<>>
<1>7. Says(pre, first, first - 1) /\ Rising(pre)
  BY SaysPieces
<1>8. Doc!Return(first, n, kept, stray, torn) = pre \o FlattenSeq(G)
  BY DEF Doc!Return, G, Doc!FlattenSeq, FlattenSeq
<1> HIDE DEF pre, G
<1>9. Says(pre \o FlattenSeq(G), first, first + n - 1)
      /\ (Rising(pre) /\ Rising(FlattenSeq(G)) => Rising(pre \o FlattenSeq(G)))
  <2> DEFINE mid == first - 1
             hi == first + n - 1
  <2>1. mid \in Nat /\ hi \in Nat /\ first <= mid + 1 /\ mid <= hi /\ mid + 1 = first
    OBVIOUS
  <2>2. Says(pre, first, mid) /\ Says(FlattenSeq(G), mid + 1, hi)
    BY <1>6, <1>7, <2>1
  <2> HIDE DEF mid, hi
  <2>3. Says(pre \o FlattenSeq(G), first, hi)
        /\ (Rising(pre) /\ Rising(FlattenSeq(G)) => Rising(pre \o FlattenSeq(G)))
    BY <2>1, <2>2, SaysJoin
  <2> QED
    BY <2>3 DEF hi
<1> QED
  BY <1>6, <1>7, <1>8, <1>9

\* n places in order that take every one of n values take them in order.
LEMMA Staircase ==
    ASSUME NEW n \in Nat \ {0}, NEW c, \A s \in 1 .. n : c[s] \in 0 .. n - 1,
           \A s, t \in 1 .. n : s < t => c[s] <= c[t], \A v \in 0 .. n - 1 : \E s \in 1 .. n : c[s] = v
    PROVE  \A s \in 1 .. n : c[s] = s - 1
<1>1. c[1] = 0
  <2>1. PICK s \in 1 .. n : c[s] = 0
    OBVIOUS
  <2>2. 1 \in 1 .. n /\ (s = 1 \/ 1 < s)
    OBVIOUS
  <2> QED
    BY <2>1, <2>2
<1>2. c[n] = n - 1
  <2>1. PICK s \in 1 .. n : c[s] = n - 1
    OBVIOUS
  <2>2. n \in 1 .. n /\ (s = n \/ s < n)
    OBVIOUS
  <2> QED
    BY <2>1, <2>2
<1>3. ASSUME NEW s \in 1 .. n, s + 1 <= n PROVE c[s + 1] <= c[s] + 1
  <2> SUFFICES ASSUME c[s + 1] > c[s] + 1 PROVE FALSE
    BY <1>3
  <2>1. s + 1 \in 1 .. n /\ c[s] \in 0 .. n - 1 /\ c[s + 1] \in 0 .. n - 1
    BY <1>3
  <2>2. PICK t \in 1 .. n : c[t] = c[s] + 1
    BY <2>1
  <2>3. CASE t <= s
    BY <2>1, <2>2, <2>3
  <2>4. CASE t >= s + 1
    BY <2>1, <2>2, <2>4
  <2> QED
    BY <2>3, <2>4
<1> DEFINE U == {k \in Nat : k + 1 <= n => c[k + 1] <= k}
           D == {k \in Nat : k + 1 <= n => c[n - k] >= n - 1 - k}
<1>4. 0 \in U /\ 0 \in D
  BY <1>1, <1>2
<1>5. ASSUME NEW k \in Nat, k \in U PROVE k + 1 \in U
  <2> SUFFICES ASSUME (k + 1) + 1 <= n PROVE c[(k + 1) + 1] <= k + 1
    OBVIOUS
  <2>1. k + 1 \in 1 .. n /\ (k + 1) + 1 \in 1 .. n
    OBVIOUS
  <2>2. c[k + 1] <= k /\ c[(k + 1) + 1] <= c[k + 1] + 1
    BY <1>3, <1>5, <2>1
  <2> QED
    BY <2>1, <2>2
<1>6. ASSUME NEW k \in Nat, k \in D PROVE k + 1 \in D
  <2> SUFFICES ASSUME (k + 1) + 1 <= n PROVE c[n - (k + 1)] >= n - 1 - (k + 1)
    OBVIOUS
  <2>1. n - (k + 1) \in 1 .. n /\ n - k \in 1 .. n /\ (n - (k + 1)) + 1 = n - k
    OBVIOUS
  <2>2. c[n - k] >= n - 1 - k /\ c[n - k] <= c[n - (k + 1)] + 1
    BY <1>3, <1>6, <2>1
  <2> QED
    BY <2>1, <2>2
<1> HIDE DEF U, D
<1>7. Nat \subseteq U /\ Nat \subseteq D
  BY <1>4, <1>5, <1>6, NatInd
<1>8. ASSUME NEW s \in 1 .. n PROVE c[s] = s - 1
  <2>1. s - 1 \in Nat /\ (s - 1) + 1 = s /\ n - s \in Nat /\ n - (n - s) = s
    OBVIOUS
  <2>2. c[s] <= s - 1
    BY <1>7, <2>1 DEF U
  <2> DEFINE q == n - s
  <2>3. q \in Nat /\ q + 1 <= n /\ n - q = s
    OBVIOUS
  <2> HIDE DEF q
  <2>4. c[n - q] >= n - 1 - q
    BY <1>7, <2>3 DEF D
  <2> QED
    BY <2>2, <2>3, <2>4
<1> QED
  BY <1>8

\* The size of a set is the same through the instance.
LEMMA DocSizes == \A S : Doc!Cardinality(S) = Cardinality(S)
BY DEF Doc!Cardinality, Cardinality

\* The count of markers up to a place goes up.
LEMMA MarkersGrow ==
    ASSUME NEW text, NEW i \in Nat, NEW j \in Nat, i <= j
    PROVE  Doc!MarkersTo(text, i) \in Nat /\ Doc!MarkersTo(text, i) <= Doc!MarkersTo(text, j)
<1> DEFINE A == {k \in 1 .. i : text[k] = Doc!Marker}
           B == {k \in 1 .. j : text[k] = Doc!Marker}
<1>1. IsFiniteSet(1 .. j)
  BY FS_Interval
<1>2. IsFiniteSet(B) /\ A \subseteq B
  <2>1. B \subseteq 1 .. j /\ A \subseteq B
    OBVIOUS
  <2> QED
    BY <1>1, <2>1, FS_Subset
<1> HIDE DEF A, B
<1>3. IsFiniteSet(A) /\ Cardinality(A) <= Cardinality(B)
  BY <1>2, FS_Subset
<1>4. Cardinality(A) \in Nat
  BY <1>3, FS_CardinalityType
<1>5. Doc!MarkersTo(text, i) = Cardinality(A) /\ Doc!MarkersTo(text, j) = Cardinality(B)
  BY DocSizes DEF Doc!MarkersTo, A, B
<1> QED
  BY <1>3, <1>4, <1>5

\* A translation that is split gives each sentence its own text.
LEMMA SegmentsOwn ==
    ASSUME NEW lo \in Nat \ {0}, NEW n \in Nat \ {0}, NEW text, Says(text, lo, lo + n - 1), Rising(text),
           Doc!Splits(text, n), NEW k \in 1 .. n
    PROVE  Doc!Segment(text, k) = {lo + k - 1}
<1> DEFINE m == Len(text)
           P(s) == CHOOSE i \in 1 .. m : text[i] = s
           c == [s \in 1 .. n |-> Doc!MarkersTo(text, P(lo + s - 1))]
<1>1. m \in Nat /\ DOMAIN text = 1 .. m /\ \A i \in 1 .. m : text[i] \in Nat /\ (text[i] # 0 => text[i] \in lo .. lo + n - 1)
  BY LenProperties DEF Says
<1>2. \A s \in lo .. lo + n - 1 : P(s) \in 1 .. m /\ text[P(s)] = s /\ s # 0
  BY DEF Says
<1>3. \A i, j \in 1 .. m : text[i] # 0 /\ text[i] = text[j] => i = j
  BY <1>1 DEF Rising
<1>4. Doc!MarkersTo(text, m) = n - 1 /\ \A v \in 1 .. n : Doc!Segment(text, v) # {}
  BY DEF Doc!Splits
<1>5. \A v, x : x \in Doc!Segment(text, v) <=>
          \E i \in 1 .. m : text[i] = x /\ text[i] # 0 /\ Doc!MarkersTo(text, i) = v - 1
  BY <1>1 DEF Doc!Segment, Doc!Marker
<1> HIDE DEF m, P
<1>6. \A s \in 1 .. n : lo + s - 1 \in lo .. lo + n - 1
  OBVIOUS
<1>7. ASSUME NEW i \in 1 .. m, text[i] # 0
      PROVE  text[i] - lo + 1 \in 1 .. n /\ lo + (text[i] - lo + 1) - 1 = text[i] /\ P(text[i]) = i
             /\ c[text[i] - lo + 1] = Doc!MarkersTo(text, i)
  <2>1. text[i] \in lo .. lo + n - 1
    BY <1>1, <1>7
  <2>2. text[i] - lo + 1 \in 1 .. n /\ lo + (text[i] - lo + 1) - 1 = text[i]
    BY <2>1
  <2>3. P(text[i]) = i
    BY <1>2, <1>3, <2>1
  <2> QED
    BY <2>2, <2>3
<1>8. ASSUME NEW s \in 1 .. n PROVE c[s] \in 0 .. n - 1
  <2>1. P(lo + s - 1) \in 1 .. m
    BY <1>2, <1>6
  <2>2. P(lo + s - 1) \in Nat /\ P(lo + s - 1) <= m
    BY <1>1, <2>1
  <2>3. Doc!MarkersTo(text, P(lo + s - 1)) \in Nat /\ Doc!MarkersTo(text, P(lo + s - 1)) <= Doc!MarkersTo(text, m)
    BY <1>1, <2>2, MarkersGrow
  <2> QED
    BY <1>4, <2>3
<1>9. ASSUME NEW s \in 1 .. n, NEW t \in 1 .. n, s < t PROVE c[s] <= c[t]
  <2> DEFINE x == lo + s - 1
             y == lo + t - 1
  <2>1. x \in lo .. lo + n - 1 /\ y \in lo .. lo + n - 1 /\ x < y
    BY <1>9
  <2> HIDE DEF x, y
  <2>2. P(x) \in 1 .. m /\ P(y) \in 1 .. m /\ text[P(x)] = x /\ text[P(y)] = y /\ x # 0 /\ y # 0
    BY <1>2, <2>1
  <2>3. ~(P(y) < P(x)) /\ P(x) # P(y)
    BY <2>1, <2>2 DEF Rising, m
  <2>4. P(x) \in Nat /\ P(y) \in Nat /\ P(x) <= P(y)
    BY <1>1, <2>2, <2>3
  <2>5. Doc!MarkersTo(text, P(x)) <= Doc!MarkersTo(text, P(y))
    BY <2>4, MarkersGrow
  <2> QED
    BY <2>5 DEF x, y
<1>10. ASSUME NEW v \in 0 .. n - 1 PROVE \E s \in 1 .. n : c[s] = v
  <2>1. v + 1 \in 1 .. n /\ (v + 1) - 1 = v
    OBVIOUS
  <2>2. PICK x : x \in Doc!Segment(text, v + 1)
    BY <1>4, <2>1
  <2>3. PICK i \in 1 .. m : text[i] = x /\ text[i] # 0 /\ Doc!MarkersTo(text, i) = (v + 1) - 1
    BY <1>5, <2>2
  <2> QED
    BY <1>7, <2>1, <2>3
<1> HIDE DEF c
<1>11. \A s \in 1 .. n : c[s] = s - 1
  BY <1>8, <1>9, <1>10, Staircase
<1>12. ASSUME NEW x \in Doc!Segment(text, k) PROVE x = lo + k - 1
  <2>1. PICK i \in 1 .. m : text[i] = x /\ text[i] # 0 /\ Doc!MarkersTo(text, i) = k - 1
    BY <1>5
  <2>2. x - lo + 1 \in 1 .. n /\ c[x - lo + 1] = k - 1 /\ x \in Nat
    BY <1>1, <1>7, <2>1
  <2>3. c[x - lo + 1] = (x - lo + 1) - 1
    BY <1>11, <2>2
  <2> QED
    BY <2>2, <2>3
<1>13. Doc!Segment(text, k) # {}
  BY <1>4
<1> QED
  BY <1>12, <1>13

-----------------------------------------------------------------------------
UnitRec  == [first : Nat, last : Nat, count : Nat]
Piece    == [first : Nat, n : Nat]
RowRec   == [first : Nat, n : Nat, text : Seq(Nat)]
FinalRec == [first : Nat, last : Nat, english : SUBSET Nat, count : Nat, fused : BOOLEAN]
PassRec  == [members : Seq(Nat), oversized : BOOLEAN]

\* A unit crosses a paragraph only by a whole one.
Local(first, last) ==
    \A s \in first .. last - 1 :
        doc.para[s] # doc.para[s + 1] =>
            /\ MayCross
            /\ \E q \in {doc.para[s], doc.para[s + 1]} :
                  \A t \in 1 .. Len(doc.para) : doc.para[t] = q => t \in first .. last
Cut(u) ==
    /\ u \in UnitRec /\ 1 <= u.first /\ u.first <= u.last /\ u.last <= Len(doc.para)
    /\ Local(u.first, u.last)

\* Where the next piece of a sequence begins: pieces in a row, from the first sentence on.
EndOf(us) == IF us = <<>> THEN 1 ELSE us[Len(us)].last + 1
Lined(us) ==
    /\ us \in Seq(UnitRec)
    /\ \A i \in 1 .. Len(us) :
          Cut(us[i]) /\ us[i].first = IF i = 1 THEN 1 ELSE us[i - 1].last + 1

Merged ==
    /\ Lined(units)
    /\ unit # Doc!NoUnit => Cut(unit) /\ unit.first = EndOf(units)
    /\ doc.english => units = <<>> /\ unit = Doc!NoUnit
    /\ dstage # "merge" => unit = Doc!NoUnit /\ (~doc.english => EndOf(units) = Len(doc.para) + 1)

\* Rows from one sentence up to another, each of a sentence or more.
After(rs, lo) == IF rs = <<>> THEN lo ELSE rs[Len(rs)].first + rs[Len(rs)].n
InLine(rs, lo) ==
    \A k \in 1 .. Len(rs) :
        rs[k].first \in Nat /\ rs[k].n \in Nat /\ rs[k].n >= 1 /\ rs[k].first = IF k = 1 THEN lo ELSE rs[k - 1].first + rs[k - 1].n

\* A row of several sentences is a unit of the map.
Mapped(r) == r.n > 1 => \E i \in 1 .. Len(units) : units[i].first = r.first /\ units[i].last = r.first + r.n - 1
Rendered(r) ==
    /\ r \in RowRec
    /\ Doc!Said(r.text) \in {{}, r.first .. r.first + r.n - 1}
    /\ "torn" \notin Faults /\ Doc!Splits(r.text, r.n) => \A k \in 1 .. r.n : Doc!Segment(r.text, k) = {r.first + k - 1}

Translated ==
    /\ dstage = "translate" =>
          /\ raw \in Seq(RowRec)
          /\ \A k \in 1 .. Len(raw) :
                /\ Rendered(raw[k]) /\ k \in 1 .. Len(Doc!BuildUnits)
                /\ raw[k].first = Doc!BuildUnits[k].first /\ raw[k].n = Doc!BuildUnits[k].n
    /\ dstage = "reconcile" =>
          /\ raw \in Seq(RowRec) /\ InLine(raw, expect) /\ After(raw, expect) = Len(doc.para) + 1
          /\ \A k \in 1 .. Len(raw) : Rendered(raw[k]) /\ Mapped(raw[k])
    /\ dstage = "merge" => raw = <<>>
    /\ dstage \in {"merge", "translate"} => expect = 1 /\ finals = <<>>

Filed ==
    /\ expect \in Nat \ {0} /\ finals \in Seq(FinalRec)
    /\ "torn" \notin Faults => \A k \in 1 .. Len(finals) : finals[k].english \in {{}, finals[k].first .. finals[k].last}

\* A passage is a run of final sentences that goes on from the one before.
RunOf(run) == run \in Seq(Nat) /\ Doc!Run(run) /\ \A k \in 1 .. Len(run) : run[k] \in 1 .. Len(finals)
Follows(run, before) == run[Len(run)] > before /\ run[1] <= before + 1
Ended(ps) == IF ps = <<>> THEN 0 ELSE ps[Len(ps)].members[Len(ps[Len(ps)].members)]
Citable(ps) ==
    /\ ps \in Seq(PassRec)
    /\ \A p \in 1 .. Len(ps) :
          /\ ps[p].members # <<>> /\ RunOf(ps[p].members)
          /\ IF ps[p].oversized THEN Len(ps[p].members) = 1 ELSE Doc!Fill(ps[p].members) <= Budget
          /\ p > 1 => Follows(ps[p].members, ps[p - 1].members[Len(ps[p - 1].members)])
Quoted(ps) == UNION {Doc!ToSet(ps[p].members) : p \in DOMAIN ps}
TurnAt(ps, run) == (IF run # <<>> THEN run[Len(run)] ELSE Ended(ps)) + 1
\* The passages closed and the run in hand.
Packing(ps, run) ==
    /\ Citable(ps) /\ RunOf(run) /\ Doc!Fill(run) <= Budget
    /\ run # <<>> => Follows(run, Ended(ps))
    /\ Quoted(ps) \cup Doc!ToSet(run) = 1 .. TurnAt(ps, run) - 1
Packs ==
    /\ dstage \in {"merge", "translate", "reconcile", "measure", "pack"} => dstore = <<>>
    /\ dstage \in {"merge", "translate", "reconcile", "measure"} =>
          cur = <<>> /\ fill = 0 /\ passages = <<>>
    /\ dstage \in {"pack", "store", "served"} => lens \in [1 .. Len(finals) -> [native : Nat, translated : Nat]]
    /\ dstage = "pack" => Packing(passages, cur) /\ fill = Doc!Fill(cur)
    /\ dstage \in {"store", "served"} => Citable(passages) /\ Quoted(passages) = 1 .. Len(finals)

DocInv ==
    /\ doc \in Texts /\ Doc!WellFormed(doc)
    /\ dstage \in {"merge", "translate", "reconcile", "measure", "pack", "store", "served"}
    /\ Merged /\ Translated /\ Filed /\ Packs
DocKept == machine = "doc" => DocInv

-----------------------------------------------------------------------------
\* What a document is: paragraphs numbered in order, counts that are naturals.
LEMMA Document ==
    ASSUME Doc!WellFormed(doc)
    PROVE  /\ Len(doc.para) \in Nat /\ Doc!N = Len(doc.para)
           /\ \A s \in 1 .. Len(doc.para) : doc.para[s] \in Nat
           /\ \A s, t \in 1 .. Len(doc.para) : s <= t => doc.para[s] <= doc.para[t]
           /\ \A s, t \in 1 .. Len(doc.para) : doc.tokens[s, t] \in Nat
           /\ doc.english \in BOOLEAN
<1>1. doc.para \in Seq(Nat) /\ DOMAIN doc.para = 1 .. Len(doc.para) /\ Len(doc.para) \in Nat
  BY LenProperties DEF Doc!WellFormed
<1>2. \A s \in 1 .. Len(doc.para) : doc.para[s] \in Nat
  BY <1>1
<1>3. \A s, t \in 1 .. Len(doc.para) : s <= t => doc.para[s] <= doc.para[t]
  <2>1. \A s, t \in 1 .. Len(doc.para) : s < t => doc.para[s] <= doc.para[t]
    <3>1. \A s, t \in DOMAIN doc.para : s < t => doc.para[s] <= doc.para[t]
      BY Zenon DEF Doc!WellFormed
    <3> QED
      BY <1>1, <3>1, Zenon
  <2> SUFFICES ASSUME NEW s \in 1 .. Len(doc.para), NEW t \in 1 .. Len(doc.para), s <= t
               PROVE  doc.para[s] <= doc.para[t]
    BY Zenon
  <2>2. s < t \/ s = t
    BY <1>1
  <2> QED
    BY <1>2, <2>1, <2>2
<1>4. \A s, t \in 1 .. Len(doc.para) : doc.tokens[s, t] \in Nat
  BY DEF Doc!WellFormed
<1> QED
  BY <1>1, <1>2, <1>3, <1>4 DEF Doc!N, Doc!WellFormed

\* A span is a unit of its sentences.
LEMMA SpanIs ==
    ASSUME Doc!WellFormed(doc), NEW a \in 1 .. Len(doc.para), NEW b \in 1 .. Len(doc.para)
    PROVE  /\ Doc!Span(a, b) \in UnitRec /\ Doc!Span(a, b) # Doc!NoUnit
           /\ Doc!Span(a, b).first = a /\ Doc!Span(a, b).last = b
<1>1. doc.tokens[a, b] \in Nat
  BY Document
<1>2. Len(doc.para) \in Nat
  BY Document
<1>3. a \in Nat /\ b \in Nat /\ a # 0
  BY <1>2
<1> QED
  BY <1>1, <1>3 DEF Doc!Span, UnitRec, Doc!NoUnit

\* A boundary the forward step crosses ends a paragraph that lies in the unit:
\* the unit opens one, and paragraphs are in order.
LEMMA NextLocal ==
    ASSUME Doc!WellFormed(doc), NEW a \in 1 .. Len(doc.para), NEW b \in 1 .. Len(doc.para), a <= b, b < Len(doc.para),
           Local(a, b), a > 1 => doc.para[a - 1] # doc.para[a], doc.para[b + 1] # doc.para[b] => MayCross
    PROVE  Local(a, b + 1)
<1> DEFINE n == Len(doc.para)
<1>0. n \in Nat
  BY Document
<1>1. n \in Nat /\ b + 1 \in 1 .. n /\ a \in Nat /\ b \in Nat /\ (a > 1 => a - 1 \in 1 .. n)
  BY <1>0
<1>2. \A s \in 1 .. n : doc.para[s] \in Nat
  BY Document
<1>3. \A s, t \in 1 .. n : s <= t => doc.para[s] <= doc.para[t]
  BY Document
<1> HIDE DEF n
<1>4. ASSUME NEW s \in a .. (b + 1) - 1, doc.para[s] # doc.para[s + 1]
      PROVE  /\ MayCross
             /\ \E q \in {doc.para[s], doc.para[s + 1]} : \A t \in 1 .. n : doc.para[t] = q => t \in a .. b + 1
  <2>1. CASE s < b
    <3>1. s \in a .. b - 1
      BY <1>1, <2>1
    <3>2. MayCross /\ \E q \in {doc.para[s], doc.para[s + 1]} : \A t \in 1 .. n : doc.para[t] = q => t \in a .. b
      BY <1>4, <3>1 DEF Local, n
    <3> QED
      BY <1>1, <3>2
  <2>2. CASE s = b
    <3>1. MayCross
      BY <1>4, <2>2
    <3>2. ASSUME NEW t \in 1 .. n, doc.para[t] = doc.para[b] PROVE t \in a .. b + 1
      <4>1. ASSUME t < a PROVE FALSE
        <5>1. a > 1 /\ a - 1 \in 1 .. n /\ t <= a - 1 /\ a - 1 <= a
          BY <1>1, <4>1
        <5>2. doc.para[t] <= doc.para[a - 1] /\ doc.para[a - 1] <= doc.para[a] /\ doc.para[a] <= doc.para[b]
          BY <1>1, <1>3, <5>1
        <5>3. doc.para[a - 1] # doc.para[a]
          BY <5>1
        <5> QED
          BY <1>1, <1>2, <3>2, <5>1, <5>2, <5>3
      <4>2. ASSUME t > b PROVE FALSE
        <5>1. b + 1 <= t /\ b <= b + 1
          BY <1>1, <4>2
        <5>2. doc.para[b] <= doc.para[b + 1] /\ doc.para[b + 1] <= doc.para[t]
          BY <1>1, <1>3, <5>1
        <5>3. doc.para[b] # doc.para[b + 1]
          BY <1>4, <2>2
        <5> QED
          BY <1>1, <1>2, <3>2, <5>2, <5>3
      <4> QED
        BY <1>1, <4>1, <4>2
    <3> QED
      BY <2>2, <3>1, <3>2
  <2> QED
    BY <1>1, <2>1, <2>2
<1> QED
  BY <1>4 DEF Local, n

\* One the backward step crosses opens a paragraph that ends with the unit.
LEMMA PrevLocal ==
    ASSUME Doc!WellFormed(doc), NEW p \in 1 .. Len(doc.para), NEW a \in 1 .. Len(doc.para), NEW b \in 1 .. Len(doc.para),
           p < a, a <= b, Local(p, a - 1), Local(a, b),
           doc.para[a - 1] # doc.para[a] => MayCross /\ (b < Len(doc.para) => doc.para[b + 1] # doc.para[b])
    PROVE  Local(p, b)
<1> DEFINE n == Len(doc.para)
<1>0. n \in Nat
  BY Document
<1>1. n \in Nat /\ p \in Nat /\ a \in Nat /\ b \in Nat /\ a - 1 \in 1 .. n /\ (b < n => b + 1 \in 1 .. n)
  BY <1>0
<1>2. \A s \in 1 .. n : doc.para[s] \in Nat
  BY Document
<1>3. \A s, t \in 1 .. n : s <= t => doc.para[s] <= doc.para[t]
  BY Document
<1> HIDE DEF n
<1>4. ASSUME NEW s \in p .. b - 1, doc.para[s] # doc.para[s + 1]
      PROVE  /\ MayCross
             /\ \E q \in {doc.para[s], doc.para[s + 1]} : \A t \in 1 .. n : doc.para[t] = q => t \in p .. b
  <2>1. CASE s < a - 1
    <3>1. s \in p .. (a - 1) - 1
      BY <1>1, <2>1
    <3>2. MayCross /\ \E q \in {doc.para[s], doc.para[s + 1]} : \A t \in 1 .. n : doc.para[t] = q => t \in p .. a - 1
      BY <1>4, <3>1 DEF Local, n
    <3>3. \A t \in p .. a - 1 : t \in p .. b
      BY <1>1
    <3> QED
      BY <3>2, <3>3
  <2>2. CASE s > a - 1
    <3>1. s \in a .. b - 1
      BY <1>1, <2>2
    <3>2. MayCross /\ \E q \in {doc.para[s], doc.para[s + 1]} : \A t \in 1 .. n : doc.para[t] = q => t \in a .. b
      BY <1>4, <3>1 DEF Local, n
    <3>3. \A t \in a .. b : t \in p .. b
      BY <1>1
    <3> QED
      BY <3>2, <3>3
  <2>3. CASE s = a - 1
    <3>1. s + 1 = a /\ doc.para[a - 1] # doc.para[a]
      BY <1>1, <1>4, <2>3
    <3>2. MayCross /\ (b < n => doc.para[b + 1] # doc.para[b])
      BY <3>1 DEF n
    <3>3. ASSUME NEW t \in 1 .. n, doc.para[t] = doc.para[a] PROVE t \in p .. b
      <4>1. ASSUME t < a PROVE FALSE
        <5>1. t <= a - 1 /\ a - 1 <= a /\ a - 1 \in 1 .. n /\ a \in 1 .. n
          BY <1>1, <4>1 DEF n
        <5>2. doc.para[t] <= doc.para[a - 1] /\ doc.para[a - 1] <= doc.para[a]
          BY <1>3, <5>1
        <5> QED
          BY <1>1, <1>2, <3>1, <3>3, <5>2
      <4>2. ASSUME t > b PROVE FALSE
        <5>1. b < n /\ b + 1 \in 1 .. n /\ b + 1 <= t /\ b <= b + 1
          BY <1>1, <4>2
        <5>2. doc.para[a] <= doc.para[b] /\ doc.para[b] <= doc.para[b + 1] /\ doc.para[b + 1] <= doc.para[t]
          BY <1>1, <1>3, <5>1
        <5> QED
          BY <1>1, <1>2, <3>2, <3>3, <5>1, <5>2
      <4> QED
        BY <1>1, <4>1, <4>2
    <3> QED
      BY <3>1, <3>2, <3>3
  <2>4. s < a - 1 \/ s > a - 1 \/ s = a - 1
    BY <1>1
  <2> QED
    BY <2>1, <2>2, <2>3, <2>4
<1> QED
  BY <1>4 DEF Local, n

\* Units in line and one more that begins where they end.
LEMMA LinedAppend ==
    ASSUME NEW us, Lined(us), NEW u, Cut(u), u.first = EndOf(us)
    PROVE  Lined(Append(us, u)) /\ EndOf(Append(us, u)) = u.last + 1
<1> DEFINE n == Len(us)
           vs == Append(us, u)
<1>1. us \in Seq(UnitRec) /\ u \in UnitRec
  BY DEF Lined, Cut
<1>2. vs \in Seq(UnitRec) /\ Len(vs) = n + 1 /\ vs[n + 1] = u
  BY <1>1
<1>3. \A i \in 1 .. n : vs[i] = us[i]
  BY <1>1
<1>4. n \in Nat /\ (us = <<>> <=> n = 0) /\ vs # <<>>
  <2>1. n \in Nat
    BY <1>1, LenProperties
  <2>2. us = <<>> <=> n = 0
    BY <1>1, EmptySeq
  <2>3. vs # <<>>
    BY <1>2, <2>1, EmptySeq
  <2> QED
    BY <2>1, <2>2, <2>3
<1> HIDE DEF vs, n
<1>5. ASSUME NEW i \in 1 .. n + 1 PROVE Cut(vs[i]) /\ vs[i].first = IF i = 1 THEN 1 ELSE vs[i - 1].last + 1
  <2>1. CASE i \in 1 .. n
    <3>1. i # 1 => i - 1 \in 1 .. n
      BY <1>4, <2>1
    <3>2. Cut(us[i]) /\ us[i].first = IF i = 1 THEN 1 ELSE us[i - 1].last + 1
      BY <2>1 DEF Lined, n
    <3> QED
      BY <1>3, <2>1, <3>1, <3>2
  <2>2. CASE i = n + 1
    <3>1. n # 0 => i # 1 /\ i - 1 = n /\ n \in 1 .. n
      BY <1>4, <2>2
    <3>2. n = 0 => i = 1 /\ u.first = 1
      BY <1>4, <2>2 DEF EndOf
    <3>3. n # 0 => u.first = us[n].last + 1
      BY <1>4 DEF EndOf, n
    <3>4. n # 0 => vs[n] = us[n]
      BY <1>3, <3>1
    <3>5. Cut(vs[i]) /\ vs[i] = u
      BY <1>2, <2>2
    <3>6. CASE n = 0
      BY <3>2, <3>5, <3>6
    <3>7. CASE n # 0
      <4>1. vs[i - 1] = us[n] /\ i # 1
        BY <3>1, <3>4, <3>7
      <4> QED
        BY <3>3, <3>5, <3>7, <4>1
    <3> QED
      BY <3>6, <3>7
  <2> QED
    BY <1>4, <2>1, <2>2
<1>6. Lined(vs)
  BY <1>2, <1>5 DEF Lined
<1>7. EndOf(vs) = u.last + 1
  BY <1>2, <1>4 DEF EndOf
<1> QED
  BY <1>6, <1>7 DEF vs

\* Units in line without the last one, which the backward step takes up again.
LEMMA LinedFront ==
    ASSUME NEW us, Lined(us), us # <<>>
    PROVE  /\ Lined(Doc!Front(us)) /\ Cut(us[Len(us)]) /\ us[Len(us)].first = EndOf(Doc!Front(us))
           /\ Doc!Last(us) = us[Len(us)] /\ EndOf(us) = us[Len(us)].last + 1
<1> DEFINE n == Len(us)
           vs == Doc!Front(us)
<1>1. us \in Seq(UnitRec)
  BY DEF Lined
<1>2. n \in Nat /\ n # 0
  BY <1>1, EmptySeq, LenProperties
<1>3. vs = SubSeq(us, 1, n - 1)
  BY DEF Doc!Front
<1>4. vs \in Seq(UnitRec) /\ Len(vs) = n - 1 /\ \A i \in 1 .. n - 1 : vs[i] = us[i]
  <2> DEFINE k == n - 1
  <2>1. k \in Nat /\ k <= Len(us)
    BY <1>2
  <2> HIDE DEF k
  <2>2. SubSeq(us, 1, k) \in Seq(UnitRec) /\ Len(SubSeq(us, 1, k)) = k /\ \A i \in 1 .. k : SubSeq(us, 1, k)[i] = us[i]
    BY <1>1, <2>1
  <2> QED
    BY <1>3, <2>2 DEF k
<1>5. \A i \in 1 .. n : Cut(us[i]) /\ us[i].first = IF i = 1 THEN 1 ELSE us[i - 1].last + 1
  BY DEF Lined
<1>6. vs = <<>> <=> n = 1
  BY <1>2, <1>4, EmptySeq
<1> HIDE DEF vs, n
<1>7. ASSUME NEW i \in 1 .. n - 1 PROVE Cut(vs[i]) /\ vs[i].first = IF i = 1 THEN 1 ELSE vs[i - 1].last + 1
  <2>1. i \in 1 .. n /\ (i # 1 => i - 1 \in 1 .. n - 1)
    BY <1>2
  <2>2. Cut(us[i]) /\ us[i].first = IF i = 1 THEN 1 ELSE us[i - 1].last + 1
    BY <1>5, <2>1
  <2> QED
    BY <1>4, <2>1, <2>2
<1>8. Lined(vs)
  BY <1>4, <1>7 DEF Lined
<1>9. us[n].first = EndOf(vs)
  <2>1. n \in 1 .. n
    BY <1>2
  <2>2. us[n].first = IF n = 1 THEN 1 ELSE us[n - 1].last + 1
    BY <1>5, <2>1
  <2>3. CASE n = 1
    BY <1>6, <2>2, <2>3 DEF EndOf
  <2>4. CASE n # 1
    <3>1. n - 1 \in 1 .. n - 1
      BY <1>2, <2>4
    <3>2. vs[Len(vs)] = us[n - 1]
      BY <1>4, <3>1
    <3> QED
      BY <1>6, <2>2, <2>4, <3>2 DEF EndOf
  <2> QED
    BY <2>3, <2>4
<1>10. Cut(us[n])
  <2>1. n \in 1 .. n
    BY <1>2
  <2> QED
    BY <1>5, <2>1
<1>11. Doc!Last(us) = us[n] /\ EndOf(us) = us[n].last + 1
  BY DEF Doc!Last, EndOf, n
<1> QED
  BY <1>8, <1>9, <1>10, <1>11 DEF vs, n

\* The next sentence to merge is the one after the last unit.
LEMMA RestIs == ASSUME Lined(units) PROVE Doc!Rest = EndOf(units)
<1>1. CASE units = <<>>
  BY <1>1 DEF Doc!Rest, EndOf
<1>2. CASE units # <<>>
  BY <1>2 DEF Doc!Rest, EndOf, Doc!Last
<1> QED
  BY <1>1, <1>2

\* Units in line end inside the document.
LEMMA EndInside ==
    ASSUME Doc!WellFormed(doc), NEW us, Lined(us)
    PROVE  EndOf(us) \in Nat \ {0} /\ EndOf(us) <= Len(doc.para) + 1
<1>1. Len(doc.para) \in Nat
  BY Document
<1>2. CASE us = <<>>
  BY <1>1, <1>2 DEF EndOf
<1>3. CASE us # <<>>
  <2>1. Cut(us[Len(us)]) /\ EndOf(us) = us[Len(us)].last + 1
    BY <1>3, LinedFront
  <2>2. us[Len(us)].last \in Nat /\ us[Len(us)].last <= Len(doc.para)
    BY <2>1 DEF Cut, UnitRec
  <2> QED
    BY <1>1, <2>1, <2>2
<1> QED
  BY <1>2, <1>3

\* What a step of merge has to show.
LEMMA MergedAfter ==
    ASSUME doc' = doc, Lined(units'), unit' # Doc!NoUnit => Cut(unit') /\ unit'.first = EndOf(units'),
           doc.english => units' = <<>> /\ unit' = Doc!NoUnit,
           dstage' # "merge" => unit' = Doc!NoUnit /\ (~doc.english => EndOf(units') = Len(doc.para) + 1)
    PROVE  Merged'
BY DEF Merged, Lined, Cut, Local, EndOf, Doc!NoUnit

\* Merge keeps the units cut and in line, whatever it takes and takes back.
LEMMA MergeKeeps ==
    ASSUME Doc!WellFormed(doc), Merged, Doc!Merge
    PROVE  Merged' /\ doc' = doc /\ dstage = "merge" /\ dstage' \in {"merge", "translate"}
<1> DEFINE n == Len(doc.para)
<1>1. n \in Nat /\ Doc!N = n
  BY Document
<1>2. Lined(units) /\ (unit # Doc!NoUnit => Cut(unit) /\ unit.first = EndOf(units)) /\ Doc!Rest = EndOf(units)
      /\ (doc.english => units = <<>> /\ unit = Doc!NoUnit)
  BY RestIs DEF Merged
<1>3. EndOf(units) \in Nat \ {0} /\ EndOf(units) <= n + 1
  BY <1>2, EndInside
<1>4. doc' = doc /\ dstage = "merge" /\ dstage' \in {"merge", "translate"}
  BY DEF Doc!Merge, Doc!Open, Doc!TakeNext, Doc!TakePrev, Doc!Emit, Doc!MergeEnd
<1> HIDE DEF n
<1>5. ASSUME Doc!Open PROVE Merged'
  <2> DEFINE a == EndOf(units)
  <2>1. a \in 1 .. n /\ unit' = Doc!Span(a, a) /\ units' = units /\ dstage' = dstage /\ ~doc.english
    BY <1>1, <1>2, <1>3, <1>5 DEF Doc!Open
  <2>2. unit' \in UnitRec /\ unit'.first = a /\ unit'.last = a
    BY <2>1, SpanIs DEF n
  <2>3. Cut(unit')
    <3>1. Local(a, a)
      <4> HIDE DEF a
      <4> QED
        BY <2>1 DEF Local
    <3> QED
      BY <1>1, <2>1, <2>2, <3>1 DEF Cut, n
  <2> QED
    BY <1>2, <1>4, <2>1, <2>2, <2>3, MergedAfter
<1>6. ASSUME Doc!TakeNext PROVE Merged'
  <2> DEFINE a == unit.first
             b == unit.last
  <2>1. unit # Doc!NoUnit /\ Cut(unit) /\ a = EndOf(units) /\ ~doc.english
    BY <1>2, <1>6 DEF Doc!TakeNext, Doc!Short
  <2>2. a \in 1 .. n /\ b \in 1 .. n /\ a <= b /\ Local(a, b)
    BY <1>1, <2>1 DEF Cut, UnitRec, n
  <2>3. b < n /\ unit' = Doc!Span(a, b + 1) /\ units' = units /\ dstage' = dstage
    BY <1>1, <1>6 DEF Doc!TakeNext, Doc!FitsNext
  <2>4. Doc!Opens /\ (Doc!Closes => MayCross)
    BY <1>6 DEF Doc!TakeNext, Doc!FitsNext, Doc!Forward
  <2>5. a > 1 => doc.para[a - 1] # doc.para[a]
    BY <2>4 DEF Doc!Opens
  <2>6. doc.para[b + 1] # doc.para[b] => MayCross
    BY <2>4 DEF Doc!Closes
  <2>7. b + 1 \in 1 .. n
    BY <1>1, <2>2, <2>3
  <2> HIDE DEF a, b
  <2>8. Local(a, b + 1)
    BY <2>2, <2>3, <2>5, <2>6, NextLocal DEF n
  <2>9. unit' \in UnitRec /\ unit'.first = a /\ unit'.last = b + 1
    BY <2>2, <2>3, <2>7, SpanIs DEF n
  <2>10. Cut(unit')
    BY <1>1, <2>2, <2>7, <2>8, <2>9 DEF Cut, n
  <2> QED
    BY <1>2, <1>4, <2>1, <2>3, <2>9, <2>10, MergedAfter
<1>7. ASSUME Doc!TakePrev PROVE Merged'
  <2> DEFINE a == unit.first
             b == unit.last
             v == units[Len(units)]
             p == v.first
  <2>1. unit # Doc!NoUnit /\ Cut(unit) /\ a = EndOf(units) /\ ~doc.english
    BY <1>2, <1>7 DEF Doc!TakePrev, Doc!Short
  <2>2. a \in 1 .. n /\ b \in 1 .. n /\ a <= b /\ Local(a, b)
    BY <1>1, <2>1 DEF Cut, UnitRec, n
  <2>3. units # <<>> /\ unit' = Doc!Span(Doc!Last(units).first, b) /\ units' = Doc!Front(units) /\ dstage' = dstage
    BY <1>7 DEF Doc!TakePrev, Doc!FitsPrev
  <2>4. Lined(Doc!Front(units)) /\ Cut(v) /\ p = EndOf(Doc!Front(units)) /\ Doc!Last(units) = v /\ a = v.last + 1
    BY <1>2, <2>1, <2>3, LinedFront
  <2>5. p \in 1 .. n /\ p < a /\ v.last = a - 1 /\ Local(p, a - 1)
    <3>1. v.first \in Nat /\ v.last \in Nat /\ 1 <= v.first /\ v.first <= v.last /\ v.last <= n /\ Local(v.first, v.last)
      BY <2>4 DEF Cut, UnitRec, n
    <3>2. v.last = a - 1
      BY <2>2, <2>4, <3>1
    <3>3. p \in 1 .. n /\ p < a
      BY <1>1, <2>4, <3>1
    <3> QED
      BY <3>1, <3>2, <3>3
  <2>6. Doc!Opens => Doc!Closes /\ MayCross
    BY <1>7 DEF Doc!TakePrev, Doc!FitsPrev, Doc!Backward
  <2>7. doc.para[a - 1] # doc.para[a] => Doc!Opens
    BY DEF Doc!Opens
  <2>8. Doc!Closes /\ b < n => doc.para[b + 1] # doc.para[b]
    BY <1>1 DEF Doc!Closes
  <2> HIDE DEF a, b, v, p
  <2>9. doc.para[a - 1] # doc.para[a] => MayCross /\ (b < n => doc.para[b + 1] # doc.para[b])
    BY <2>6, <2>7, <2>8
  <2>10. Local(p, b)
    BY <2>2, <2>5, <2>9, PrevLocal DEF n
  <2>11. unit' = Doc!Span(p, b)
    BY <2>3, <2>4 DEF p
  <2>12. unit' \in UnitRec /\ unit'.first = p /\ unit'.last = b
    BY <2>2, <2>5, <2>11, SpanIs DEF n
  <2>13. Cut(unit')
    BY <1>1, <2>2, <2>5, <2>10, <2>12 DEF Cut, n
  <2> QED
    BY <1>2, <1>4, <2>1, <2>3, <2>4, <2>12, <2>13, MergedAfter
<1>8. ASSUME Doc!Emit PROVE Merged'
  <2>1. unit # Doc!NoUnit /\ units' = Append(units, unit) /\ unit' = Doc!NoUnit /\ dstage' = dstage
    BY <1>8 DEF Doc!Emit
  <2>2. Lined(units') /\ ~doc.english
    BY <1>2, <2>1, LinedAppend
  <2> QED
    BY <1>2, <1>4, <2>1, <2>2, MergedAfter
<1>9. ASSUME Doc!MergeEnd PROVE Merged'
  <2>1. unit = Doc!NoUnit /\ unit' = unit /\ units' = units /\ (doc.english \/ EndOf(units) > n)
    BY <1>1, <1>2, <1>9 DEF Doc!MergeEnd
  <2>2. ~doc.english => EndOf(units') = n + 1
    BY <1>1, <1>3, <2>1
  <2> QED
    BY <1>2, <1>4, <2>1, <2>2, MergedAfter DEF n
<1> QED
  BY <1>4, <1>5, <1>6, <1>7, <1>8, <1>9 DEF Doc!Merge

-----------------------------------------------------------------------------
Mappeds(rs) == \A k \in 1 .. Len(rs) : Mapped(rs[k])

\* Rows in line followed by rows that go on where they end.
LEMMA LineJoin ==
    ASSUME NEW X, NEW rs \in Seq(X), NEW ts \in Seq(X), NEW lo \in Nat,
           InLine(rs, lo), InLine(ts, After(rs, lo)), Mappeds(rs), Mappeds(ts)
    PROVE  /\ InLine(rs \o ts, lo) /\ After(rs \o ts, lo) = After(ts, After(rs, lo))
           /\ Mappeds(rs \o ts)
<1> DEFINE v == rs \o ts
           p == Len(rs)
           q == Len(ts)
           mid == After(rs, lo)
<1>1. p \in Nat /\ q \in Nat /\ (rs = <<>> <=> p = 0) /\ (ts = <<>> <=> q = 0)
  BY EmptySeq, LenProperties
<1>2. v \in Seq(X) /\ Len(v) = p + q
  OBVIOUS
<1>3. \A i \in 1 .. p + q : v[i] = IF i <= p THEN rs[i] ELSE ts[i - p]
  OBVIOUS
<1>4. v = <<>> <=> p + q = 0
  BY <1>1, <1>2, EmptySeq
<1>5. /\ \A k \in 1 .. p : /\ rs[k].first \in Nat /\ rs[k].n \in Nat /\ rs[k].n >= 1
                           /\ rs[k].first = IF k = 1 THEN lo ELSE rs[k - 1].first + rs[k - 1].n
      /\ \A k \in 1 .. q : /\ ts[k].first \in Nat /\ ts[k].n \in Nat /\ ts[k].n >= 1
                           /\ ts[k].first = IF k = 1 THEN mid ELSE ts[k - 1].first + ts[k - 1].n
  BY DEF InLine
<1>6. mid = IF p = 0 THEN lo ELSE rs[p].first + rs[p].n
  BY <1>1 DEF After
<1>7. After(ts, mid) = IF q = 0 THEN mid ELSE ts[q].first + ts[q].n
  BY <1>1 DEF After
<1>8. After(v, lo) = IF p + q = 0 THEN lo ELSE v[p + q].first + v[p + q].n
  BY <1>2, <1>4 DEF After
<1>9. (\A k \in 1 .. p : Mapped(rs[k])) /\ (\A k \in 1 .. q : Mapped(ts[k]))
  BY DEF Mappeds
<1> HIDE DEF v, p, q, mid
<1>10. ASSUME NEW k \in 1 .. p + q
       PROVE  /\ v[k].first \in Nat /\ v[k].n \in Nat /\ v[k].n >= 1 /\ Mapped(v[k])
              /\ v[k].first = IF k = 1 THEN lo ELSE v[k - 1].first + v[k - 1].n
  <2>1. CASE k <= p
    <3>1. k \in 1 .. p /\ v[k] = rs[k] /\ (k # 1 => k - 1 \in 1 .. p + q /\ k - 1 <= p)
      BY <1>1, <1>3, <2>1
    <3>2. k # 1 => v[k - 1] = rs[k - 1]
      BY <1>3, <3>1
    <3> QED
      BY <1>5, <1>9, <3>1, <3>2
  <2>2. CASE k > p
    <3>1. k - p \in 1 .. q /\ v[k] = ts[k - p]
      BY <1>1, <1>3, <2>2
    <3>2. CASE k - p = 1
      <4>1. p = 0 => k = 1
        BY <1>1, <3>2
      <4>2. p # 0 => k # 1 /\ k - 1 = p /\ p \in 1 .. p + q /\ p <= p
        BY <1>1, <3>2
      <4>3. p # 0 => v[k - 1] = rs[p]
        BY <1>3, <4>2
      <4>4. v[k].first = mid
        BY <1>5, <3>1, <3>2
      <4>5. v[k].first = IF k = 1 THEN lo ELSE v[k - 1].first + v[k - 1].n
        BY <1>6, <4>1, <4>2, <4>3, <4>4
      <4> QED
        BY <1>5, <1>9, <3>1, <4>5
    <3>3. CASE k - p # 1
      <4>1. k # 1 /\ k - 1 \in 1 .. p + q /\ ~(k - 1 <= p) /\ (k - 1) - p = (k - p) - 1
        BY <1>1, <3>1, <3>3
      <4>2. v[k - 1] = ts[(k - p) - 1]
        BY <1>3, <4>1
      <4>3. v[k].first = ts[(k - p) - 1].first + ts[(k - p) - 1].n
        BY <1>5, <3>1, <3>3
      <4> QED
        BY <1>5, <1>9, <3>1, <4>1, <4>2, <4>3
    <3> QED
      BY <3>2, <3>3
  <2>3. k <= p \/ k > p
    BY <1>1
  <2> QED
    BY <2>1, <2>2, <2>3
<1>11. After(v, lo) = After(ts, mid)
  <2>1. CASE q = 0
    <3>1. p # 0 => p \in 1 .. p + q /\ p <= p /\ p + q = p
      BY <1>1, <2>1
    <3>2. p # 0 => v[p + q] = rs[p]
      BY <1>3, <3>1
    <3> QED
      BY <1>1, <1>6, <1>7, <1>8, <2>1, <3>2
  <2>2. CASE q # 0
    <3>1. p + q \in 1 .. p + q /\ ~(p + q <= p) /\ (p + q) - p = q /\ p + q # 0
      BY <1>1, <2>2
    <3>2. v[p + q] = ts[q]
      BY <1>3, <3>1
    <3> QED
      BY <1>7, <1>8, <2>2, <3>1, <3>2
  <2> QED
    BY <2>1, <2>2
<1>12. InLine(v, lo) /\ Mappeds(v)
  BY <1>2, <1>10 DEF InLine, Mappeds
<1> QED
  BY <1>11, <1>12 DEF v, mid

\* What is handed to translation is the document, piece after piece, and a piece
\* of several sentences is a unit of the map.
LEMMA UnitsCover ==
    ASSUME Lined(units)
    PROVE  LET rs == Doc!BuildUnits
           IN rs \in Seq(Piece) /\ InLine(rs, 1) /\ After(rs, 1) = EndOf(units) /\ Mappeds(rs)
<1> DEFINE G == [i \in DOMAIN units |->
                    IF units[i].last > units[i].first /\ Doc!Members(units[i]) \cap doc.marked # {}
                    THEN Doc!Singles(units[i])
                    ELSE <<[first |-> units[i].first, n |-> units[i].last - units[i].first + 1]>>]
           m == Len(units)
           Upto(j) == FlattenSeq([i \in 1 .. j |-> G[i]])
           End(j) == IF j = 0 THEN 1 ELSE units[j].last + 1
           Good(j) == /\ Upto(j) \in Seq(Piece) /\ InLine(Upto(j), 1) /\ After(Upto(j), 1) = End(j)
                      /\ Mappeds(Upto(j))
           N == {j \in Nat : j <= m => Good(j)}
<1>1. m \in Nat /\ DOMAIN units = 1 .. m
  BY LenProperties DEF Lined
<1>2. ASSUME NEW i \in 1 .. m
      PROVE  /\ G[i] \in Seq(Piece) /\ InLine(G[i], units[i].first) /\ After(G[i], units[i].first) = units[i].last + 1
             /\ Mappeds(G[i])
  <2> DEFINE a == units[i].first
             b == units[i].last
             c == b - a + 1
  <2>1. a \in Nat /\ b \in Nat /\ 1 <= a /\ a <= b
    BY DEF Lined, Cut, UnitRec
  <2>2. c \in Nat /\ c >= 1
    BY <2>1
  <2>3. CASE G[i] = Doc!Singles(units[i])
    <3> DEFINE S == [k \in 1 .. c |-> [first |-> a + k - 1, n |-> 1]]
    <3>1. G[i] = S
      BY <2>3 DEF Doc!Singles
    <3>2. \A k \in 1 .. c : S[k] = [first |-> a + k - 1, n |-> 1] /\ a + k - 1 \in Nat
      BY <2>1, <2>2
    <3>3. S \in [1 .. c -> Piece]
      BY <3>2 DEF Piece
    <3>0. \A k \in 1 .. c : S[k].first = a + k - 1 /\ S[k].n = 1 /\ a + k - 1 \in Nat
      BY <3>2
    <3> HIDE DEF S, a, b, c
    <3>4. S \in Seq(Piece) /\ Len(S) = c
      BY <2>2, <3>3, FunIsSeq
    <3>5. S # <<>>
      BY <2>2, <3>4, EmptySeq
    <3>6. ASSUME NEW k \in 1 .. c
          PROVE  S[k].first \in Nat /\ S[k].n = 1 /\ S[k].first = IF k = 1 THEN a ELSE S[k - 1].first + S[k - 1].n
      <4>1. k # 1 => k - 1 \in 1 .. c
        BY <2>2
      <4>2. k # 1 => S[k - 1].first = a + (k - 1) - 1 /\ S[k - 1].n = 1
        BY <3>0, <4>1
      <4>3. S[k].first = a + k - 1 /\ S[k].n = 1 /\ a + k - 1 \in Nat
        BY <3>0
      <4>4. k = 1 => a + k - 1 = a
        BY <2>1
      <4>5. k # 1 => (a + (k - 1) - 1) + 1 = a + k - 1
        BY <2>1, <2>2
      <4> QED
        BY <4>2, <4>3, <4>4, <4>5
    <3>7. InLine(S, a)
      BY <3>4, <3>6 DEF InLine
    <3>8. Mappeds(S)
      BY <3>4, <3>6 DEF Mappeds, Mapped
    <3>9. After(S, a) = b + 1
      <4>1. c \in 1 .. c
        BY <2>2
      <4>2. S[c].first = a + c - 1 /\ S[c].n = 1
        BY <3>0, <4>1
      <4>3. After(S, a) = (a + c - 1) + 1
        BY <3>4, <3>5, <4>2 DEF After
      <4>4. (a + c - 1) + 1 = b + 1
        BY <2>1 DEF c
      <4> QED
        BY <4>3, <4>4
    <3> QED
      BY <3>1, <3>4, <3>7, <3>8, <3>9 DEF a, b
  <2>4. CASE G[i] = <<[first |-> a, n |-> c]>>
    <3> DEFINE r == [first |-> a, n |-> c]
    <3>1. r \in Piece /\ r.first = a /\ r.n = c
      BY <2>1, <2>2 DEF Piece
    <3>2. Mapped(r)
      <4>1. a + c - 1 = b
        BY <2>1
      <4> QED
        BY <3>1, <4>1 DEF Mapped
    <3> HIDE DEF r
    <3>3. <<r>> \in Seq(Piece) /\ Len(<<r>>) = 1 /\ <<r>>[1] = r /\ <<r>> # <<>>
      BY <3>1
    <3>4. InLine(<<r>>, a) /\ Mappeds(<<r>>)
      BY <2>1, <2>2, <3>1, <3>2, <3>3 DEF InLine, Mappeds
    <3>5. After(<<r>>, a) = b + 1
      <4>1. a + c = b + 1
        BY <2>1
      <4> QED
        BY <3>1, <3>3, <4>1 DEF After
    <3> QED
      BY <2>4, <3>3, <3>4, <3>5 DEF r
  <2>5. G[i] = Doc!Singles(units[i]) \/ G[i] = <<[first |-> a, n |-> c]>>
    BY <1>1
  <2> QED
    BY <2>3, <2>4, <2>5
<1> HIDE DEF G
<1>3. 0 \in N
  <2>1. [i \in 1 .. 0 |-> G[i]] = <<>>
    OBVIOUS
  <2>2. Upto(0) = <<>>
    BY <2>1, FlatEmpty, Zenon
  <2>3. <<>> \in Seq(Piece)
    OBVIOUS
  <2>4. Len(<<>>) = 0
    BY EmptySeq
  <2>5. InLine(<<>>, 1) /\ Mappeds(<<>>) /\ After(<<>>, 1) = 1
    BY <2>4 DEF InLine, Mappeds, After
  <2> HIDE DEF Upto
  <2> QED
    BY <2>2, <2>3, <2>5
<1>4. ASSUME NEW j \in Nat, j \in N PROVE j + 1 \in N
  <2> SUFFICES ASSUME j + 1 <= m PROVE Good(j + 1)
    OBVIOUS
  <2>1. Good(j)
    BY <1>1, <1>4
  <2>2. Upto(j + 1) = Upto(j) \o G[j + 1]
    <3>1. \A i \in 1 .. j + 1 : G[i] \in Seq(Piece)
      BY <1>1, <1>2
    <3> QED
      BY <3>1, FlatNext
  <2>3. j + 1 \in 1 .. m /\ (j + 1) - 1 = j /\ j + 1 # 0
    BY <1>1
  <2>4. units[j + 1].first = End(j)
    <3>1. units[j + 1].first = IF j + 1 = 1 THEN 1 ELSE units[(j + 1) - 1].last + 1
      BY <2>3 DEF Lined
    <3> QED
      BY <2>3, <3>1
  <2>5. G[j + 1] \in Seq(Piece) /\ InLine(G[j + 1], End(j)) /\ After(G[j + 1], End(j)) = End(j + 1) /\ Mappeds(G[j + 1])
    BY <1>2, <2>3, <2>4
  <2> HIDE DEF Upto, End
  <2>6. LET v == Upto(j) \o G[j + 1]
        IN v \in Seq(Piece) /\ InLine(v, 1) /\ After(v, 1) = After(G[j + 1], End(j)) /\ Mappeds(v)
    <3>1. Upto(j) \in Seq(Piece) /\ InLine(Upto(j), 1) /\ After(Upto(j), 1) = End(j) /\ Mappeds(Upto(j))
      BY <2>1
    <3>2. Upto(j) \o G[j + 1] \in Seq(Piece)
      BY <2>5, <3>1
    <3>3. \A lo \in Nat : lo = 1 =>
              /\ InLine(Upto(j) \o G[j + 1], lo) /\ After(Upto(j) \o G[j + 1], lo) = After(G[j + 1], After(Upto(j), lo))
              /\ Mappeds(Upto(j) \o G[j + 1])
      BY <2>5, <3>1, LineJoin
    <3> QED
      BY <3>1, <3>2, <3>3
  <2> QED
    BY <2>2, <2>5, <2>6
<1> HIDE DEF N
<1>5. m \in N
  BY <1>1, <1>3, <1>4, NatInd
<1>6. Good(m)
  BY <1>1, <1>5 DEF N
<1>7. [i \in 1 .. m |-> G[i]] = G
  BY <1>1 DEF G
<1>8. Doc!BuildUnits = FlattenSeq(G)
  BY DEF Doc!BuildUnits, G, Doc!FlattenSeq, FlattenSeq
<1>9. End(m) = EndOf(units)
  <2>1. units = <<>> <=> m = 0
    BY <1>1, EmptySeq DEF Lined
  <2> QED
    BY <2>1 DEF EndOf
<1> QED
  BY <1>6, <1>7, <1>8, <1>9

-----------------------------------------------------------------------------
\* A text that says sentences says exactly those.
LEMMA SaidIs ==
    ASSUME NEW lo \in Nat \ {0}, NEW hi, NEW text, Says(text, lo, hi)
    PROVE  Doc!Said(text) = lo .. hi
<1>1. DOMAIN text = 1 .. Len(text)
  BY LenProperties DEF Says
<1>2. \A i \in 1 .. Len(text) : text[i] = 0 \/ text[i] \in lo .. hi
  BY DEF Says
<1>3. \A s \in lo .. hi : s # 0 /\ \E i \in 1 .. Len(text) : text[i] = s
  BY DEF Says
<1> QED
  BY <1>1, <1>2, <1>3 DEF Doc!Said, Doc!Marker

LEMMA RowFields ==
    ASSUME NEW u, NEW text
    PROVE  Doc!Row(u, text).first = u.first /\ Doc!Row(u, text).n = u.n /\ Doc!Row(u, text).text = text
BY DEF Doc!Row

\* Every text that MT may return for a row is of the row.
LEMMA RenderingsTell ==
    ASSUME NEW u, u.first \in Nat \ {0}, u.n \in Nat \ {0}, NEW text \in Doc!Renderings(u)
    PROVE  Rendered(Doc!Row(u, text))
<1> DEFINE a == u.first
           n == u.n
           last == a + n - 1
           strays == {-1} \cup (IF "stray" \in Faults THEN a - 1 .. last ELSE {})
           tears  == {-1} \cup (IF "torn" \in Faults THEN a .. last ELSE {})
<1>1. \/ \E kept \in SUBSET (a .. last - 1), stray \in strays, torn \in tears : text = Doc!Return(a, n, kept, stray, torn)
      \/ n = 1 /\ text = <<>>
  BY DEF Doc!Renderings
<1>2. a \in Nat \ {0} /\ n \in Nat \ {0}
  OBVIOUS
<1> DEFINE r == Doc!Row(u, text)
<1>3. r.first = a /\ r.n = n /\ r.text = text
  BY RowFields
<1>4. CASE \E kept \in SUBSET (a .. last - 1), stray \in strays, torn \in tears : text = Doc!Return(a, n, kept, stray, torn)
  <2>1. PICK kept \in SUBSET (a .. last - 1), stray \in strays, torn \in tears : text = Doc!Return(a, n, kept, stray, torn)
    BY <1>4
  <2>2. "torn" \notin Faults => torn = -1
    OBVIOUS
  <2> HIDE DEF a, n, r, tears, strays
  <2>3. Says(text, a, a + n - 1) /\ ("torn" \notin Faults => Rising(text))
    BY <1>2, <2>1, <2>2, ReturnSays
  <2>4. Doc!Said(text) = a .. a + n - 1
    BY <1>2, <2>3, SaidIs
  <2>5. ASSUME "torn" \notin Faults, Doc!Splits(text, n), NEW k \in 1 .. n PROVE Doc!Segment(text, k) = {a + k - 1}
    BY <1>2, <2>3, <2>5, SegmentsOwn
  <2>6. r \in RowRec
    <3>1. text \in Seq(Nat)
      BY <2>3 DEF Says
    <3>2. r = [first |-> a, n |-> n, text |-> text]
      BY DEF r, Doc!Row, a, n
    <3> QED
      BY <1>2, <3>1, <3>2 DEF RowRec
  <2> QED
    BY <1>3, <2>4, <2>5, <2>6 DEF Rendered, r
<1>5. CASE n = 1 /\ text = <<>>
  <2>1. Doc!Said(text) = {}
    BY <1>5 DEF Doc!Said
  <2>2. ~Doc!Splits(text, n)
    BY <1>5 DEF Doc!Splits
  <2>3. r \in RowRec
    <3>1. text \in Seq(Nat)
      <4>1. <<>> \in Seq(Nat)
        OBVIOUS
      <4> QED
        BY <1>5, <4>1
    <3>2. r = [first |-> a, n |-> n, text |-> text]
      BY DEF r, Doc!Row, a, n
    <3> HIDE DEF a, n, r
    <3> QED
      BY <1>2, <3>1, <3>2 DEF RowRec
  <2> HIDE DEF r, a, n
  <2> QED
    BY <1>3, <2>1, <2>2, <2>3 DEF Rendered, r
<1> QED
  BY <1>1, <1>4, <1>5

\* What a step of translation has to show.
LEMMA RowsAfter ==
    ASSUME doc' = doc, units' = units,
           dstage' = "translate" \/ dstage' = "reconcile",
           dstage' = "translate" => expect' = 1 /\ finals' = <<>>,
           dstage' = "translate" =>
              raw' \in Seq(RowRec) /\ \A k \in 1 .. Len(raw') :
                 /\ Rendered(raw'[k]) /\ k \in 1 .. Len(Doc!BuildUnits)
                 /\ raw'[k].first = Doc!BuildUnits[k].first /\ raw'[k].n = Doc!BuildUnits[k].n,
           dstage' = "reconcile" =>
              /\ raw' \in Seq(RowRec) /\ InLine(raw', expect') /\ After(raw', expect') = Len(doc.para) + 1
              /\ \A k \in 1 .. Len(raw') : Rendered(raw'[k]) /\ Mapped(raw'[k])
    PROVE  Translated'
<1>1. Doc!BuildUnits' = Doc!BuildUnits
  BY Zenon DEF Doc!BuildUnits, Doc!Members, Doc!Singles
<1>2. \A r : Mapped(r)' <=> Mapped(r)
  BY DEF Mapped
<1>3. \A k : Mapped(raw[k])' <=> Mapped(raw'[k])
  BY DEF Mapped
<1>4. CASE dstage' = "translate"
  BY <1>1, <1>4 DEF Translated
<1>5. CASE dstage' = "reconcile"
  BY <1>3, <1>5 DEF Translated
<1> QED
  BY <1>4, <1>5

\* Translation gives each piece a text of its own sentences.
LEMMA TranslateKeeps ==
    ASSUME Doc!WellFormed(doc), Merged, Translated, Filed, Doc!Translate \/ Doc!Identity \/ Doc!TranslateEnd
    PROVE  Translated' /\ Filed' /\ doc' = doc /\ units' = units /\ unit' = unit /\ expect' = expect /\ finals' = finals
           /\ dstage = "translate" /\ dstage' \in {"translate", "reconcile"}
<1>1. /\ doc' = doc /\ units' = units /\ unit' = unit /\ expect' = expect /\ finals' = finals
      /\ dstage = "translate" /\ dstage' \in {"translate", "reconcile"}
  BY DEF Doc!Translate, Doc!Identity, Doc!TranslateEnd
<1>2. expect = 1 /\ finals = <<>> /\ raw \in Seq(RowRec)
  BY <1>1 DEF Translated
<1>3. Filed'
  BY <1>1 DEF Filed
<1> DEFINE bu == Doc!BuildUnits
           m == Len(raw)
<1>4. \A k \in 1 .. m : /\ Rendered(raw[k]) /\ k \in 1 .. Len(bu)
                        /\ raw[k].first = bu[k].first /\ raw[k].n = bu[k].n
  BY <1>1 DEF Translated
<1>5. Lined(units) /\ (~doc.english => EndOf(units) = Len(doc.para) + 1)
  BY <1>1 DEF Merged
<1>6. bu \in Seq(Piece) /\ InLine(bu, 1) /\ After(bu, 1) = EndOf(units) /\ Mappeds(bu)
  BY <1>5, UnitsCover
<1>7. m \in Nat /\ (raw = <<>> <=> m = 0)
  BY <1>2, EmptySeq, LenProperties
<1>8. Len(doc.para) \in Nat /\ Doc!N = Len(doc.para)
  BY Document
<1> HIDE DEF bu, m
<1>9. ASSUME Doc!Translate PROVE Translated'
  <2>1. PICK text \in Doc!Renderings(bu[m + 1]) : raw' = Append(raw, Doc!Row(bu[m + 1], text))
    BY <1>9 DEF Doc!Translate, bu, m
  <2>2. m < Len(bu) /\ dstage' = dstage
    BY <1>9 DEF Doc!Translate, bu, m
  <2> DEFINE u == bu[m + 1]
             r == Doc!Row(u, text)
  <2>3. m + 1 \in 1 .. Len(bu)
    <3>1. Len(bu) \in Nat
      BY <1>6, LenProperties
    <3> QED
      BY <1>7, <2>2, <3>1
  <2>4. u.first \in Nat \ {0} /\ u.n \in Nat \ {0}
    <3>1. u.first \in Nat /\ u.n \in Nat /\ u.n >= 1
      BY <1>6, <2>3 DEF InLine
    <3>2. u.first >= 1
      <4>1. CASE m + 1 = 1
        <5>1. u.first = 1
          BY <1>6, <2>3, <4>1 DEF InLine
        <5> QED
          BY <5>1
      <4>2. CASE m + 1 # 1
        <5>1. (m + 1) - 1 \in 1 .. Len(bu)
          BY <1>7, <2>3, <4>2
        <5>2. u.first = bu[(m + 1) - 1].first + bu[(m + 1) - 1].n
          BY <1>6, <2>3, <4>2 DEF InLine
        <5>3. bu[(m + 1) - 1].first \in Nat /\ bu[(m + 1) - 1].n \in Nat /\ bu[(m + 1) - 1].n >= 1
          BY <1>6, <5>1 DEF InLine
        <5> QED
          BY <5>2, <5>3
      <4> QED
        BY <4>1, <4>2
    <3> QED
      BY <3>1, <3>2
  <2> HIDE DEF u
  <2>5. Rendered(r) /\ r.first = u.first /\ r.n = u.n
    <3>1. text \in Doc!Renderings(u)
      BY DEF u
    <3> QED
      BY <2>4, <3>1, RenderingsTell, RowFields
  <2>6. raw' = Append(raw, r)
    BY <2>1 DEF u
  <2> HIDE DEF r
  <2>7. r \in RowRec
    BY <2>5 DEF Rendered
  <2>8. raw' \in Seq(RowRec) /\ Len(raw') = m + 1 /\ raw'[m + 1] = r /\ \A k \in 1 .. m : raw'[k] = raw[k]
    BY <1>2, <2>6, <2>7 DEF m
  <2>9. ASSUME NEW k \in 1 .. m + 1
        PROVE  /\ Rendered(raw'[k]) /\ k \in 1 .. Len(bu)
               /\ raw'[k].first = bu[k].first /\ raw'[k].n = bu[k].n
    <3>1. CASE k \in 1 .. m
      BY <1>4, <2>8, <3>1
    <3>2. CASE k = m + 1
      BY <2>3, <2>5, <2>8, <3>2 DEF u
    <3> QED
      BY <1>7, <3>1, <3>2
  <2> QED
    BY <1>1, <1>2, <2>2, <2>8, <2>9, RowsAfter DEF bu
<1>10. ASSUME Doc!Identity PROVE Translated'
  <2> DEFINE n == Len(doc.para)
             rs == [s \in 1 .. n |-> Doc!Row([first |-> s, n |-> 1], <<s>>)]
  <2>1. raw' = rs /\ dstage' = "reconcile"
    BY <1>8, <1>10 DEF Doc!Identity
  <2>2. n \in Nat
    BY <1>8
  <2> HIDE DEF n
  <2>3. ASSUME NEW s \in 1 .. n PROVE rs[s] \in RowRec /\ rs[s].first = s /\ rs[s].n = 1 /\ rs[s].text = <<s>>
    <3>1. rs[s] = [first |-> s, n |-> 1, text |-> <<s>>]
      BY DEF Doc!Row
    <3>2. s \in Nat /\ <<s>> \in Seq(Nat)
      BY <2>2
    <3> HIDE DEF rs
    <3> QED
      BY <3>1, <3>2 DEF RowRec
  <2>4. rs \in Seq(RowRec) /\ Len(rs) = n
    <3>1. rs \in [1 .. n -> RowRec]
      BY <2>3
    <3> HIDE DEF rs
    <3> QED
      BY <2>2, <3>1, FunIsSeq
  <2>5. rs = <<>> <=> n = 0
    BY <2>2, <2>4, EmptySeq
  <2> HIDE DEF rs
  <2>6. ASSUME NEW s \in 1 .. n PROVE Rendered(rs[s]) /\ Mapped(rs[s])
    <3>1. s \in Nat \ {0}
      BY <2>2
    <3>2. Doc!Said(<<s>>) = s .. s
      BY <3>1, SaysPieces, SaidIs
    <3>3. s .. s = s .. s + 1 - 1
      BY <3>1
    <3>4. ~Doc!Splits(<<s>>, 1)
      BY DEF Doc!Splits
    <3>5. rs[s] \in RowRec /\ rs[s].first = s /\ rs[s].n = 1 /\ rs[s].text = <<s>>
      BY <2>3
    <3>6. Doc!Said(rs[s].text) = rs[s].first .. rs[s].first + rs[s].n - 1
      BY <3>2, <3>3, <3>5
    <3>7. ~Doc!Splits(rs[s].text, rs[s].n)
      BY <3>4, <3>5
    <3>8. Mapped(rs[s])
      <4>1. ~(rs[s].n > 1)
        BY <3>5
      <4> QED
        BY <4>1, Zenon DEF Mapped
    <3>9. Rendered(rs[s])
      BY <3>5, <3>6, <3>7, Zenon DEF Rendered
    <3> QED
      BY <3>8, <3>9
  <2>7. InLine(rs, 1)
    <3>1. ASSUME NEW k \in 1 .. n
          PROVE  rs[k].first \in Nat /\ rs[k].n \in Nat /\ rs[k].n >= 1
                 /\ rs[k].first = IF k = 1 THEN 1 ELSE rs[k - 1].first + rs[k - 1].n
      <4>1. k # 1 => k - 1 \in 1 .. n
        BY <2>2
      <4>2. k # 1 => rs[k - 1].first = k - 1 /\ rs[k - 1].n = 1
        BY <2>3, <4>1
      <4> QED
        BY <2>2, <2>3, <4>2
    <3> QED
      BY <2>4, <3>1 DEF InLine
  <2>8. After(rs, 1) = n + 1
    <3>1. n # 0 => n \in 1 .. n
      BY <2>2
    <3>2. n # 0 => rs[n].first = n /\ rs[n].n = 1
      BY <2>3, <3>1
    <3> QED
      BY <2>2, <2>4, <2>5, <3>2 DEF After
  <2> QED
    BY <1>1, <1>2, <2>1, <2>4, <2>6, <2>7, <2>8, RowsAfter DEF n
<1>11. ASSUME Doc!TranslateEnd PROVE Translated'
  <2>1. raw' = raw /\ dstage' = "reconcile" /\ m = Len(bu) /\ ~doc.english
    BY <1>11 DEF Doc!TranslateEnd, m, bu
  <2>2. InLine(raw, 1)
    <3>1. ASSUME NEW k \in 1 .. m
          PROVE  raw[k].first \in Nat /\ raw[k].n \in Nat /\ raw[k].n >= 1
                 /\ raw[k].first = IF k = 1 THEN 1 ELSE raw[k - 1].first + raw[k - 1].n
      <4>1. k # 1 => k - 1 \in 1 .. m
        BY <1>7
      <4>2. k # 1 => raw[k - 1].first = bu[k - 1].first /\ raw[k - 1].n = bu[k - 1].n
        BY <1>4, <4>1
      <4>3. bu[k].first \in Nat /\ bu[k].n \in Nat /\ bu[k].n >= 1
            /\ bu[k].first = IF k = 1 THEN 1 ELSE bu[k - 1].first + bu[k - 1].n
        BY <1>6, <2>1 DEF InLine
      <4> QED
        BY <1>4, <4>2, <4>3
    <3> QED
      BY <3>1 DEF InLine, m
  <2>3. After(raw, 1) = Len(doc.para) + 1
    <3>1. bu = <<>> <=> m = 0
      BY <1>6, <1>7, <2>1, EmptySeq
    <3>2. m # 0 => m \in 1 .. m
      BY <1>7
    <3>3. m # 0 => raw[m].first = bu[m].first /\ raw[m].n = bu[m].n
      BY <1>4, <3>2
    <3>4. After(raw, 1) = After(bu, 1)
      BY <1>7, <2>1, <3>1, <3>3 DEF After, m
    <3> QED
      BY <1>5, <1>6, <2>1, <3>4
  <2>4. \A k \in 1 .. m : Rendered(raw[k]) /\ Mapped(raw[k])
    <3> TAKE k \in 1 .. m
    <3>1. Mapped(bu[k]) /\ raw[k].first = bu[k].first /\ raw[k].n = bu[k].n /\ Rendered(raw[k])
      BY <1>4, <1>6, <2>1 DEF Mappeds
    <3> QED
      BY <3>1 DEF Mapped
  <2> QED
    BY <1>1, <1>2, <2>1, <2>2, <2>3, <2>4, RowsAfter DEF m
<1> QED
  BY <1>1, <1>3, <1>9, <1>10, <1>11

-----------------------------------------------------------------------------
\* Pieces in line go up.
LEMMA LineGrows ==
    ASSUME NEW rs, NEW lo \in Nat, Len(rs) \in Nat, InLine(rs, lo)
    PROVE  \A k \in 1 .. Len(rs) : rs[k].first >= lo /\ rs[k].first \in Nat /\ rs[k].n \in Nat /\ rs[k].n >= 1
<1> DEFINE m == Len(rs)
           N == {k \in Nat : k + 1 <= m => rs[k + 1].first >= lo}
<1>1. \A k \in 1 .. m : /\ rs[k].first \in Nat /\ rs[k].n \in Nat /\ rs[k].n >= 1
                        /\ rs[k].first = IF k = 1 THEN lo ELSE rs[k - 1].first + rs[k - 1].n
  BY DEF InLine
<1>2. m \in Nat
  OBVIOUS
<1> HIDE DEF m
<1>3. 0 \in N
  <2>1. 0 + 1 <= m => 0 + 1 \in 1 .. m /\ 0 + 1 = 1
    BY <1>2
  <2> QED
    BY <1>1, <2>1
<1>4. ASSUME NEW k \in Nat, k \in N PROVE k + 1 \in N
  <2> SUFFICES ASSUME (k + 1) + 1 <= m PROVE rs[(k + 1) + 1].first >= lo
    OBVIOUS
  <2>1. k + 1 \in 1 .. m /\ (k + 1) + 1 \in 1 .. m /\ (k + 1) + 1 # 1 /\ ((k + 1) + 1) - 1 = k + 1
    BY <1>2
  <2>2. rs[k + 1].first >= lo
    BY <1>2, <1>4
  <2>3. rs[(k + 1) + 1].first = rs[k + 1].first + rs[k + 1].n
    BY <1>1, <2>1
  <2> QED
    BY <1>1, <2>1, <2>2, <2>3
<1> HIDE DEF N
<1>5. Nat \subseteq N
  BY <1>3, <1>4, NatInd
<1>6. ASSUME NEW k \in 1 .. m PROVE rs[k].first >= lo
  <2>1. k - 1 \in Nat /\ (k - 1) + 1 = k /\ k <= m
    BY <1>2
  <2>2. k - 1 \in N
    BY <1>5, <2>1
  <2> QED
    BY <2>1, <2>2 DEF N
<1> QED
  BY <1>1, <1>6 DEF m

\* What is left of the rows when the first is taken.
LEMMA LineTail ==
    ASSUME NEW rs \in Seq(RowRec), rs # <<>>, NEW lo \in Nat, InLine(rs, lo)
    PROVE  /\ rs[1].first = lo /\ rs[1].n \in Nat /\ rs[1].n >= 1 /\ rs[1] \in RowRec
           /\ InLine(Tail(rs), lo + rs[1].n) /\ After(Tail(rs), lo + rs[1].n) = After(rs, lo)
           /\ lo + rs[1].n <= After(rs, lo)
<1> DEFINE m == Len(rs)
           ts == Tail(rs)
           hi == lo + rs[1].n
<1>1. m \in Nat /\ m # 0
  BY EmptySeq, LenProperties
<1>2. ts \in Seq(RowRec) /\ Len(ts) = m - 1
  OBVIOUS
<1>3. \A k \in 1 .. m - 1 : ts[k] = rs[k + 1]
  OBVIOUS
<1>4. \A k \in 1 .. m : /\ rs[k].first \in Nat /\ rs[k].n \in Nat /\ rs[k].n >= 1
                        /\ rs[k].first = IF k = 1 THEN lo ELSE rs[k - 1].first + rs[k - 1].n
  BY DEF InLine
<1>5. ts = <<>> <=> m = 1
  BY <1>1, <1>2, EmptySeq
<1>6. 1 \in 1 .. m
  BY <1>1
<1>7. rs[1].first = lo /\ rs[1].n \in Nat /\ rs[1].n >= 1 /\ rs[1] \in RowRec
  <2>1. rs[1] \in RowRec
    BY <1>6
  <2> QED
    BY <1>4, <1>6, <2>1
<1>8. hi \in Nat
  BY <1>7
<1> HIDE DEF ts, m
<1>9. InLine(ts, hi)
  <2>1. ASSUME NEW k \in 1 .. m - 1
        PROVE  ts[k].first \in Nat /\ ts[k].n \in Nat /\ ts[k].n >= 1
               /\ ts[k].first = IF k = 1 THEN hi ELSE ts[k - 1].first + ts[k - 1].n
    <3>1. k + 1 \in 1 .. m /\ (k + 1) - 1 = k /\ k + 1 # 1
      BY <1>1
    <3>2. rs[k + 1].first = rs[k].first + rs[k].n
      BY <1>4, <3>1
    <3>3. CASE k = 1
      BY <1>3, <1>4, <1>7, <3>1, <3>2, <3>3
    <3>4. CASE k # 1
      <4>1. k - 1 \in 1 .. m - 1 /\ (k - 1) + 1 = k
        BY <1>1, <3>4
      <4>2. ts[k - 1] = rs[k]
        BY <1>3, <4>1
      <4> QED
        BY <1>3, <1>4, <3>1, <3>2, <3>4, <4>2
    <3> QED
      BY <3>3, <3>4
  <2> HIDE DEF hi
  <2> QED
    BY <1>2, <2>1 DEF InLine
<1>10. After(rs, lo) = rs[m].first + rs[m].n
  BY DEF After, m
<1>11. After(ts, hi) = After(rs, lo)
  <2>1. CASE m = 1
    BY <1>5, <1>7, <1>10, <2>1 DEF After
  <2>2. CASE m # 1
    <3>1. m - 1 \in 1 .. m - 1 /\ (m - 1) + 1 = m
      BY <1>1, <2>2
    <3>2. ts[m - 1] = rs[m]
      BY <1>3, <3>1
    <3> QED
      BY <1>2, <1>5, <1>10, <2>2, <3>2 DEF After
  <2> QED
    BY <2>1, <2>2
<1>12. hi <= After(rs, lo)
  <2>1. CASE m = 1
    BY <1>7, <1>10, <2>1
  <2>2. CASE m # 1
    <3>1. m - 1 \in 1 .. m - 1 /\ (m - 1) + 1 = m /\ m - 1 \in Nat /\ m \in 1 .. m
      BY <1>1, <2>2
    <3> HIDE DEF hi
    <3>2. ts[m - 1].first >= hi
      BY <1>2, <1>8, <1>9, <3>1, LineGrows
    <3>3. ts[m - 1] = rs[m] /\ rs[m].n \in Nat /\ rs[m].first \in Nat
      BY <1>3, <1>4, <3>1
    <3> QED
      BY <1>8, <1>10, <3>2, <3>3
  <2> QED
    BY <2>1, <2>2
<1> QED
  BY <1>7, <1>9, <1>11, <1>12 DEF ts

\* Units in line begin one after the other.
LEMMA LinedRises ==
    ASSUME NEW us, Lined(us), NEW i \in 1 .. Len(us), NEW j \in 1 .. Len(us), us[i].first = us[j].first
    PROVE  i = j
<1> DEFINE m == Len(us)
           N == {k \in Nat : k + 1 <= m => \A p \in 1 .. k : us[p].first < us[k + 1].first}
<1>1. us \in Seq(UnitRec) /\ m \in Nat
  BY LenProperties DEF Lined
<1>2. \A k \in 1 .. m : /\ us[k].first \in Nat /\ us[k].last \in Nat /\ us[k].first <= us[k].last
                        /\ us[k].first = IF k = 1 THEN 1 ELSE us[k - 1].last + 1
  BY DEF Lined, Cut, UnitRec
<1> HIDE DEF m
<1>3. 0 \in N
  OBVIOUS
<1>4. ASSUME NEW k \in Nat, k \in N PROVE k + 1 \in N
  <2> SUFFICES ASSUME (k + 1) + 1 <= m, NEW p \in 1 .. k + 1 PROVE us[p].first < us[(k + 1) + 1].first
    OBVIOUS
  <2>1. k + 1 \in 1 .. m /\ (k + 1) + 1 \in 1 .. m /\ (k + 1) + 1 # 1 /\ ((k + 1) + 1) - 1 = k + 1
    BY <1>1
  <2>2. us[(k + 1) + 1].first = us[k + 1].last + 1 /\ us[k + 1].first <= us[k + 1].last
    BY <1>2, <2>1
  <2>3. us[k + 1].first \in Nat /\ us[k + 1].last \in Nat
    BY <1>2, <2>1
  <2>4. CASE p = k + 1
    BY <2>2, <2>3, <2>4
  <2>5. CASE p # k + 1
    <3>1. p \in 1 .. k /\ p \in 1 .. m
      BY <1>1, <2>1, <2>5
    <3>2. us[p].first < us[k + 1].first
      BY <1>1, <1>4, <2>1, <3>1
    <3>3. us[p].first \in Nat
      BY <1>2, <3>1
    <3> QED
      BY <2>2, <2>3, <3>2, <3>3
  <2> QED
    BY <2>4, <2>5
<1> HIDE DEF N
<1>5. Nat \subseteq N
  BY <1>3, <1>4, NatInd
<1>6. ASSUME NEW p \in 1 .. m, NEW q \in 1 .. m, p < q PROVE us[p].first < us[q].first
  <2>1. q - 1 \in Nat /\ (q - 1) + 1 = q /\ q <= m /\ p \in 1 .. q - 1
    BY <1>1, <1>6
  <2>2. q - 1 \in N
    BY <1>5, <2>1
  <2> QED
    BY <2>1, <2>2 DEF N
<1>7. i \in 1 .. m /\ j \in 1 .. m
  BY DEF m
<1>8. ~(i < j) /\ ~(j < i)
  BY <1>2, <1>6, <1>7
<1> QED
  BY <1>1, <1>7, <1>8

\* The row whose turn it is fits, so nothing is refused.
LEMMA RowAhead ==
    ASSUME Doc!WellFormed(doc), Merged, Translated, Filed, dstage = "reconcile", raw # <<>>
    PROVE  /\ Doc!Row1 = raw[1] /\ Doc!RowFits
           /\ raw[1] \in RowRec /\ raw[1].first = expect /\ raw[1].n >= 1
           /\ expect + raw[1].n - 1 <= Len(doc.para)
           /\ Rendered(raw[1]) /\ Mapped(raw[1])
<1>1. raw \in Seq(RowRec) /\ InLine(raw, expect) /\ After(raw, expect) = Len(doc.para) + 1
  BY DEF Translated
<1>2. \A k \in 1 .. Len(raw) : Rendered(raw[k]) /\ Mapped(raw[k])
  BY DEF Translated
<1>3. expect \in Nat
  BY DEF Filed
<1>4. raw[1].first = expect /\ raw[1].n \in Nat /\ raw[1].n >= 1 /\ raw[1] \in RowRec /\ expect + raw[1].n <= Len(doc.para) + 1
  BY <1>1, <1>3, LineTail
<1>5. Len(doc.para) \in Nat /\ Doc!N = Len(doc.para)
  BY Document
<1>6. 1 \in 1 .. Len(raw)
  <2>1. Len(raw) \in Nat /\ Len(raw) # 0
    BY <1>1, EmptySeq, LenProperties
  <2> QED
    BY <2>1
<1>7. Rendered(raw[1]) /\ Mapped(raw[1])
  BY <1>2, <1>6
<1>8. expect + raw[1].n - 1 <= Len(doc.para)
  BY <1>3, <1>4, <1>5
<1>9. raw[1].n > 1 => \E i \in Doc!UnitAt(expect) : units[i].last = expect + raw[1].n - 1
  <2> SUFFICES ASSUME raw[1].n > 1 PROVE \E i \in Doc!UnitAt(expect) : units[i].last = expect + raw[1].n - 1
    OBVIOUS
  <2>1. PICK i \in 1 .. Len(units) : units[i].first = raw[1].first /\ units[i].last = raw[1].first + raw[1].n - 1
    BY <1>7 DEF Mapped
  <2>2. DOMAIN units = 1 .. Len(units)
    BY LenProperties DEF Merged, Lined
  <2>3. i \in Doc!UnitAt(expect)
    BY <1>4, <2>1, <2>2 DEF Doc!UnitAt
  <2> QED
    BY <1>4, <2>1, <2>3
<1>10. Doc!Row1 = raw[1]
  BY DEF Doc!Row1
<1>11. Doc!RowFits
  BY <1>4, <1>5, <1>8, <1>9, <1>10 DEF Doc!RowFits
<1> QED
  BY <1>4, <1>7, <1>8, <1>10, <1>11

FinalOwn(f) == "torn" \notin Faults => f.english \in {{}, f.first .. f.last}

\* Reconciling a row leaves the rest in line, whatever is filed for it.
LEMMA ReconciledKeeps ==
    ASSUME Doc!WellFormed(doc), Merged, Translated, Filed, dstage = "reconcile", raw # <<>>,
           NEW news \in Seq(FinalRec), \A k \in 1 .. Len(news) : FinalOwn(news[k]), Doc!Reconciled(news)
    PROVE  Translated' /\ Filed' /\ doc' = doc /\ units' = units /\ unit' = unit /\ dstage' = dstage
<1>1. doc' = doc /\ units' = units /\ unit' = unit /\ dstage' = dstage
  BY DEF Doc!Reconciled
<1>2. Doc!Row1 = raw[1] /\ raw[1] \in RowRec /\ raw[1].n >= 1
  BY RowAhead
<1>3. finals' = finals \o news /\ expect' = expect + raw[1].n /\ raw' = Tail(raw)
  BY <1>2 DEF Doc!Reconciled
<1>4. expect \in Nat \ {0} /\ finals \in Seq(FinalRec)
  BY DEF Filed
<1>5. raw[1].n \in Nat
  BY <1>2 DEF RowRec
<1>6. expect' \in Nat \ {0}
  BY <1>2, <1>3, <1>4, <1>5
<1>7. raw \in Seq(RowRec) /\ InLine(raw, expect) /\ After(raw, expect) = Len(doc.para) + 1
  BY DEF Translated
<1>8. Translated'
  <2>1. expect \in Nat
    BY <1>4
  <2>2. InLine(Tail(raw), expect + raw[1].n) /\ After(Tail(raw), expect + raw[1].n) = Len(doc.para) + 1
    BY <1>7, <2>1, LineTail
  <2>3. Tail(raw) \in Seq(RowRec) /\ Len(Tail(raw)) = Len(raw) - 1 /\ Len(raw) \in Nat
    BY <1>7
  <2>4. \A k \in 1 .. Len(raw) - 1 : Tail(raw)[k] = raw[k + 1]
    BY <1>7
  <2>5. \A k \in 1 .. Len(raw) : Rendered(raw[k]) /\ Mapped(raw[k])
    BY DEF Translated
  <2>6. ASSUME NEW k \in 1 .. Len(raw) - 1 PROVE Rendered(Tail(raw)[k]) /\ Mapped(Tail(raw)[k])
    <3>1. k + 1 \in 1 .. Len(raw)
      BY <2>3
    <3> QED
      BY <2>4, <2>5, <3>1
  <2>7. \A k \in 1 .. Len(raw') : Rendered(raw'[k]) /\ Mapped(raw'[k])
    BY <1>3, <2>3, <2>6
  <2> QED
    BY <1>1, <1>3, <2>2, <2>3, <2>7, RowsAfter
<1>9. Filed'
  <2> DEFINE fs == finals \o news
             p == Len(finals)
             q == Len(news)
  <2>1. p \in Nat /\ q \in Nat
    BY <1>4, LenProperties
  <2>2. fs \in Seq(FinalRec) /\ Len(fs) = p + q
    BY <1>4
  <2>3. \A k \in 1 .. p + q : fs[k] = IF k <= p THEN finals[k] ELSE news[k - p]
    BY <1>4
  <2> HIDE DEF fs, p, q
  <2>4. ASSUME "torn" \notin Faults, NEW k \in 1 .. p + q PROVE fs[k].english \in {{}, fs[k].first .. fs[k].last}
    <3>1. CASE k <= p
      <4>1. k \in 1 .. p /\ fs[k] = finals[k]
        BY <2>1, <2>3, <3>1
      <4> QED
        BY <2>4, <4>1 DEF Filed, p
    <3>2. CASE ~(k <= p)
      <4>1. k - p \in 1 .. q /\ fs[k] = news[k - p]
        BY <2>1, <2>3, <3>2
      <4> QED
        BY <2>4, <4>1 DEF FinalOwn, q
    <3> QED
      BY <3>1, <3>2
  <2>5. finals' = fs
    BY <1>3 DEF fs
  <2> QED
    BY <1>6, <2>2, <2>4, <2>5 DEF Filed
<1> QED
  BY <1>1, <1>8, <1>9

LEMMA FinalIs ==
    ASSUME NEW a \in Nat, NEW b \in Nat, NEW e \in SUBSET Nat, NEW c \in Nat
    PROVE  LET f == Doc!Final(a, b, e, c)
           IN f \in FinalRec /\ f.first = a /\ f.last = b /\ f.english = e
BY DEF Doc!Final, FinalRec

LEMMA SaidNat == ASSUME NEW text \in Seq(Nat) PROVE Doc!Said(text) \in SUBSET Nat
<1>1. DOMAIN text = 1 .. Len(text)
  BY LenProperties
<1>2. \A i \in 1 .. Len(text) : text[i] \in Nat
  OBVIOUS
<1> QED
  BY <1>1, <1>2 DEF Doc!Said

LEMMA SegmentNat == ASSUME NEW text \in Seq(Nat), NEW k PROVE Doc!Segment(text, k) \in SUBSET Nat
<1>1. DOMAIN text = 1 .. Len(text)
  BY LenProperties
<1>2. \A i \in 1 .. Len(text) : text[i] \in Nat
  OBVIOUS
<1> QED
  BY <1>1, <1>2 DEF Doc!Segment

\* Reconciliation files the English of a row under its own sentences.
LEMMA ReconcileKeeps ==
    ASSUME Doc!WellFormed(doc), Merged, Translated, Filed,
           Doc!SplitRow \/ Doc!SingleRow \/ Doc!FusedRow \/ Doc!ReconcileEnd
    PROVE  Translated' /\ Filed' /\ doc' = doc /\ units' = units /\ unit' = unit
           /\ dstage = "reconcile" /\ dstage' \in {"reconcile", "measure"}
<1>1. dstage = "reconcile"
  BY DEF Doc!SplitRow, Doc!SingleRow, Doc!FusedRow, Doc!ReconcileEnd
<1> DEFINE r == raw[1]
<1>2. ASSUME raw # <<>>
      PROVE  /\ Doc!Row1 = r /\ Doc!RowFits /\ r \in RowRec /\ r.first = expect /\ r.n >= 1
             /\ expect + r.n - 1 <= Len(doc.para) /\ Rendered(r) /\ Mapped(r)
  BY <1>1, <1>2, RowAhead
<1>3. Len(doc.para) \in Nat /\ Doc!N = Len(doc.para)
  BY Document
<1>4. \A s, t \in 1 .. Len(doc.para) : doc.tokens[s, t] \in Nat
  BY Document
<1>5. expect \in Nat \ {0}
  BY DEF Filed
<1> HIDE DEF r
<1>6. ASSUME Doc!SplitRow PROVE Translated' /\ Filed' /\ doc' = doc /\ units' = units /\ unit' = unit /\ dstage' = dstage
  <2> DEFINE news == [k \in 1 .. r.n |->
                        LET s == expect + k - 1 IN Doc!Final(s, s, Doc!Segment(r.text, k), doc.tokens[s, s])]
  <2>1. raw # <<>>
    BY <1>6 DEF Doc!SplitRow
  <2>2. Doc!Row1 = r /\ r \in RowRec /\ r.first = expect /\ expect + r.n - 1 <= Len(doc.para) /\ Rendered(r)
    BY <1>2, <2>1
  <2>3. Doc!Reconciled(news) /\ Doc!Splits(r.text, r.n)
    BY <1>6, <2>2 DEF Doc!SplitRow
  <2>4. r.n \in Nat /\ r.text \in Seq(Nat)
    BY <2>2 DEF RowRec
  <2>5. ASSUME NEW k \in 1 .. r.n PROVE news[k] \in FinalRec /\ FinalOwn(news[k])
    <3> DEFINE s == expect + k - 1
    <3>1. s \in 1 .. Len(doc.para) /\ s \in Nat
      BY <1>3, <1>5, <2>2, <2>4
    <3>2. doc.tokens[s, s] \in Nat
      BY <1>4, <3>1
    <3>3. Doc!Segment(r.text, k) \in SUBSET Nat
      BY <2>4, SegmentNat
    <3>4. "torn" \notin Faults => Doc!Segment(r.text, k) = {s}
      BY <2>2, <2>3 DEF Rendered
    <3>5. news[k] = Doc!Final(s, s, Doc!Segment(r.text, k), doc.tokens[s, s])
      OBVIOUS
    <3>6. {s} = s .. s
      BY <3>1
    <3> HIDE DEF s, news
    <3> DEFINE e == Doc!Segment(r.text, k)
               c == doc.tokens[s, s]
    <3>8. e \in SUBSET Nat /\ c \in Nat
      BY <3>2, <3>3
    <3> HIDE DEF e, c
    <3>9. LET f == Doc!Final(s, s, e, c) IN f \in FinalRec /\ f.first = s /\ f.last = s /\ f.english = e
      BY <3>1, <3>8, FinalIs
    <3>7. /\ Doc!Final(s, s, Doc!Segment(r.text, k), doc.tokens[s, s]) \in FinalRec
          /\ Doc!Final(s, s, Doc!Segment(r.text, k), doc.tokens[s, s]).first = s
          /\ Doc!Final(s, s, Doc!Segment(r.text, k), doc.tokens[s, s]).last = s
          /\ Doc!Final(s, s, Doc!Segment(r.text, k), doc.tokens[s, s]).english = Doc!Segment(r.text, k)
      BY <3>9 DEF e, c
    <3> QED
      BY <3>4, <3>5, <3>6, <3>7 DEF FinalOwn
  <2>6. news \in Seq(FinalRec) /\ Len(news) = r.n
    <3>1. news \in [1 .. r.n -> FinalRec]
      BY <2>5
    <3> HIDE DEF news
    <3> QED
      BY <2>4, <3>1, FunIsSeq
  <2> HIDE DEF news
  <2>7. \A k \in 1 .. Len(news) : FinalOwn(news[k])
    BY <2>5, <2>6
  <2>8. news \in Seq(FinalRec)
    BY <2>6
  <2> QED
    BY <1>1, <2>1, <2>3, <2>7, <2>8, ReconciledKeeps
<1>7. ASSUME NEW b \in Nat, NEW c \in Nat, raw # <<>>, b = expect + r.n - 1,
             Doc!Reconciled(<<Doc!Final(expect, b, Doc!Said(r.text), c)>>)
      PROVE  Translated' /\ Filed' /\ doc' = doc /\ units' = units /\ unit' = unit /\ dstage' = dstage
  <2> DEFINE f == Doc!Final(expect, b, Doc!Said(r.text), c)
  <2>1. r \in RowRec /\ r.first = expect /\ Rendered(r)
    BY <1>2, <1>7
  <2>2. r.text \in Seq(Nat)
    BY <2>1 DEF RowRec
  <2>3. Doc!Said(r.text) \in SUBSET Nat
    BY <2>2, SaidNat
  <2>4. Doc!Said(r.text) \in {{}, expect .. b}
    BY <1>7, <2>1 DEF Rendered
  <2>5. f \in FinalRec /\ f.first = expect /\ f.last = b /\ f.english = Doc!Said(r.text)
    BY <1>5, <2>3, FinalIs
  <2> HIDE DEF f
  <2>6. FinalOwn(f)
    BY <2>4, <2>5 DEF FinalOwn
  <2>7. <<f>> \in Seq(FinalRec) /\ Len(<<f>>) = 1 /\ <<f>>[1] = f
    BY <2>5
  <2>8. \A k \in 1 .. Len(<<f>>) : FinalOwn(<<f>>[k])
    BY <2>6, <2>7
  <2>9. <<f>> \in Seq(FinalRec)
    BY <2>7
  <2>10. Doc!Reconciled(<<f>>)
    BY <1>7 DEF f
  <2> QED
    BY <1>1, <1>7, <2>8, <2>9, <2>10, ReconciledKeeps
<1>8. ASSUME Doc!SingleRow PROVE Translated' /\ Filed' /\ doc' = doc /\ units' = units /\ unit' = unit /\ dstage' = dstage
  <2>1. raw # <<>>
    BY <1>8 DEF Doc!SingleRow
  <2>2. Doc!Row1 = r /\ expect + r.n - 1 <= Len(doc.para)
    BY <1>2, <2>1
  <2>3. Doc!Reconciled(<<Doc!Final(expect, expect, Doc!Said(r.text), doc.tokens[expect, expect])>>)
    BY <1>8, <2>2 DEF Doc!SingleRow
  <2>6. r.n = 1
    BY <1>8, <2>2 DEF Doc!SingleRow
  <2>4. expect \in 1 .. Len(doc.para) /\ expect \in Nat /\ expect = expect + r.n - 1
    BY <1>3, <1>5, <2>2, <2>6
  <2>5. doc.tokens[expect, expect] \in Nat
    BY <1>4, <2>4
  <2> QED
    BY <1>7, <2>1, <2>3, <2>4, <2>5
<1>9. ASSUME Doc!FusedRow PROVE Translated' /\ Filed' /\ doc' = doc /\ units' = units /\ unit' = unit /\ dstage' = dstage
  <2>1. raw # <<>>
    BY <1>9 DEF Doc!FusedRow
  <2>2. Doc!Row1 = r /\ r.first = expect /\ Mapped(r)
    BY <1>2, <2>1
  <2>3. r.n > 1
    BY <1>9, <2>2 DEF Doc!FusedRow
  <2>4. PICK i \in Doc!UnitAt(expect) : Doc!Reconciled(<<Doc!Final(expect, units[i].last, Doc!Said(r.text), units[i].count)>>)
    BY <1>9, <2>2 DEF Doc!FusedRow
  <2>5. PICK j \in 1 .. Len(units) : units[j].first = expect /\ units[j].last = expect + r.n - 1
    BY <2>2, <2>3 DEF Mapped
  <2>6. Lined(units)
    BY DEF Merged
  <2>7. i \in 1 .. Len(units) /\ units[i].first = expect
    <3>1. DOMAIN units = 1 .. Len(units)
      BY <2>6, LenProperties DEF Lined
    <3> QED
      BY <3>1 DEF Doc!UnitAt
  <2>8. i = j
    BY <2>5, <2>6, <2>7, LinedRises
  <2>9. units[i] \in UnitRec
    BY <2>6, <2>7 DEF Lined, Cut
  <2>10. units[i].last \in Nat /\ units[i].count \in Nat /\ units[i].last = expect + r.n - 1
    BY <2>5, <2>8, <2>9 DEF UnitRec
  <2> QED
    BY <1>7, <2>1, <2>4, <2>10
<1>10. ASSUME Doc!ReconcileEnd
       PROVE  Translated' /\ Filed' /\ doc' = doc /\ units' = units /\ unit' = unit /\ dstage' = "measure"
  <2>1. doc' = doc /\ units' = units /\ unit' = unit /\ raw' = raw /\ expect' = expect /\ finals' = finals
    BY <1>10 DEF Doc!ReconcileEnd
  <2>2. raw = <<>>
    BY <1>2, <1>10 DEF Doc!ReconcileEnd
  <2>3. After(raw, expect) = Len(doc.para) + 1 /\ After(raw, expect) = expect
    BY <1>1, <2>2 DEF Translated, After
  <2>4. dstage' = "measure"
    BY <1>3, <1>10, <2>2, <2>3 DEF Doc!ReconcileEnd
  <2>5. Translated'
    BY <2>4 DEF Translated
  <2>6. Filed'
    BY <2>1 DEF Filed
  <2> QED
    BY <2>1, <2>4, <2>5, <2>6
<1> QED
  BY <1>1, <1>6, <1>8, <1>9, <1>10

-----------------------------------------------------------------------------
(* What a run of sentences fills *)

Lengths(run) == [i \in 1 .. Len(run) |-> Doc!PackLength(run[i])]

\* The tokens of a run, added from its last sentence down.
LEMMA FillDown ==
    ASSUME NEW X, NEW run \in Seq(X)
    PROVE  \E g : SumDown(g, Lengths(run), Len(run)) /\ Doc!Fill(run) = g[1 .. Len(run)]
<1> DEFINE D == DOMAIN run
           Body(h) == h = [s \in SUBSET D |-> IF s = {} THEN 0
                             ELSE Doc!PackLength(run[Top(s)]) + h[s \ {Top(s)}]]
<1>1. D = 1 .. Len(run) /\ Len(run) \in Nat
  BY LenProperties
<1>2. ASSUME NEW h PROVE Body(h) <=> SumDown(h, Lengths(run), Len(run))
  <2>1. \A s \in SUBSET D : s # {} => Lengths(run)[Top(s)] = Doc!PackLength(run[Top(s)])
    <3> SUFFICES ASSUME NEW s \in SUBSET D, s # {} PROVE Lengths(run)[Top(s)] = Doc!PackLength(run[Top(s)])
      OBVIOUS
    <3>1. Top(s) \in 1 .. Len(run)
      BY <1>1, TopIn
    <3> QED
      BY <3>1 DEF Lengths
  <2> DEFINE v == Lengths(run)
  <2> HIDE DEF v, D
  <2>2. [s \in SUBSET D |-> IF s = {} THEN 0 ELSE Doc!PackLength(run[Top(s)]) + h[s \ {Top(s)}]]
        = [s \in SUBSET D |-> IF s = {} THEN 0 ELSE v[Top(s)] + h[s \ {Top(s)}]]
    BY <2>1 DEF v
  <2> QED
    BY <1>1, <2>2, Zenon DEF SumDown, v
<1>3. \E h : Body(h)
  <2>1. \E h : SumDown(h, Lengths(run), Len(run))
    BY <1>1, DownExists
  <2> HIDE DEF Body
  <2> QED
    BY <1>2, <2>1
<1> DEFINE g == CHOOSE h : Body(h)
<1>4. Body(g)
  <2> HIDE DEF Body
  <2> QED
    BY <1>3
<1>5. Doc!Fill(run) = g[D]
  BY DEF Doc!Fill, Doc!FoldLeft, Doc!MapThenFoldSet, Doc!Max, Top
<1>6. SumDown(g, Lengths(run), Len(run))
  <2> HIDE DEF Body, g
  <2> QED
    BY <1>2, <1>4
<1> HIDE DEF g, D
<1>7. Doc!Fill(run) = g[1 .. Len(run)]
  BY <1>1, <1>5
<1> QED
  BY <1>6, <1>7

\* The tokens of a run in one rendering.
NameSum(run, name) == Doc!FoldLeft(LAMBDA sum, f : lens[f][name] + sum, 0, run)

\* The same for one rendering of it.
LEMMA NameDown ==
    ASSUME NEW X, NEW run \in Seq(X), NEW name
    PROVE  \E g : /\ SumDown(g, [i \in 1 .. Len(run) |-> lens[run[i]][name]], Len(run))
                  /\ NameSum(run, name) = g[1 .. Len(run)]
<1> DEFINE D == DOMAIN run
           v == [i \in 1 .. Len(run) |-> lens[run[i]][name]]
           Body(h) == h = [s \in SUBSET D |-> IF s = {} THEN 0
                             ELSE lens[run[Top(s)]][name] + h[s \ {Top(s)}]]
<1>1. D = 1 .. Len(run) /\ Len(run) \in Nat
  BY LenProperties
<1>2. ASSUME NEW h PROVE Body(h) <=> SumDown(h, v, Len(run))
  <2>1. \A s \in SUBSET D : s # {} => v[Top(s)] = lens[run[Top(s)]][name]
    <3> SUFFICES ASSUME NEW s \in SUBSET D, s # {} PROVE v[Top(s)] = lens[run[Top(s)]][name]
      OBVIOUS
    <3>1. Top(s) \in 1 .. Len(run)
      BY <1>1, TopIn
    <3> QED
      BY <3>1
  <2> HIDE DEF v, D
  <2>2. [s \in SUBSET D |-> IF s = {} THEN 0 ELSE lens[run[Top(s)]][name] + h[s \ {Top(s)}]]
        = [s \in SUBSET D |-> IF s = {} THEN 0 ELSE v[Top(s)] + h[s \ {Top(s)}]]
    BY <2>1
  <2> QED
    BY <1>1, <2>2, Zenon DEF SumDown, v
<1>3. \E h : Body(h)
  <2>1. \E h : SumDown(h, v, Len(run))
    BY <1>1, DownExists
  <2> HIDE DEF Body, v
  <2> QED
    BY <1>2, <2>1
<1> DEFINE g == CHOOSE h : Body(h)
<1>4. Body(g)
  <2> HIDE DEF Body
  <2> QED
    BY <1>3
<1>5. NameSum(run, name) = g[D]
  BY DEF NameSum, Doc!FoldLeft, Doc!MapThenFoldSet, Doc!Max, Top
<1>6. SumDown(g, v, Len(run))
  <2> HIDE DEF Body, g, v
  <2> QED
    BY <1>2, <1>4
<1> HIDE DEF g, D
<1>7. NameSum(run, name) = g[1 .. Len(run)]
  BY <1>1, <1>5
<1> QED
  BY <1>6, <1>7

LEMMA FillEmpty == Doc!Fill(<<>>) = 0
<1>1. <<>> \in Seq(Nat)
  OBVIOUS
<1>2. Len(<<>>) = 0
  BY EmptySeq
<1>3. PICK g : SumDown(g, Lengths(<<>>), Len(<<>>)) /\ Doc!Fill(<<>>) = g[1 .. Len(<<>>)]
  BY <1>1, FillDown
<1>4. \A n \in Nat : n = 0 => (SumDown(g, Lengths(<<>>), n) => g[1 .. n] = 0)
  BY DownAt
<1> QED
  BY <1>2, <1>3, <1>4

\* A sentence more adds its length.
LEMMA FillAppend ==
    ASSUME NEW X, NEW run \in Seq(X), NEW f \in X
    PROVE  Doc!Fill(Append(run, f)) = Doc!PackLength(f) + Doc!Fill(run)
<1> DEFINE n == Len(run)
           m == n + 1
           longer == Append(run, f)
<1>1. n \in Nat /\ m \in Nat /\ n <= m /\ m \in 1 .. m /\ m - 1 = n
  BY LenProperties
<1>2. longer \in Seq(X) /\ Len(longer) = m /\ longer[m] = f /\ \A i \in 1 .. n : longer[i] = run[i]
  OBVIOUS
<1> HIDE DEF longer
<1>3. PICK g : SumDown(g, Lengths(run), n) /\ Doc!Fill(run) = g[1 .. n]
  BY FillDown
<1>4. PICK h : SumDown(h, Lengths(longer), m) /\ Doc!Fill(longer) = h[1 .. m]
  BY <1>2, FillDown
<1>5. \A i \in 1 .. n : Lengths(run)[i] = Lengths(longer)[i]
  <2> TAKE i \in 1 .. n
  <2>1. i \in 1 .. m
    BY <1>1
  <2> QED
    BY <1>2, <2>1 DEF Lengths
<1>6. Lengths(longer)[m] = Doc!PackLength(f)
  BY <1>1, <1>2 DEF Lengths
<1> HIDE DEF n, m
<1>7. g[1 .. n] = h[1 .. n]
  <2> DEFINE v == Lengths(run)
             w == Lengths(longer)
  <2>1. SumDown(g, v, n) /\ SumDown(h, w, m) /\ Alike(v, w, n)
    BY <1>3, <1>4, <1>5 DEF Alike
  <2> HIDE DEF v, w
  <2>2. n \in Nat /\ m \in Nat /\ n <= m
    BY <1>1
  <2> QED
    BY <2>1, <2>2, DownSame
<1>8. h[1 .. m] = Lengths(longer)[m] + h[1 .. m - 1]
  BY <1>1, <1>4, DownAt
<1> QED
  BY <1>1, <1>3, <1>4, <1>6, <1>7, <1>8 DEF longer

Measured == lens \in [1 .. Len(finals) -> [native : Nat, translated : Nat]]

\* The length a sentence is packed by is at least that of either rendering.
LEMMA LengthOver ==
    ASSUME Measured, NEW f \in 1 .. Len(finals)
    PROVE  /\ lens[f].native \in Nat /\ lens[f].translated \in Nat /\ Doc!PackLength(f) \in Nat
           /\ lens[f].native <= Doc!PackLength(f) /\ lens[f].translated <= Doc!PackLength(f)
<1>1. lens[f] \in [native : Nat, translated : Nat]
  BY DEF Measured
<1> QED
  BY <1>1 DEF Doc!PackLength, Doc!Longer

\* A run within the budget is so in both renderings.
LEMMA FillNat ==
    ASSUME Measured, NEW run \in Seq(Nat), \A i \in 1 .. Len(run) : run[i] \in 1 .. Len(finals)
    PROVE  Doc!Fill(run) \in Nat /\ (Doc!Fill(run) <= Budget => Doc!InBudget(run))
<1> DEFINE n == Len(run)
<1>1. n \in Nat
  BY LenProperties
<1>2. PICK h : SumDown(h, Lengths(run), n) /\ Doc!Fill(run) = h[1 .. n]
  BY FillDown
<1> HIDE DEF n
<1>3. \A i \in 1 .. n : Lengths(run)[i] = Doc!PackLength(run[i]) /\ Lengths(run)[i] \in Nat
                        /\ lens[run[i]].native \in Nat /\ lens[run[i]].translated \in Nat
                        /\ lens[run[i]].native <= Lengths(run)[i] /\ lens[run[i]].translated <= Lengths(run)[i]
  <2> TAKE i \in 1 .. n
  <2>1. run[i] \in 1 .. Len(finals)
    BY DEF n
  <2>2. Lengths(run)[i] = Doc!PackLength(run[i])
    BY DEF Lengths, n
  <2> QED
    BY <2>1, <2>2, LengthOver
<1>4. h[1 .. n] \in Nat
  <2>1. \A i \in 1 .. n : Lengths(run)[i] \in Nat /\ Lengths(run)[i] <= Lengths(run)[i]
    BY <1>3
  <2> QED
    BY <1>1, <1>2, <2>1, DownLess
<1>5. ASSUME NEW name \in {"native", "translated"}
      PROVE  NameSum(run, name) <= Doc!Fill(run)
             /\ NameSum(run, name) \in Nat
  <2> DEFINE v == [i \in 1 .. n |-> lens[run[i]][name]]
  <2>1. PICK g : SumDown(g, v, n) /\ NameSum(run, name) = g[1 .. n]
    <3>1. \E g : /\ SumDown(g, [i \in 1 .. Len(run) |-> lens[run[i]][name]], Len(run))
                  /\ NameSum(run, name) = g[1 .. Len(run)]
      BY NameDown
    <3> QED
      BY <3>1 DEF n
  <2>2. \A i \in 1 .. n : v[i] \in Nat /\ Lengths(run)[i] \in Nat /\ v[i] <= Lengths(run)[i]
    BY <1>3
  <2> HIDE DEF v
  <2>3. g[1 .. n] \in Nat /\ g[1 .. n] <= h[1 .. n]
    BY <1>1, <1>2, <2>1, <2>2, DownLess
  <2> QED
    BY <1>2, <2>1, <2>3
<1>6. Doc!Fill(run) <= Budget => Doc!InBudget(run)
  <2> SUFFICES ASSUME Doc!Fill(run) <= Budget, NEW name \in {"native", "translated"}
               PROVE  NameSum(run, name) <= Budget
    BY DEF Doc!InBudget, NameSum
  <2> DEFINE total == NameSum(run, name)
  <2>1. total <= Doc!Fill(run) /\ total \in Nat
    BY <1>5
  <2>2. Doc!Fill(run) \in Nat /\ Budget \in Nat
    BY <1>2, <1>4, TextsAssumption
  <2> HIDE DEF total
  <2>3. total <= Budget
    BY <2>1, <2>2
  <2> QED
    BY <2>3 DEF total
<1> QED
  BY <1>2, <1>4, <1>6

-----------------------------------------------------------------------------
(* Packing *)

LEMMA SetOf == ASSUME NEW X, NEW s \in Seq(X) PROVE Doc!ToSet(s) = {s[i] : i \in 1 .. Len(s)}
<1>1. DOMAIN s = 1 .. Len(s)
  BY LenProperties
<1> QED
  BY <1>1 DEF Doc!ToSet

\* What a run of consecutive sentences is.
LEMMA RunTypes ==
    ASSUME NEW run, RunOf(run)
    PROVE  /\ run \in Seq(Nat) /\ Len(run) \in Nat /\ (run = <<>> <=> Len(run) = 0)
           /\ \A k \in 1 .. Len(run) : run[k] \in 1 .. Len(finals)
           /\ \A k \in 1 .. Len(run) - 1 : run[k + 1] = run[k] + 1
<1>1. run \in Seq(Nat)
  BY DEF RunOf
<1>2. Len(run) \in Nat /\ (run = <<>> <=> Len(run) = 0)
  BY <1>1, EmptySeq, LenProperties
<1> QED
  BY <1>1, <1>2 DEF RunOf, Doc!Run

\* A run and the next sentence.
LEMMA RunAppend ==
    ASSUME NEW run, RunOf(run), NEW f \in 1 .. Len(finals), run # <<>> => f = run[Len(run)] + 1
    PROVE  LET more == Append(run, f)
           IN /\ RunOf(more) /\ more # <<>> /\ more[Len(more)] = f
              /\ more[1] = IF run = <<>> THEN f ELSE run[1]
              /\ Doc!ToSet(more) = Doc!ToSet(run) \cup {f}
<1> DEFINE n == Len(run)
           more == Append(run, f)
<1>1. run \in Seq(Nat)
  BY RunTypes
<1>2. n \in Nat /\ (run = <<>> <=> n = 0)
  BY RunTypes
<1>3. f \in Nat
  OBVIOUS
<1>4. more \in Seq(Nat) /\ Len(more) = n + 1 /\ more[n + 1] = f
  BY <1>1, <1>3
<1>5. \A k \in 1 .. n : more[k] = run[k]
  BY <1>1
<1>6. \A k \in 1 .. n : run[k] \in 1 .. Len(finals)
  BY RunTypes
<1>7. \A k \in 1 .. n - 1 : run[k + 1] = run[k] + 1
  BY RunTypes
<1>8. more # <<>>
  <2>1. Len(more) = n + 1 /\ n + 1 # 0
    BY <1>2, <1>4
  <2>2. Len(<<>>) = 0
    BY EmptySeq
  <2> HIDE DEF more, n
  <2> QED
    BY <2>1, <2>2
<1> HIDE DEF n, more
<1>9. ASSUME NEW k \in 1 .. n + 1 PROVE more[k] \in 1 .. Len(finals)
  <2>1. k \in 1 .. n \/ k = n + 1
    BY <1>2
  <2> QED
    BY <1>4, <1>5, <1>6, <2>1
<1>10. ASSUME NEW k \in 1 .. (n + 1) - 1 PROVE more[k + 1] = more[k] + 1
  <2>1. CASE k = n
    <3>1. n \in 1 .. n /\ run # <<>>
      BY <1>2, <2>1
    <3>2. f = run[n] + 1
      BY <3>1 DEF n
    <3> QED
      BY <1>4, <1>5, <2>1, <3>1, <3>2
  <2>2. CASE k # n
    <3>1. k \in 1 .. n - 1 /\ k \in 1 .. n /\ k + 1 \in 1 .. n
      BY <1>2, <2>2
    <3> QED
      BY <1>5, <1>7, <3>1
  <2> QED
    BY <2>1, <2>2
<1>11. RunOf(more)
  BY <1>4, <1>9, <1>10 DEF RunOf, Doc!Run
<1>12. more[1] = IF run = <<>> THEN f ELSE run[1]
  <2>1. run # <<>> => 1 \in 1 .. n
    BY <1>2
  <2>2. run = <<>> => n + 1 = 1
    BY <1>2
  <2> QED
    BY <1>4, <1>5, <2>1, <2>2
<1>13. Doc!ToSet(more) = Doc!ToSet(run) \cup {f}
  <2>1. Doc!ToSet(more) = {more[k] : k \in 1 .. n + 1}
    BY <1>4, SetOf
  <2>2. Doc!ToSet(run) = {run[k] : k \in 1 .. n}
    BY <1>1, SetOf DEF n
  <2>3. \A k \in 1 .. n + 1 : k \in 1 .. n \/ k = n + 1
    BY <1>2
  <2>4. n + 1 \in 1 .. n + 1 /\ \A k \in 1 .. n : k \in 1 .. n + 1
    BY <1>2
  <2> QED
    BY <1>4, <1>5, <2>1, <2>2, <2>3, <2>4
<1> QED
  BY <1>4, <1>8, <1>11, <1>12, <1>13 DEF more

\* A run goes up by one, so its first is not past its last.
LEMMA RunFirst ==
    ASSUME NEW run, RunOf(run), run # <<>>
    PROVE  run[1] \in Nat /\ run[Len(run)] \in Nat \ {0} /\ run[1] <= run[Len(run)] /\ run[Len(run)] <= Len(finals)
<1> DEFINE n == Len(run)
           N == {k \in Nat : k + 1 <= n => run[1] <= run[k + 1]}
<1>1. n \in Nat /\ n # 0
  BY RunTypes
<1>2. \A k \in 1 .. n : run[k] \in 1 .. Len(finals)
  BY RunTypes
<1>3. \A k \in 1 .. n - 1 : run[k + 1] = run[k] + 1
  BY RunTypes
<1> HIDE DEF n
<1>4. 0 \in N
  <2>1. 1 \in 1 .. n /\ 0 + 1 = 1
    BY <1>1
  <2>2. run[1] \in 1 .. Len(finals)
    BY <1>2, <2>1
  <2> QED
    BY <2>1, <2>2
<1>5. ASSUME NEW k \in Nat, k \in N PROVE k + 1 \in N
  <2> SUFFICES ASSUME (k + 1) + 1 <= n PROVE run[1] <= run[(k + 1) + 1]
    OBVIOUS
  <2>1. k + 1 \in 1 .. n - 1 /\ k + 1 \in 1 .. n /\ k + 1 <= n /\ 1 \in 1 .. n
    BY <1>1
  <2>2. run[1] <= run[k + 1] /\ run[(k + 1) + 1] = run[k + 1] + 1
    BY <1>3, <1>5, <2>1
  <2>3. run[1] \in 1 .. Len(finals) /\ run[k + 1] \in 1 .. Len(finals)
    BY <1>2, <2>1
  <2> QED
    BY <2>2, <2>3
<1> HIDE DEF N
<1>6. n - 1 \in N /\ (n - 1) + 1 = n
  BY <1>1, <1>4, <1>5, NatInd
<1>7. run[1] <= run[n]
  BY <1>1, <1>6 DEF N
<1>8. run[n] \in 1 .. Len(finals) /\ run[1] \in 1 .. Len(finals)
  BY <1>1, <1>2
<1> QED
  BY <1>7, <1>8 DEF n

\* The sentences that end a run and are repeated.
LEMMA SuffixRun ==
    ASSUME NEW run, RunOf(run), NEW k \in 1 .. Len(run)
    PROVE  LET t == Doc!Suffix(run, k)
           IN RunOf(t) /\ t # <<>> /\ t[Len(t)] = run[Len(run)] /\ Doc!ToSet(t) \subseteq Doc!ToSet(run)
<1> DEFINE n == Len(run)
           lo == n - k + 1
           t == SubSeq(run, lo, n)
<1>1. run \in Seq(Nat)
  BY RunTypes
<1>2. n \in Nat
  BY RunTypes
<1>3. \A i \in 1 .. n : run[i] \in 1 .. Len(finals)
  BY RunTypes
<1>4. \A i \in 1 .. n - 1 : run[i + 1] = run[i] + 1
  BY RunTypes
<1>5. k \in Nat /\ k >= 1 /\ k <= n /\ lo \in Nat /\ lo >= 1 /\ lo <= n
  BY <1>2
<1>6. t \in Seq(Nat) /\ Len(t) = k /\ \A i \in 1 .. k : t[i] = run[n - k + i]
  <2>1. lo \in 1 .. n + 1 /\ n \in 0 .. n /\ n - lo + 1 = k
    BY <1>2, <1>5
  <2>2. t \in Seq(Nat) /\ Len(t) = n - lo + 1 /\ \A i \in 1 .. n - lo + 1 : t[i] = run[lo + i - 1]
    <3> HIDE DEF lo
    <3> QED
      BY <1>1, <1>2, <1>5, <2>1
  <2>3. \A i \in 1 .. k : lo + i - 1 = n - k + i
    BY <1>2, <1>5
  <2> HIDE DEF t, lo
  <2> QED
    BY <2>1, <2>2, <2>3
<1>7. Doc!Suffix(run, k) = t
  BY DEF Doc!Suffix
<1>8. t # <<>>
  <2>1. Len(t) = k /\ k # 0
    BY <1>5, <1>6
  <2>2. Len(<<>>) = 0
    BY EmptySeq
  <2> HIDE DEF t, n
  <2> QED
    BY <2>1, <2>2
<1> HIDE DEF t, n
<1>9. ASSUME NEW i \in 1 .. k PROVE n - k + i \in 1 .. n /\ t[i] \in 1 .. Len(finals)
  BY <1>2, <1>3, <1>5, <1>6
<1>10. ASSUME NEW i \in 1 .. k - 1 PROVE t[i + 1] = t[i] + 1
  <2>1. i \in 1 .. k /\ i + 1 \in 1 .. k /\ n - k + (i + 1) = (n - k + i) + 1 /\ n - k + i \in 1 .. n - 1
    BY <1>2, <1>5
  <2>2. t[i] = run[n - k + i] /\ t[i + 1] = run[(n - k + i) + 1]
    BY <1>6, <2>1
  <2> QED
    BY <1>4, <2>1, <2>2
<1>11. RunOf(t)
  BY <1>6, <1>9, <1>10 DEF RunOf, Doc!Run
<1>12. t[k] = run[n]
  <2>1. k \in 1 .. k /\ n - k + k = n
    BY <1>2, <1>5
  <2> QED
    BY <1>6, <2>1
<1>13. Doc!ToSet(t) \subseteq Doc!ToSet(run)
  <2>1. Doc!ToSet(t) = {t[i] : i \in 1 .. k}
    BY <1>6, SetOf
  <2>2. Doc!ToSet(run) = {run[i] : i \in 1 .. n}
    BY <1>1, SetOf DEF n
  <2> QED
    BY <1>6, <1>9, <2>1, <2>2
<1> QED
  BY <1>6, <1>7, <1>8, <1>11, <1>12, <1>13 DEF n

\* What a passage repeats leaves room for the sentence that closed the one before.
LEMMA TailFits ==
    ASSUME Measured, NEW run, RunOf(run), NEW next \in 1 .. Len(finals), Doc!PackLength(next) <= Budget
    PROVE  LET t == Doc!TailOf(run, next)
           IN /\ RunOf(t) /\ Doc!ToSet(t) \subseteq Doc!ToSet(run)
              /\ Doc!Fill(t) \in Nat /\ Doc!Fill(t) + Doc!PackLength(next) <= Budget
              /\ t # <<>> => t[Len(t)] = run[Len(run)]
<1> DEFINE n == Len(run)
           room == Budget - Doc!PackLength(next)
           fits == {k \in 1 .. n : /\ Doc!Fill(Doc!Suffix(run, k)) <= room
                                   /\ k = 1 \/ Doc!Fill(Doc!Suffix(run, k)) <= PackOverlap}
           best == CHOOSE k \in fits : \A j \in fits : j <= k
           t == Doc!TailOf(run, next)
<1>1. t = IF PackOverlap = 0 \/ fits = {} THEN <<>> ELSE Doc!Suffix(run, best)
  BY DEF Doc!TailOf
<1>2. Doc!PackLength(next) \in Nat /\ Budget \in Nat
  BY LengthOver, TextsAssumption
<1>3. n \in Nat
  BY RunTypes
<1>4. CASE PackOverlap = 0 \/ fits = {}
  <2>1. t = <<>>
    BY <1>1, <1>4
  <2>2. <<>> \in Seq(Nat)
    OBVIOUS
  <2>3. Len(<<>>) = 0
    BY EmptySeq
  <2>4. RunOf(<<>>)
    BY <2>2, <2>3 DEF RunOf, Doc!Run
  <2>5. Doc!ToSet(<<>>) = {}
    <3>1. Doc!ToSet(<<>>) = {<<>>[i] : i \in 1 .. Len(<<>>)}
      BY <2>2, SetOf
    <3>2. 1 .. Len(<<>>) = {}
      BY <2>3
    <3> QED
      BY <3>1, <3>2
  <2> HIDE DEF t, fits, room
  <2>6. Doc!Fill(t) = 0
    BY <2>1, FillEmpty
  <2>7. Doc!Fill(t) \in Nat /\ Doc!Fill(t) + Doc!PackLength(next) <= Budget
    BY <1>2, <2>6
  <2>8. RunOf(t) /\ Doc!ToSet(t) \subseteq Doc!ToSet(run)
    BY <2>1, <2>4, <2>5
  <2> QED
    BY <2>1, <2>7, <2>8 DEF t
<1>5. CASE ~(PackOverlap = 0 \/ fits = {})
  <2>1. fits \in SUBSET (1 .. n) /\ fits # {}
    BY <1>5
  <2>2. \E k \in fits : \A j \in fits : j <= k
    <3> HIDE DEF fits, n
    <3>1. Top(fits) \in fits /\ \A j \in fits : Top(fits) >= j
      BY <1>3, <2>1, TopIn
    <3>2. \A j \in fits : j \in Nat
      BY <2>1
    <3> QED
      BY <3>1, <3>2
  <2>3. best \in fits
    <3> HIDE DEF fits
    <3> QED
      BY <2>2
  <2>4. best \in 1 .. n /\ Doc!Fill(Doc!Suffix(run, best)) <= room
    BY <2>3
  <2>5. t = Doc!Suffix(run, best)
    BY <1>1, <1>5
  <2> HIDE DEF best, fits, t, room, n
  <2>6. RunOf(t) /\ t # <<>> /\ t[Len(t)] = run[Len(run)] /\ Doc!ToSet(t) \subseteq Doc!ToSet(run)
    BY <2>4, <2>5, SuffixRun DEF n
  <2>7. t \in Seq(Nat) /\ \A i \in 1 .. Len(t) : t[i] \in 1 .. Len(finals)
    BY <2>6, RunTypes
  <2>8. Doc!Fill(t) \in Nat
    BY <2>7, FillNat
  <2>9. Doc!Fill(t) <= room
    BY <2>4, <2>5
  <2>10. Doc!Fill(t) + Doc!PackLength(next) <= Budget
    BY <1>2, <2>8, <2>9 DEF room
  <2> QED
    BY <2>6, <2>8, <2>10 DEF t
<1> QED
  BY <1>4, <1>5

LEMMA CitableNone == Citable(<<>>) /\ Ended(<<>>) = 0 /\ Quoted(<<>>) = {}
<1>1. <<>> \in Seq(PassRec)
  OBVIOUS
<1>2. Len(<<>>) = 0
  BY EmptySeq
<1>3. DOMAIN <<>> = {}
  BY EmptySeq
<1>4. Citable(<<>>)
  BY <1>1, <1>2 DEF Citable
<1> QED
  BY <1>3, <1>4 DEF Ended, Quoted

\* Passages end inside the document.
LEMMA EndedInside ==
    ASSUME NEW ps, Citable(ps), Len(finals) \in Nat
    PROVE  Ended(ps) \in Nat /\ Ended(ps) <= Len(finals)
<1>1. CASE ps = <<>>
  BY <1>1 DEF Ended
<1>2. CASE ps # <<>>
  <2>1. ps \in Seq(PassRec)
    BY DEF Citable
  <2>2. Len(ps) \in 1 .. Len(ps)
    <3>1. Len(ps) \in Nat /\ Len(ps) # 0
      BY <1>2, <2>1, EmptySeq, LenProperties
    <3> QED
      BY <3>1
  <2> DEFINE run == ps[Len(ps)].members
  <2>3. RunOf(run) /\ run # <<>>
    BY <2>2 DEF Citable
  <2>4. Ended(ps) = run[Len(run)]
    BY <1>2 DEF Ended
  <2> HIDE DEF run
  <2> QED
    BY <2>3, <2>4, RunFirst
<1> QED
  BY <1>1, <1>2

Cited(p) ==
    /\ p \in PassRec /\ p.members # <<>> /\ RunOf(p.members)
    /\ IF p.oversized THEN Len(p.members) = 1 ELSE Doc!Fill(p.members) <= Budget

\* One more passage that goes on from those before it.
LEMMA CitableNext ==
    ASSUME NEW ps, Citable(ps), NEW p, Cited(p), Follows(p.members, Ended(ps))
    PROVE  LET qs == ps \o <<p>>
           IN /\ Citable(qs) /\ Ended(qs) = p.members[Len(p.members)]
              /\ Quoted(qs) = Quoted(ps) \cup Doc!ToSet(p.members)
<1> DEFINE n == Len(ps)
           qs == ps \o <<p>>
<1>1. ps \in Seq(PassRec) /\ p \in PassRec
  BY DEF Citable, Cited
<1>2. n \in Nat
  BY <1>1, LenProperties
<1>3. ps = <<>> <=> n = 0
  BY <1>1, EmptySeq
<1>4. qs \in Seq(PassRec) /\ Len(qs) = n + 1 /\ qs[n + 1] = p
  BY <1>1
<1>5. \A k \in 1 .. n : qs[k] = ps[k]
  BY <1>1
<1>6. qs # <<>>
  <2>1. Len(qs) = n + 1 /\ n + 1 # 0
    BY <1>2, <1>4
  <2>2. Len(<<>>) = 0
    BY EmptySeq
  <2> HIDE DEF qs, n
  <2> QED
    BY <2>1, <2>2
<1>7. \A k \in 1 .. n :
        /\ ps[k].members # <<>> /\ RunOf(ps[k].members)
        /\ IF ps[k].oversized THEN Len(ps[k].members) = 1 ELSE Doc!Fill(ps[k].members) <= Budget
        /\ k > 1 => Follows(ps[k].members, ps[k - 1].members[Len(ps[k - 1].members)])
  BY DEF Citable
<1>8. DOMAIN ps = 1 .. n /\ DOMAIN qs = 1 .. n + 1
  <2>1. DOMAIN ps = 1 .. n
    BY <1>1, LenProperties
  <2>2. DOMAIN qs = 1 .. Len(qs)
    <3>1. qs \in Seq(PassRec)
      BY <1>4
    <3> HIDE DEF qs
    <3> QED
      BY <3>1, LenProperties
  <2> QED
    BY <1>4, <2>1, <2>2
<1> HIDE DEF n, qs
<1>9. ASSUME NEW k \in 1 .. n + 1
      PROVE  /\ qs[k].members # <<>> /\ RunOf(qs[k].members)
             /\ IF qs[k].oversized THEN Len(qs[k].members) = 1 ELSE Doc!Fill(qs[k].members) <= Budget
             /\ k > 1 => Follows(qs[k].members, qs[k - 1].members[Len(qs[k - 1].members)])
  <2>1. CASE k \in 1 .. n
    <3>1. k > 1 => k - 1 \in 1 .. n
      BY <1>2, <2>1
    <3>2. k > 1 => qs[k - 1] = ps[k - 1]
      BY <1>5, <3>1
    <3>3. qs[k] = ps[k]
      BY <1>5, <2>1
    <3> QED
      BY <1>7, <2>1, <3>2, <3>3
  <2>2. CASE k = n + 1
    <3>1. k > 1 => k - 1 = n /\ n \in 1 .. n
      BY <1>2, <2>2
    <3>2. k > 1 => qs[k - 1] = ps[n] /\ Ended(ps) = ps[n].members[Len(ps[n].members)]
      <4> SUFFICES ASSUME k > 1 PROVE qs[k - 1] = ps[n] /\ Ended(ps) = ps[n].members[Len(ps[n].members)]
        OBVIOUS
      <4>1. n # 0
        BY <1>2, <3>1
      <4> QED
        BY <1>3, <1>5, <3>1, <4>1 DEF Ended, n
    <3>3. qs[k] = p
      BY <1>4, <2>2
    <3> QED
      BY <3>2, <3>3 DEF Cited
  <2>3. k \in 1 .. n \/ k = n + 1
    BY <1>2
  <2> QED
    BY <2>1, <2>2, <2>3
<1>10. Citable(qs)
  BY <1>4, <1>9 DEF Citable
<1>11. Ended(qs) = p.members[Len(p.members)]
  BY <1>4, <1>6 DEF Ended
<1>12. Quoted(qs) = Quoted(ps) \cup Doc!ToSet(p.members)
  <2>1. \A k \in 1 .. n + 1 : k \in 1 .. n \/ k = n + 1
    BY <1>2
  <2>2. n + 1 \in 1 .. n + 1 /\ \A k \in 1 .. n : k \in 1 .. n + 1
    BY <1>2
  <2>3. Quoted(qs) = UNION {Doc!ToSet(qs[k].members) : k \in 1 .. n + 1}
    BY <1>8 DEF Quoted
  <2>4. Quoted(ps) = UNION {Doc!ToSet(ps[k].members) : k \in 1 .. n}
    BY <1>8 DEF Quoted
  <2>5. \A x : x \in Quoted(qs) <=> \E k \in 1 .. n + 1 : x \in Doc!ToSet(qs[k].members)
    BY <2>3
  <2>6. \A x : x \in Quoted(ps) <=> \E k \in 1 .. n : x \in Doc!ToSet(ps[k].members)
    BY <2>4
  <2> QED
    BY <1>4, <1>5, <2>1, <2>2, <2>5, <2>6
<1> QED
  BY <1>10, <1>11, <1>12 DEF qs

\* Nothing placed is lost when the passage in hand is closed.
LEMMA CloseSound ==
    ASSUME Packing(passages, cur), Len(finals) \in Nat
    PROVE  LET list == passages \o Doc!Closed(FALSE)
           IN /\ Citable(list) /\ Ended(list) = TurnAt(passages, cur) - 1
              /\ Quoted(list) = 1 .. TurnAt(passages, cur) - 1
<1>1. Citable(passages) /\ RunOf(cur) /\ Doc!Fill(cur) <= Budget
      /\ Quoted(passages) \cup Doc!ToSet(cur) = 1 .. TurnAt(passages, cur) - 1
  BY DEF Packing
<1>2. CASE cur = <<>>
  <2>1. Doc!Closed(FALSE) = <<>>
    BY <1>2 DEF Doc!Closed
  <2>2. passages \o <<>> = passages
    <3>1. passages \in Seq(PassRec)
      BY <1>1 DEF Citable
    <3> QED
      BY <3>1
  <2>3. TurnAt(passages, cur) = Ended(passages) + 1 /\ Ended(passages) \in Nat
    BY <1>1, <1>2, EndedInside DEF TurnAt
  <2>4. Doc!ToSet(cur) = {}
    BY <1>2, EmptySeq DEF Doc!ToSet
  <2>5. Ended(passages) = TurnAt(passages, cur) - 1
    BY <2>3
  <2> QED
    BY <1>1, <2>1, <2>2, <2>4, <2>5
<1>3. CASE cur # <<>>
  <2> DEFINE p == [members |-> cur, oversized |-> FALSE]
  <2>1. Doc!Closed(FALSE) = <<p>>
    BY <1>3 DEF Doc!Closed
  <2>2. p.members = cur /\ p.oversized = FALSE
    OBVIOUS
  <2>3. p \in PassRec
    <3>1. cur \in Seq(Nat)
      BY <1>1, RunTypes
    <3> QED
      BY <3>1 DEF PassRec
  <2> HIDE DEF p
  <2>4. Cited(p) /\ Follows(p.members, Ended(passages))
    BY <1>1, <1>3, <2>2, <2>3 DEF Cited, Packing
  <2>5. LET qs == passages \o <<p>>
        IN Citable(qs) /\ Ended(qs) = p.members[Len(p.members)] /\ Quoted(qs) = Quoted(passages) \cup Doc!ToSet(p.members)
    BY <1>1, <2>4, CitableNext
  <2>6. cur[Len(cur)] \in Nat
    BY <1>1, <1>3, RunFirst
  <2>7. TurnAt(passages, cur) - 1 = cur[Len(cur)]
    BY <1>3, <2>6 DEF TurnAt
  <2> QED
    BY <1>1, <2>1, <2>2, <2>5, <2>7
<1> QED
  BY <1>2, <1>3

\* The sentence whose turn it is follows the last one placed.
LEMMA TurnIs == Doc!Turn = TurnAt(passages, cur)
<1>1. CASE cur # <<>>
  BY <1>1 DEF Doc!Turn, TurnAt, Doc!Last
<1>2. CASE cur = <<>> /\ passages # <<>>
  BY <1>2 DEF Doc!Turn, TurnAt, Ended, Doc!Last
<1>3. CASE cur = <<>> /\ passages = <<>>
  <2>1. Doc!Turn = 1
    BY <1>3 DEF Doc!Turn
  <2>2. Ended(passages) = 0
    BY <1>3 DEF Ended
  <2> QED
    BY <1>3, <2>1, <2>2 DEF TurnAt
<1> QED
  BY <1>1, <1>2, <1>3

\* The tokens of a run by the lengths it is measured with.
FillIn(by, run) ==
    Doc!FoldLeft(LAMBDA sum, f : Doc!Longer(by[f].native, by[f].translated) + sum, 0, run)

LEMMA FillSame ==
    ASSUME lens' = lens
    PROVE  \A run : Doc!Fill(run)' = Doc!Fill(run)
<1> TAKE run
<1>1. Doc!Fill(run) = FillIn(lens, run)
  BY DEF Doc!Fill, FillIn, Doc!PackLength, Doc!FoldLeft, Doc!MapThenFoldSet
<1>2. Doc!Fill(run)' = FillIn(lens', run)
  BY DEF Doc!Fill, FillIn, Doc!PackLength, Doc!FoldLeft, Doc!MapThenFoldSet
<1> QED
  BY <1>1, <1>2

\* What a step of packing has to show.
LEMMA PacksAfter ==
    ASSUME finals' = finals, lens' = lens, Measured, dstage' = "pack", dstore' = <<>>,
           Packing(passages', cur'), fill' = Doc!Fill(cur')
    PROVE  Packs'
<1>1. \A run : Doc!Fill(run)' = Doc!Fill(run)
  BY FillSame
<1>2. Packing(passages, cur)'
  BY <1>1 DEF Packing, Citable, RunOf, Follows, Ended, Quoted, TurnAt
<1>3. Doc!Fill(cur)' = Doc!Fill(cur')
  <2>1. \A run : run = cur' => Doc!Fill(run)' = Doc!Fill(cur')
    BY <1>1
  <2> QED
    BY <2>1
<1> QED
  BY <1>2, <1>3 DEF Packs, Measured

\* The invariant when the next sentence goes into the run in hand.
LEMMA PackingAppend ==
    ASSUME Measured, NEW ps, NEW run, NEW f, Citable(ps), RunOf(run), f \in 1 .. Len(finals),
           run # <<>> => f = run[Len(run)] + 1,
           Doc!PackLength(f) + Doc!Fill(run) <= Budget,
           run # <<>> => run[1] <= Ended(ps) + 1 /\ Ended(ps) <= run[Len(run)],
           run = <<>> => f = Ended(ps) + 1, Ended(ps) \in Nat,
           Quoted(ps) \cup Doc!ToSet(run) = 1 .. f - 1
    PROVE  Packing(ps, Append(run, f)) /\ Doc!Fill(Append(run, f)) = Doc!PackLength(f) + Doc!Fill(run)
<1> DEFINE more == Append(run, f)
<1>1. /\ RunOf(more) /\ more # <<>> /\ more[Len(more)] = f
      /\ more[1] = IF run = <<>> THEN f ELSE run[1]
      /\ Doc!ToSet(more) = Doc!ToSet(run) \cup {f}
  BY RunAppend
<1>2. run \in Seq(Nat) /\ f \in Nat
  BY RunTypes
<1>3. Doc!Fill(more) = Doc!PackLength(f) + Doc!Fill(run)
  BY <1>2, FillAppend
<1> HIDE DEF more
<1>4. Follows(more, Ended(ps))
  <2>1. CASE run = <<>>
    BY <1>1, <1>2, <2>1 DEF Follows
  <2>2. CASE run # <<>>
    <3>1. run[Len(run)] \in Nat
      BY <2>2, RunFirst
    <3>2. f = run[Len(run)] + 1 /\ run[1] <= Ended(ps) + 1 /\ Ended(ps) <= run[Len(run)]
      BY <2>2
    <3>3. f > Ended(ps)
      BY <3>1, <3>2
    <3> QED
      BY <1>1, <2>2, <3>2, <3>3 DEF Follows
  <2> QED
    BY <2>1, <2>2
<1>5. TurnAt(ps, more) - 1 = f
  BY <1>1, <1>2 DEF TurnAt
<1>6. Quoted(ps) \cup Doc!ToSet(more) = 1 .. f
  <2>1. 1 .. f = (1 .. f - 1) \cup {f}
    OBVIOUS
  <2> QED
    BY <1>1, <2>1
<1>7. Packing(ps, more)
  BY <1>1, <1>3, <1>4, <1>5, <1>6 DEF Packing
<1> QED
  BY <1>3, <1>7 DEF more

\* Packing keeps the passages runs within the budget that leave no sentence out.
LEMMA PackKeeps ==
    ASSUME Doc!WellFormed(doc), finals \in Seq(FinalRec), Packs, dstage = "pack",
           Doc!PackOversized \/ Doc!PackBreak \/ Doc!PackAdd
    PROVE  Packs' /\ doc' = doc /\ units' = units /\ unit' = unit /\ raw' = raw /\ expect' = expect /\ finals' = finals
           /\ dstage' = "pack"
<1> DEFINE f == Doc!Turn
           list == passages \o Doc!Closed(FALSE)
<1>1. Packing(passages, cur) /\ fill = Doc!Fill(cur) /\ Measured /\ dstore = <<>>
  BY DEF Packs, Measured
<1>2. /\ doc' = doc /\ units' = units /\ unit' = unit /\ raw' = raw /\ expect' = expect /\ finals' = finals
      /\ lens' = lens /\ dstore' = dstore /\ dstage' = dstage
  BY DEF Doc!PackOversized, Doc!PackBreak, Doc!PackAdd, Doc!Pack
<1>3. Len(finals) \in Nat /\ DOMAIN finals = 1 .. Len(finals)
  BY LenProperties
<1>4. f \in 1 .. Len(finals)
  BY <1>3 DEF Doc!PackOversized, Doc!PackBreak, Doc!PackAdd, Doc!Finals
<1>5. f = TurnAt(passages, cur) /\ f \in Nat
  BY <1>4, TurnIs
<1>6. Citable(passages) /\ RunOf(cur) /\ Doc!Fill(cur) <= Budget
      /\ (cur # <<>> => Follows(cur, Ended(passages)))
      /\ Quoted(passages) \cup Doc!ToSet(cur) = 1 .. f - 1
  BY <1>1, <1>5 DEF Packing
<1>7. Citable(list) /\ Ended(list) = f - 1 /\ Quoted(list) = 1 .. f - 1
  BY <1>1, <1>3, <1>5, CloseSound
<1>8. Doc!PackLength(f) \in Nat /\ Budget \in Nat
  BY <1>1, <1>4, LengthOver, TextsAssumption
<1>9. Ended(passages) \in Nat
  BY <1>3, <1>6, EndedInside
<1>10. cur # <<>> => f = cur[Len(cur)] + 1 /\ cur[Len(cur)] \in Nat
  BY <1>5, <1>6, RunFirst DEF TurnAt
<1>11. cur = <<>> => f = Ended(passages) + 1
  BY <1>5 DEF TurnAt
<1>12. f - 1 \in Nat /\ (f - 1) + 1 = f
  BY <1>4
<1> HIDE DEF f, list
<1>13. ASSUME Doc!PackOversized PROVE Packs'
  <2> DEFINE p == [members |-> <<f>>, oversized |-> TRUE]
  <2>1. cur' = <<>> /\ fill' = 0 /\ passages' = passages \o (Doc!Closed(FALSE) \o <<p>>)
    BY <1>13 DEF Doc!PackOversized, Doc!Pack, f
  <2>2. passages' = list \o <<p>>
    <3>1. passages \in Seq(PassRec)
      BY <1>6 DEF Citable
    <3>2. cur \in Seq(Nat)
      BY <1>6, RunTypes
    <3>3. Doc!Closed(FALSE) \in Seq(PassRec)
      <4>1. CASE cur = <<>>
        <5>1. <<>> \in Seq(PassRec)
          OBVIOUS
        <5> QED
          BY <4>1, <5>1 DEF Doc!Closed
      <4>2. CASE cur # <<>>
        <5>1. [members |-> cur, oversized |-> FALSE] \in PassRec
          BY <3>2 DEF PassRec
        <5> QED
          BY <4>2, <5>1 DEF Doc!Closed
      <4> QED
        BY <4>1, <4>2
    <3>4. p \in PassRec
      <4>1. <<f>> \in Seq(Nat)
        BY <1>5
      <4> QED
        BY <4>1 DEF PassRec
    <3> HIDE DEF p
    <3>5. <<p>> \in Seq(PassRec)
      BY <3>4
    <3> DEFINE c == Doc!Closed(FALSE)
    <3>7. c \in Seq(PassRec)
      BY <3>3
    <3> HIDE DEF c
    <3>6. passages \o (c \o <<p>>) = (passages \o c) \o <<p>>
      BY <3>1, <3>5, <3>7, ConcatAssociative
    <3> QED
      BY <2>1, <3>6 DEF list, c
  <2>3. p.members = <<f>> /\ p.oversized = TRUE
    OBVIOUS
  <2>4. <<>> \in Seq(Nat)
    OBVIOUS
  <2>5. Len(<<>>) = 0
    BY EmptySeq
  <2>6. RunOf(<<>>)
    BY <2>4, <2>5 DEF RunOf, Doc!Run
  <2>7. RunOf(<<f>>) /\ <<f>> # <<>> /\ <<f>>[1] = f /\ Len(<<f>>) = 1
    <3>1. <<f>> \in Seq(Nat) /\ Len(<<f>>) = 1 /\ <<f>>[1] = f
      BY <1>5
    <3>2. <<f>> # <<>>
      BY <2>5, <3>1
    <3> QED
      BY <1>4, <3>1, <3>2 DEF RunOf, Doc!Run
  <2>8. p \in PassRec
    <3>1. <<f>> \in Seq(Nat)
      BY <2>7, RunTypes
    <3> QED
      BY <3>1 DEF PassRec
  <2> HIDE DEF p
  <2>9. Cited(p)
    BY <2>3, <2>7, <2>8 DEF Cited
  <2>10. Follows(p.members, Ended(list))
    BY <1>5, <1>7, <1>12, <2>3, <2>7 DEF Follows
  <2>11. LET qs == list \o <<p>>
         IN Citable(qs) /\ Ended(qs) = p.members[Len(p.members)] /\ Quoted(qs) = Quoted(list) \cup Doc!ToSet(p.members)
    BY <1>7, <2>9, <2>10, CitableNext
  <2>12. Citable(passages') /\ Ended(passages') = f /\ Quoted(passages') = (1 .. f - 1) \cup {f}
    <3>1. Doc!ToSet(<<f>>) = {f}
      <4>1. Doc!ToSet(<<f>>) = {<<f>>[i] : i \in 1 .. 1}
        <5>1. <<f>> \in Seq(Nat)
          BY <1>5
        <5> QED
          BY <2>7, <5>1, SetOf
      <4>2. 1 .. 1 = {1}
        OBVIOUS
      <4> QED
        BY <2>7, <4>1, <4>2
    <3> QED
      BY <1>7, <2>2, <2>3, <2>7, <2>11, <3>1
  <2>13. (1 .. f - 1) \cup {f} = 1 .. f
    BY <1>4
  <2>14. Packing(passages', <<>>)
    <3>1. Doc!ToSet(<<>>) = {}
      BY EmptySeq DEF Doc!ToSet
    <3>2. Doc!Fill(<<>>) <= Budget
      BY <1>8, FillEmpty
    <3>3. TurnAt(passages', <<>>) - 1 = f
      <4>1. TurnAt(passages', <<>>) = f + 1
        BY <2>12 DEF TurnAt
      <4> QED
        BY <1>5, <4>1
    <3> QED
      BY <2>6, <2>12, <2>13, <3>1, <3>2, <3>3 DEF Packing
  <2> QED
    BY <1>1, <1>2, <2>1, <2>14, FillEmpty, PacksAfter
<1>14. ASSUME Doc!PackBreak PROVE Packs'
  <2> DEFINE t == Doc!TailOf(cur, f)
  <2>1. /\ cur # <<>> /\ Doc!PackLength(f) <= Budget
        /\ cur' = Append(t, f) /\ fill' = Doc!Fill(t) + Doc!PackLength(f) /\ passages' = list
    BY <1>14 DEF Doc!PackBreak, Doc!Pack, f, list
  <2>2. /\ RunOf(t) /\ Doc!ToSet(t) \subseteq Doc!ToSet(cur)
        /\ Doc!Fill(t) \in Nat /\ Doc!Fill(t) + Doc!PackLength(f) <= Budget
        /\ t # <<>> => t[Len(t)] = cur[Len(cur)]
    BY <1>1, <1>4, <1>6, <2>1, TailFits
  <2> HIDE DEF t
  <2>3. t # <<>> => f = t[Len(t)] + 1
    BY <1>10, <2>1, <2>2
  <2>4. Doc!PackLength(f) + Doc!Fill(t) <= Budget /\ Doc!PackLength(f) + Doc!Fill(t) = Doc!Fill(t) + Doc!PackLength(f)
    BY <1>8, <2>2
  <2>5. t # <<>> => t[1] <= Ended(list) + 1 /\ Ended(list) <= t[Len(t)]
    <3> SUFFICES ASSUME t # <<>> PROVE t[1] <= Ended(list) + 1 /\ Ended(list) <= t[Len(t)]
      OBVIOUS
    <3>1. t[1] \in Nat /\ t[Len(t)] \in Nat /\ t[1] <= t[Len(t)]
      BY <2>2, RunFirst
    <3>2. f = t[Len(t)] + 1 /\ Ended(list) = f - 1
      BY <1>7, <2>3
    <3> QED
      BY <3>1, <3>2
  <2>6. t = <<>> => f = Ended(list) + 1
    BY <1>7, <1>12
  <2>7. Quoted(list) \cup Doc!ToSet(t) = 1 .. f - 1
    BY <1>6, <1>7, <2>2
  <2>8. Ended(list) \in Nat
    BY <1>7, <1>12
  <2>9. Packing(list, Append(t, f)) /\ Doc!Fill(Append(t, f)) = Doc!PackLength(f) + Doc!Fill(t)
    BY <1>1, <1>4, <1>7, <2>2, <2>3, <2>4, <2>5, <2>6, <2>7, <2>8, PackingAppend
  <2> QED
    BY <1>1, <1>2, <2>1, <2>4, <2>9, PacksAfter
<1>15. ASSUME Doc!PackAdd PROVE Packs'
  <2>1. /\ Doc!PackLength(f) <= Budget /\ (cur # <<>> => ~Doc!Full)
        /\ cur' = Append(cur, f) /\ fill' = fill + Doc!PackLength(f) /\ passages' = passages \o <<>>
    BY <1>15 DEF Doc!PackAdd, Doc!Pack, f
  <2>2. passages' = passages
    <3>1. passages \in Seq(PassRec)
      BY <1>6 DEF Citable
    <3> QED
      BY <2>1, <3>1
  <2>3. fill \in Nat
    <3>1. cur \in Seq(Nat) /\ \A i \in 1 .. Len(cur) : cur[i] \in 1 .. Len(finals)
      BY <1>6, RunTypes
    <3> QED
      BY <1>1, <3>1, FillNat
  <2>4. Doc!PackLength(f) + Doc!Fill(cur) <= Budget
    <3>1. CASE cur = <<>>
      <4>1. Doc!Fill(cur) = 0
        BY <3>1, FillEmpty
      <4> QED
        BY <1>8, <2>1, <4>1
    <3>2. CASE cur # <<>>
      <4>1. ~(fill + Doc!PackLength(f) > Budget)
        BY <2>1, <3>2 DEF Doc!Full, f
      <4> QED
        BY <1>1, <1>8, <2>3, <4>1
    <3> QED
      BY <3>1, <3>2
  <2>5. cur # <<>> => f = cur[Len(cur)] + 1
    BY <1>10
  <2>6. cur # <<>> => cur[1] <= Ended(passages) + 1 /\ Ended(passages) <= cur[Len(cur)]
    BY <1>6, <1>9, <1>10 DEF Follows
  <2>7. Packing(passages, Append(cur, f)) /\ Doc!Fill(Append(cur, f)) = Doc!PackLength(f) + Doc!Fill(cur)
    BY <1>1, <1>4, <1>6, <1>9, <1>11, <2>4, <2>5, <2>6, PackingAppend
  <2>8. fill' = Doc!Fill(cur')
    BY <1>1, <1>8, <2>1, <2>3, <2>7
  <2> QED
    BY <1>1, <1>2, <2>1, <2>2, <2>7, <2>8, PacksAfter
<1> QED
  BY <1>2, <1>13, <1>14, <1>15

\* Lengths are naturals whatever a translation adds.
LEMMA MeasureKeeps ==
    ASSUME Filed, Packs, Doc!Measure
    PROVE  Packs' /\ doc' = doc /\ units' = units /\ unit' = unit /\ raw' = raw /\ expect' = expect /\ finals' = finals
           /\ dstage = "measure" /\ dstage' = "pack"
<1>1. /\ doc' = doc /\ units' = units /\ unit' = unit /\ raw' = raw /\ expect' = expect /\ finals' = finals
      /\ dstage = "measure" /\ dstage' = "pack" /\ cur' = cur /\ fill' = fill /\ passages' = passages /\ dstore' = dstore
  BY DEF Doc!Measure
<1>2. cur = <<>> /\ fill = 0 /\ passages = <<>> /\ dstore = <<>>
  BY <1>1 DEF Packs
<1>3. finals \in Seq(FinalRec)
  BY DEF Filed
<1>4. DOMAIN finals = 1 .. Len(finals)
  BY <1>3, LenProperties
<1>5. lens' \in [1 .. Len(finals) -> [native : Nat, translated : Nat]]
  <2>1. PICK by \in Doc!Grown :
           lens' = [f \in Doc!Finals |-> [native |-> finals[f].count, translated |-> finals[f].count + by[f]]]
    BY DEF Doc!Measure
  <2>2. Doc!Finals = 1 .. Len(finals)
    BY <1>4 DEF Doc!Finals
  <2>3. \A f \in 1 .. Len(finals) : by[f] \in Nat
    <3>1. CASE doc.english
      BY <2>2, <3>1 DEF Doc!Grown
    <3>2. CASE ~doc.english
      BY <2>2, <3>2, TextsAssumption DEF Doc!Grown
    <3> QED
      BY <3>1, <3>2
  <2>4. \A f \in 1 .. Len(finals) : finals[f].count \in Nat
    <3> TAKE f \in 1 .. Len(finals)
    <3>1. finals[f] \in FinalRec
      BY <1>3
    <3> QED
      BY <3>1 DEF FinalRec
  <2> QED
    BY <2>1, <2>2, <2>3, <2>4
<1>6. (Packing(passages, cur) /\ fill = Doc!Fill(cur))'
  <2>1. <<>> \in Seq(Nat) /\ <<>> \in Seq(PassRec)
    OBVIOUS
  <2>2. Len(<<>>) = 0 /\ DOMAIN <<>> = {}
    BY EmptySeq
  <2>3. cur' = <<>> /\ passages' = <<>> /\ fill' = 0
    BY <1>1, <1>2
  <2>4. Citable(passages)'
    BY <2>1, <2>2, <2>3 DEF Citable
  <2>5. RunOf(cur)'
    BY <2>1, <2>2, <2>3 DEF RunOf, Doc!Run
  <2>6. (Quoted(passages) = {} /\ Doc!ToSet(cur) = {})'
    BY <2>2, <2>3 DEF Quoted, Doc!ToSet
  <2>7. (TurnAt(passages, cur) = 1)'
    BY <2>3 DEF TurnAt, Ended
  <2>8. (Doc!Fill(cur) = 0)'
    <3>1. Doc!Fill(cur)' = FillIn(lens', cur') /\ Doc!Fill(<<>>)' = FillIn(lens', <<>>)
      BY DEF Doc!Fill, FillIn, Doc!PackLength, Doc!FoldLeft, Doc!MapThenFoldSet
    <3>2. (Doc!Fill(<<>>) = 0)'
      BY FillEmpty, PTL
    <3> QED
      BY <2>3, <3>1, <3>2
  <2>9. Budget \in Nat
    BY TextsAssumption
  <2> QED
    BY <2>3, <2>4, <2>5, <2>6, <2>7, <2>8, <2>9 DEF Packing
<1> QED
  BY <1>1, <1>2, <1>5, <1>6 DEF Packs

\* The list of passages holds every sentence, and verify_passages takes it.
LEMMA PackEndKeeps ==
    ASSUME finals \in Seq(FinalRec), Packs, Doc!PackEnd
    PROVE  Packs' /\ doc' = doc /\ units' = units /\ unit' = unit /\ raw' = raw /\ expect' = expect /\ finals' = finals
           /\ dstage = "pack" /\ dstage' = "store"
<1> DEFINE list == passages \o Doc!Closed(FALSE)
<1>1. /\ doc' = doc /\ units' = units /\ unit' = unit /\ raw' = raw /\ expect' = expect /\ finals' = finals
      /\ dstage = "pack" /\ lens' = lens /\ passages' = list /\ Doc!Turn \notin Doc!Finals
      /\ dstage' = IF Doc!Verified(list) THEN "store" ELSE "refused"
  BY DEF Doc!PackEnd
<1>2. Packing(passages, cur) /\ Measured
  BY <1>1 DEF Packs, Measured
<1>3. Len(finals) \in Nat /\ DOMAIN finals = 1 .. Len(finals)
  BY LenProperties
<1> DEFINE f == TurnAt(passages, cur)
<1>4. Citable(list) /\ Quoted(list) = 1 .. f - 1 /\ Ended(list) = f - 1
  BY <1>2, <1>3, CloseSound
<1>5. f \notin 1 .. Len(finals)
  BY <1>1, <1>3, TurnIs DEF Doc!Finals
<1> HIDE DEF f, list
<1>6. f \in Nat /\ f >= 1
  <2>1. Citable(passages) /\ RunOf(cur)
    BY <1>2 DEF Packing
  <2>2. Ended(passages) \in Nat
    BY <1>3, <2>1, EndedInside
  <2>3. cur # <<>> => cur[Len(cur)] \in Nat
    BY <2>1, RunFirst
  <2> QED
    BY <2>2, <2>3 DEF f, TurnAt
<1>7. f - 1 \in Nat /\ f - 1 <= Len(finals)
  <2>1. Ended(list) <= Len(finals)
    BY <1>3, <1>4, EndedInside
  <2> QED
    BY <1>4, <1>6, <2>1
<1>8. f - 1 = Len(finals)
  BY <1>3, <1>5, <1>6, <1>7
<1>9. Quoted(list) = 1 .. Len(finals)
  BY <1>4, <1>8
<1>10. Doc!Verified(list)
  <2>1. UNION {Doc!ToSet(list[p].members) : p \in DOMAIN list} = Doc!Finals
    BY <1>3, <1>9 DEF Quoted, Doc!Finals
  <2>2. DOMAIN list = 1 .. Len(list)
    BY <1>4, LenProperties DEF Citable
  <2>3. \A p \in DOMAIN list : list[p].oversized \/ Doc!Fill(list[p].members) <= Budget
    BY <1>4, <2>2 DEF Citable
  <2> QED
    BY <2>1, <2>3 DEF Doc!Verified
<1>11. dstage' = "store"
  BY <1>1, <1>10
<1>12. Citable(passages)' /\ Quoted(passages)' = 1 .. Len(finals)
  <2>1. \A run : Doc!Fill(run)' = Doc!Fill(run)
    BY <1>1, FillSame
  <2>2. Quoted(passages') = 1 .. Len(finals)
    BY <1>1, <1>9
  <2>3. Citable(passages')
    BY <1>1, <1>4
  <2>4. Citable(passages)'
    BY <1>1, <2>1, <2>3 DEF Citable, RunOf, Follows
  <2> QED
    BY <2>2, <2>4 DEF Quoted
<1> QED
  BY <1>1, <1>2, <1>11, <1>12 DEF Packs, Measured

\* Composing the store changes no passage.
LEMMA ComposeKeeps ==
    ASSUME Packs, Doc!Compose
    PROVE  Packs' /\ doc' = doc /\ units' = units /\ unit' = unit /\ raw' = raw /\ expect' = expect /\ finals' = finals
           /\ dstage = "store" /\ dstage' = "served"
<1>1. /\ doc' = doc /\ units' = units /\ unit' = unit /\ raw' = raw /\ expect' = expect /\ finals' = finals
      /\ dstage = "store" /\ dstage' = "served" /\ lens' = lens /\ passages' = passages
  BY DEF Doc!Compose
<1>2. Citable(passages) /\ Quoted(passages) = 1 .. Len(finals) /\ Measured
  BY <1>1 DEF Packs, Measured
<1>3. \A run : Doc!Fill(run)' = Doc!Fill(run)
  BY <1>1, FillSame
<1>4. Citable(passages)' /\ Quoted(passages)' = 1 .. Len(finals)
  BY <1>1, <1>2, <1>3 DEF Citable, RunOf, Follows, Quoted
<1> QED
  BY <1>1, <1>2, <1>4 DEF Packs, Measured

\* What the stages before packing leave alone, and packing leaves alone.
LEMMA MergedStays ==
    ASSUME Merged, doc' = doc, units' = units, unit' = unit, dstage # "merge"
    PROVE  Merged'
<1>1. unit = Doc!NoUnit /\ (~doc.english => EndOf(units) = Len(doc.para) + 1)
  BY DEF Merged
<1>2. Lined(units)' /\ EndOf(units)' = EndOf(units)
  BY DEF Merged, Lined, Cut, Local, EndOf
<1>3. Doc!NoUnit' = Doc!NoUnit
  BY DEF Doc!NoUnit
<1> QED
  BY <1>1, <1>2, <1>3 DEF Merged

LEMMA FiledStays ==
    ASSUME Filed, expect' = expect, finals' = finals
    PROVE  Filed'
BY DEF Filed

LEMMA PacksWait ==
    ASSUME Packs, dstage \in {"merge", "translate", "reconcile"}, dstage' \in {"merge", "translate", "reconcile", "measure"},
           cur' = cur, fill' = fill, passages' = passages, dstore' = dstore
    PROVE  Packs'
BY DEF Packs

\* A document before its first step.
LEMMA DocInitial == Doc!Init => DocInv
<1> SUFFICES ASSUME Doc!Init PROVE DocInv
  OBVIOUS
<1>1. /\ doc \in Texts /\ Doc!WellFormed(doc) /\ dstage = "merge" /\ units = <<>> /\ unit = Doc!NoUnit
      /\ raw = <<>> /\ expect = 1 /\ finals = <<>> /\ cur = <<>> /\ fill = 0 /\ passages = <<>> /\ dstore = <<>>
  BY DEF Doc!Init, Doc!MergeInit
<1>2. <<>> \in Seq(UnitRec) /\ <<>> \in Seq(FinalRec)
  OBVIOUS
<1>3. Len(<<>>) = 0
  BY EmptySeq
<1>4. Merged
  BY <1>1, <1>2, <1>3 DEF Merged, Lined
<1>5. Translated
  BY <1>1 DEF Translated
<1>6. Filed
  BY <1>1, <1>2, <1>3 DEF Filed
<1>7. Packs
  BY <1>1 DEF Packs
<1> QED
  BY <1>1, <1>4, <1>5, <1>6, <1>7 DEF DocInv

\* Every step of the document keeps the invariant.
LEMMA DocInductive == DocInv /\ [Doc!Next]_docVars => DocInv'
<1> SUFFICES ASSUME DocInv, [Doc!Next]_docVars PROVE DocInv'
  OBVIOUS
<1> USE DEF DocInv
<1>1. \A d : Doc!WellFormed(d)' = Doc!WellFormed(d)
  BY DEF Doc!WellFormed
<1>2. ASSUME doc' = doc PROVE Doc!WellFormed(doc)'
  BY <1>2 DEF Doc!WellFormed
<1>3. ASSUME Doc!Merge, UNCHANGED Doc!recon, UNCHANGED Doc!packed PROVE DocInv'
  <2>1. Merged' /\ doc' = doc /\ dstage = "merge" /\ dstage' \in {"merge", "translate"}
    BY <1>3, MergeKeeps
  <2>2. raw' = raw /\ expect' = expect /\ finals' = finals /\ cur' = cur /\ fill' = fill /\ passages' = passages /\ dstore' = dstore
    BY <1>3 DEF Doc!recon, Doc!packed
  <2>3. raw = <<>> /\ expect = 1 /\ finals = <<>>
    BY <2>1 DEF Translated
  <2>4. Translated'
    <3>1. <<>> \in Seq(RowRec)
      OBVIOUS
    <3>2. Len(<<>>) = 0
      BY EmptySeq
    <3> QED
      BY <2>1, <2>2, <2>3, <3>1, <3>2 DEF Translated
  <2>5. Filed' /\ Packs'
    BY <2>1, <2>2, FiledStays, PacksWait
  <2> QED
    BY <1>2, <2>1, <2>4, <2>5
<1>4. ASSUME Doc!Reconcile, UNCHANGED Doc!packed PROVE DocInv'
  <2>1. cur' = cur /\ fill' = fill /\ passages' = passages /\ dstore' = dstore
    BY <1>4 DEF Doc!packed
  <2>2. CASE Doc!Translate \/ Doc!Identity \/ Doc!TranslateEnd
    <3>1. Translated' /\ Filed' /\ doc' = doc /\ units' = units /\ unit' = unit
          /\ dstage = "translate" /\ dstage' \in {"translate", "reconcile"}
      BY <2>2, TranslateKeeps
    <3> QED
      BY <1>2, <2>1, <3>1, MergedStays, PacksWait
  <2>3. CASE Doc!SplitRow \/ Doc!SingleRow \/ Doc!FusedRow \/ Doc!ReconcileEnd
    <3>1. Translated' /\ Filed' /\ doc' = doc /\ units' = units /\ unit' = unit
          /\ dstage = "reconcile" /\ dstage' \in {"reconcile", "measure"}
      BY <2>3, ReconcileKeeps
    <3> QED
      BY <1>2, <2>1, <3>1, MergedStays, PacksWait
  <2> QED
    BY <1>4, <2>2, <2>3 DEF Doc!Reconcile
<1>5. ASSUME Doc!PackStep PROVE DocInv'
  <2>1. /\ Packs' /\ doc' = doc /\ units' = units /\ unit' = unit /\ raw' = raw /\ expect' = expect /\ finals' = finals
        /\ dstage \in {"measure", "pack", "store"} /\ dstage' \in {"pack", "store", "served"}
    <3>1. finals \in Seq(FinalRec)
      BY DEF Filed
    <3>2. CASE Doc!Measure
      BY <3>2, MeasureKeeps
    <3>3. CASE Doc!PackOversized \/ Doc!PackBreak \/ Doc!PackAdd
      <4>1. dstage = "pack"
        BY <3>3 DEF Doc!PackOversized, Doc!PackBreak, Doc!PackAdd
      <4> QED
        BY <3>1, <3>3, <4>1, PackKeeps
    <3>4. CASE Doc!PackEnd
      BY <3>1, <3>4, PackEndKeeps
    <3>5. CASE Doc!Compose
      BY <3>5, ComposeKeeps
    <3> QED
      BY <1>5, <3>2, <3>3, <3>4, <3>5 DEF Doc!PackStep
  <2>2. Translated'
    BY <2>1 DEF Translated
  <2> QED
    BY <1>2, <2>1, <2>2, MergedStays, FiledStays
<1>6. CASE UNCHANGED docVars
  <2>1. /\ doc' = doc /\ dstage' = dstage /\ units' = units /\ unit' = unit /\ raw' = raw /\ expect' = expect
        /\ finals' = finals /\ lens' = lens /\ cur' = cur /\ fill' = fill /\ passages' = passages /\ dstore' = dstore
    BY <1>6 DEF docVars
  <2>2. Merged'
    BY <2>1 DEF Merged, Lined, Cut, Local, EndOf, Doc!NoUnit
  <2>3. Translated'
    <3>1. Doc!BuildUnits' = Doc!BuildUnits
      BY <2>1, Zenon DEF Doc!BuildUnits, Doc!Members, Doc!Singles
    <3>2. \A r : Mapped(r)' <=> Mapped(r)
      BY <2>1 DEF Mapped
    <3> QED
      BY <2>1, <3>1, <3>2 DEF Translated, Mapped
  <2>4. Packs'
    <3>1. \A run : Doc!Fill(run)' = Doc!Fill(run)
      BY <2>1, FillSame
    <3>2. Doc!Fill(cur)' = Doc!Fill(cur)
      BY <2>1, <3>1
    <3> QED
      BY <2>1, <3>1, <3>2 DEF Packs, Packing, Citable, RunOf, Follows, Ended, Quoted, TurnAt
  <2> QED
    BY <1>2, <2>1, <2>2, <2>3, <2>4, FiledStays
<1> QED
  BY <1>3, <1>4, <1>5, <1>6 DEF Doc!Next

\* What the invariant says of the properties.
LEMMA DocMergeLocal == ASSUME DocInv PROVE Doc!MergeLocal
<1> SUFFICES ASSUME NEW i \in DOMAIN units, NEW s \in units[i].first .. units[i].last - 1, doc.para[s] # doc.para[s + 1]
             PROVE  /\ MayCross
                    /\ Doc!InUnit(units[i], doc.para[s]) \/ Doc!InUnit(units[i], doc.para[s + 1])
  BY DEF Doc!MergeLocal
<1>1. Doc!WellFormed(doc) /\ Lined(units)
  BY DEF DocInv, Merged
<1>2. DOMAIN units = 1 .. Len(units)
  BY <1>1, LenProperties DEF Lined
<1>3. Cut(units[i])
  BY <1>1, <1>2 DEF Lined
<1>4. Doc!N = Len(doc.para)
  BY <1>1, Document
<1>5. /\ MayCross
      /\ \E q \in {doc.para[s], doc.para[s + 1]} :
            \A t \in 1 .. Len(doc.para) : doc.para[t] = q => t \in units[i].first .. units[i].last
  BY <1>3 DEF Cut, Local
<1> QED
  BY <1>4, <1>5 DEF Doc!InUnit

LEMMA DocEnglishOwn == ASSUME DocInv, "torn" \notin Faults PROVE Doc!EnglishOwn
<1>1. finals \in Seq(FinalRec) /\ \A k \in 1 .. Len(finals) : finals[k].english \in {{}, finals[k].first .. finals[k].last}
  BY DEF DocInv, Filed
<1>2. DOMAIN finals = 1 .. Len(finals)
  BY <1>1, LenProperties
<1> QED
  BY <1>1, <1>2 DEF Doc!EnglishOwn, Doc!Finals

LEMMA DocCitable == ASSUME DocInv PROVE Doc!CitableWhole /\ Doc!NeverRefused
<1>1. Doc!NeverRefused
  BY DEF DocInv, Doc!NeverRefused
<1>2. CASE dstage \notin {"store", "served"}
  BY <1>1, <1>2 DEF Doc!CitableWhole
<1>3. CASE dstage \in {"store", "served"}
  <2>1. Citable(passages) /\ Quoted(passages) = 1 .. Len(finals) /\ Measured /\ finals \in Seq(FinalRec)
    BY <1>3 DEF DocInv, Packs, Measured, Filed
  <2>2. DOMAIN finals = 1 .. Len(finals)
    BY <2>1, LenProperties
  <2>3. DOMAIN passages = 1 .. Len(passages) /\ Len(passages) \in Nat
    BY <2>1, LenProperties DEF Citable
  <2>4. UNION {Doc!ToSet(passages[p].members) : p \in DOMAIN passages} = Doc!Finals
    BY <2>1, <2>2 DEF Quoted, Doc!Finals
  <2>5. ASSUME NEW p \in 1 .. Len(passages)
        PROVE  /\ passages[p].members # <<>> /\ Doc!Run(passages[p].members)
               /\ IF passages[p].oversized THEN Len(passages[p].members) = 1
                  ELSE Doc!InBudget(passages[p].members)
    <3> DEFINE run == passages[p].members
    <3>1. run # <<>> /\ RunOf(run) /\ IF passages[p].oversized THEN Len(run) = 1 ELSE Doc!Fill(run) <= Budget
      BY <2>1 DEF Citable
    <3> HIDE DEF run
    <3>2. run \in Seq(Nat) /\ \A k \in 1 .. Len(run) : run[k] \in 1 .. Len(finals)
      BY <3>1, RunTypes
    <3>3. Doc!Fill(run) <= Budget => Doc!InBudget(run)
      BY <2>1, <3>2, FillNat
    <3>4. Doc!Run(run)
      BY <3>1 DEF RunOf
    <3> QED
      BY <3>1, <3>3, <3>4 DEF run
  <2>6. ASSUME NEW p \in 1 .. Len(passages), p > 1
        PROVE  LET before == Doc!Last(passages[p - 1].members)
               IN Doc!Last(passages[p].members) > before /\ Head(passages[p].members) <= before + 1
    <3> DEFINE run == passages[p].members
               prev == passages[p - 1].members
    <3>1. Follows(run, prev[Len(prev)]) /\ RunOf(run) /\ run # <<>>
      BY <2>1, <2>6 DEF Citable
    <3>2. Doc!Last(prev) = prev[Len(prev)] /\ Doc!Last(run) = run[Len(run)]
      BY DEF Doc!Last
    <3> HIDE DEF run, prev
    <3>3. Head(run) = run[1]
      <4>1. run \in Seq(Nat)
        BY <3>1, RunTypes
      <4> QED
        BY <3>1, <4>1
    <3> QED
      BY <3>1, <3>2, <3>3 DEF Follows, run, prev
  <2> QED
    BY <1>1, <2>3, <2>4, <2>5, <2>6 DEF Doc!CitableWhole
<1> QED
  BY <1>2, <1>3

DocStep == [MCNext]_<<machine, vars, docVars, shardVars, fusedVars, acceptVars, releaseVars>>

\* The invariant holds whichever machine moves.
LEMMA DocHolds == MCSpec => []DocKept
<1>1. MCInit => DocKept
  BY DocInitial DEF MCInit, DocKept
<1>2. DocKept /\ DocStep => DocKept'
  <2>1. DocStep => (machine' = "doc" => machine = "doc" /\ [Doc!Next]_docVars)
    BY DEF DocStep, MCNext, IndexRuns, DocRuns, ShardRuns, FusedRuns, AcceptRuns, ReleaseRuns
  <2> QED
    BY <2>1, DocInductive DEF DocKept
<1> QED
  BY <1>1, <1>2, PTL DEF MCSpec, DocStep

\* A translation unit crosses a paragraph boundary only by a whole paragraph
\* (merge.py _choose), however units are joined, taken back and joined again.
THEOREM MergeIsLocal == MCSpec => []MergeLocal
<1>1. DocKept => MergeLocal
  BY DocMergeLocal DEF DocKept, MergeLocal
<1> QED
  BY <1>1, DocHolds, PTL

\* The English of a final sentence is of the sentences it is filed under, or
\* absent, as long as MT puts no marker into the middle of a sentence.
THEOREM EnglishIsOwn == "torn" \notin Faults => (MCSpec => []EnglishOwn)
<1> SUFFICES ASSUME "torn" \notin Faults PROVE MCSpec => []EnglishOwn
  OBVIOUS
<1>1. DocKept => EnglishOwn
  BY DocEnglishOwn DEF DocKept, EnglishOwn
<1> QED
  BY <1>1, DocHolds, PTL

\* The passages of a document hold every sentence of it, each is a run within the
\* budget that adds one and goes on from the passage before it, and no stage
\* refuses what the stages before it made.
THEOREM CitableIsWhole == MCSpec => []CitableWhole
<1>1. DocKept => CitableWhole
  BY DocCitable DEF DocKept, CitableWhole
<1> QED
  BY <1>1, DocHolds, PTL
=============================================================================
