---------------------------- MODULE MCShard_proof ----------------------------
(* A sharded stage of MCCorpus, for every corpus, number of shards and size   *)
(* of row groups: what each step of the plan, the alignment, the walk and the *)
(* workers keeps, and so that the shards together write what one worker over  *)
(* the whole corpus writes. One section per part of ShardPlan.                *)
EXTENDS MCCorpus, DataLemmas

\* The documents of the corpus, and the row of a table at which one starts.
Before(field, d) == Shard!Sum([e \in 1 .. d - 1 |-> corpus[e][field]])
\* The first document of a shard: the shards together take every document.
First(k) == IF k = 1 THEN 1 ELSE IF k = Len(ranges) + 1 THEN Len(corpus) + 1 ELSE Shard!Opener(k)
HasWork(d) == corpus[d].work > 0
Entry(d) == [doc |-> d, work |-> Shard!RowsOfDoc("work", d), sub |-> Shard!RowsOfDoc("sub", d)]

\* What is written for the documents a to b, each once and in order.
Lists(out, a, b) ==
    /\ \A j \in 1 .. Len(out) :
          out[j].doc \in a .. b /\ HasWork(out[j].doc) /\ out[j] = Entry(out[j].doc)
    /\ \A i, j \in 1 .. Len(out) : i < j => out[i].doc < out[j].doc
    /\ \A d \in a .. b : HasWork(d) => \E j \in 1 .. Len(out) : out[j].doc = d

RangeRec == [from : Nat, to : Nat]
\* Ranges in a row up to the end of the table, each from the start of a document on.
Planned ==
    /\ ranges \in Seq(RangeRec)
    /\ \A k \in 1 .. Len(ranges) :
          /\ ranges[k].from < Shard!Total /\ (k - 1) * Shard!Per <= ranges[k].from
          /\ ranges[k].from = Before("work", First(k)) /\ First(k) \in 1 .. Len(corpus)
          /\ ranges[k].to = IF k = Len(ranges) THEN Shard!Total ELSE ranges[k + 1].from
          /\ \A j \in 1 .. k - 1 : ranges[j].from < ranges[k].from
    /\ phase = "plan" =>
          /\ at <= Shard!Total
          /\ IF at = 0 THEN ranges = <<>>
             ELSE ranges # <<>> /\ ranges[Len(ranges)].from < at /\ target = ranges[Len(ranges)].from + Shard!Per
    /\ phase \in {"align", "walk", "work"} => ranges # <<>>
    /\ phase = "merge" /\ ranges = <<>> => Shard!Total = 0

Aligned ==
    /\ docFrom \in Seq(Nat) /\ Len(docFrom) <= Len(ranges)
    /\ \A k \in 1 .. Len(docFrom) : docFrom[k] = Shard!Opener(k) - 1
    /\ phase = "plan" => docFrom = <<>>
    /\ phase = "align" =>
          /\ at <= Len(corpus)
          /\ \A k \in Len(docFrom) + 1 .. Len(ranges) : at < Shard!Opener(k)
    /\ phase \in {"walk", "work"} /\ parent = "documents" => Len(docFrom) = Len(ranges)

Walked ==
    /\ subFrom \in Seq(Nat) /\ Len(subFrom) <= Len(ranges)
    /\ \A k \in 1 .. Len(subFrom) : subFrom[k] = Before("sub", Shard!Opener(k))
    /\ phase \in {"plan", "align"} => subFrom = <<>> /\ docsRead = 0
    /\ phase = "walk" =>
          /\ at <= Len(Shard!Sub)
          /\ docsRead \in Nat /\ \A d \in 1 .. Len(corpus) : at < Before("sub", d + 1) => docsRead <= d
          /\ \A k \in Len(subFrom) + 1 .. Len(ranges) : at <= Before("sub", Shard!Opener(k))
    /\ phase = "work" => Len(subFrom) = Len(ranges)

\* A shard has written the documents before D and is at the start of D.
Upto(k, D) ==
    /\ worker[k].at = Before("work", D) /\ worker[k].sub = Before("sub", D)
    /\ worker[k].out \in Seq([doc : Nat, work : SUBSET Int, sub : SUBSET Int])
    /\ Lists(worker[k].out, First(k), D - 1)
    /\ worker[k].done => worker[k].at = ranges[k].to
Working ==
    phase = "work" \/ (phase = "merge" /\ ranges # <<>>) =>
        /\ DOMAIN worker = 1 .. Len(ranges)
        /\ \A k \in 1 .. Len(ranges) : 
              /\ worker[k] \in [at : Nat, sub : Nat, out : Seq([doc : Nat, work : SUBSET Int, sub : SUBSET Int]), done : BOOLEAN]
              /\ \E D \in First(k) .. First(k + 1) : Upto(k, D)
        /\ phase = "merge" => \A k \in 1 .. Len(ranges) : worker[k].done

ShardInv ==
    /\ corpus \in StageTables /\ asked \in ShardNumbers /\ group \in RowGroups /\ parent \in {"documents", "work"}
    /\ phase \in {"plan", "align", "walk", "work", "merge"}
    /\ phase = "align" => parent = "documents"
    /\ at \in Nat
    /\ Planned /\ Aligned /\ Walked /\ Working
ShardKept == machine = "shard" => ShardInv

-----------------------------------------------------------------------------
(* Rows.                                                                      *)

Fields == {"work", "sub"}

\* What a corpus is.
LEMMA Corpus ==
    ASSUME corpus \in StageTables
    PROVE  /\ Len(corpus) \in Nat /\ DOMAIN corpus = 1 .. Len(corpus)
           /\ \A d \in 1 .. Len(corpus) : \A f \in Fields : corpus[d][f] \in Nat
           /\ \A d \in 1 .. Len(corpus) : corpus[d].work = 0 => corpus[d].sub = 0
<1>1. corpus \in Seq([work : Nat, sub : Nat])
  BY TablesAssumption
<1>2. Len(corpus) \in Nat /\ DOMAIN corpus = 1 .. Len(corpus)
  BY <1>1, LenProperties
<1>3. ASSUME NEW d \in 1 .. Len(corpus), NEW f \in Fields PROVE corpus[d][f] \in Nat
  <2>1. corpus[d] \in [work : Nat, sub : Nat]
    BY <1>1, <1>2, ElementOfSeq
  <2> QED
    BY <2>1 DEF Fields
<1>4. \A d \in 1 .. Len(corpus) : corpus[d].work = 0 => corpus[d].sub = 0
  BY <1>2, TablesAssumption
<1> QED
  BY <1>2, <1>3, <1>4

\* A sum, added from the last number down.
LEMMA SumIs ==
    ASSUME NEW n \in Nat, NEW counts \in [1 .. n -> Nat]
    PROVE  \E g : SumDown(g, counts, n) /\ Shard!Sum(counts) = g[1 .. n]
<1> DEFINE D == DOMAIN counts
           Body(h) == h = [s \in SUBSET D |-> IF s = {} THEN 0 ELSE counts[Top(s)] + h[s \ {Top(s)}]]
<1>1. D = 1 .. n
  OBVIOUS
<1>2. ASSUME NEW h PROVE Body(h) <=> SumDown(h, counts, n)
  BY <1>1 DEF SumDown
<1>3. \E h : Body(h)
  <2>1. \E h : SumDown(h, counts, n)
    BY DownExists
  <2> HIDE DEF Body
  <2> QED
    BY <1>2, <2>1
<1> DEFINE g == CHOOSE h : Body(h)
<1>4. Body(g)
  <2> HIDE DEF Body
  <2> QED
    BY <1>3
<1>5. Shard!Sum(counts) = g[D]
  BY DEF Shard!Sum, Shard!FoldLeft, Shard!MapThenFoldSet, Shard!Max, Top
<1>6. SumDown(g, counts, n)
  <2> HIDE DEF Body, g
  <2> QED
    BY <1>2, <1>4
<1> HIDE DEF g, D
<1>7. Shard!Sum(counts) = g[1 .. n]
  BY <1>1, <1>5
<1> QED
  BY <1>6, <1>7

Counted(f, d) == [e \in 1 .. d - 1 |-> corpus[e][f]]

\* Where the documents of a table start: each after the rows of the one before.
LEMMA BeforeNext ==
    ASSUME corpus \in StageTables, NEW f \in Fields
    PROVE  /\ Before(f, 1) = 0
           /\ \A d \in 1 .. Len(corpus) : Before(f, d + 1) = Before(f, d) + corpus[d][f]
           /\ \A d \in 1 .. Len(corpus) + 1 : Before(f, d) \in Nat
<1> DEFINE n == Len(corpus)
           v == [e \in 1 .. n |-> corpus[e][f]]
<1>1. n \in Nat /\ v \in [1 .. n -> Nat] /\ \A d \in 1 .. n : v[d] = corpus[d][f] /\ corpus[d][f] \in Nat
  BY Corpus
<1>2. PICK h : SumDown(h, v, n)
  <2> HIDE DEF v, n
  <2> QED
    BY <1>1, DownExists
<1>3. ASSUME NEW d \in 1 .. n + 1 PROVE Before(f, d) = h[1 .. d - 1]
  <2> DEFINE w == Counted(f, d)
             m == d - 1
  <2>1. m \in Nat /\ m <= n
    BY <1>1
  <2>2. w \in [1 .. m -> Nat] /\ Alike(w, v, m)
    BY <1>1, <2>1 DEF Counted, Alike
  <2>3. Before(f, d) = Shard!Sum(w)
    BY DEF Before, Counted
  <2> HIDE DEF w, m, v, n
  <2>4. PICK g : SumDown(g, w, m) /\ Shard!Sum(w) = g[1 .. m]
    BY <2>1, <2>2, SumIs
  <2>5. g[1 .. m] = h[1 .. m]
    BY <1>1, <1>2, <2>1, <2>2, <2>4, DownSame
  <2> QED
    BY <2>3, <2>4, <2>5 DEF m
<1> HIDE DEF v, n
<1>4. h[1 .. 0] = 0 /\ \A k \in 1 .. n : h[1 .. k] = v[k] + h[1 .. k - 1]
  <2>1. n \in Nat
    BY <1>1
  <2> QED
    BY <1>2, <2>1, DownAt
<1>5. Before(f, 1) = 0
  <2>1. 1 \in 1 .. n + 1 /\ 1 - 1 = 0
    BY <1>1
  <2>2. Before(f, 1) = h[1 .. 1 - 1]
    BY <1>3, <2>1
  <2> QED
    BY <1>4, <2>1, <2>2
<1> DEFINE N == {k \in Nat : k <= n => h[1 .. k] \in Nat}
<1>6. 0 \in N
  BY <1>4
<1>7. ASSUME NEW k \in Nat, k \in N PROVE k + 1 \in N
  <2> SUFFICES ASSUME k + 1 <= n PROVE h[1 .. k + 1] \in Nat
    OBVIOUS
  <2>1. k + 1 \in 1 .. n /\ (k + 1) - 1 = k /\ h[1 .. k] \in Nat
    BY <1>1, <1>7
  <2>2. h[1 .. k + 1] = v[k + 1] + h[1 .. (k + 1) - 1] /\ v[k + 1] \in Nat
    BY <1>1, <1>4, <2>1
  <2> QED
    BY <2>1, <2>2
<1> HIDE DEF N
<1>8. Nat \subseteq N
  BY <1>6, <1>7, NatInd
<1>9. ASSUME NEW d \in 1 .. n + 1 PROVE Before(f, d) \in Nat
  <2>1. d - 1 \in Nat /\ d - 1 <= n
    BY <1>1
  <2>2. h[1 .. d - 1] \in Nat
    BY <1>8, <2>1 DEF N
  <2> QED
    BY <1>3, <2>2
<1>10. ASSUME NEW d \in 1 .. n PROVE Before(f, d + 1) = Before(f, d) + corpus[d][f]
  <2>1. d + 1 \in 1 .. n + 1 /\ d \in 1 .. n + 1 /\ (d + 1) - 1 = d
    BY <1>1
  <2>2. Before(f, d + 1) = h[1 .. (d + 1) - 1] /\ Before(f, d) = h[1 .. d - 1]
    BY <1>3, <2>1
  <2>3. h[1 .. d] = v[d] + h[1 .. d - 1] /\ v[d] = corpus[d][f] /\ v[d] \in Nat
    BY <1>1, <1>4
  <2>4. Before(f, d) \in Nat
    BY <1>9, <2>1
  <2> QED
    BY <2>1, <2>2, <2>3, <2>4
<1> QED
  BY <1>5, <1>9, <1>10 DEF n

\* Starts go up.
LEMMA BeforeRises ==
    ASSUME corpus \in StageTables, NEW f \in Fields,
           NEW a \in 1 .. Len(corpus) + 1, NEW b \in 1 .. Len(corpus) + 1, a <= b
    PROVE  Before(f, a) <= Before(f, b)
<1> DEFINE n == Len(corpus)
           N == {k \in Nat : a + k <= n + 1 => Before(f, a) <= Before(f, a + k)}
<1>1. /\ n \in Nat /\ \A d \in 1 .. n + 1 : Before(f, d) \in Nat
      /\ \A d \in 1 .. n : Before(f, d + 1) = Before(f, d) + corpus[d][f] /\ corpus[d][f] \in Nat
  BY Corpus, BeforeNext
<1> HIDE DEF n
<1>2. 0 \in N
  <2>1. a + 0 = a /\ Before(f, a) \in Nat
    BY <1>1 DEF n
  <2> QED
    BY <2>1
<1>3. ASSUME NEW k \in Nat, k \in N PROVE k + 1 \in N
  <2> SUFFICES ASSUME a + (k + 1) <= n + 1 PROVE Before(f, a) <= Before(f, a + (k + 1))
    OBVIOUS
  <2>1. a + k \in 1 .. n /\ a + k <= n + 1 /\ a + (k + 1) = (a + k) + 1 /\ a \in 1 .. n + 1 /\ a + k \in 1 .. n + 1
    BY <1>1 DEF n
  <2>2. Before(f, a) <= Before(f, a + k)
    BY <1>3, <2>1
  <2>3. Before(f, (a + k) + 1) = Before(f, a + k) + corpus[a + k][f] /\ corpus[a + k][f] \in Nat
    BY <1>1, <2>1
  <2>4. Before(f, a) \in Nat /\ Before(f, a + k) \in Nat
    BY <1>1, <2>1
  <2> QED
    BY <2>1, <2>2, <2>3, <2>4
<1> HIDE DEF N
<1>4. Nat \subseteq N
  BY <1>2, <1>3, NatInd
<1>5. b - a \in Nat /\ a + (b - a) = b /\ b <= n + 1
  BY <1>1 DEF n
<1> QED
  BY <1>4, <1>5 DEF N

\* The rows of a document lie from its start to the start of the next.
LEMMA RowsAt ==
    ASSUME corpus \in StageTables, NEW f \in Fields
    PROVE  /\ Shard!Rows(f) \in Seq(Nat) /\ Len(Shard!Rows(f)) = Before(f, Len(corpus) + 1)
           /\ \A d \in 1 .. Len(corpus) : \A r \in Nat :
                 Before(f, d) <= r /\ r < Before(f, d + 1) => Shard!Doc(Shard!Rows(f), r) = d
<1> DEFINE n == Len(corpus)
           G == [d \in 1 .. n |-> [k \in 1 .. corpus[d][f] |-> d]]
           Pre(m) == FlattenSeq([i \in 1 .. m |-> G[i]])
           Good(s, m) == /\ s \in Seq(Nat) /\ Len(s) = Before(f, m + 1)
                         /\ \A d \in 1 .. m : \A r \in Nat :
                               Before(f, d) <= r /\ r < Before(f, d + 1) => s[r + 1] = d
           N == {m \in Nat : m <= n => Good(Pre(m), m)}
<1>1. /\ n \in Nat /\ DOMAIN corpus = 1 .. n /\ Before(f, 1) = 0
      /\ \A d \in 1 .. n + 1 : Before(f, d) \in Nat
      /\ \A d \in 1 .. n : Before(f, d + 1) = Before(f, d) + corpus[d][f] /\ corpus[d][f] \in Nat
  BY Corpus, BeforeNext
<1>2. \A a, b \in 1 .. n + 1 : a <= b => Before(f, a) <= Before(f, b)
  BY BeforeRises
<1> HIDE DEF n
<1>3. ASSUME NEW i \in 1 .. n
      PROVE  G[i] \in Seq(Nat) /\ Len(G[i]) = corpus[i][f] /\ \A k \in 1 .. corpus[i][f] : G[i][k] = i
  <2> DEFINE c == corpus[i][f]
             g == [k \in 1 .. c |-> i]
  <2>1. c \in Nat /\ i \in Nat
    BY <1>1
  <2>2. G[i] = g
    OBVIOUS
  <2> HIDE DEF c, G
  <2>3. g \in [1 .. c -> Nat] /\ \A k \in 1 .. c : g[k] = i
    BY <2>1
  <2> HIDE DEF g
  <2>4. g \in Seq(Nat) /\ Len(g) = c
    BY <2>1, <2>3, FunIsSeq
  <2> QED
    BY <2>2, <2>3, <2>4 DEF c
<1>4. Shard!Rows(f) = Pre(n)
  <2>1. [i \in 1 .. n |-> G[i]] = [d \in Shard!Documents |-> [k \in 1 .. corpus[d][f] |-> d]]
    BY <1>1 DEF Shard!Documents
  <2>2. Shard!Rows(f) = FlattenSeq([d \in Shard!Documents |-> [k \in 1 .. corpus[d][f] |-> d]])
    BY DEF Shard!Rows, Shard!FlattenSeq, FlattenSeq
  <2> HIDE DEF G
  <2> QED
    BY <2>1, <2>2, Zenon
<1> HIDE DEF G
<1>5. 0 \in N
  <2>1. [i \in 1 .. 0 |-> G[i]] = <<>>
    OBVIOUS
  <2>2. Pre(0) = <<>>
    BY <2>1, FlatEmpty, Zenon
  <2>3. <<>> \in Seq(Nat) /\ Len(<<>>) = 0
    OBVIOUS
  <2>4. Good(<<>>, 0)
    BY <1>1, <2>3
  <2> HIDE DEF Pre, Good
  <2> QED
    BY <2>2, <2>4
<1>6. ASSUME NEW m \in Nat, m \in N PROVE m + 1 \in N
  <2> SUFFICES ASSUME m + 1 <= n PROVE Good(Pre(m + 1), m + 1)
    OBVIOUS
  <2>1. m + 1 \in 1 .. n /\ m <= n /\ m \in Nat
    BY <1>1
  <2> DEFINE s == Pre(m)
             t == G[m + 1]
             u == s \o t
  <2>2. Good(s, m)
    BY <1>6, <2>1
  <2>3. Pre(m + 1) = u
    <3>1. \A i \in 1 .. m + 1 : i \in 1 .. n
      BY <1>1, <2>1
    <3>2. \A i \in 1 .. m + 1 : G[i] \in Seq(Nat)
      BY <1>3, <3>1, Zenon
    <3> QED
      BY <3>2, FlatNext
  <2>4. t \in Seq(Nat) /\ Len(t) = corpus[m + 1][f] /\ \A k \in 1 .. corpus[m + 1][f] : t[k] = m + 1
    BY <1>3, <2>1
  <2> HIDE DEF s, t, Pre
  <2>5. s \in Seq(Nat) /\ Len(s) = Before(f, m + 1) /\ Before(f, m + 1) \in Nat
    BY <1>1, <2>1, <2>2
  <2>6. u \in Seq(Nat) /\ Len(u) = Len(s) + Len(t)
        /\ \A k \in 1 .. Len(s) + Len(t) : u[k] = IF k <= Len(s) THEN s[k] ELSE t[k - Len(s)]
    <3>1. s \in Seq(Nat) /\ t \in Seq(Nat)
      BY <2>4, <2>5
    <3> QED
      BY <3>1
  <2>7. Before(f, (m + 1) + 1) = Before(f, m + 1) + corpus[m + 1][f] /\ corpus[m + 1][f] \in Nat
    BY <1>1, <2>1
  <2> HIDE DEF u
  <2>8. ASSUME NEW d \in 1 .. m + 1, NEW r \in Nat, Before(f, d) <= r, r < Before(f, d + 1) PROVE u[r + 1] = d
    <3>1. CASE d = m + 1
      <4>1. r + 1 \in 1 .. Len(s) + Len(t) /\ ~(r + 1 <= Len(s)) /\ (r + 1) - Len(s) \in 1 .. corpus[m + 1][f]
        BY <2>4, <2>5, <2>7, <2>8, <3>1
      <4>2. u[r + 1] = t[(r + 1) - Len(s)]
        BY <2>6, <4>1
      <4> QED
        BY <2>4, <3>1, <4>1, <4>2
    <3>2. CASE d # m + 1
      <4>1. d \in 1 .. m /\ d + 1 \in 1 .. n + 1 /\ m + 1 \in 1 .. n + 1 /\ d + 1 <= m + 1
        BY <1>1, <2>1, <3>2
      <4>2. Before(f, d + 1) <= Before(f, m + 1) /\ Before(f, d + 1) \in Nat
        BY <1>1, <1>2, <4>1
      <4>3. r + 1 \in 1 .. Len(s) + Len(t) /\ r + 1 <= Len(s)
        BY <2>4, <2>5, <2>7, <2>8, <4>2
      <4>4. u[r + 1] = s[r + 1]
        BY <2>6, <4>3
      <4> QED
        BY <2>2, <2>8, <4>1, <4>4
    <3> QED
      BY <3>1, <3>2
  <2>9. Len(u) = Before(f, (m + 1) + 1)
    BY <2>4, <2>5, <2>6, <2>7
  <2>10. Good(u, m + 1)
    BY <2>6, <2>8, <2>9
  <2> HIDE DEF Good
  <2> QED
    BY <2>3, <2>10
<1> HIDE DEF N
<1>7. n \in N
  BY <1>1, <1>5, <1>6, NatInd
<1>8. Good(Shard!Rows(f), n)
  BY <1>1, <1>4, <1>7 DEF N
<1> HIDE DEF Pre
<1> QED
  BY <1>8 DEF n, Shard!Doc

\* A row is of one document, and it lies before every one that comes later.
LEMMA RowDoc ==
    ASSUME corpus \in StageTables, NEW f \in Fields, NEW r \in Nat, r < Before(f, Len(corpus) + 1)
    PROVE  LET d == Shard!Doc(Shard!Rows(f), r)
           IN /\ d \in 1 .. Len(corpus) /\ Before(f, d) <= r /\ r < Before(f, d + 1) /\ corpus[d][f] > 0
              /\ \A o \in 1 .. Len(corpus) + 1 : r < Before(f, o) <=> d < o
<1> DEFINE n == Len(corpus)
           T == {k \in Nat : k + 1 <= n /\ r < Before(f, (k + 1) + 1)}
<1>1. /\ n \in Nat /\ Before(f, 1) = 0
      /\ \A d \in 1 .. n + 1 : Before(f, d) \in Nat
      /\ \A d \in 1 .. n : Before(f, d + 1) = Before(f, d) + corpus[d][f] /\ corpus[d][f] \in Nat
  BY Corpus, BeforeNext
<1>2. \A a, b \in 1 .. n + 1 : a <= b => Before(f, a) <= Before(f, b)
  BY BeforeRises
<1>3. r < Before(f, n + 1)
  OBVIOUS
<1>4. \A d \in 1 .. n : Before(f, d) <= r /\ r < Before(f, d + 1) => Shard!Doc(Shard!Rows(f), r) = d
  BY RowsAt
<1> HIDE DEF n
<1>5. n # 0
  BY <1>1, <1>3
<1>6. T \subseteq Nat /\ n - 1 \in T
  <2>1. n - 1 \in Nat /\ ((n - 1) + 1) + 1 = n + 1 /\ (n - 1) + 1 <= n
    BY <1>1, <1>5
  <2> QED
    BY <1>3, <2>1
<1>7. PICK k \in T : \A j \in T : k <= j
  <2> HIDE DEF T
  <2> QED
    BY <1>6, LeastNat
<1> DEFINE d == k + 1
<1>8. d \in 1 .. n /\ r < Before(f, d + 1)
  BY <1>1, <1>7
<1>9. Before(f, d) <= r
  <2>1. CASE k = 0
    BY <1>1, <2>1
  <2>2. CASE k # 0
    <3>1. k - 1 \in Nat /\ (k - 1) + 1 = k /\ ~(k <= k - 1) /\ k <= n /\ k \in Nat
      BY <1>1, <1>7, <2>2
    <3>2. k - 1 \notin T
      BY <1>7, <3>1
    <3>3. ~(r < Before(f, k + 1))
      BY <3>1, <3>2
    <3>4. Before(f, k + 1) \in Nat
      BY <1>1, <1>8
    <3> QED
      BY <3>3, <3>4
  <2> QED
    BY <2>1, <2>2
<1> HIDE DEF d, T
<1>10. Shard!Doc(Shard!Rows(f), r) = d
  BY <1>4, <1>8, <1>9
<1>11. corpus[d][f] > 0
  BY <1>1, <1>8, <1>9
<1>12. ASSUME NEW o \in 1 .. n + 1 PROVE r < Before(f, o) <=> d < o
  <2>1. d + 1 \in 1 .. n + 1 /\ d \in 1 .. n + 1
    BY <1>1, <1>8
  <2>2. CASE d < o
    <3>1. Before(f, d + 1) <= Before(f, o)
      BY <1>1, <1>2, <1>8, <2>1, <2>2
    <3>2. Before(f, d + 1) \in Nat /\ Before(f, o) \in Nat
      BY <1>1, <2>1
    <3> QED
      BY <1>8, <2>2, <3>1, <3>2
  <2>3. CASE ~(d < o)
    <3>1. Before(f, o) <= Before(f, d)
      BY <1>1, <1>2, <1>8, <2>1, <2>3
    <3>2. Before(f, d) \in Nat /\ Before(f, o) \in Nat
      BY <1>1, <2>1
    <3> QED
      BY <1>9, <2>3, <3>1, <3>2
  <2> QED
    BY <2>2, <2>3
<1> QED
  BY <1>8, <1>9, <1>10, <1>11, <1>12 DEF n

\* Documents without work between two starts that are one, and so without rows
\* of the second table.
LEMMA NoWork ==
    ASSUME corpus \in StageTables, NEW a \in 1 .. Len(corpus) + 1, NEW b \in 1 .. Len(corpus) + 1,
           a <= b, Before("work", a) = Before("work", b)
    PROVE  Before("sub", a) = Before("sub", b) /\ \A d \in a .. b - 1 : ~HasWork(d)
<1> DEFINE n == Len(corpus)
           N == {k \in Nat : a + k <= b => Before("sub", a + k) = Before("sub", a)}
<1>1. /\ n \in Nat
      /\ \A d \in 1 .. n + 1 : Before("work", d) \in Nat /\ Before("sub", d) \in Nat
      /\ \A d \in 1 .. n : /\ Before("work", d + 1) = Before("work", d) + corpus[d].work
                           /\ Before("sub", d + 1) = Before("sub", d) + corpus[d].sub
                           /\ corpus[d].work \in Nat /\ (corpus[d].work = 0 => corpus[d].sub = 0)
  <2>1. "work" \in Fields /\ "sub" \in Fields
    BY DEF Fields
  <2> QED
    BY <2>1, Corpus, BeforeNext
<1>2. \A c, d \in 1 .. n + 1 : c <= d => Before("work", c) <= Before("work", d)
  <2>1. "work" \in Fields
    BY DEF Fields
  <2> QED
    BY <2>1, BeforeRises
<1>3. a \in 1 .. n + 1 /\ b \in 1 .. n + 1
  OBVIOUS
<1> HIDE DEF n
<1>4. ASSUME NEW d \in a .. b - 1 PROVE corpus[d].work = 0 /\ d \in 1 .. n
  <2>1. d \in 1 .. n /\ d \in 1 .. n + 1 /\ d + 1 \in 1 .. n + 1 /\ a <= d /\ d + 1 <= b
    BY <1>1, <1>3
  <2>2. Before("work", a) <= Before("work", d) /\ Before("work", d + 1) <= Before("work", b)
    BY <1>2, <1>3, <2>1
  <2>3. Before("work", d + 1) = Before("work", d) + corpus[d].work /\ corpus[d].work \in Nat
    BY <1>1, <2>1
  <2>4. Before("work", a) \in Nat /\ Before("work", d) \in Nat
    BY <1>1, <1>3, <2>1
  <2> QED
    BY <2>1, <2>2, <2>3, <2>4
<1>5. 0 \in N
  <2>1. a + 0 = a
    BY <1>1, <1>3
  <2> QED
    BY <2>1
<1>6. ASSUME NEW k \in Nat, k \in N PROVE k + 1 \in N
  <2> SUFFICES ASSUME a + (k + 1) <= b PROVE Before("sub", a + (k + 1)) = Before("sub", a)
    OBVIOUS
  <2>1. a + k \in a .. b - 1 /\ a + k <= b /\ a + (k + 1) = (a + k) + 1
    BY <1>1, <1>3
  <2>2. corpus[a + k].work = 0 /\ a + k \in 1 .. n /\ a + k \in 1 .. n + 1
    <3>1. corpus[a + k].work = 0 /\ a + k \in 1 .. n
      BY <1>4, <2>1
    <3> QED
      BY <1>1, <3>1
  <2>3. Before("sub", (a + k) + 1) = Before("sub", a + k) + corpus[a + k].sub /\ corpus[a + k].sub = 0
    BY <1>1, <2>2
  <2>4. Before("sub", a + k) = Before("sub", a) /\ Before("sub", a + k) \in Nat
    BY <1>1, <1>6, <2>1, <2>2
  <2> QED
    BY <2>1, <2>3, <2>4
<1> HIDE DEF N
<1>7. Nat \subseteq N
  BY <1>5, <1>6, NatInd
<1>8. b - a \in Nat /\ a + (b - a) = b
  BY <1>1, <1>3
<1>9. Before("sub", a) = Before("sub", b)
  BY <1>7, <1>8 DEF N
<1>10. \A d \in a .. b - 1 : ~HasWork(d)
  BY <1>4 DEF HasWork
<1> QED
  BY <1>9, <1>10

\* Reading by row groups and dropping what is outside gives the rows asked for.
LEMMA RowsRead ==
    ASSUME group \in RowGroups, NEW rows, Len(rows) \in Nat, NEW from \in Nat, NEW to \in Nat, to <= Len(rows)
    PROVE  Shard!Left(rows, from, to) = from .. to - 1
<1> DEFINE len == Len(rows)
           Groups(r) == \E g \in 0 .. len \div group :
                           /\ g * group <= r /\ r < (g + 1) * group
                           /\ (g + 1) * group > from /\ g * group < to
<1>1. group \in Nat \ {0} /\ len \in Nat
  BY TablesAssumption
<1>2. Shard!Left(rows, from, to) = {r \in {q \in 0 .. len - 1 : Groups(q)} : from <= r /\ r < to}
  BY DEF Shard!Left, Shard!RowsOf
<1>3. ASSUME NEW r \in from .. to - 1 PROVE r \in 0 .. len - 1 /\ Groups(r)
  <2> DEFINE g == r \div group
             h == len \div group
  <2>1. r \in Nat /\ r < len /\ r < to /\ from <= r
    BY <1>1
  <2> HIDE DEF len
  <2>2. g \in Nat /\ g * group <= r /\ r < g * group + group
    BY <1>1, <2>1
  <2>3. h \in Nat /\ len < h * group + group
    BY <1>1
  <2> HIDE DEF g, h
  <2>4. (g + 1) * group = g * group + group /\ (h + 1) * group = h * group + group
        /\ (h + 1 <= g => (h + 1) * group <= g * group) /\ g * group \in Nat /\ h * group \in Nat
    <3>1. h + 1 \in Nat
      BY <2>3
    <3> QED
      BY <1>1, <2>2, <2>3, <3>1, Products
  <2>5. ~(h + 1 <= g)
    BY <1>1, <2>1, <2>2, <2>3, <2>4
  <2>6. g \in 0 .. h
    BY <2>2, <2>3, <2>5
  <2>7. g * group <= r /\ r < (g + 1) * group /\ (g + 1) * group > from /\ g * group < to
    BY <1>1, <2>1, <2>2, <2>4
  <2>8. r \in 0 .. len - 1
    BY <1>1, <2>1
  <2> QED
    BY <2>6, <2>7, <2>8 DEF h
<1> HIDE DEF Groups, len
<1> QED
  BY <1>2, <1>3

\* The rows a stream takes for the document it is at are those of the document.
LEMMA RunIs ==
    ASSUME corpus \in StageTables, group \in RowGroups, NEW f \in Fields, NEW d \in 1 .. Len(corpus),
           NEW to \in Nat, Before(f, d + 1) <= to, to <= Before(f, Len(corpus) + 1)
    PROVE  /\ Shard!RunOf(Shard!Rows(f), Before(f, d), to, d) = Shard!RowsOfDoc(f, d)
           /\ Shard!RowsOfDoc(f, d) = Before(f, d) .. Before(f, d + 1) - 1
           /\ Cardinality(Shard!RowsOfDoc(f, d)) = corpus[d][f]
<1> DEFINE n == Len(corpus)
           rows == Shard!Rows(f)
           from == Before(f, d)
           next == Before(f, d + 1)
<1>1. from \in Nat /\ next \in Nat /\ next = from + corpus[d][f] /\ corpus[d][f] \in Nat /\ n \in Nat
      /\ Len(rows) = Before(f, n + 1) /\ Len(rows) \in Nat
  <2>1. n \in Nat /\ corpus[d][f] \in Nat
    BY Corpus
  <2>2. d \in 1 .. n + 1 /\ d + 1 \in 1 .. n + 1 /\ n + 1 \in 1 .. n + 1
    BY <2>1
  <2>3. Before(f, n + 1) \in Nat
    BY <2>2, BeforeNext
  <2> QED
    BY <2>1, <2>2, <2>3, BeforeNext, RowsAt
<1>2. Shard!Left(rows, from, to) = from .. to - 1
  <2> HIDE DEF rows, from, n
  <2>1. to <= Len(rows)
    BY <1>1 DEF n
  <2> QED
    BY <1>1, <2>1, RowsRead
<1>3. Shard!RowsOfDoc(f, d) = from .. next - 1
  <2>1. Shard!RowsOfDoc(f, d) = from .. from + corpus[d][f] - 1
    BY DEF Shard!RowsOfDoc, Before
  <2> QED
    BY <1>1, <2>1
<1>4. ASSUME NEW r \in from .. to - 1 PROVE Shard!Doc(rows, r) = d <=> r < next
  <2>1. r \in Nat /\ r < Before(f, n + 1) /\ from <= r
    BY <1>1
  <2>2. CASE r < next
    BY <2>1, <2>2, RowsAt
  <2>3. CASE ~(r < next)
    <3>1. r < Before(f, Shard!Doc(rows, r) + 1)
      BY <2>1, RowDoc
    <3> QED
      BY <2>3, <3>1
  <2> QED
    BY <2>2, <2>3
<1>5. Shard!RunOf(rows, from, to, d) = {r \in Shard!Left(rows, from, to) : \A q \in from .. r : Shard!Doc(rows, q) = d}
  BY DEF Shard!RunOf
<1> HIDE DEF rows, from, next
<1>6. next <= to
  BY DEF next
<1>7. ASSUME NEW r \in from .. to - 1 PROVE (\A q \in from .. r : Shard!Doc(rows, q) = d) <=> r \in from .. next - 1
  <2>1. r \in from .. r /\ r \in Int
    BY <1>1
  <2>2. ASSUME r \in from .. next - 1, NEW q \in from .. r PROVE Shard!Doc(rows, q) = d
    <3>1. q \in from .. to - 1 /\ q < next
      BY <1>1, <1>6, <2>2
    <3> QED
      BY <1>4, <3>1
  <2>3. ASSUME \A q \in from .. r : Shard!Doc(rows, q) = d PROVE r \in from .. next - 1
    <3>1. r < next
      BY <1>4, <2>1, <2>3
    <3> QED
      BY <1>1, <3>1
  <2> QED
    BY <2>2, <2>3
<1>8. Shard!RunOf(rows, from, to, d) = from .. next - 1
  <2>1. \A r \in from .. next - 1 : r \in from .. to - 1
    BY <1>1, <1>6
  <2> QED
    BY <1>2, <1>5, <1>7, <2>1
<1>9. Cardinality(from .. next - 1) = corpus[d][f]
  <2>1. from \in Int /\ next - 1 \in Int
    BY <1>1
  <2>2. Cardinality(from .. next - 1) = IF from > next - 1 THEN 0 ELSE (next - 1) - from + 1
    BY <2>1, FS_Interval
  <2> DEFINE c == corpus[d][f]
  <2>3. c \in Nat /\ next = from + c /\ from \in Nat
    BY <1>1
  <2> HIDE DEF c
  <2>4. (IF from > next - 1 THEN 0 ELSE (next - 1) - from + 1) = c
    BY <2>3
  <2> QED
    BY <2>2, <2>4 DEF c
<1> QED
  BY <1>3, <1>8, <1>9 DEF rows, from, next

-----------------------------------------------------------------------------
(* What is written.                                                           *)

EntryRec == [doc : Nat, work : SUBSET Int, sub : SUBSET Int]

\* Documents without work are listed by nothing.
LEMMA ListsNone ==
    ASSUME NEW a, NEW b, \A d \in a .. b : ~HasWork(d)
    PROVE  Lists(<<>>, a, b)
<1>1. Len(<<>>) = 0 /\ 1 .. 0 = {}
  OBVIOUS
<1> QED
  BY <1>1 DEF Lists

\* The next document with work is listed by its entry.
LEMMA ListsOne ==
    ASSUME NEW a \in Nat, NEW d \in Nat, a <= d, HasWork(d), \A e \in a .. d - 1 : ~HasWork(e)
    PROVE  Lists(<<Entry(d)>>, a, d)
<1> DEFINE s == <<Entry(d)>>
<1>1. Len(s) = 1 /\ s[1] = Entry(d) /\ Entry(d).doc = d
  BY DEF Entry
<1> HIDE DEF s
<1>2. \A j \in 1 .. 1 : j = 1
  OBVIOUS
<1>3. \A e \in a .. d : HasWork(e) => e = d
  OBVIOUS
<1>4. d \in a .. d
  OBVIOUS
<1>5. Lists(s, a, d)
  BY <1>1, <1>2, <1>3, <1>4 DEF Lists
<1> QED
  BY <1>5 DEF s

\* What one run of documents writes and what the next one does.
LEMMA ListsJoin ==
    ASSUME NEW X, NEW s \in Seq(X), NEW t \in Seq(X), NEW a \in Nat, NEW m \in Int, NEW b \in Int,
           a <= m + 1, m <= b, Lists(s, a, m), Lists(t, m + 1, b)
    PROVE  Lists(s \o t, a, b)
<1> DEFINE u == s \o t
           p == Len(s)
           q == Len(t)
<1>1. p \in Nat /\ q \in Nat /\ Len(u) = p + q
      /\ \A k \in 1 .. p + q : u[k] = IF k <= p THEN s[k] ELSE t[k - p]
  OBVIOUS
<1>2. /\ \A j \in 1 .. p : s[j].doc \in a .. m /\ HasWork(s[j].doc) /\ s[j] = Entry(s[j].doc)
      /\ \A i, j \in 1 .. p : i < j => s[i].doc < s[j].doc
      /\ \A d \in a .. m : HasWork(d) => \E j \in 1 .. p : s[j].doc = d
  BY DEF Lists
<1>3. /\ \A j \in 1 .. q : t[j].doc \in m + 1 .. b /\ HasWork(t[j].doc) /\ t[j] = Entry(t[j].doc)
      /\ \A i, j \in 1 .. q : i < j => t[i].doc < t[j].doc
      /\ \A d \in m + 1 .. b : HasWork(d) => \E j \in 1 .. q : t[j].doc = d
  BY DEF Lists
<1> HIDE DEF u, p, q
<1>4. ASSUME NEW k \in 1 .. p + q
      PROVE  (k \in 1 .. p /\ u[k] = s[k]) \/ (k - p \in 1 .. q /\ u[k] = t[k - p])
  <2>1. u[k] = IF k <= p THEN s[k] ELSE t[k - p]
    BY <1>1
  <2>2. p \in Nat /\ q \in Nat
    BY <1>1
  <2>3. IF k <= p THEN k \in 1 .. p ELSE k - p \in 1 .. q
    BY <2>2
  <2> QED
    BY <2>1, <2>3
<1>5. ASSUME NEW k \in 1 .. p + q
      PROVE  u[k].doc \in a .. b /\ HasWork(u[k].doc) /\ u[k] = Entry(u[k].doc)
  <2>1. \A d \in a .. m : d \in a .. b
    OBVIOUS
  <2>2. \A d \in m + 1 .. b : d \in a .. b
    OBVIOUS
  <2>3. CASE k \in 1 .. p /\ u[k] = s[k]
    BY <1>2, <2>1, <2>3
  <2>4. CASE k - p \in 1 .. q /\ u[k] = t[k - p]
    BY <1>3, <2>2, <2>4
  <2> QED
    BY <1>4, <2>3, <2>4
<1>6. ASSUME NEW i \in 1 .. p + q, NEW j \in 1 .. p + q, i < j PROVE u[i].doc < u[j].doc
  <2>1. CASE i \in 1 .. p /\ u[i] = s[i] /\ j \in 1 .. p /\ u[j] = s[j]
    BY <1>2, <1>6, <2>1
  <2>2. CASE i \in 1 .. p /\ u[i] = s[i] /\ j - p \in 1 .. q /\ u[j] = t[j - p]
    <3>1. s[i].doc \in a .. m /\ t[j - p].doc \in m + 1 .. b
      BY <1>2, <1>3, <2>2
    <3> QED
      BY <2>2, <3>1
  <2>3. CASE i - p \in 1 .. q /\ u[i] = t[i - p]
    <3>1. j - p \in 1 .. q /\ ~(j \in 1 .. p) /\ i - p < j - p
      BY <1>1, <1>6, <2>3
    <3>2. u[j] = t[j - p]
      BY <1>4, <3>1
    <3> QED
      BY <1>3, <2>3, <3>1, <3>2
  <2> QED
    BY <1>4, <2>1, <2>2, <2>3
<1>7. ASSUME NEW d \in a .. b, HasWork(d) PROVE \E k \in 1 .. p + q : u[k].doc = d
  <2>1. CASE d \in a .. m
    <3>1. PICK j \in 1 .. p : s[j].doc = d
      BY <1>2, <1>7, <2>1
    <3>2. j \in 1 .. p + q /\ j <= p
      BY <1>1
    <3>3. u[j] = s[j]
      BY <1>1, <3>2
    <3> QED
      BY <3>1, <3>2, <3>3
  <2>2. CASE d \in m + 1 .. b
    <3>1. PICK j \in 1 .. q : t[j].doc = d
      BY <1>3, <1>7, <2>2
    <3>2. p + j \in 1 .. p + q /\ ~(p + j <= p) /\ (p + j) - p = j
      BY <1>1
    <3>3. u[p + j] = t[(p + j) - p]
      BY <1>1, <3>2
    <3> QED
      BY <3>1, <3>2, <3>3
  <2>3. d \in a .. m \/ d \in m + 1 .. b
    OBVIOUS
  <2> QED
    BY <2>1, <2>2, <2>3
<1>8. Lists(u, a, b)
  BY <1>1, <1>5, <1>6, <1>7 DEF Lists
<1> QED
  BY <1>8 DEF u

\* Documents without work add nothing.
LEMMA ListsOn ==
    ASSUME NEW X, NEW s \in Seq(X), NEW a \in Nat, NEW m \in Int, NEW b \in Int,
           a <= m + 1, m <= b, Lists(s, a, m), \A d \in m + 1 .. b : ~HasWork(d)
    PROVE  Lists(s, a, b)
<1>1. <<>> \in Seq(X) /\ s \o <<>> = s
  BY ConcatEmptySeq, EmptySeq
<1>2. Lists(<<>>, m + 1, b)
  BY ListsNone
<1>3. Lists(s \o <<>>, a, b)
  BY <1>1, <1>2, ListsJoin
<1> QED
  BY <1>1, <1>3

\* What is written for all the documents is what one worker writes.
LEMMA ListsWhole ==
    ASSUME corpus \in StageTables, NEW s \in Seq(EntryRec), Lists(s, 1, Len(corpus))
    PROVE  s = Shard!Unsharded
<1> DEFINE n == Len(corpus)
           m == Len(s)
           P(j) == [q \in 1 .. j |-> s[q].doc]
           Upon(e) == {f \in 1 .. e : corpus[f].work > 0}
<1>1. n \in Nat /\ m \in Nat /\ DOMAIN corpus = 1 .. n /\ DOMAIN s = 1 .. m
  BY Corpus, LenProperties
<1>2. /\ \A j \in 1 .. m : s[j].doc \in 1 .. n /\ corpus[s[j].doc].work > 0 /\ s[j] = Entry(s[j].doc)
      /\ \A i, j \in 1 .. m : i < j => s[i].doc < s[j].doc
      /\ \A d \in 1 .. n : corpus[d].work > 0 => \E j \in 1 .. m : s[j].doc = d
  BY DEF Lists, HasWork
<1> HIDE DEF n, m
<1>3. ASSUME NEW j \in 0 .. m
      PROVE  Cardinality({s[q].doc : q \in 1 .. j}) = j
  <2> DEFINE p == P(j)
  <2>1. p \in [1 .. j -> Nat]
    BY <1>1, <1>2
  <2>2. \A x, y \in 1 .. j : x < y => p[x] < p[y]
    BY <1>1, <1>2
  <2>3. \A x \in 1 .. j : p[x] \in Nat
    BY <2>1
  <2>4. DOMAIN p = 1 .. j /\ Range(p) = {s[q].doc : q \in 1 .. j}
    BY DEF Range
  <2> HIDE DEF p
  <2>5. p \in Seq(Nat) /\ Len(p) = j
    BY <1>1, <2>1, FunIsSeq
  <2>6. IsInjective(p)
    <3>1. ASSUME NEW x \in 1 .. j, NEW y \in 1 .. j, p[x] = p[y] PROVE x = y
      BY <2>2, <2>3, <3>1
    <3> QED
      BY <2>4, <3>1 DEF IsInjective
  <2> QED
    BY <2>4, <2>5, <2>6, InjectiveCount
<1>4. ASSUME NEW j \in 1 .. m PROVE Upon(s[j].doc) = {s[q].doc : q \in 1 .. j}
  <2>1. ASSUME NEW f \in 1 .. s[j].doc, corpus[f].work > 0 PROVE \E q \in 1 .. j : f = s[q].doc
    <3>1. f \in 1 .. n
      BY <1>1, <1>2
    <3>2. PICK q \in 1 .. m : s[q].doc = f
      BY <1>2, <2>1, <3>1
    <3>3. ~(j < q)
      <4>1. j < q => s[j].doc < f
        BY <1>2, <3>2
      <4> QED
        BY <1>1, <1>2, <3>1, <4>1
    <3> QED
      BY <1>1, <3>2, <3>3
  <2>2. ASSUME NEW q \in 1 .. j PROVE s[q].doc \in 1 .. s[j].doc /\ corpus[s[q].doc].work > 0
    <3>1. q \in 1 .. m /\ (q < j \/ q = j)
      BY <1>1
    <3>2. q < j => s[q].doc < s[j].doc
      BY <1>2, <3>1
    <3>3. s[q].doc \in 1 .. n /\ s[j].doc \in 1 .. n /\ corpus[s[q].doc].work > 0
      BY <1>2, <3>1
    <3> QED
      BY <3>1, <3>2, <3>3
  <2> QED
    BY <2>1, <2>2
<1>5. ASSUME NEW j \in 1 .. m PROVE Cardinality(Upon(s[j].doc)) = j
  <2>1. j \in 0 .. m
    BY <1>1
  <2> QED
    BY <1>3, <1>4, <2>1
<1>6. Cardinality({d \in 1 .. n : corpus[d].work > 0}) = m
  <2>1. {d \in 1 .. n : corpus[d].work > 0} = {s[q].doc : q \in 1 .. m}
    BY <1>2
  <2>2. m \in 0 .. m
    BY <1>1
  <2> QED
    BY <1>3, <2>1, <2>2
<1> DEFINE C(k) == CHOOSE e \in 1 .. n : corpus[e].work > 0 /\ Cardinality(Upon(e)) = k
<1>7. ASSUME NEW j \in 1 .. m PROVE C(j) = s[j].doc
  <2>1. s[j].doc \in 1 .. n /\ corpus[s[j].doc].work > 0 /\ Cardinality(Upon(s[j].doc)) = j
    BY <1>2, <1>5
  <2>2. ASSUME NEW e \in 1 .. n, corpus[e].work > 0, Cardinality(Upon(e)) = j PROVE e = s[j].doc
    <3>1. PICK q \in 1 .. m : s[q].doc = e
      BY <1>2, <2>2
    <3>2. Cardinality(Upon(e)) = q
      BY <1>5, <3>1
    <3> QED
      BY <2>2, <3>1, <3>2
  <2> HIDE DEF Upon
  <2> QED
    BY <2>1, <2>2
<1>8. Shard!Unsharded = [k \in 1 .. Cardinality({d \in 1 .. n : corpus[d].work > 0}) |-> Entry(C(k))]
  BY <1>1, Zenon DEF Shard!Unsharded, Shard!Documents, Shard!Cardinality, Cardinality, Entry
<1> HIDE DEF C, Upon
<1>9. Shard!Unsharded = [k \in 1 .. m |-> Entry(C(k))]
  BY <1>6, <1>8
<1>10. \A k \in 1 .. m : s[k] = Entry(C(k))
  BY <1>2, <1>7
<1>11. s = [k \in 1 .. m |-> s[k]]
  BY <1>1
<1> QED
  BY <1>9, <1>10, <1>11

-----------------------------------------------------------------------------
(* The plan.                                                                  *)

\* What stays when the corpus does.
LEMMA Fixed ==
    ASSUME corpus' = corpus, asked' = asked
    PROVE  /\ \A f, d : Before(f, d)' = Before(f, d)
           /\ Shard!Work' = Shard!Work /\ Shard!Sub' = Shard!Sub
           /\ Shard!Total' = Shard!Total /\ Shard!Per' = Shard!Per
           /\ \A d : HasWork(d)' = HasWork(d) /\ Entry(d)' = Entry(d)
<1>1. \A f, d : Before(f, d)' = Before(f, d)
  BY DEF Before
<1>2. \A f : Shard!Rows(f)' = Shard!Rows(f)
  BY DEF Shard!Rows, Shard!Documents
<1>3. Shard!Work' = Shard!Work /\ Shard!Sub' = Shard!Sub
  BY <1>2 DEF Shard!Work, Shard!Sub
<1>4. Shard!Total' = Shard!Total
  BY <1>3 DEF Shard!Total
<1>5. Shard!Per' = Shard!Per
  BY <1>4 DEF Shard!Per, Shard!Ceil
<1>6. \A f, d : Shard!RowsOfDoc(f, d)' = Shard!RowsOfDoc(f, d)
  BY DEF Shard!RowsOfDoc
<1>7. \A d : HasWork(d)' = HasWork(d) /\ Entry(d)' = Entry(d)
  BY <1>6 DEF HasWork, Entry
<1> QED
  BY <1>1, <1>3, <1>4, <1>5, <1>7

\* How long the tables are, and how many rows a shard is to have.
LEMMA Sizes ==
    ASSUME corpus \in StageTables, asked \in ShardNumbers
    PROVE  /\ Shard!Total = Before("work", Len(corpus) + 1) /\ Shard!Total \in Nat
           /\ Len(Shard!Sub) = Before("sub", Len(corpus) + 1) /\ Len(Shard!Sub) \in Nat
           /\ asked \in Nat \ {0} /\ Shard!Per \in Nat \ {0} /\ Shard!Total <= Shard!Per * asked
<1>1. "work" \in Fields /\ "sub" \in Fields
  BY DEF Fields
<1>2. Len(corpus) \in Nat /\ Len(corpus) + 1 \in 1 .. Len(corpus) + 1
  BY Corpus
<1>3. Shard!Total = Before("work", Len(corpus) + 1) /\ Shard!Total \in Nat
  BY <1>1, <1>2, RowsAt, BeforeNext DEF Shard!Total, Shard!Work
<1>4. Len(Shard!Sub) = Before("sub", Len(corpus) + 1) /\ Len(Shard!Sub) \in Nat
  BY <1>1, <1>2, RowsAt, BeforeNext DEF Shard!Sub
<1>5. asked \in Nat \ {0}
  BY TablesAssumption
<1> DEFINE c == Shard!Ceil(Shard!Total, asked)
           p == Shard!Per
           t == Shard!Total
<1>6. c = (t + asked - 1) \div asked
  BY DEF Shard!Ceil
<1>7. p = IF c > 1 THEN c ELSE 1
  BY DEF Shard!Per
<1>8. t \in Nat
  BY <1>3
<1> HIDE DEF c, p, t
<1>9. c \in Nat /\ t <= c * asked
  BY <1>5, <1>6, <1>8, RunsOf
<1>10. p \in Nat \ {0} /\ c <= p
  BY <1>7, <1>9
<1>11. c * asked <= p * asked /\ c * asked \in Nat /\ p * asked \in Nat
  BY <1>5, <1>9, <1>10, Products
<1>12. t <= p * asked
  BY <1>8, <1>9, <1>11
<1> QED
  BY <1>3, <1>4, <1>5, <1>10, <1>12 DEF p, t

\* The document a range opens with.
LEMMA OpenerIs ==
    ASSUME corpus \in StageTables, asked \in ShardNumbers, Planned, NEW k \in 1 .. Len(ranges)
    PROVE  LET o == Shard!Opener(k)
           IN /\ o \in 1 .. Len(corpus) /\ HasWork(o)
              /\ Before("work", o) = ranges[k].from /\ ranges[k].from \in Nat
              /\ First(k) \in 1 .. o /\ (k > 1 => First(k) = o)
              /\ Before("sub", o) = Before("sub", First(k))
<1> DEFINE o == Shard!Opener(k)
           r == ranges[k].from
           n == Len(corpus)
<1>1. "work" \in Fields /\ n \in Nat /\ Before("work", 1) = 0
  BY Corpus, BeforeNext DEF Fields
<1>2. Len(ranges) \in Nat
  BY LenProperties DEF Planned
<1>3. r \in Nat /\ r < Before("work", n + 1)
  <2>1. ranges[k] \in RangeRec
    BY ElementOfSeq DEF Planned
  <2>2. r < Shard!Total
    BY DEF Planned
  <2> QED
    BY <2>1, <2>2, Sizes DEF RangeRec
<1>4. o \in 1 .. n /\ Before("work", o) <= r /\ r < Before("work", o + 1) /\ corpus[o].work > 0
      /\ \A d \in 1 .. n + 1 : r < Before("work", d) <=> d > o
  <2>1. o = Shard!Doc(Shard!Rows("work"), r)
    BY DEF Shard!Opener, Shard!Work
  <2> HIDE DEF o, r
  <2> QED
    BY <1>1, <1>3, <2>1, RowDoc
<1>5. r = Before("work", First(k)) /\ First(k) \in 1 .. n
  BY DEF Planned
<1> HIDE DEF o, r
<1>6. \A d \in 1 .. n + 1 : Before("work", d) \in Nat
  BY <1>1, BeforeNext
<1>7. First(k) = IF k = 1 THEN 1 ELSE o
  BY <1>2 DEF First, o
<1>8. First(k) \in 1 .. o
  BY <1>1, <1>4, <1>7
<1>9. Before("work", o) = r
  <2>1. CASE k = 1
    <3>1. r = 0
      BY <1>1, <1>5, <1>7, <2>1
    <3>2. Before("work", o) \in Nat
      BY <1>1, <1>4, <1>6
    <3> QED
      BY <1>4, <3>1, <3>2
  <2>2. CASE k # 1
    BY <1>5, <1>7, <2>2
  <2> QED
    BY <2>1, <2>2
<1>10. Before("sub", o) = Before("sub", First(k))
  <2>1. First(k) \in 1 .. n + 1 /\ o \in 1 .. n + 1 /\ First(k) <= o
    BY <1>1, <1>4, <1>5, <1>8
  <2> QED
    BY <1>5, <1>9, <2>1, NoWork DEF n
<1>11. k > 1 => First(k) = o
  BY <1>7
<1> QED
  BY <1>3, <1>4, <1>8, <1>9, <1>10, <1>11 DEF o, r, n, HasWork

\* A later range opens with a later document.
LEMMA OpenersRise ==
    ASSUME corpus \in StageTables, asked \in ShardNumbers, Planned,
           NEW j \in 1 .. Len(ranges), NEW k \in 1 .. Len(ranges), j < k
    PROVE  Shard!Opener(j) < Shard!Opener(k)
<1> DEFINE o == Shard!Opener(k)
           r == ranges[j].from
<1>1. r < ranges[k].from
  <2>1. j \in 1 .. k - 1
    OBVIOUS
  <2> QED
    BY <2>1 DEF Planned
<1>2. o \in 1 .. Len(corpus) /\ ranges[k].from = Before("work", o) /\ r \in Nat /\ Len(corpus) \in Nat
  BY OpenerIs, Corpus
<1>3. r < Before("work", Len(corpus) + 1)
  BY Sizes DEF Planned
<1>4. Shard!Opener(j) = Shard!Doc(Shard!Rows("work"), r) /\ "work" \in Fields
  BY DEF Shard!Opener, Shard!Work, Fields
<1>5. o \in 1 .. Len(corpus) + 1 /\ r < Before("work", o)
  BY <1>1, <1>2
<1> HIDE DEF o, r
<1>6. \A d \in 1 .. Len(corpus) + 1 : r < Before("work", d) <=> Shard!Doc(Shard!Rows("work"), r) < d
  BY <1>2, <1>3, <1>4, RowDoc
<1> QED
  BY <1>4, <1>5, <1>6 DEF o

\* The shards together start with the first document and end with the last.
LEMMA FirstRises ==
    ASSUME corpus \in StageTables, asked \in ShardNumbers, Planned, NEW k \in 1 .. Len(ranges)
    PROVE  /\ First(1) = 1 /\ First(k) \in 1 .. Len(corpus) /\ First(k + 1) \in 1 .. Len(corpus) + 1
           /\ First(k) < First(k + 1) /\ Shard!Opener(k) < First(k + 1)
           /\ Before("work", First(k)) = ranges[k].from /\ Before("work", First(k + 1)) = ranges[k].to
<1>1. Len(ranges) \in Nat /\ Len(corpus) \in Nat
  BY Corpus, LenProperties DEF Planned
<1>2. First(k) \in 1 .. Shard!Opener(k) /\ Shard!Opener(k) \in 1 .. Len(corpus)
  BY OpenerIs
<1>3. Before("work", First(k)) = ranges[k].from
  BY DEF Planned
<1>4. First(1) = 1
  BY DEF First
<1>5. ranges[k].to = IF k = Len(ranges) THEN Shard!Total ELSE ranges[k + 1].from
  BY DEF Planned
<1>6. CASE k = Len(ranges)
  <2>1. First(k + 1) = Len(corpus) + 1
    BY <1>1, <1>6 DEF First
  <2> QED
    BY <1>1, <1>2, <1>3, <1>4, <1>5, <1>6, <2>1, Sizes
<1>7. CASE k # Len(ranges)
  <2>1. k + 1 \in 1 .. Len(ranges) /\ k < k + 1 /\ k + 1 > 1
    BY <1>1, <1>7
  <2>2. First(k + 1) = Shard!Opener(k + 1) /\ Shard!Opener(k + 1) \in 1 .. Len(corpus)
        /\ Before("work", Shard!Opener(k + 1)) = ranges[k + 1].from
    BY <2>1, OpenerIs
  <2>3. Shard!Opener(k) < Shard!Opener(k + 1)
    BY <2>1, OpenersRise
  <2> QED
    BY <1>1, <1>2, <1>3, <1>4, <1>5, <1>7, <2>2, <2>3
<1> QED
  BY <1>6, <1>7

\* What stays when the ranges do.
LEMMA FixedRanges ==
    ASSUME corpus' = corpus, asked' = asked, ranges' = ranges
    PROVE  \A k : Shard!Opener(k)' = Shard!Opener(k) /\ First(k)' = First(k)
<1>1. Shard!Work' = Shard!Work
  BY Fixed
<1>2. \A k : Shard!Opener(k)' = Shard!Opener(k)
  BY <1>1 DEF Shard!Opener, Shard!Doc
<1> QED
  BY <1>2 DEF First

\* What steps after the plan leave alone.
LEMMA PlannedStays ==
    ASSUME corpus' = corpus, asked' = asked, ranges' = ranges, Planned, phase' # "plan",
           phase' \in {"align", "walk", "work"} => ranges # <<>>,
           phase' = "merge" /\ ranges = <<>> => Shard!Total = 0
    PROVE  Planned'
<1>1. Shard!Total' = Shard!Total /\ Shard!Per' = Shard!Per /\ \A f, d : Before(f, d)' = Before(f, d)
  BY Fixed
<1>2. \A k : First(k)' = First(k)
  BY FixedRanges
<1> QED
  BY <1>1, <1>2 DEF Planned

\* What the steps after the alignment leave alone.
LEMMA AlignedStays ==
    ASSUME corpus' = corpus, asked' = asked, ranges' = ranges, parent' = parent, docFrom' = docFrom, Aligned,
           phase' \in {"walk", "work", "merge"},
           phase' \in {"walk", "work"} /\ parent = "documents" => Len(docFrom) = Len(ranges)
    PROVE  Aligned'
BY FixedRanges DEF Aligned

\* What the steps after the walk leave alone.
LEMMA WalkedStays ==
    ASSUME corpus' = corpus, asked' = asked, ranges' = ranges, subFrom' = subFrom, Walked,
           phase' \in {"work", "merge"}, phase' = "work" => Len(subFrom) = Len(ranges)
    PROVE  Walked'
<1>1. \A f, d : Before(f, d)' = Before(f, d)
  BY Fixed
<1>2. \A k : Shard!Opener(k)' = Shard!Opener(k)
  BY FixedRanges
<1> QED
  BY <1>1, <1>2 DEF Walked

\* A range is closed where a document starts, a shard's worth of rows on at least.
LEMMA PlanRowCuts ==
    ASSUME ShardInv, Shard!PlanRow, at # 0, Shard!Cuts(at)
    PROVE  Planned'
<1> DEFINE L == Len(ranges)
           d == Shard!Doc(Shard!Work, at)
           n == Len(corpus)
           t == Shard!Total
           p == Shard!Per
<1>1. /\ corpus' = corpus /\ asked' = asked /\ phase = "plan" /\ phase' = "plan" /\ at < t /\ at' = at + 1 /\ at \in Nat
      /\ ranges' = [ranges EXCEPT ![L].to = at] \o <<[from |-> at, to |-> t]>> /\ target' = at + p
  BY DEF Shard!PlanRow, Shard!inputs, ShardInv
<1>2. /\ corpus \in StageTables /\ asked \in ShardNumbers /\ Planned
      /\ t \in Nat /\ p \in Nat \ {0} /\ t = Before("work", n + 1) /\ n \in Nat
  BY Sizes, Corpus DEF ShardInv
<1>3. ranges \in Seq(RangeRec) /\ ranges # <<>> /\ ranges[L].from < at /\ target = ranges[L].from + p
  BY <1>1, <1>2 DEF Planned
<1>4. at >= target /\ d # Shard!Doc(Shard!Work, at - 1)
  BY DEF Shard!Cuts
<1>5. d \in 1 .. n /\ Before("work", d) = at /\ at < Before("work", d + 1)
  <2>1. "work" \in Fields /\ at - 1 \in Nat /\ at - 1 < Before("work", n + 1) /\ at < Before("work", n + 1)
    BY <1>1, <1>2 DEF Fields
  <2>2. d = Shard!Doc(Shard!Rows("work"), at)
    BY DEF Shard!Work
  <2>3. d \in 1 .. n /\ Before("work", d) <= at /\ at < Before("work", d + 1)
    BY <1>1, <1>2, <2>1, <2>2, RowDoc
  <2>4. Before("work", d) \in Nat
    <3>1. d \in 1 .. n + 1
      BY <1>2, <2>3
    <3> QED
      BY <1>2, <2>1, <3>1, BeforeNext
  <2>5. ASSUME Before("work", d) <= at - 1 PROVE FALSE
    <3>1. at - 1 < Before("work", d + 1)
      <4>1. Before("work", d + 1) \in Nat
        <5>1. d + 1 \in 1 .. n + 1
          BY <1>2, <2>3
        <5> QED
          BY <1>2, <2>1, <5>1, BeforeNext
      <4> QED
        BY <1>1, <2>3, <4>1
    <3>2. Shard!Doc(Shard!Rows("work"), at - 1) = d
      BY <1>2, <2>1, <2>3, <2>5, <3>1, RowsAt
    <3> QED
      BY <1>4, <3>2 DEF Shard!Work
  <2> QED
    BY <1>1, <2>3, <2>4, <2>5
<1> DEFINE r == ranges'
           last == [from |-> at, to |-> t]
<1>6. /\ L \in Nat \ {0}
      /\ r \in Seq(RangeRec) /\ Len(r) = L + 1 /\ r[L + 1] = last
      /\ \A k \in 1 .. L : r[k].from = ranges[k].from /\ r[k].to = IF k = L THEN at ELSE ranges[k].to
  <2> DEFINE q == [ranges EXCEPT ![L].to = at]
  <2>1. L \in Nat \ {0}
    BY <1>3, EmptySeq, LenProperties
  <2>2. ranges[L] \in RangeRec
    BY <1>3, <2>1, ElementOfSeq
  <2>3. [ranges[L] EXCEPT !.to = at] \in RangeRec /\ [ranges[L] EXCEPT !.to = at].from = ranges[L].from
        /\ [ranges[L] EXCEPT !.to = at].to = at
    BY <1>1, <2>2 DEF RangeRec
  <2>4. q = [ranges EXCEPT ![L] = [ranges[L] EXCEPT !.to = at]]
    OBVIOUS
  <2>5. L \in 1 .. L
    BY <2>1
  <2>6. q \in Seq(RangeRec) /\ Len(q) = L /\ q[L] = [ranges[L] EXCEPT !.to = at]
        /\ \A k \in 1 .. L : k # L => q[k] = ranges[k]
    BY <1>3, <2>3, <2>4, <2>5, ExceptSeq
  <2>7. last \in RangeRec
    BY <1>1, <1>2 DEF RangeRec
  <2>8. r = q \o <<last>>
    BY <1>1
  <2> HIDE DEF q, last, r, L
  <2>9. <<last>> \in Seq(RangeRec) /\ Len(<<last>>) = 1 /\ <<last>>[1] = last
    BY <2>7
  <2>10. r \in Seq(RangeRec)
    BY <2>6, <2>8, <2>9
  <2>11. Len(r) = L + 1 /\ \A k \in 1 .. L + 1 : r[k] = IF k <= L THEN q[k] ELSE last
    BY <2>1, <2>6, <2>8, <2>9
  <2>12. ASSUME NEW k \in 1 .. L PROVE r[k] = q[k]
    BY <2>1, <2>11
  <2>13. r[L + 1] = last
    BY <2>1, <2>11
  <2>14. ASSUME NEW k \in 1 .. L PROVE r[k].from = ranges[k].from /\ r[k].to = IF k = L THEN at ELSE ranges[k].to
    <3>1. CASE k = L
      <4>1. r[k] = [ranges[L] EXCEPT !.to = at]
        BY <2>6, <2>12, <3>1
      <4> QED
        BY <2>3, <3>1, <4>1
    <3>2. CASE k # L
      <4>1. r[k] = ranges[k]
        BY <2>6, <2>12, <3>2
      <4> QED
        BY <3>2, <4>1
    <3> QED
      BY <3>1, <3>2
  <2>15. Len(r) = L + 1
    BY <2>11
  <2> QED
    BY <2>1, <2>10, <2>13, <2>14, <2>15
<1>7. t' = t /\ p' = p /\ \A f, e : Before(f, e)' = Before(f, e)
  BY <1>1, Fixed
<1>8. \A k \in 1 .. L : First(k)' = First(k)
  <2>1. ASSUME NEW k \in 1 .. L PROVE First(k)' = First(k)
    <3>1. Shard!Opener(k)' = Shard!Opener(k)
      BY <1>1, <1>6, Fixed DEF Shard!Opener, Shard!Doc
    <3>2. k # L + 1 /\ k # (L + 1) + 1
      BY <1>6
    <3> HIDE DEF L
    <3>3. Len(ranges)' = L + 1
      BY <1>6
    <3>4. First(k)' = IF k = 1 THEN 1 ELSE Shard!Opener(k)
      BY <3>1, <3>2, <3>3 DEF First
    <3> QED
      BY <3>2, <3>4 DEF First, L
  <2> QED
    BY <2>1
<1>9. ASSUME NEW k, k = L + 1 PROVE First(k)' = d
  <2>1. r[k].from = at
    BY <1>6, <1>9
  <2>2. Shard!Opener(k)' = d
    BY <1>1, <2>1, Fixed DEF Shard!Opener, Shard!Doc
  <2>3. k # 1 /\ k # (L + 1) + 1 /\ Len(ranges)' = L + 1
    BY <1>6, <1>9
  <2> HIDE DEF L, d
  <2> QED
    BY <2>2, <2>3 DEF First
<1>10. /\ \A k \in 1 .. L :
            /\ ranges[k].from < t /\ (k - 1) * p <= ranges[k].from
            /\ ranges[k].from = Before("work", First(k)) /\ First(k) \in 1 .. n
            /\ ranges[k].to = IF k = L THEN t ELSE ranges[k + 1].from
            /\ \A j \in 1 .. k - 1 : ranges[j].from < ranges[k].from
  BY <1>2 DEF Planned
<1>11. \A k \in 1 .. L : ranges[k].from \in Nat
  <2>1. \A k \in 1 .. L : ranges[k] \in RangeRec
    BY <1>3, ElementOfSeq
  <2> QED
    BY <2>1 DEF RangeRec
<1>12. (L + 1 - 1) * p <= at
  <2>1. L - 1 \in Nat /\ (L - 1) + 1 = L /\ L \in 1 .. L
    BY <1>6
  <2>2. L * p = (L - 1) * p + p /\ (L - 1) * p \in Nat /\ L * p \in Nat
    BY <1>2, <1>6, <2>1, Products
  <2>3. (L - 1) * p <= ranges[L].from /\ ranges[L].from \in Nat
    BY <1>10, <1>11, <2>1
  <2> DEFINE x == (L - 1) * p
             y == L * p
             f == ranges[L].from
  <2>4. x \in Nat /\ y = x + p /\ x <= f /\ f \in Nat /\ p \in Nat /\ at >= f + p /\ at \in Nat
    BY <1>1, <1>2, <1>3, <1>4, <2>2, <2>3
  <2> HIDE DEF L, p, x, y, f
  <2>5. y <= at
    BY <2>4
  <2>6. L + 1 - 1 = L
    BY <1>6
  <2> QED
    BY <2>5, <2>6 DEF y
<1> HIDE DEF L, d, n, t, p, r
<1>13. \A j \in 1 .. L : ranges[j].from < at
  <2>1. ASSUME NEW j \in 1 .. L PROVE ranges[j].from < at
    <3>1. j = L \/ j \in 1 .. L - 1
      BY <1>6
    <3>2. L \in 1 .. L /\ (j \in 1 .. L - 1 => ranges[j].from < ranges[L].from)
      BY <1>6, <1>10
    <3> QED
      BY <1>1, <1>3, <1>11, <3>1, <3>2
  <2> QED
    BY <2>1
<1>14. ASSUME NEW k \in 1 .. L + 1
       PROVE  /\ r[k].from < t /\ (k - 1) * p <= r[k].from
              /\ r[k].from = Before("work", First(k)') /\ First(k)' \in 1 .. n
              /\ r[k].to = IF k = L + 1 THEN t ELSE r[k + 1].from
              /\ \A j \in 1 .. k - 1 : r[j].from < r[k].from
  <2>1. CASE k = L + 1
    <3>1. r[k].from = at /\ r[k].to = t
      BY <1>6, <2>1
    <3>2. \A j \in 1 .. k - 1 : j \in 1 .. L
      BY <1>6, <2>1
    <3>3. \A j \in 1 .. k - 1 : r[j].from < r[k].from
      BY <1>6, <1>13, <3>1, <3>2
    <3>4. (k - 1) * p <= r[k].from
      <4>1. k - 1 = L + 1 - 1
        BY <1>6, <2>1
      <4> QED
        BY <1>12, <3>1, <4>1
    <3> QED
      BY <1>1, <1>5, <1>9, <2>1, <3>1, <3>3, <3>4
  <2>2. CASE k # L + 1
    <3>1. k \in 1 .. L
      BY <1>6, <2>2
    <3>2. \A j \in 1 .. k - 1 : j \in 1 .. L
      BY <1>6, <3>1
    <3>3. r[k].from = ranges[k].from /\ r[k].to = IF k = L THEN at ELSE ranges[k].to
      BY <1>6, <3>1
    <3>4. \A j \in 1 .. k - 1 : r[j].from < r[k].from
      BY <1>6, <1>10, <3>1, <3>2, <3>3
    <3>5. r[k].to = r[k + 1].from
      <4>1. CASE k = L
        BY <1>6, <3>3, <4>1
      <4>2. CASE k # L
        <5>1. k + 1 \in 1 .. L
          BY <1>6, <3>1, <4>2
        <5> QED
          BY <1>6, <1>10, <3>1, <3>3, <4>2, <5>1
      <4> QED
        BY <4>1, <4>2
    <3> QED
      BY <1>8, <1>10, <2>2, <3>1, <3>3, <3>4, <3>5
  <2> QED
    BY <2>1, <2>2
<1>15. n' = n
  BY <1>1 DEF n
<1>16. r # <<>> /\ r[Len(r)].from < at' /\ target' = r[Len(r)].from + p /\ at' <= t /\ at' # 0
  <2>1. r[Len(r)].from = at
    BY <1>6
  <2>2. r # <<>>
    <3>1. Len(r) # 0
      BY <1>6
    <3>2. Len(<<>>) = 0
      BY EmptySeq
    <3> QED
      BY <3>1, <3>2
  <2> QED
    BY <1>1, <1>2, <2>1, <2>2
<1>17. Len(r) = L + 1 /\ r \in Seq(RangeRec) /\ r = ranges'
  BY <1>6 DEF r
<1> QED
  BY <1>1, <1>7, <1>14, <1>15, <1>16, <1>17, Zenon DEF Planned, n, t, p

\* One row of the scan.
LEMMA PlanRowKeeps ==
    ASSUME ShardInv, Shard!PlanRow
    PROVE  ShardInv'
<1> DEFINE n == Len(corpus)
           t == Shard!Total
           p == Shard!Per
<1>1. /\ corpus' = corpus /\ asked' = asked /\ group' = group /\ parent' = parent
      /\ phase = "plan" /\ phase' = "plan" /\ at < t /\ at' = at + 1 /\ at \in Nat
      /\ docFrom' = docFrom /\ subFrom' = subFrom /\ docsRead' = docsRead /\ worker' = worker
  BY DEF Shard!PlanRow, Shard!inputs, ShardInv
<1>2. /\ corpus \in StageTables /\ asked \in ShardNumbers /\ Planned
      /\ t \in Nat /\ p \in Nat \ {0} /\ t = Before("work", n + 1) /\ n \in Nat
  BY Sizes, Corpus DEF ShardInv
<1>3. t' = t /\ p' = p /\ n' = n /\ \A f, e : Before(f, e)' = Before(f, e)
  BY <1>1, Fixed
<1>4. ASSUME at = 0 PROVE Planned'
  <2> DEFINE r == <<[from |-> 0, to |-> t]>>
  <2>1. ranges' = r /\ target' = p
    BY <1>4 DEF Shard!PlanRow
  <2>2. r \in Seq(RangeRec) /\ Len(r) = 1 /\ r[1].from = 0 /\ r[1].to = t /\ r # <<>>
    <3>1. [from |-> 0, to |-> t] \in RangeRec
      BY <1>2 DEF RangeRec
    <3> QED
      BY <3>1
  <2> HIDE DEF r, t, p, n
  <2>3. \A k \in 1 .. 1 : k = 1
    OBVIOUS
  <2>4. First(1)' = 1
    BY DEF First
  <2>5. n # 0 /\ Before("work", 1) = 0
    <3>1. Before("work", 1) = 0
      <4>1. "work" \in Fields
        BY DEF Fields
      <4> QED
        BY <1>2, <4>1, BeforeNext
    <3> QED
      BY <1>1, <1>2, <1>4, <3>1
  <2>6. \A j : j \notin 1 .. 1 - 1
    OBVIOUS
  <2>7. (1 - 1) * p = 0 /\ 0 + p = p
    BY <1>2
  <2>8. /\ 0 < t /\ (1 - 1) * p <= 0 /\ 0 = Before("work", 1) /\ 1 \in 1 .. n /\ at' <= t /\ at' # 0 /\ 0 < at' /\ target' = 0 + p
    BY <1>1, <1>2, <1>4, <2>1, <2>5, <2>7
  <2>9. \A k \in 1 .. Len(r) :
           /\ r[k].from < t /\ (k - 1) * p <= r[k].from
           /\ r[k].from = Before("work", First(k)') /\ First(k)' \in 1 .. n
           /\ r[k].to = IF k = Len(r) THEN t ELSE r[k + 1].from
           /\ \A j \in 1 .. k - 1 : r[j].from < r[k].from
    <3> SUFFICES ASSUME NEW k \in 1 .. Len(r)
                 PROVE  /\ r[k].from < t /\ (k - 1) * p <= r[k].from
                        /\ r[k].from = Before("work", First(k)') /\ First(k)' \in 1 .. n
                        /\ r[k].to = IF k = Len(r) THEN t ELSE r[k + 1].from
                        /\ \A j \in 1 .. k - 1 : r[j].from < r[k].from
      OBVIOUS
    <3>1. k = 1
      BY <2>2, <2>3
    <3> QED
      BY <2>2, <2>4, <2>6, <2>8, <3>1, Zenon
  <2>10. r[Len(r)].from = 0
    BY <2>2
  <2> QED
    BY <1>1, <1>3, <2>1, <2>2, <2>8, <2>9, <2>10, Zenon DEF Planned, n, t, p
<1>5. ASSUME at # 0 /\ ~Shard!Cuts(at) PROVE Planned'
  <2>1. ranges' = ranges /\ target' = target
    BY <1>5 DEF Shard!PlanRow
  <2>2. \A k : First(k)' = First(k)
    BY <1>1, <2>1, FixedRanges
  <2>3. ranges # <<>> /\ ranges[Len(ranges)].from < at /\ target = ranges[Len(ranges)].from + p
    BY <1>1, <1>2, <1>5 DEF Planned
  <2>4. ranges[Len(ranges)].from < at'
    <3>1. Len(ranges) \in 1 .. Len(ranges)
      <4>1. ranges \in Seq(RangeRec)
        BY <1>2 DEF Planned
      <4>2. Len(ranges) \in Nat /\ Len(ranges) # 0
        BY <2>3, <4>1, EmptySeq, LenProperties
      <4> QED
        BY <4>2
    <3>2. ranges[Len(ranges)].from \in Nat
      BY <1>2, <3>1, OpenerIs
    <3> QED
      BY <1>1, <2>3, <3>2
  <2>5. at' # 0 /\ at' <= t
    BY <1>1, <1>2
  <2> HIDE DEF t, p
  <2>6. \A k \in 1 .. Len(ranges) :
          /\ ranges[k].from < t /\ (k - 1) * p <= ranges[k].from
          /\ ranges[k].from = Before("work", First(k)) /\ First(k) \in 1 .. Len(corpus)
          /\ ranges[k].to = IF k = Len(ranges) THEN t ELSE ranges[k + 1].from
          /\ \A j \in 1 .. k - 1 : ranges[j].from < ranges[k].from
    BY <1>2 DEF Planned, t, p
  <2>7. ranges \in Seq(RangeRec)
    BY <1>2 DEF Planned
  <2>8. Planned'
    BY <1>1, <1>3, <2>1, <2>2, <2>3, <2>4, <2>5, <2>6, <2>7, Zenon DEF Planned, t, p
  <2> QED
    BY <2>8
<1>6. Planned'
  BY <1>4, <1>5, PlanRowCuts
<1>7. Aligned'
  <2>1. docFrom' = <<>> /\ docFrom \in Seq(Nat)
    BY <1>1 DEF ShardInv, Aligned
  <2>2. Len(docFrom') = 0 /\ 1 .. 0 = {}
    BY <2>1
  <2>3. 0 <= Len(ranges')
    BY <1>6, LenProperties DEF Planned
  <2> QED
    BY <1>1, <2>1, <2>2, <2>3 DEF Aligned
<1>8. Walked'
  <2>1. subFrom' = <<>> /\ subFrom \in Seq(Nat) /\ docsRead' = 0
    BY <1>1 DEF ShardInv, Walked
  <2>2. Len(subFrom') = 0 /\ 1 .. 0 = {}
    BY <2>1
  <2>3. 0 <= Len(ranges')
    BY <1>6, LenProperties DEF Planned
  <2> QED
    BY <1>1, <2>1, <2>2, <2>3 DEF Walked
<1>9. Working'
  BY <1>1 DEF Working
<1>10. at' \in Nat
  BY <1>1
<1> QED
  BY <1>1, <1>6, <1>7, <1>8, <1>9, <1>10 DEF ShardInv

\* The scan is over: an empty table has nothing to align.
LEMMA PlanEndKeeps ==
    ASSUME ShardInv, Shard!PlanEnd
    PROVE  ShardInv'
<1>1. /\ corpus' = corpus /\ asked' = asked /\ group' = group /\ parent' = parent /\ ranges' = ranges
      /\ phase = "plan" /\ at = Shard!Total /\ at' = 0
      /\ phase' = IF ranges = <<>> THEN "merge" ELSE IF parent = "documents" THEN "align" ELSE "walk"
      /\ docFrom' = docFrom /\ subFrom' = subFrom /\ docsRead' = docsRead /\ worker' = worker
  BY DEF Shard!PlanEnd, Shard!inputs
<1>2. corpus \in StageTables /\ asked \in ShardNumbers /\ Planned /\ Aligned /\ Walked
      /\ parent \in {"documents", "work"} /\ group \in RowGroups
  BY DEF ShardInv
<1>3. ranges = <<>> => Shard!Total = 0
  BY <1>1, <1>2 DEF Planned
<1>4. Planned'
  BY <1>1, <1>2, <1>3, PlannedStays
<1>5. \A k : Shard!Opener(k)' = Shard!Opener(k)
  BY <1>1, FixedRanges
<1>6. \A k \in 1 .. Len(ranges) : Shard!Opener(k) \in 1 .. Len(corpus)
  BY <1>2, OpenerIs
<1>7. \A f, d : Before(f, d)' = Before(f, d)
  BY <1>1, Fixed
<1>8. docFrom = <<>> /\ subFrom = <<>> /\ docsRead = 0 /\ Len(<<>>) = 0 /\ 0 + 1 = 1 /\ 1 .. 0 = {} /\ <<>> \in Seq(Nat)
  BY <1>1, <1>2 DEF Aligned, Walked
<1>9. Len(ranges) \in Nat /\ Len(corpus) \in Nat
  BY <1>2, Corpus, LenProperties DEF Planned
<1>10. Aligned'
  <2>1. \A k \in 1 .. Len(ranges) : 0 < Shard!Opener(k)
    BY <1>6
  <2>2. 0 <= Len(corpus) /\ 0 <= Len(ranges)
    BY <1>9
  <2> QED
    BY <1>1, <1>2, <1>5, <1>8, <2>1, <2>2 DEF Aligned
<1>11. Walked'
  <2>1. Shard!Sub' = Shard!Sub /\ Len(Shard!Sub) \in Nat
    BY <1>1, <1>2, Fixed, Sizes
  <2>2. \A k \in 1 .. Len(ranges) : 0 <= Before("sub", Shard!Opener(k))
    <3>1. \A k \in 1 .. Len(ranges) : Shard!Opener(k) \in 1 .. Len(corpus) + 1
      BY <1>6, <1>9
    <3>2. "sub" \in Fields
      BY DEF Fields
    <3>3. \A d \in 1 .. Len(corpus) + 1 : Before("sub", d) \in Nat
      BY <1>2, <3>2, BeforeNext
    <3> QED
      BY <3>1, <3>3
  <2>3. 0 <= Len(ranges) /\ \A d \in 1 .. Len(corpus) : 0 <= d
    BY <1>9
  <2> QED
    BY <1>1, <1>5, <1>7, <1>8, <2>1, <2>2, <2>3 DEF Walked
<1>12. Working'
  BY <1>1 DEF Working
<1> QED
  BY <1>1, <1>2, <1>4, <1>10, <1>11, <1>12 DEF ShardInv

\* One document of the alignment.
LEMMA AlignDocumentKeeps ==
    ASSUME ShardInv, Shard!AlignDocument
    PROVE  ShardInv'
<1> DEFINE L == Len(docFrom)
           n == Len(corpus)
<1>1. /\ corpus' = corpus /\ asked' = asked /\ group' = group /\ parent' = parent /\ ranges' = ranges
      /\ phase = "align" /\ phase' = phase /\ at' = at + 1 /\ L < Len(ranges) /\ at < n
      /\ docFrom' = IF at + 1 = Shard!Opener(L + 1) THEN Append(docFrom, at) ELSE docFrom
      /\ subFrom' = subFrom /\ docsRead' = docsRead /\ worker' = worker
  BY DEF Shard!AlignDocument, Shard!inputs
<1>2. corpus \in StageTables /\ asked \in ShardNumbers /\ Planned /\ Aligned /\ Walked
      /\ parent = "documents" /\ group \in RowGroups /\ at \in Nat
  BY <1>1 DEF ShardInv
<1>3. Planned'
  <2>1. ranges # <<>>
    BY <1>1, <1>2 DEF Planned
  <2> QED
    BY <1>1, <1>2, <2>1, PlannedStays
<1>4. \A k : Shard!Opener(k)' = Shard!Opener(k)
  BY <1>1, FixedRanges
<1>5. L \in Nat /\ Len(ranges) \in Nat /\ n \in Nat
  BY <1>2, Corpus, LenProperties DEF Aligned, Planned
<1>6. \A k \in 1 .. Len(ranges) : Shard!Opener(k) \in 1 .. n
  BY <1>2, OpenerIs
<1>7. \A k \in L + 1 .. Len(ranges) : at < Shard!Opener(k)
  BY <1>1, <1>2 DEF Aligned
<1>8. docFrom \in Seq(Nat) /\ \A k \in 1 .. L : docFrom[k] = Shard!Opener(k) - 1
  BY <1>2 DEF Aligned
<1>9. \A j, k \in 1 .. Len(ranges) : j < k => Shard!Opener(j) < Shard!Opener(k)
  BY <1>2, OpenersRise
<1>10. L + 1 \in 1 .. Len(ranges) /\ L + 1 \in L + 1 .. Len(ranges)
  BY <1>1, <1>5
<1> HIDE DEF L, n
<1>11. ASSUME at + 1 = Shard!Opener(L + 1)
       PROVE  /\ docFrom' \in Seq(Nat) /\ Len(docFrom') = L + 1
              /\ \A k \in 1 .. L + 1 : docFrom'[k] = Shard!Opener(k) - 1
              /\ \A k \in L + 1 + 1 .. Len(ranges) : at + 1 < Shard!Opener(k)
  <2>1. docFrom' = Append(docFrom, at)
    BY <1>1, <1>11
  <2>2. /\ docFrom' \in Seq(Nat) /\ Len(docFrom') = L + 1 /\ docFrom'[L + 1] = at
        /\ \A k \in 1 .. L : docFrom'[k] = docFrom[k]
    BY <1>2, <1>8, <2>1, AppendProperties DEF L
  <2>3. at = Shard!Opener(L + 1) - 1
    BY <1>2, <1>6, <1>10, <1>11
  <2>4. ASSUME NEW k \in 1 .. L + 1 PROVE docFrom'[k] = Shard!Opener(k) - 1
    <3>1. k \in 1 .. L \/ k = L + 1
      BY <1>5
    <3> QED
      BY <1>8, <2>2, <2>3, <3>1
  <2>5. ASSUME NEW k \in L + 1 + 1 .. Len(ranges) PROVE at + 1 < Shard!Opener(k)
    <3>1. k \in 1 .. Len(ranges) /\ L + 1 < k
      BY <1>5
    <3> QED
      BY <1>9, <1>10, <1>11, <3>1
  <2> QED
    BY <2>2, <2>4, <2>5
<1>12. ASSUME at + 1 # Shard!Opener(L + 1), NEW k \in L + 1 .. Len(ranges)
       PROVE  at + 1 < Shard!Opener(k)
  <2>1. at + 1 < Shard!Opener(L + 1)
    BY <1>2, <1>6, <1>7, <1>10, <1>12
  <2>2. k \in 1 .. Len(ranges) /\ (k = L + 1 \/ L + 1 < k)
    BY <1>5
  <2>3. k = L + 1 \/ Shard!Opener(L + 1) < Shard!Opener(k)
    BY <1>9, <1>10, <2>2
  <2> QED
    BY <1>2, <1>6, <1>10, <2>1, <2>2, <2>3
<1>13. Aligned'
  <2>1. docFrom' \in Seq(Nat) /\ Len(docFrom') <= Len(ranges)
    BY <1>1, <1>5, <1>8, <1>11 DEF L
  <2>2. \A k \in 1 .. Len(docFrom') : docFrom'[k] = Shard!Opener(k) - 1
    BY <1>1, <1>8, <1>11 DEF L
  <2>3. \A k \in Len(docFrom') + 1 .. Len(ranges) : at + 1 < Shard!Opener(k)
    BY <1>1, <1>11, <1>12 DEF L
  <2>4. at + 1 <= n
    BY <1>1, <1>2, <1>5
  <2> QED
    BY <1>1, <1>4, <2>1, <2>2, <2>3, <2>4 DEF Aligned, n
<1>14. Walked'
  <2>1. \A f, d : Before(f, d)' = Before(f, d)
    BY <1>1, Fixed
  <2> QED
    BY <1>1, <1>2, <1>4, <2>1 DEF Walked
<1>15. Working'
  BY <1>1 DEF Working
<1>16. at' \in Nat
  BY <1>1, <1>2
<1> QED
  BY <1>1, <1>2, <1>3, <1>13, <1>14, <1>15, <1>16 DEF ShardInv

\* Every opening document is found.
LEMMA AlignEndKeeps ==
    ASSUME ShardInv, Shard!AlignEnd
    PROVE  ShardInv'
<1> DEFINE L == Len(docFrom)
           n == Len(corpus)
<1>1. /\ corpus' = corpus /\ asked' = asked /\ group' = group /\ parent' = parent /\ ranges' = ranges
      /\ phase = "align" /\ at' = 0 /\ (L = Len(ranges) \/ at = n)
      /\ phase' = IF L = Len(ranges) THEN "walk" ELSE "refused"
      /\ docFrom' = docFrom /\ subFrom' = subFrom /\ docsRead' = docsRead /\ worker' = worker
  BY DEF Shard!AlignEnd, Shard!inputs
<1>2. corpus \in StageTables /\ asked \in ShardNumbers /\ Planned /\ Aligned /\ Walked
      /\ parent = "documents" /\ group \in RowGroups /\ at \in Nat
  BY <1>1 DEF ShardInv
<1>3. L = Len(ranges)
  <2>1. ASSUME L # Len(ranges) PROVE FALSE
    <3>1. L \in Nat /\ Len(ranges) \in Nat /\ L <= Len(ranges) /\ n \in Nat
      BY <1>2, Corpus, LenProperties DEF Aligned, Planned
    <3>2. L + 1 \in 1 .. Len(ranges) /\ L + 1 \in L + 1 .. Len(ranges)
      BY <2>1, <3>1
    <3>3. at < Shard!Opener(L + 1)
      BY <1>1, <1>2, <3>2 DEF Aligned
    <3>4. Shard!Opener(L + 1) \in 1 .. n
      BY <1>2, <3>2, OpenerIs
    <3> HIDE DEF L, n
    <3> QED
      BY <1>1, <1>2, <2>1, <3>1, <3>3, <3>4
  <2> QED
    BY <2>1
<1>4. ranges # <<>> /\ phase' = "walk"
  BY <1>1, <1>2, <1>3 DEF Planned
<1>5. Planned'
  BY <1>1, <1>2, <1>4, PlannedStays
<1>6. Aligned'
  BY <1>1, <1>2, <1>3, <1>4, AlignedStays
<1>7. \A k : Shard!Opener(k)' = Shard!Opener(k)
  BY <1>1, FixedRanges
<1>8. \A f, d : Before(f, d)' = Before(f, d)
  BY <1>1, Fixed
<1>9. Walked'
  <2>1. Shard!Sub' = Shard!Sub /\ Len(Shard!Sub) \in Nat
    BY <1>1, <1>2, Fixed, Sizes
  <2>2. \A k \in 1 .. Len(ranges) : 0 <= Before("sub", Shard!Opener(k))
    <3>1. \A k \in 1 .. Len(ranges) : Shard!Opener(k) \in 1 .. n /\ n \in Nat
      BY <1>2, OpenerIs, Corpus
    <3>2. "sub" \in Fields
      BY DEF Fields
    <3>3. \A d \in 1 .. n + 1 : Before("sub", d) \in Nat
      BY <1>2, <3>2, BeforeNext
    <3> HIDE DEF n
    <3>4. \A k \in 1 .. Len(ranges) : Shard!Opener(k) \in 1 .. n + 1
      BY <3>1
    <3> QED
      BY <3>3, <3>4
  <2>3. Len(ranges) \in Nat /\ n \in Nat
    BY <1>2, Corpus, LenProperties DEF Planned
  <2>4. 0 <= Len(ranges) /\ (\A d \in 1 .. n : 0 <= d) /\ 0 + 1 = 1
    BY <2>3
  <2>5. subFrom = <<>> /\ docsRead = 0 /\ Len(<<>>) = 0 /\ 1 .. 0 = {} /\ <<>> \in Seq(Nat)
    BY <1>1, <1>2 DEF Walked
  <2> QED
    BY <1>1, <1>4, <1>7, <1>8, <2>1, <2>2, <2>4, <2>5 DEF Walked
<1>10. Working'
  BY <1>4 DEF Working
<1> QED
  BY <1>1, <1>2, <1>4, <1>5, <1>6, <1>9, <1>10 DEF ShardInv

-----------------------------------------------------------------------------
(* The second table.                                                          *)

\* A boundary is reached with the document its range opens with.
LEMMA Reached ==
    ASSUME corpus \in StageTables, asked \in ShardNumbers, Planned, Aligned, phase = "walk",
           parent \in {"documents", "work"}, NEW k \in 1 .. Len(ranges), NEW d \in 1 .. Len(corpus), HasWork(d)
    PROVE  Shard!Boundary(k) <= Shard!Ordinal(d) <=> Shard!Opener(k) <= d
<1> DEFINE o == Shard!Opener(k)
           n == Len(corpus)
<1>1. o \in 1 .. n /\ Before("work", o) = ranges[k].from /\ n \in Nat
  BY OpenerIs, Corpus
<1>2. CASE parent = "documents"
  <2>1. Shard!Boundary(k) = o - 1
    <3>1. k \in 1 .. Len(docFrom)
      BY <1>2 DEF Aligned
    <3> QED
      BY <1>2, <3>1 DEF Aligned, Shard!Boundary
  <2>2. Shard!Ordinal(d) = d - 1
    BY <1>2 DEF Shard!Ordinal
  <2> HIDE DEF o
  <2> QED
    BY <1>1, <2>1, <2>2 DEF o
<1>3. CASE parent # "documents"
  <2>1. Shard!Boundary(k) = Before("work", o)
    BY <1>1, <1>3 DEF Shard!Boundary
  <2>2. Shard!Ordinal(d) = Before("work", d)
    BY <1>3 DEF Shard!Ordinal, Before
  <2>3. "work" \in Fields
    BY DEF Fields
  <2> HIDE DEF o, n
  <2>4. o \in 1 .. n + 1 /\ d \in 1 .. n + 1 /\ d + 1 \in 1 .. n + 1 /\ d \in 1 .. n
    BY <1>1 DEF n
  <2>5. /\ Before("work", o) \in Nat /\ Before("work", d) \in Nat /\ Before("work", d + 1) \in Nat
        /\ Before("work", d + 1) = Before("work", d) + corpus[d].work
    BY <2>3, <2>4, BeforeNext DEF n
  <2>6. corpus[d].work \in Nat /\ corpus[d].work # 0
    BY <2>3, Corpus DEF HasWork
  <2>7. o <= d => Before("work", o) <= Before("work", d)
    BY <2>3, <2>4, BeforeRises DEF n
  <2>8. d + 1 <= o => Before("work", d + 1) <= Before("work", o)
    BY <2>3, <2>4, BeforeRises DEF n
  <2>9. o <= d \/ d + 1 <= o
    BY <1>1, <2>4
  <2>10. Before("work", o) <= Before("work", d) <=> o <= d
    BY <2>4, <2>5, <2>6, <2>7, <2>8, <2>9
  <2> QED
    BY <2>1, <2>2, <2>10 DEF o
<1> QED
  BY <1>2, <1>3

\* The boundaries a document is at or past are the next ones.
LEMMA ReachedIs ==
    ASSUME ShardInv, phase = "walk", NEW d \in 1 .. Len(corpus), HasWork(d)
    PROVE  \E m \in Len(subFrom) .. Len(ranges) :
              /\ Shard!ReachedBy(d) = Len(subFrom) + 1 .. m
              /\ \A k \in Len(subFrom) + 1 .. m : Shard!Opener(k) <= d
              /\ \A k \in m + 1 .. Len(ranges) : d < Shard!Opener(k)
<1> DEFINE L == Len(subFrom)
           R == Len(ranges)
           T == {k \in Nat : L + 1 <= k /\ k <= R + 1 /\ (k = R + 1 \/ d < Shard!Opener(k))}
<1>1. /\ corpus \in StageTables /\ asked \in ShardNumbers /\ Planned /\ Aligned /\ Walked
      /\ parent \in {"documents", "work"}
  BY DEF ShardInv
<1>2. L \in Nat /\ R \in Nat /\ L <= R /\ DOMAIN ranges = 1 .. R
  BY <1>1, LenProperties DEF Walked, Planned
<1>3. \A k \in 1 .. R : Shard!Opener(k) \in 1 .. Len(corpus)
  BY <1>1, OpenerIs
<1>4. \A j, k \in 1 .. R : j < k => Shard!Opener(j) < Shard!Opener(k)
  BY <1>1, OpenersRise
<1>5. \A k \in 1 .. R : Shard!Boundary(k) <= Shard!Ordinal(d) <=> Shard!Opener(k) <= d
  BY <1>1, Reached
<1>6. Shard!ReachedBy(d) = {k \in 1 .. R : k > L /\ Shard!Boundary(k) <= Shard!Ordinal(d)}
  BY <1>2 DEF Shard!ReachedBy
<1>7. d \in Nat
  BY <1>1, Corpus
<1> HIDE DEF L, R
<1>8. PICK q \in T : \A x \in T : q <= x
  <2>1. R + 1 \in T /\ T \subseteq Nat
    BY <1>2
  <2> HIDE DEF T
  <2> QED
    BY <2>1, LeastNat
<1> DEFINE m == q - 1
<1>9. m \in L .. R /\ q = m + 1 /\ q \in Nat /\ (q = R + 1 \/ d < Shard!Opener(q))
  BY <1>2, <1>8
<1>10. ASSUME NEW k \in L + 1 .. m PROVE Shard!Opener(k) <= d
  <2>1. k \in Nat /\ ~(q <= k) /\ k <= R /\ L + 1 <= k /\ k \in 1 .. R
    BY <1>2, <1>9
  <2>2. k \notin T
    BY <1>8, <2>1
  <2>3. ~(d < Shard!Opener(k))
    BY <1>2, <2>1, <2>2
  <2> QED
    BY <1>3, <1>7, <2>1, <2>3
<1> HIDE DEF T, m
<1>11. ASSUME NEW k \in m + 1 .. R PROVE d < Shard!Opener(k)
  <2>1. q \in 1 .. R /\ k \in 1 .. R /\ (k = q \/ q < k) /\ q # R + 1
    BY <1>2, <1>9
  <2>2. d < Shard!Opener(q)
    BY <1>9, <2>1
  <2>3. k = q \/ Shard!Opener(q) < Shard!Opener(k)
    BY <1>4, <2>1
  <2> QED
    BY <1>3, <1>7, <2>1, <2>2, <2>3
<1>12. Shard!ReachedBy(d) = L + 1 .. m
  <2>1. ASSUME NEW k \in 1 .. R, k > L, Shard!Opener(k) <= d PROVE k \in L + 1 .. m
    <3>1. k \in m + 1 .. R \/ k \in L + 1 .. m
      BY <1>2, <1>9, <2>1
    <3>2. k \in m + 1 .. R => FALSE
      BY <1>3, <1>7, <1>11, <2>1
    <3> QED
      BY <3>1, <3>2
  <2>2. \A k \in L + 1 .. m : k \in 1 .. R /\ k > L
    BY <1>2, <1>9
  <2> QED
    BY <1>5, <1>6, <1>10, <2>1, <2>2
<1> QED
  BY <1>9, <1>10, <1>11, <1>12 DEF L, R

\* One row of the second table: never of a document the walk has passed.
LEMMA WalkRowKeeps ==
    ASSUME ShardInv, Shard!WalkRow
    PROVE  ShardInv'
<1> DEFINE d == Shard!Doc(Shard!Sub, at)
           L == Len(subFrom)
           R == Len(ranges)
           n == Len(corpus)
           c == Shard!Cardinality(Shard!ReachedBy(d))
<1>1. /\ corpus' = corpus /\ asked' = asked /\ group' = group /\ parent' = parent /\ ranges' = ranges
      /\ phase = "walk" /\ at < Len(Shard!Sub) /\ L < R
      /\ docFrom' = docFrom /\ worker' = worker /\ target' = target
      /\ IF d < docsRead \/ ~Shard!InParent(d) THEN phase' = "refused" /\ UNCHANGED <<subFrom, docsRead, at>>
         ELSE /\ docsRead' = d /\ subFrom' = subFrom \o [k \in 1 .. c |-> at]
              /\ at' = at + 1 /\ phase' = phase
  BY DEF Shard!WalkRow, Shard!inputs
<1>2. corpus \in StageTables /\ asked \in ShardNumbers /\ Planned /\ Aligned /\ Walked
      /\ parent \in {"documents", "work"} /\ group \in RowGroups /\ at \in Nat
  BY DEF ShardInv
<1>3. "sub" \in Fields /\ "work" \in Fields /\ n \in Nat /\ Len(Shard!Sub) = Before("sub", n + 1)
  BY <1>2, Corpus, Sizes DEF Fields
<1>4. d \in 1 .. n /\ Before("sub", d) <= at /\ at < Before("sub", d + 1) /\ corpus[d].sub > 0
      /\ \A o \in 1 .. n + 1 : at < Before("sub", o) <=> d < o
  <2>1. d = Shard!Doc(Shard!Rows("sub"), at) /\ at < Before("sub", n + 1)
    BY <1>1, <1>3 DEF Shard!Sub
  <2> HIDE DEF d
  <2> QED
    BY <1>2, <1>3, <2>1, RowDoc
<1>5. HasWork(d)
  <2>1. corpus[d].work \in Nat /\ corpus[d].sub \in Nat /\ (corpus[d].work = 0 => corpus[d].sub = 0)
    BY <1>2, <1>3, <1>4, Corpus
  <2> HIDE DEF d
  <2> QED
    BY <1>4, <2>1 DEF HasWork
<1>6. docsRead \in Nat /\ docsRead <= d
  BY <1>1, <1>2, <1>4 DEF Walked
<1>7. Shard!InParent(d)
  BY <1>5 DEF Shard!InParent, HasWork
<1> HIDE DEF d, n, R, L
<1>8. docsRead' = d /\ subFrom' = subFrom \o [k \in 1 .. c |-> at] /\ at' = at + 1 /\ phase' = "walk"
  <2>1. ~(d < docsRead)
    BY <1>3, <1>4, <1>6
  <2> HIDE DEF c
  <2> QED
    BY <1>1, <1>7, <2>1
<1>9. L \in Nat /\ R \in Nat /\ subFrom \in Seq(Nat) /\ \A k \in 1 .. L : subFrom[k] = Before("sub", Shard!Opener(k))
  BY <1>2, LenProperties DEF Walked, Planned, L, R
<1>10. PICK m \in L .. R : /\ Shard!ReachedBy(d) = L + 1 .. m
                           /\ \A k \in L + 1 .. m : Shard!Opener(k) <= d
                           /\ \A k \in m + 1 .. R : d < Shard!Opener(k)
  BY <1>1, <1>4, <1>5, ReachedIs DEF L, R, n
<1>11. c = m - L
  <2>1. c = Cardinality(L + 1 .. m)
    BY <1>10 DEF Shard!Cardinality, Cardinality
  <2>2. L + 1 \in Int /\ m \in Int /\ L <= m
    BY <1>9, <1>10
  <2>3. Cardinality(L + 1 .. m) = IF L + 1 > m THEN 0 ELSE m - (L + 1) + 1
    BY <2>2, FS_Interval
  <2>4. (IF L + 1 > m THEN 0 ELSE m - (L + 1) + 1) = m - L
    BY <1>9, <2>2
  <2> QED
    BY <2>1, <2>3, <2>4
<1> HIDE DEF c
<1> DEFINE t == [k \in 1 .. c |-> at]
           s == subFrom \o t
<1>12. s \in Seq(Nat) /\ Len(s) = m /\ \A k \in 1 .. m : s[k] = IF k <= L THEN subFrom[k] ELSE at
  <2>1. c \in Nat
    BY <1>9, <1>10, <1>11
  <2>2. t \in [1 .. c -> Nat]
    BY <1>2
  <2>3. t \in Seq(Nat) /\ Len(t) = c
    <3> HIDE DEF t
    <3> QED
      BY <2>1, <2>2, FunIsSeq
  <2>4. \A k \in 1 .. c : t[k] = at
    OBVIOUS
  <2> HIDE DEF t
  <2>5. s \in Seq(Nat) /\ Len(s) = L + c /\ \A k \in 1 .. L + c : s[k] = IF k <= L THEN subFrom[k] ELSE t[k - L]
    <3>1. subFrom \in Seq(Nat) /\ t \in Seq(Nat)
      BY <1>9, <2>3
    <3>2. /\ s \in Seq(Nat) /\ Len(s) = Len(subFrom) + Len(t)
          /\ \A k \in 1 .. Len(subFrom) + Len(t) :
                s[k] = IF k <= Len(subFrom) THEN subFrom[k] ELSE t[k - Len(subFrom)]
      BY <3>1, ConcatProperties
    <3> QED
      BY <2>3, <3>2, Zenon DEF L
  <2> HIDE DEF s
  <2>6. L + c = m /\ c \in Nat
    BY <1>9, <1>10, <1>11
  <2>7. ASSUME NEW k \in 1 .. m PROVE s[k] = IF k <= L THEN subFrom[k] ELSE at
    <3>1. s[k] = IF k <= L THEN subFrom[k] ELSE t[k - L]
      BY <2>5, <2>6
    <3>2. ~(k <= L) => k - L \in 1 .. c
      BY <1>9, <2>6
    <3> QED
      BY <2>4, <3>1, <3>2
  <2> QED
    BY <2>5, <2>6, <2>7
<1>13. subFrom' = s
  BY <1>8
<1> HIDE DEF t, s
<1>14. \A k \in 1 .. R : Shard!Opener(k) \in 1 .. n /\ Shard!Opener(k) \in 1 .. n + 1
  <2>1. \A k \in 1 .. R : Shard!Opener(k) \in 1 .. n
    BY <1>2, OpenerIs DEF R, n
  <2> QED
    BY <1>3, <2>1
<1>15. \A e \in 1 .. n + 1 : Before("sub", e) \in Nat
  BY <1>2, <1>3, BeforeNext DEF n
<1>16. \A k \in L + 1 .. R : at <= Before("sub", Shard!Opener(k))
  BY <1>1, <1>2 DEF Walked, L, R
<1>17. ASSUME NEW k \in 1 .. m PROVE s[k] = Before("sub", Shard!Opener(k))
  <2>1. CASE k <= L
    <3>1. k \in 1 .. L
      BY <1>9, <2>1
    <3> QED
      BY <1>9, <1>12, <2>1, <3>1
  <2>2. CASE ~(k <= L)
    <3>1. k \in L + 1 .. m /\ k \in L + 1 .. R /\ k \in 1 .. R
      BY <1>9, <1>10, <2>2
    <3>2. Shard!Opener(k) \in 1 .. n + 1 /\ Shard!Opener(k) <= d /\ d \in 1 .. n + 1
      BY <1>3, <1>4, <1>10, <1>14, <3>1
    <3>3. Before("sub", Shard!Opener(k)) <= Before("sub", d)
      BY <1>2, <1>3, <3>2, BeforeRises DEF n
    <3>4. Before("sub", Shard!Opener(k)) \in Nat /\ Before("sub", d) \in Nat
      BY <1>15, <3>2
    <3>5. at <= Before("sub", Shard!Opener(k))
      BY <1>16, <3>1
    <3>6. at = Before("sub", Shard!Opener(k))
      BY <1>2, <1>4, <3>3, <3>4, <3>5
    <3> QED
      BY <1>12, <2>2, <3>6
  <2> QED
    BY <2>1, <2>2
<1>18. ASSUME NEW k \in m + 1 .. R PROVE at + 1 <= Before("sub", Shard!Opener(k))
  <2>1. k \in 1 .. R
    BY <1>9, <1>10
  <2>2. Shard!Opener(k) \in 1 .. n + 1 /\ d < Shard!Opener(k)
    BY <1>10, <1>14, <2>1
  <2>3. at < Before("sub", Shard!Opener(k))
    BY <1>4, <2>2
  <2> QED
    BY <1>2, <1>15, <2>2, <2>3
<1>19. ASSUME NEW e \in 1 .. n, at + 1 < Before("sub", e + 1) PROVE d <= e
  <2>1. e + 1 \in 1 .. n + 1
    BY <1>3
  <2>2. at < Before("sub", e + 1)
    BY <1>2, <1>15, <1>19, <2>1
  <2>3. d < e + 1
    BY <1>4, <2>1, <2>2
  <2> QED
    BY <1>3, <1>4, <2>3
<1>20. /\ n' = n /\ R' = R /\ Shard!Sub' = Shard!Sub /\ \A f, e : Before(f, e)' = Before(f, e)
       /\ \A k : Shard!Opener(k)' = Shard!Opener(k)
  BY <1>1, Fixed, FixedRanges DEF n, R
<1>21. Planned'
  <2>1. ranges # <<>>
    BY <1>1, <1>2 DEF Planned
  <2> QED
    BY <1>1, <1>2, <1>8, <2>1, PlannedStays
<1>22. Aligned'
  BY <1>1, <1>2, <1>8, AlignedStays DEF Aligned
<1>23. Walked'
  <2>1. at + 1 <= Len(Shard!Sub) /\ m <= R /\ d \in Nat
    <3>1. Len(Shard!Sub) \in Nat
      BY <1>2, Sizes
    <3> QED
      BY <1>1, <1>2, <1>3, <1>4, <1>9, <1>10, <3>1
  <2> QED
    BY <1>8, <1>12, <1>13, <1>17, <1>18, <1>19, <1>20, <2>1 DEF Walked, n, R
<1>24. Working'
  BY <1>8 DEF Working
<1>25. at' \in Nat
  BY <1>2, <1>8
<1> QED
  BY <1>1, <1>2, <1>8, <1>21, <1>22, <1>23, <1>24, <1>25 DEF ShardInv

-----------------------------------------------------------------------------
(* The workers.                                                               *)

WorkerRec == [at : Nat, sub : Nat, out : Seq([doc : Nat, work : SUBSET Int, sub : SUBSET Int]), done : BOOLEAN]

\* What a worker is after a step, told by what it has written.
LEMMA UptoNext ==
    ASSUME corpus' = corpus, asked' = asked, ranges' = ranges, NEW k, NEW D,
           worker'[k].at = Before("work", D), worker'[k].sub = Before("sub", D), worker'[k].out \in Seq(EntryRec),
           Lists(worker'[k].out, First(k), D - 1), worker'[k].done => worker'[k].at = ranges[k].to
    PROVE  Upto(k, D)'
<1>1. (\A f, d : Before(f, d)' = Before(f, d)) /\ \A d : HasWork(d)' = HasWork(d) /\ Entry(d)' = Entry(d)
  BY Fixed
<1>2. First(k)' = First(k)
  BY FixedRanges
<1>3. PICK out : out = worker'[k].out
  OBVIOUS
<1>4. Lists(out, First(k), D - 1)
  BY <1>3
<1>5. PICK a : a = First(k)
  OBVIOUS
<1>6. Lists(out, a, D - 1)'
  BY <1>1, <1>4, <1>5 DEF Lists
<1>7. Lists(worker[k].out, First(k), D - 1)'
  BY <1>2, <1>3, <1>5, <1>6 DEF Lists
<1>8. worker'[k].out \in Seq([doc : Nat, work : SUBSET Int, sub : SUBSET Int])
  BY DEF EntryRec
<1> QED
  BY <1>1, <1>7, <1>8 DEF Upto

\* The walk is over and every worker is at the start of its ranges.
LEMMA WalkEndKeeps ==
    ASSUME ShardInv, Shard!WalkEnd
    PROVE  ShardInv'
<1> DEFINE L == Len(subFrom)
           R == Len(ranges)
           n == Len(corpus)
           starts == [k \in DOMAIN ranges |-> IF k <= L THEN subFrom[k] ELSE Len(Shard!Sub)]
<1>1. /\ corpus' = corpus /\ asked' = asked /\ group' = group /\ parent' = parent /\ ranges' = ranges
      /\ phase = "walk" /\ phase' = "work" /\ (at = Len(Shard!Sub) \/ L = R) /\ at' = at
      /\ docFrom' = docFrom /\ docsRead' = docsRead /\ subFrom' = starts
      /\ worker' = [k \in DOMAIN ranges |->
            [at |-> ranges[k].from, sub |-> starts[k], out |-> <<>>, done |-> FALSE]]
  BY DEF Shard!WalkEnd, Shard!inputs
<1>2. corpus \in StageTables /\ asked \in ShardNumbers /\ Planned /\ Aligned /\ Walked
      /\ parent \in {"documents", "work"} /\ group \in RowGroups /\ at \in Nat
  BY DEF ShardInv
<1>3. "sub" \in Fields /\ n \in Nat /\ Len(Shard!Sub) = Before("sub", n + 1)
  BY <1>2, Corpus, Sizes DEF Fields
<1>4. L \in Nat /\ R \in Nat /\ L <= R /\ DOMAIN ranges = 1 .. R /\ subFrom \in Seq(Nat)
      /\ \A k \in 1 .. L : subFrom[k] = Before("sub", Shard!Opener(k))
  BY <1>2, LenProperties DEF Walked, Planned
<1>5. \A k \in 1 .. R : /\ Shard!Opener(k) \in 1 .. n
                        /\ First(k) \in 1 .. n /\ Before("work", First(k)) = ranges[k].from
                        /\ First(k) < First(k + 1) /\ First(k + 1) \in 1 .. n + 1
                        /\ Before("sub", Shard!Opener(k)) = Before("sub", First(k))
  BY <1>2, OpenerIs, FirstRises
<1>6. \A e \in 1 .. n + 1 : Before("sub", e) \in Nat
  BY <1>2, <1>3, BeforeNext
<1>7. \A k \in L + 1 .. R : at <= Before("sub", Shard!Opener(k))
  BY <1>1, <1>2 DEF Walked
<1>8. \A k \in 1 .. R : ranges[k].from \in Nat
  BY <1>2, OpenerIs
<1> HIDE DEF n, R, L
<1>9. ASSUME NEW k \in 1 .. R PROVE starts[k] = Before("sub", Shard!Opener(k)) /\ starts[k] \in Nat
  <2>1. Shard!Opener(k) \in 1 .. n + 1 /\ n + 1 \in 1 .. n + 1 /\ Shard!Opener(k) <= n + 1
    BY <1>3, <1>5
  <2>2. Before("sub", Shard!Opener(k)) \in Nat /\ Before("sub", n + 1) \in Nat
    BY <1>6, <2>1
  <2>3. CASE k <= L
    <3>1. k \in 1 .. L
      BY <1>4, <2>3
    <3> QED
      BY <1>4, <2>2, <2>3, <3>1
  <2>4. CASE ~(k <= L)
    <3>1. k \in L + 1 .. R /\ L # R
      BY <1>4, <2>4
    <3>2. at <= Before("sub", Shard!Opener(k)) /\ at = Before("sub", n + 1)
      BY <1>1, <1>3, <1>7, <3>1
    <3>3. Before("sub", Shard!Opener(k)) <= Before("sub", n + 1)
      BY <1>2, <1>3, <2>1, BeforeRises DEF n
    <3>4. Before("sub", n + 1) = Before("sub", Shard!Opener(k))
      BY <2>2, <3>2, <3>3
    <3>5. starts[k] = Before("sub", n + 1)
      BY <1>3, <1>4, <2>4
    <3> QED
      BY <2>2, <3>4, <3>5
  <2> QED
    BY <2>3, <2>4
<1>10. DOMAIN starts = 1 .. R
  BY <1>4
<1> HIDE DEF starts
<1>11. starts \in Seq(Nat) /\ Len(starts) = R
  <2>1. starts \in [1 .. R -> Nat]
    <3>1. starts = [k \in 1 .. R |-> starts[k]]
      BY <1>10 DEF starts
    <3> QED
      BY <1>9, <3>1
  <2> QED
    BY <1>4, <2>1, FunIsSeq
<1>12. ASSUME NEW k \in 1 .. R
       PROVE  worker'[k] \in WorkerRec /\ \E D \in First(k) .. First(k + 1) : Upto(k, D)'
  <2>1. worker'[k] = [at |-> ranges[k].from, sub |-> starts[k], out |-> <<>>, done |-> FALSE]
    BY <1>1, <1>4
  <2>2. worker'[k] \in WorkerRec
    <3>1. <<>> \in Seq([doc : Nat, work : SUBSET Int, sub : SUBSET Int])
      OBVIOUS
    <3> QED
      BY <1>8, <1>9, <2>1, <3>1 DEF WorkerRec
  <2>3. PICK D : D = First(k)
    OBVIOUS
  <2>4. D \in First(k) .. First(k + 1) /\ D \in Nat
    <3>1. First(k) \in Nat /\ First(k + 1) \in Nat /\ First(k) < First(k + 1)
      BY <1>3, <1>5
    <3> QED
      BY <2>3, <3>1
  <2>5. Lists(<<>>, First(k), D - 1)
    <3>1. \A d : d \notin First(k) .. D - 1
      BY <2>3, <2>4
    <3> QED
      BY <3>1, ListsNone
  <2>6. <<>> \in Seq(EntryRec)
    OBVIOUS
  <2>7. worker'[k].at = Before("work", D) /\ worker'[k].sub = Before("sub", D)
        /\ worker'[k].out = <<>> /\ worker'[k].done = FALSE
    BY <1>5, <1>9, <2>1, <2>3
  <2>8. Upto(k, D)'
    BY <1>1, <2>5, <2>6, <2>7, UptoNext
  <2> QED
    BY <2>2, <2>4, <2>8
<1>13. ranges # <<>>
  BY <1>1, <1>2 DEF Planned
<1>14. Planned'
  BY <1>1, <1>2, <1>13, PlannedStays
<1>15. Aligned'
  BY <1>1, <1>2, AlignedStays DEF Aligned
<1>16. \A k : Shard!Opener(k)' = Shard!Opener(k) /\ First(k)' = First(k)
  BY <1>1, FixedRanges
<1>17. Walked'
  <2>1. \A f, d : Before(f, d)' = Before(f, d)
    BY <1>1, Fixed
  <2>2. subFrom' \in Seq(Nat) /\ Len(subFrom') = R /\ Len(ranges') = R
        /\ \A k \in 1 .. R : subFrom'[k] = Before("sub", Shard!Opener(k))
    BY <1>1, <1>9, <1>11 DEF R
  <2>3. R <= R
    BY <1>4
  <2> QED
    BY <1>1, <1>16, <2>1, <2>2, <2>3 DEF Walked
<1>18. Working'
  <2>1. DOMAIN worker' = 1 .. R /\ Len(ranges') = R
    BY <1>1, <1>4 DEF R
  <2>2. \A k \in 1 .. R : /\ worker'[k] \in WorkerRec
                          /\ \E D \in First(k)' .. First(k + 1)' : Upto(k, D)'
    BY <1>12, <1>16
  <2> QED
    BY <1>1, <2>1, <2>2 DEF Working, WorkerRec
<1> QED
  BY <1>1, <1>2, <1>14, <1>15, <1>17, <1>18 DEF ShardInv

\* Where the two streams of a shard end, and what they have left.
LEMMA Streams ==
    ASSUME ShardInv, phase = "work", NEW k \in 1 .. Len(ranges)
    PROVE  /\ worker[k] \in WorkerRec /\ First(k) \in 1 .. Len(corpus) /\ First(k + 1) \in 1 .. Len(corpus) + 1
           /\ ranges[k].to = Before("work", First(k + 1)) /\ Shard!SubTo(k) = Before("sub", First(k + 1))
           /\ ranges[k].to \in Nat /\ ranges[k].to <= Before("work", Len(corpus) + 1)
           /\ Shard!SubTo(k) \in Nat /\ Shard!SubTo(k) <= Before("sub", Len(corpus) + 1)
           /\ Shard!Left(Shard!Work, worker[k].at, ranges[k].to) = worker[k].at .. ranges[k].to - 1
           /\ Shard!Left(Shard!Sub, worker[k].sub, Shard!SubTo(k)) = worker[k].sub .. Shard!SubTo(k) - 1
<1> DEFINE n == Len(corpus)
           R == Len(ranges)
           o == First(k + 1)
<1>1. corpus \in StageTables /\ asked \in ShardNumbers /\ Planned /\ Walked /\ group \in RowGroups
  BY DEF ShardInv
<1>2. n \in Nat /\ "sub" \in Fields /\ "work" \in Fields /\ R \in Nat
  BY <1>1, Corpus, LenProperties DEF Planned, Fields
<1>3. worker[k] \in WorkerRec
  BY DEF ShardInv, Working, WorkerRec
<1>4. First(k) \in 1 .. n /\ o \in 1 .. n + 1 /\ ranges[k].to = Before("work", o)
  BY <1>1, FirstRises
<1>5. Len(Shard!Sub) = Before("sub", n + 1) /\ Len(Shard!Work) = Before("work", n + 1)
  BY <1>1, Sizes DEF Shard!Total
<1>6. Shard!SubTo(k) = Before("sub", o)
  <2>1. CASE k = R
    <3>1. o = n + 1
      BY <1>2, <2>1 DEF First
    <3> QED
      BY <1>5, <2>1, <3>1 DEF Shard!SubTo
  <2>2. CASE k # R
    <3>1. k + 1 \in 1 .. R /\ k + 1 > 1
      BY <1>2, <2>2
    <3>2. o = Shard!Opener(k + 1)
      BY <1>1, <3>1, OpenerIs
    <3>3. k + 1 \in 1 .. Len(subFrom)
      BY <1>1, <3>1 DEF Walked
    <3>4. subFrom[k + 1] = Before("sub", Shard!Opener(k + 1))
      BY <1>1, <3>3 DEF Walked
    <3> QED
      BY <2>2, <3>2, <3>4 DEF Shard!SubTo
  <2> QED
    BY <2>1, <2>2
<1> HIDE DEF n, R, o
<1>7. n + 1 \in 1 .. n + 1 /\ o <= n + 1
  BY <1>2, <1>4
<1>8. \A f \in Fields : Before(f, o) \in Nat /\ Before(f, n + 1) \in Nat /\ Before(f, o) <= Before(f, n + 1)
  BY <1>1, <1>4, <1>7, BeforeNext, BeforeRises DEF n
<1>9. ranges[k].to \in Nat /\ ranges[k].to <= Before("work", n + 1)
      /\ Shard!SubTo(k) \in Nat /\ Shard!SubTo(k) <= Before("sub", n + 1)
  BY <1>2, <1>4, <1>6, <1>8
<1>10. worker[k].at \in Nat /\ worker[k].sub \in Nat
  BY <1>3 DEF WorkerRec
<1>11. Len(Shard!Work) \in Nat /\ Len(Shard!Sub) \in Nat
  BY <1>2, <1>5, <1>8
<1>12. Shard!Left(Shard!Work, worker[k].at, ranges[k].to) = worker[k].at .. ranges[k].to - 1
  BY <1>1, <1>5, <1>9, <1>10, <1>11, RowsRead
<1>13. Shard!Left(Shard!Sub, worker[k].sub, Shard!SubTo(k)) = worker[k].sub .. Shard!SubTo(k) - 1
  BY <1>1, <1>5, <1>9, <1>10, <1>11, RowsRead
<1> QED
  BY <1>3, <1>4, <1>6, <1>9, <1>12, <1>13 DEF n, o

\* The next document of a shard is its next one with work, its text is loaded, and
\* both streams are where its rows start.
LEMMA NextDocument ==
    ASSUME ShardInv, phase = "work", NEW k \in 1 .. Len(ranges), NEW D \in First(k) .. First(k + 1), Upto(k, D),
           worker[k].at < ranges[k].to
    PROVE  LET d == Shard!HeadOf(Shard!Work, worker[k].at, ranges[k].to)
           IN /\ d \in 1 .. Len(corpus) /\ D <= d /\ d < First(k + 1) /\ HasWork(d)
              /\ \A e \in D .. d - 1 : ~HasWork(e)
              /\ worker[k].at = Before("work", d) /\ worker[k].sub = Before("sub", d)
              /\ Shard!TextLoaded(k, d)
<1> DEFINE d == Shard!HeadOf(Shard!Work, worker[k].at, ranges[k].to)
           n == Len(corpus)
           R == Len(ranges)
           o == First(k + 1)
           r == worker[k].at
           b == First(k)
<1>1. corpus \in StageTables /\ asked \in ShardNumbers /\ Planned /\ Aligned /\ Walked /\ group \in RowGroups
  BY DEF ShardInv
<1>2. n \in Nat /\ "sub" \in Fields /\ "work" \in Fields /\ R \in Nat
  BY <1>1, Corpus, LenProperties DEF Planned, Fields
<1>3. /\ r \in Nat /\ b \in 1 .. n /\ o \in 1 .. n + 1
      /\ ranges[k].to = Before("work", o) /\ ranges[k].to \in Nat /\ ranges[k].to <= Before("work", n + 1)
  BY Streams DEF WorkerRec
<1>4. r = Before("work", D) /\ worker[k].sub = Before("sub", D)
  BY DEF Upto
<1>5. d = Shard!Doc(Shard!Rows("work"), r)
  BY DEF Shard!HeadOf, Shard!Work
<1> HIDE DEF d, n, R, o, r, b
<1>6. \A e \in 1 .. n + 1 : Before("work", e) \in Nat
  BY <1>1, <1>2, BeforeNext DEF n
<1>7. r < Before("work", o) /\ r < Before("work", n + 1)
  <2>1. n + 1 \in 1 .. n + 1 /\ r < ranges[k].to
    BY <1>2 DEF r
  <2> QED
    BY <1>3, <1>6, <2>1
<1>8. d \in 1 .. n /\ Before("work", d) <= r /\ corpus[d].work > 0
      /\ \A e \in 1 .. n + 1 : r < Before("work", e) <=> d < e
  BY <1>1, <1>2, <1>3, <1>5, <1>7, RowDoc DEF n
<1>9. D \in 1 .. n + 1 /\ d \in 1 .. n + 1 /\ b <= D /\ D \in b .. o
  BY <1>2, <1>3, <1>8 DEF b, o
<1>10. D <= d /\ d < o
  <2>1. ~(r < Before("work", D))
    BY <1>3, <1>4
  <2> QED
    BY <1>3, <1>7, <1>8, <1>9, <2>1
<1>11. Before("work", D) = Before("work", d)
  <2>1. Before("work", D) <= Before("work", d)
    BY <1>1, <1>2, <1>9, <1>10, BeforeRises DEF n
  <2> QED
    BY <1>4, <1>6, <1>8, <1>9, <2>1
<1>12. Before("sub", D) = Before("sub", d) /\ \A e \in D .. d - 1 : ~HasWork(e)
  BY <1>1, <1>9, <1>10, <1>11, NoWork DEF n
<1>13. HasWork(d)
  BY <1>8 DEF HasWork
<1> DEFINE p == Shard!Opener(k)
<1>14. p \in 1 .. n /\ b <= p /\ Before("work", b) = Before("work", p)
  <2>1. p \in 1 .. n /\ b \in 1 .. p /\ Before("work", p) = ranges[k].from
    BY <1>1, OpenerIs DEF n, b
  <2>2. Before("work", b) = ranges[k].from
    BY <1>1, FirstRises DEF b
  <2> HIDE DEF p
  <2> QED
    BY <1>2, <2>1, <2>2
<1> HIDE DEF p
<1>15. p <= d
  <2>1. b \in 1 .. n + 1 /\ p \in 1 .. n + 1
    BY <1>2, <1>3, <1>14
  <2>2. \A e \in b .. p - 1 : ~HasWork(e)
    BY <1>1, <1>14, <2>1, NoWork DEF n
  <2>3. ~(d \in b .. p - 1)
    BY <1>13, <2>2
  <2> QED
    BY <1>3, <1>8, <1>9, <1>10, <1>14, <2>3
<1>16. Shard!TextLoaded(k, d)
  <2> SUFFICES ASSUME parent = "documents" PROVE d - 1 \in docFrom[k] .. Shard!DocTo(k) - 1
    BY DEF Shard!TextLoaded
  <2>1. Len(docFrom) = R /\ \A j \in 1 .. R : docFrom[j] = Shard!Opener(j) - 1
    BY <1>1 DEF Aligned, R
  <2>2. docFrom[k] = p - 1
    BY <2>1 DEF R, p
  <2>3. Shard!DocTo(k) = o - 1
    <3>1. CASE k = R
      <4>1. o = n + 1
        BY <1>2, <3>1 DEF First, R, n, o
      <4>2. Shard!DocTo(k) = n
        BY <3>1 DEF Shard!DocTo, R, n
      <4> QED
        BY <1>2, <4>1, <4>2
    <3>2. CASE k # R
      <4>1. k + 1 \in 1 .. R /\ k + 1 > 1
        BY <1>2, <3>2 DEF R
      <4>2. o = Shard!Opener(k + 1)
        BY <1>1, <4>1, OpenerIs DEF o, R
      <4>3. Shard!DocTo(k) = docFrom[k + 1]
        BY <3>2 DEF Shard!DocTo, R
      <4> QED
        BY <2>1, <4>1, <4>2, <4>3
    <3> QED
      BY <3>1, <3>2
  <2> QED
    BY <1>3, <1>8, <1>10, <1>14, <1>15, <2>2, <2>3
<1> QED
  BY <1>4, <1>8, <1>10, <1>11, <1>12, <1>13, <1>16 DEF d, n, o, r

\* What is left to show of a step of the workers.
LEMMA WorkersKeep ==
    ASSUME ShardInv, phase = "work", phase' = "work", corpus' = corpus, asked' = asked, group' = group, parent' = parent,
           ranges' = ranges, docFrom' = docFrom, subFrom' = subFrom, at' = at,
           NEW k \in 1 .. Len(ranges), DOMAIN worker' = DOMAIN worker,
           \A j \in 1 .. Len(ranges) : j # k => worker'[j] = worker[j],
           worker'[k] \in WorkerRec, NEW E, E \in First(k) .. First(k + 1), Upto(k, E)'
    PROVE  ShardInv'
<1> DEFINE R == Len(ranges)
<1>1. corpus \in StageTables /\ asked \in ShardNumbers /\ Planned /\ Aligned /\ Walked /\ ranges # <<>> /\ at \in Nat
  BY DEF ShardInv, Planned
<1>2. Planned'
  BY <1>1, PlannedStays
<1>3. Aligned'
  BY <1>1, AlignedStays DEF Aligned
<1>4. Walked'
  BY <1>1, WalkedStays DEF Walked
<1>5. \A j : First(j)' = First(j)
  BY FixedRanges
<1>6. ASSUME NEW j \in 1 .. R, j # k
      PROVE  worker'[j] \in WorkerRec /\ \E D \in First(j) .. First(j + 1) : Upto(j, D)'
  <2>1. worker[j] \in WorkerRec /\ \E D \in First(j) .. First(j + 1) : Upto(j, D)
    BY DEF ShardInv, Working, WorkerRec
  <2>2. PICK D \in First(j) .. First(j + 1) : Upto(j, D)
    BY <2>1
  <2>3. worker'[j] = worker[j]
    BY <1>6
  <2>4. /\ worker[j].at = Before("work", D) /\ worker[j].sub = Before("sub", D)
        /\ worker[j].out \in Seq(EntryRec) /\ Lists(worker[j].out, First(j), D - 1)
        /\ (worker[j].done => worker[j].at = ranges[j].to)
    BY <2>2 DEF Upto, EntryRec
  <2>5. Upto(j, D)'
    BY <2>3, <2>4, UptoNext
  <2> QED
    BY <2>1, <2>3, <2>5
<1>7. \A j \in 1 .. R : worker'[j] \in WorkerRec /\ \E D \in First(j)' .. First(j + 1)' : Upto(j, D)'
  BY <1>5, <1>6
<1>8. DOMAIN worker' = 1 .. R /\ Len(ranges') = R
  BY DEF ShardInv, Working
<1>9. Working'
  BY <1>7, <1>8 DEF Working, WorkerRec
<1>10. corpus' \in StageTables /\ asked' \in ShardNumbers /\ group' \in RowGroups /\ parent' \in {"documents", "work"} /\ at' \in Nat
  BY DEF ShardInv
<1> QED
  BY <1>2, <1>3, <1>4, <1>9, <1>10 DEF ShardInv

\* A worker writes its next document.
LEMMA TakeDocumentKeeps ==
    ASSUME ShardInv, NEW k \in DOMAIN ranges, Shard!TakeDocument(k)
    PROVE  ShardInv'
<1> DEFINE d == Shard!HeadOf(Shard!Work, worker[k].at, ranges[k].to)
           rows == Shard!RunOf(Shard!Work, worker[k].at, ranges[k].to, d)
           subs == Shard!RunOf(Shard!Sub, worker[k].sub, Shard!SubTo(k), d)
           n == Len(corpus)
<1>1. /\ corpus' = corpus /\ asked' = asked /\ group' = group /\ parent' = parent /\ ranges' = ranges
      /\ docFrom' = docFrom /\ subFrom' = subFrom /\ at' = at
      /\ phase = "work" /\ ~worker[k].done /\ Shard!Left(Shard!Work, worker[k].at, ranges[k].to) # {}
      /\ IF ~Shard!TextLoaded(k, d) THEN phase' = "refused" /\ UNCHANGED worker
         ELSE /\ worker' = [worker EXCEPT
                     ![k].at = @ + Shard!Cardinality(rows),
                     ![k].sub = @ + Shard!Cardinality(subs),
                     ![k].out = Append(@, [doc |-> d, work |-> rows, sub |-> subs])]
              /\ UNCHANGED phase
  BY DEF Shard!TakeDocument, Shard!inputs
<1>2. corpus \in StageTables /\ asked \in ShardNumbers /\ group \in RowGroups /\ Planned
  BY DEF ShardInv
<1>3. k \in 1 .. Len(ranges) /\ n \in Nat /\ "work" \in Fields /\ "sub" \in Fields
  <2>1. DOMAIN ranges = 1 .. Len(ranges)
    BY <1>2, LenProperties DEF Planned
  <2> QED
    BY <1>2, <2>1, Corpus DEF Fields
<1>4. PICK D \in First(k) .. First(k + 1) : Upto(k, D)
  BY <1>1, <1>3 DEF ShardInv, Working
<1>5. /\ worker[k] \in WorkerRec /\ First(k) \in 1 .. n /\ First(k + 1) \in 1 .. n + 1
      /\ ranges[k].to = Before("work", First(k + 1)) /\ Shard!SubTo(k) = Before("sub", First(k + 1))
      /\ ranges[k].to \in Nat /\ ranges[k].to <= Before("work", n + 1)
      /\ Shard!SubTo(k) \in Nat /\ Shard!SubTo(k) <= Before("sub", n + 1)
      /\ Shard!Left(Shard!Work, worker[k].at, ranges[k].to) = worker[k].at .. ranges[k].to - 1
  BY <1>1, <1>3, Streams
<1>6. worker[k].at < ranges[k].to
  <2>1. worker[k].at \in Nat
    BY <1>5 DEF WorkerRec
  <2> QED
    BY <1>1, <1>5, <2>1
<1>7. /\ d \in 1 .. n /\ D <= d /\ d < First(k + 1) /\ HasWork(d) /\ (\A e \in D .. d - 1 : ~HasWork(e))
      /\ worker[k].at = Before("work", d) /\ worker[k].sub = Before("sub", d) /\ Shard!TextLoaded(k, d)
  BY <1>1, <1>3, <1>4, <1>6, NextDocument
<1> HIDE DEF d, n
<1>8. \A f \in Fields : /\ Before(f, d + 1) <= Before(f, First(k + 1))
                        /\ Before(f, d + 1) = Before(f, d) + corpus[d][f] /\ Before(f, d + 1) \in Nat
  <2>1. d + 1 \in 1 .. n + 1 /\ d + 1 <= First(k + 1)
    BY <1>3, <1>5, <1>7
  <2> QED
    BY <1>2, <1>5, <1>7, <2>1, BeforeRises, BeforeNext DEF n
<1>9. rows = Shard!RowsOfDoc("work", d) /\ Shard!Cardinality(rows) = corpus[d].work
  <2>1. Before("work", d + 1) <= ranges[k].to
    BY <1>3, <1>5, <1>8
  <2>2. /\ Shard!RunOf(Shard!Rows("work"), Before("work", d), ranges[k].to, d) = Shard!RowsOfDoc("work", d)
        /\ Cardinality(Shard!RowsOfDoc("work", d)) = corpus[d]["work"]
    BY <1>2, <1>3, <1>5, <1>7, <2>1, RunIs DEF n
  <2>3. rows = Shard!RowsOfDoc("work", d)
    BY <1>7, <2>2 DEF Shard!Work
  <2> HIDE DEF rows
  <2> QED
    BY <2>2, <2>3 DEF Shard!Cardinality, Cardinality
<1>10. subs = Shard!RowsOfDoc("sub", d) /\ Shard!Cardinality(subs) = corpus[d].sub
  <2>1. Before("sub", d + 1) <= Shard!SubTo(k)
    BY <1>3, <1>5, <1>8
  <2>2. /\ Shard!RunOf(Shard!Rows("sub"), Before("sub", d), Shard!SubTo(k), d) = Shard!RowsOfDoc("sub", d)
        /\ Cardinality(Shard!RowsOfDoc("sub", d)) = corpus[d]["sub"]
    BY <1>2, <1>3, <1>5, <1>7, <2>1, RunIs DEF n
  <2>3. subs = Shard!RowsOfDoc("sub", d)
    BY <1>7, <2>2 DEF Shard!Sub
  <2> HIDE DEF subs
  <2> QED
    BY <2>2, <2>3 DEF Shard!Cardinality, Cardinality
<1> HIDE DEF rows, subs
<1>11. [doc |-> d, work |-> rows, sub |-> subs] = Entry(d)
  BY <1>9, <1>10 DEF Entry
<1>12. phase' = "work" /\ worker' = [worker EXCEPT
          ![k] = [worker[k] EXCEPT !.at = @ + corpus[d].work, !.sub = @ + corpus[d].sub, !.out = Append(@, Entry(d))]]
  BY <1>1, <1>7, <1>9, <1>10, <1>11
<1> DEFINE w == [worker[k] EXCEPT !.at = @ + corpus[d].work, !.sub = @ + corpus[d].sub, !.out = Append(@, Entry(d))]
<1>13. DOMAIN worker = 1 .. Len(ranges)
  BY <1>1 DEF ShardInv, Working
<1>14. worker'[k] = w /\ DOMAIN worker' = DOMAIN worker /\ \A j \in 1 .. Len(ranges) : j # k => worker'[j] = worker[j]
  BY <1>3, <1>12, <1>13
<1>15. /\ w.at = Before("work", d + 1) /\ w.sub = Before("sub", d + 1)
       /\ w.out = Append(worker[k].out, Entry(d)) /\ w.done = worker[k].done
  <2>1. DOMAIN worker[k] = {"at", "sub", "out", "done"}
    BY <1>5 DEF WorkerRec
  <2> QED
    BY <1>3, <1>7, <1>8, <2>1
<1>16. worker[k].out \in Seq(EntryRec) /\ Lists(worker[k].out, First(k), D - 1)
  BY <1>4 DEF Upto, EntryRec
<1>17. Entry(d) \in EntryRec
  <2>1. \A f \in Fields : Shard!RowsOfDoc(f, d) = Before(f, d) .. Before(f, d) + corpus[d][f] - 1
    BY DEF Shard!RowsOfDoc, Before
  <2>2. \A a, b : a .. b \in SUBSET Int
    OBVIOUS
  <2>3. Shard!RowsOfDoc("work", d) \in SUBSET Int /\ Shard!RowsOfDoc("sub", d) \in SUBSET Int
    BY <1>3, <2>1, <2>2, Zenon
  <2>4. d \in Nat
    BY <1>3, <1>7
  <2> QED
    BY <2>3, <2>4 DEF Entry, EntryRec
<1>18. Append(worker[k].out, Entry(d)) \in Seq(EntryRec)
       /\ Append(worker[k].out, Entry(d)) = worker[k].out \o <<Entry(d)>> /\ <<Entry(d)>> \in Seq(EntryRec)
  <2> DEFINE s == worker[k].out
             e == Entry(d)
  <2>1. s \in Seq(EntryRec) /\ e \in EntryRec
    BY <1>16, <1>17
  <2> HIDE DEF s, e
  <2>2. Append(s, e) \in Seq(EntryRec) /\ Append(s, e) = s \o <<e>> /\ <<e>> \in Seq(EntryRec)
    BY <2>1
  <2> QED
    BY <2>2 DEF s, e
<1>19. Lists(Append(worker[k].out, Entry(d)), First(k), d)
  <2>1. D \in Nat /\ d \in Nat /\ First(k) \in Nat /\ First(k) <= D /\ D - 1 \in Int /\ (D - 1) + 1 = D
        /\ First(k) <= (D - 1) + 1 /\ D - 1 <= d /\ d \in Int
    BY <1>3, <1>4, <1>5, <1>7
  <2>2. Lists(<<Entry(d)>>, D, d)
    BY <1>7, <2>1, ListsOne
  <2>3. Lists(<<Entry(d)>>, (D - 1) + 1, d)
    BY <2>1, <2>2
  <2>4. Lists(worker[k].out \o <<Entry(d)>>, First(k), d)
    BY <1>16, <1>18, <2>1, <2>3, ListsJoin
  <2> QED
    BY <1>18, <2>4
<1>20. w \in WorkerRec
  <2>1. w.at \in Nat /\ w.sub \in Nat
    BY <1>3, <1>8, <1>15
  <2>2. w.out \in Seq([doc : Nat, work : SUBSET Int, sub : SUBSET Int])
    BY <1>15, <1>18 DEF EntryRec
  <2>3. worker[k] \in [at : Nat, sub : Nat, out : Seq([doc : Nat, work : SUBSET Int, sub : SUBSET Int]), done : BOOLEAN]
    BY <1>5 DEF WorkerRec
  <2> DEFINE X == Seq([doc : Nat, work : SUBSET Int, sub : SUBSET Int])
  <2> HIDE DEF X
  <2>4. w.out \in X /\ worker[k] \in [at : Nat, sub : Nat, out : X, done : BOOLEAN]
    BY <2>2, <2>3 DEF X
  <2>5. w \in [at : Nat, sub : Nat, out : X, done : BOOLEAN]
    BY <2>1, <2>4
  <2> QED
    BY <2>5 DEF X, WorkerRec
<1> HIDE DEF w
<1>21. PICK E : E = d + 1
  OBVIOUS
<1>22. E \in First(k) .. First(k + 1) /\ E - 1 = d
  BY <1>3, <1>4, <1>5, <1>7, <1>21
<1>23. Upto(k, E)'
  <2>1. worker'[k].at = Before("work", E) /\ worker'[k].sub = Before("sub", E) /\ worker'[k].out \in Seq(EntryRec)
        /\ Lists(worker'[k].out, First(k), E - 1) /\ ~worker'[k].done
    BY <1>1, <1>14, <1>15, <1>18, <1>19, <1>21, <1>22
  <2> QED
    BY <1>1, <2>1, UptoNext
<1> QED
  BY <1>1, <1>3, <1>12, <1>14, <1>20, <1>22, <1>23, WorkersKeep

\* A shard that has taken all its rows of one table has taken all of the other.
LEMMA ShardTaken ==
    ASSUME ShardInv, NEW k \in 1 .. Len(ranges), NEW D \in First(k) .. First(k + 1), Upto(k, D),
           ranges[k].to <= worker[k].at
    PROVE  /\ worker[k].at = ranges[k].to /\ worker[k].sub = Before("sub", First(k + 1))
           /\ \A d \in D .. First(k + 1) - 1 : ~HasWork(d)
           /\ D \in Nat /\ First(k) \in Nat /\ First(k + 1) \in Nat /\ First(k) <= D /\ D <= First(k + 1)
<1> DEFINE n == Len(corpus)
           o == First(k + 1)
<1>1. corpus \in StageTables /\ asked \in ShardNumbers /\ Planned
  BY DEF ShardInv
<1>2. n \in Nat /\ "work" \in Fields
  BY <1>1, Corpus DEF Fields
<1>3. First(k) \in 1 .. n /\ o \in 1 .. n + 1 /\ ranges[k].to = Before("work", o)
  BY <1>1, FirstRises
<1>4. worker[k].at = Before("work", D) /\ worker[k].sub = Before("sub", D)
  BY DEF Upto
<1> HIDE DEF n
<1>5. D \in 1 .. n + 1 /\ D <= o /\ D \in Nat /\ First(k) \in Nat /\ o \in Nat /\ First(k) <= D
  BY <1>2, <1>3
<1> HIDE DEF o
<1>6. Before("work", D) <= Before("work", o) /\ Before("work", D) \in Nat /\ Before("work", o) \in Nat
  BY <1>1, <1>2, <1>3, <1>5, BeforeRises, BeforeNext DEF n
<1>7. Before("work", D) = Before("work", o)
  BY <1>3, <1>4, <1>6
<1>8. Before("sub", D) = Before("sub", o) /\ \A d \in D .. o - 1 : ~HasWork(d)
  BY <1>1, <1>3, <1>5, <1>7, NoWork DEF n
<1> QED
  BY <1>3, <1>4, <1>5, <1>7, <1>8 DEF o

\* A worker is at its end, with no row of the second table left over.
LEMMA WorkEndKeeps ==
    ASSUME ShardInv, NEW k \in DOMAIN ranges, Shard!WorkEnd(k)
    PROVE  ShardInv'
<1>1. /\ corpus' = corpus /\ asked' = asked /\ group' = group /\ parent' = parent /\ ranges' = ranges
      /\ docFrom' = docFrom /\ subFrom' = subFrom /\ at' = at
      /\ phase = "work" /\ Shard!Left(Shard!Work, worker[k].at, ranges[k].to) = {}
      /\ IF Shard!Left(Shard!Sub, worker[k].sub, Shard!SubTo(k)) # {} THEN phase' = "refused" /\ UNCHANGED worker
         ELSE worker' = [worker EXCEPT ![k].done = TRUE] /\ UNCHANGED phase
  BY DEF Shard!WorkEnd, Shard!inputs
<1>2. k \in 1 .. Len(ranges)
  <2>1. DOMAIN ranges = 1 .. Len(ranges)
    BY LenProperties DEF ShardInv, Planned
  <2> QED
    BY <2>1
<1>3. PICK D \in First(k) .. First(k + 1) : Upto(k, D)
  BY <1>1, <1>2 DEF ShardInv, Working
<1>4. /\ worker[k] \in WorkerRec /\ Shard!SubTo(k) = Before("sub", First(k + 1))
      /\ ranges[k].to \in Nat /\ Shard!SubTo(k) \in Nat
      /\ Shard!Left(Shard!Work, worker[k].at, ranges[k].to) = worker[k].at .. ranges[k].to - 1
      /\ Shard!Left(Shard!Sub, worker[k].sub, Shard!SubTo(k)) = worker[k].sub .. Shard!SubTo(k) - 1
  BY <1>1, <1>2, Streams
<1>5. ranges[k].to <= worker[k].at
  <2>1. worker[k].at \in Nat
    BY <1>4 DEF WorkerRec
  <2>2. worker[k].at .. ranges[k].to - 1 = {}
    BY <1>1, <1>4
  <2> QED
    BY <1>4, <2>1, <2>2
<1>6. worker[k].at = ranges[k].to /\ worker[k].sub = Shard!SubTo(k)
  BY <1>2, <1>3, <1>4, <1>5, ShardTaken
<1>7. phase' = "work" /\ worker' = [worker EXCEPT ![k] = [worker[k] EXCEPT !.done = TRUE]]
  <2>1. Shard!Left(Shard!Sub, worker[k].sub, Shard!SubTo(k)) = {}
    BY <1>4, <1>6
  <2> QED
    BY <1>1, <2>1
<1> DEFINE w == [worker[k] EXCEPT !.done = TRUE]
<1>8. DOMAIN worker = 1 .. Len(ranges)
  BY <1>1 DEF ShardInv, Working
<1>9. worker'[k] = w /\ DOMAIN worker' = DOMAIN worker /\ \A j \in 1 .. Len(ranges) : j # k => worker'[j] = worker[j]
  BY <1>2, <1>7, <1>8
<1>10. w \in WorkerRec /\ w.at = worker[k].at /\ w.sub = worker[k].sub /\ w.out = worker[k].out
  <2> DEFINE X == Seq([doc : Nat, work : SUBSET Int, sub : SUBSET Int])
  <2>1. worker[k] \in [at : Nat, sub : Nat, out : X, done : BOOLEAN]
    BY <1>4 DEF WorkerRec
  <2> HIDE DEF X
  <2>2. w \in [at : Nat, sub : Nat, out : X, done : BOOLEAN] /\ w.at = worker[k].at /\ w.sub = worker[k].sub /\ w.out = worker[k].out
    BY <2>1
  <2> QED
    BY <2>2 DEF X, WorkerRec
<1> HIDE DEF w
<1>11. Upto(k, D)'
  <2>1. worker'[k].at = Before("work", D) /\ worker'[k].sub = Before("sub", D) /\ worker'[k].out \in Seq(EntryRec)
        /\ Lists(worker'[k].out, First(k), D - 1) /\ worker'[k].at = ranges[k].to
    BY <1>3, <1>6, <1>9, <1>10 DEF Upto, EntryRec
  <2> QED
    BY <1>1, <2>1, UptoNext
<1> QED
  BY <1>1, <1>2, <1>3, <1>7, <1>9, <1>10, <1>11, WorkersKeep

\* Every part is written.
LEMMA MergeEnds ==
    ASSUME ShardInv, Shard!Merge
    PROVE  ShardInv'
<1>1. /\ corpus' = corpus /\ asked' = asked /\ group' = group /\ parent' = parent /\ ranges' = ranges
      /\ docFrom' = docFrom /\ subFrom' = subFrom /\ at' = at /\ worker' = worker
      /\ phase = "work" /\ phase' = "merge" /\ \A k \in DOMAIN ranges : worker[k].done
  BY DEF Shard!Merge, Shard!inputs
<1>2. corpus \in StageTables /\ asked \in ShardNumbers /\ Planned /\ Aligned /\ Walked /\ ranges # <<>> /\ at \in Nat
  BY <1>1 DEF ShardInv, Planned
<1>3. Planned'
  BY <1>1, <1>2, PlannedStays
<1>4. Aligned'
  BY <1>1, <1>2, AlignedStays
<1>5. Walked'
  BY <1>1, <1>2, WalkedStays
<1>6. \A j : First(j)' = First(j)
  BY <1>1, FixedRanges
<1>7. ASSUME NEW j \in 1 .. Len(ranges)
      PROVE  worker'[j] \in WorkerRec /\ \E D \in First(j) .. First(j + 1) : Upto(j, D)'
  <2>1. worker[j] \in WorkerRec /\ \E D \in First(j) .. First(j + 1) : Upto(j, D)
    BY <1>1 DEF ShardInv, Working, WorkerRec
  <2>2. PICK D \in First(j) .. First(j + 1) : Upto(j, D)
    BY <2>1
  <2>3. /\ worker[j].at = Before("work", D) /\ worker[j].sub = Before("sub", D)
        /\ worker[j].out \in Seq(EntryRec) /\ Lists(worker[j].out, First(j), D - 1)
        /\ (worker[j].done => worker[j].at = ranges[j].to)
    BY <2>2 DEF Upto, EntryRec
  <2>4. Upto(j, D)'
    BY <1>1, <2>3, UptoNext
  <2> QED
    BY <1>1, <2>1, <2>4
<1>8. DOMAIN worker = 1 .. Len(ranges) /\ DOMAIN ranges = 1 .. Len(ranges)
  BY <1>1, <1>2, LenProperties DEF ShardInv, Working, Planned
<1>9. Working'
  BY <1>1, <1>6, <1>7, <1>8 DEF Working, WorkerRec
<1>10. corpus' \in StageTables /\ asked' \in ShardNumbers /\ group' \in RowGroups /\ parent' \in {"documents", "work"} /\ at' \in Nat
  BY <1>1 DEF ShardInv
<1> QED
  BY <1>1, <1>3, <1>4, <1>5, <1>9, <1>10 DEF ShardInv

-----------------------------------------------------------------------------
(* The stage.                                                                 *)

\* A stage begins.
LEMMA ShardInitial == Shard!Init => ShardInv
<1> SUFFICES ASSUME Shard!Init PROVE ShardInv
  OBVIOUS
<1>1. /\ corpus \in StageTables /\ asked \in ShardNumbers /\ parent \in {"documents", "work"} /\ group \in RowGroups
      /\ phase = "plan" /\ at = 0 /\ ranges = <<>> /\ target = 0
      /\ docFrom = <<>> /\ subFrom = <<>> /\ docsRead = 0 /\ worker = <<>>
  BY DEF Shard!Init
<1>2. <<>> \in Seq(RangeRec) /\ <<>> \in Seq(Nat) /\ Len(<<>>) = 0 /\ 1 .. 0 = {}
  OBVIOUS
<1>3. 0 <= Shard!Total /\ 0 \in Nat /\ 0 <= 0
  BY <1>1, Sizes
<1>4. Planned
  BY <1>1, <1>2, <1>3 DEF Planned
<1>5. Aligned
  BY <1>1, <1>2, <1>3 DEF Aligned
<1>6. Walked
  BY <1>1, <1>2, <1>3 DEF Walked
<1>7. Working
  BY <1>1 DEF Working
<1> QED
  BY <1>1, <1>3, <1>4, <1>5, <1>6, <1>7 DEF ShardInv

\* Nothing of the invariant changes with the other machines.
LEMMA ShardStutters ==
    ASSUME ShardInv, UNCHANGED shardVars
    PROVE  ShardInv'
<1>1. /\ corpus' = corpus /\ asked' = asked /\ group' = group /\ parent' = parent /\ ranges' = ranges /\ phase' = phase
      /\ docFrom' = docFrom /\ subFrom' = subFrom /\ at' = at /\ worker' = worker /\ target' = target /\ docsRead' = docsRead
  BY DEF shardVars
<1>2. corpus \in StageTables /\ asked \in ShardNumbers
  BY DEF ShardInv
<1>3. /\ Shard!Total' = Shard!Total /\ Shard!Per' = Shard!Per /\ Shard!Sub' = Shard!Sub
      /\ (\A f, d : Before(f, d)' = Before(f, d))
      /\ \A j : First(j)' = First(j) /\ Shard!Opener(j)' = Shard!Opener(j)
  BY <1>1, Fixed, FixedRanges
<1>4. Planned'
  BY <1>1, <1>3 DEF ShardInv, Planned
<1>5. Aligned'
  BY <1>1, <1>3 DEF ShardInv, Aligned
<1>6. Walked'
  BY <1>1, <1>3 DEF ShardInv, Walked
<1>7. ASSUME phase = "work" \/ (phase = "merge" /\ ranges # <<>>), NEW j \in 1 .. Len(ranges)
      PROVE  \E D \in First(j) .. First(j + 1) : Upto(j, D)'
  <2>1. PICK D \in First(j) .. First(j + 1) : Upto(j, D)
    BY <1>7 DEF ShardInv, Working
  <2>2. /\ worker[j].at = Before("work", D) /\ worker[j].sub = Before("sub", D)
        /\ worker[j].out \in Seq(EntryRec) /\ Lists(worker[j].out, First(j), D - 1)
        /\ (worker[j].done => worker[j].at = ranges[j].to)
    BY <2>1 DEF Upto, EntryRec
  <2>3. Upto(j, D)'
    BY <1>1, <2>2, UptoNext
  <2> QED
    BY <2>3
<1>8. Working'
  BY <1>1, <1>3, <1>7 DEF ShardInv, Working
<1> QED
  BY <1>1, <1>4, <1>5, <1>6, <1>8 DEF ShardInv

\* Every step of a sharded stage keeps the invariant.
LEMMA ShardInductive == ShardInv /\ [Shard!Next]_shardVars => ShardInv'
<1> SUFFICES ASSUME ShardInv, [Shard!Next]_shardVars PROVE ShardInv'
  OBVIOUS
<1>1. CASE UNCHANGED shardVars
  BY <1>1, ShardStutters
<1>2. CASE \E k \in DOMAIN ranges : Shard!TakeDocument(k) \/ Shard!WorkEnd(k)
  BY <1>2, TakeDocumentKeeps, WorkEndKeeps
<1>3. CASE Shard!PlanRow \/ Shard!PlanEnd \/ Shard!AlignDocument \/ Shard!AlignEnd \/ Shard!WalkRow \/ Shard!WalkEnd \/ Shard!Merge
  BY <1>3, PlanRowKeeps, PlanEndKeeps, AlignDocumentKeeps, AlignEndKeeps, WalkRowKeeps, WalkEndKeeps, MergeEnds
<1> QED
  BY <1>1, <1>2, <1>3 DEF Shard!Next

\* What a finished shard has written: its documents, to the first of the next one.
LEMMA ShardOut ==
    ASSUME ShardInv, phase = "merge", NEW k \in 1 .. Len(ranges)
    PROVE  worker[k].out \in Seq(EntryRec) /\ Lists(worker[k].out, First(k), First(k + 1) - 1)
<1>1. ranges # <<>>
  BY EmptySeq
<1>2. PICK D \in First(k) .. First(k + 1) : Upto(k, D)
  BY <1>1 DEF ShardInv, Working
<1>3. worker[k].done /\ worker[k] \in WorkerRec
  BY <1>1 DEF ShardInv, Working, WorkerRec
<1>4. /\ worker[k].out \in Seq(EntryRec) /\ Lists(worker[k].out, First(k), D - 1) /\ worker[k].at = ranges[k].to
  BY <1>2, <1>3 DEF Upto, EntryRec
<1>5. ranges[k].to <= worker[k].at
  <2>1. worker[k].at \in Nat
    BY <1>3 DEF WorkerRec
  <2> QED
    BY <1>4, <2>1
<1>6. /\ \A d \in D .. First(k + 1) - 1 : ~HasWork(d)
      /\ D \in Nat /\ First(k) \in Nat /\ First(k + 1) \in Nat /\ First(k) <= D /\ D <= First(k + 1)
  BY <1>2, <1>5, ShardTaken
<1> DEFINE a == First(k)
           o == First(k + 1)
<1> HIDE DEF a, o
<1>7. /\ a \in Nat /\ D - 1 \in Int /\ o - 1 \in Int /\ a <= (D - 1) + 1 /\ D - 1 <= o - 1 /\ (D - 1) + 1 = D
  BY <1>6 DEF a, o
<1>8. \A d \in (D - 1) + 1 .. o - 1 : ~HasWork(d)
  BY <1>6, <1>7 DEF o
<1>9. Lists(worker[k].out, a, o - 1)
  BY <1>4, <1>7, <1>8, ListsOn DEF a
<1> QED
  BY <1>4, <1>9 DEF a, o

\* The parts together list every document.
LEMMA ShardWhole ==
    ASSUME ShardInv, phase = "merge"
    PROVE  Shard!Table = Shard!Unsharded
<1> DEFINE n == Len(corpus)
           R == Len(ranges)
           G == [k \in 1 .. R |-> worker[k].out]
           Pre(m) == FlattenSeq([i \in 1 .. m |-> G[i]])
           N == {m \in Nat : m <= R => Pre(m) \in Seq(EntryRec) /\ Lists(Pre(m), 1, First(m + 1) - 1)}
<1>1. corpus \in StageTables /\ asked \in ShardNumbers /\ Planned
  BY DEF ShardInv
<1>2. n \in Nat /\ R \in Nat /\ DOMAIN ranges = 1 .. R /\ "work" \in Fields
  BY <1>1, Corpus, LenProperties DEF Planned, Fields
<1>3. Shard!Table = Pre(R)
  <2>1. [k \in DOMAIN ranges |-> worker[k].out] = [i \in 1 .. R |-> G[i]]
    BY <1>2
  <2>2. Shard!Table = FlattenSeq([k \in DOMAIN ranges |-> worker[k].out])
    BY DEF Shard!Table, Shard!FlattenSeq, FlattenSeq
  <2> HIDE DEF G
  <2> QED
    BY <2>1, <2>2, Zenon
<1>4. \A k \in 1 .. R : G[k] \in Seq(EntryRec) /\ Lists(G[k], First(k), First(k + 1) - 1)
  BY ShardOut
<1>5. <<>> \in Seq(EntryRec) /\ Pre(0) = <<>>
  <2>1. [i \in 1 .. 0 |-> G[i]] = <<>>
    OBVIOUS
  <2> HIDE DEF G
  <2>2. Pre(0) = <<>>
    BY <2>1, FlatEmpty, Zenon
  <2> QED
    BY <2>2
<1> HIDE DEF n, R, G
<1>6. CASE R = 0
  <2>1. ranges = <<>>
    <3>1. ranges \in Seq(RangeRec)
      BY <1>1 DEF Planned
    <3> QED
      BY <1>6, <3>1, EmptySeq DEF R
  <2>2. Before("work", n + 1) = 0 /\ Before("work", 1) = 0
    BY <1>1, <1>2, <2>1, Sizes, BeforeNext DEF Planned, n
  <2>3. \A d \in 1 .. n : ~HasWork(d)
    <3>1. 1 \in 1 .. n + 1 /\ n + 1 \in 1 .. n + 1 /\ 1 <= n + 1 /\ (n + 1) - 1 = n
      BY <1>2
    <3> QED
      BY <1>1, <2>2, <3>1, NoWork DEF n
  <2>4. Lists(<<>>, 1, n)
    BY <2>3, ListsNone
  <2>5. <<>> = Shard!Unsharded
    BY <1>1, <1>5, <2>4, ListsWhole DEF n
  <2> HIDE DEF Pre
  <2> QED
    BY <1>3, <1>5, <1>6, <2>5
<1>7. CASE R # 0
  <2>1. First(1) = 1 /\ First(R + 1) = n + 1
    <3>1. R + 1 # 1
      BY <1>2, <1>7
    <3> QED
      BY <3>1 DEF First, R, n
  <2>2. \A k \in 1 .. R : First(k) \in Nat /\ First(k + 1) \in Nat /\ First(k) < First(k + 1) /\ 1 <= First(k)
    <3>1. \A k \in 1 .. R : First(k) \in 1 .. n /\ First(k + 1) \in 1 .. n + 1 /\ First(k) < First(k + 1)
      BY <1>1, FirstRises DEF R, n
    <3> QED
      BY <1>2, <3>1
  <2>3. 0 \in N
    <3>1. \A d : d \notin 1 .. First(0 + 1) - 1
      <4>1. First(0 + 1) = 1
        BY <2>1
      <4> QED
        BY <4>1
    <3>2. Lists(<<>>, 1, First(0 + 1) - 1)
      BY <3>1, ListsNone
    <3> HIDE DEF Pre
    <3> QED
      BY <1>5, <3>2
  <2>4. ASSUME NEW m \in Nat, m \in N PROVE m + 1 \in N
    <3> SUFFICES ASSUME m + 1 <= R
                 PROVE  Pre(m + 1) \in Seq(EntryRec) /\ Lists(Pre(m + 1), 1, First((m + 1) + 1) - 1)
      OBVIOUS
    <3>1. m + 1 \in 1 .. R /\ m <= R
      BY <1>2
    <3>2. Pre(m) \in Seq(EntryRec) /\ Lists(Pre(m), 1, First(m + 1) - 1)
      BY <2>4, <3>1
    <3>3. G[m + 1] \in Seq(EntryRec) /\ Lists(G[m + 1], First(m + 1), First((m + 1) + 1) - 1)
      BY <1>4, <3>1
    <3>4. Pre(m + 1) = Pre(m) \o G[m + 1]
      <4>1. \A i \in 1 .. m + 1 : i \in 1 .. R
        BY <1>2, <3>1
      <4>2. \A i \in 1 .. m + 1 : G[i] \in Seq(EntryRec)
        BY <1>4, <4>1, Zenon
      <4> QED
        BY <4>2, FlatNext
    <3> DEFINE s == Pre(m)
               t == G[m + 1]
               a == First(m + 1)
               b == First((m + 1) + 1)
    <3>5. a \in Nat /\ b \in Nat /\ a < b /\ 1 <= a
      BY <2>2, <3>1
    <3>6. s \in Seq(EntryRec) /\ t \in Seq(EntryRec) /\ Lists(s, 1, a - 1) /\ Lists(t, a, b - 1)
      BY <3>2, <3>3
    <3> HIDE DEF s, t, a, b, Pre
    <3>7. 1 \in Nat /\ a - 1 \in Int /\ b - 1 \in Int /\ 1 <= (a - 1) + 1 /\ a - 1 <= b - 1 /\ (a - 1) + 1 = a
      BY <3>5
    <3>8. Lists(t, (a - 1) + 1, b - 1)
      BY <3>6, <3>7
    <3>9. Lists(s \o t, 1, b - 1)
      BY <3>6, <3>7, <3>8, ListsJoin
    <3>10. s \o t \in Seq(EntryRec)
      <4>1. s \in Seq(EntryRec) /\ t \in Seq(EntryRec)
        BY <3>6
      <4> QED
        BY <4>1
    <3> QED
      BY <3>4, <3>9, <3>10 DEF s, t, b
  <2> HIDE DEF N
  <2>5. R \in N
    BY <1>2, <2>3, <2>4, NatInd
  <2>6. Pre(R) \in Seq(EntryRec) /\ Lists(Pre(R), 1, First(R + 1) - 1)
    <3>1. R <= R
      BY <1>2
    <3> HIDE DEF Pre
    <3> QED
      BY <2>5, <3>1 DEF N
  <2>7. First(R + 1) - 1 = n
    BY <1>2, <2>1
  <2> HIDE DEF Pre
  <2> QED
    BY <1>1, <1>3, <2>6, <2>7, ListsWhole DEF n
<1> QED
  BY <1>2, <1>6, <1>7

\* No more shards than asked for.
LEMMA ShardFew == ASSUME ShardInv PROVE Len(ranges) <= asked
<1> DEFINE R == Len(ranges)
           p == Shard!Per
           t == Shard!Total
<1>1. corpus \in StageTables /\ asked \in ShardNumbers /\ Planned
  BY DEF ShardInv
<1>2. R \in Nat /\ asked \in Nat \ {0} /\ p \in Nat \ {0} /\ t \in Nat /\ t <= p * asked
  BY <1>1, Sizes, LenProperties DEF Planned
<1>3. ASSUME R # 0 PROVE (R - 1) * p < t
  <2>1. R \in 1 .. R
    BY <1>2, <1>3
  <2>2. (R - 1) * p <= ranges[R].from /\ ranges[R].from < t
    BY <1>1, <2>1 DEF Planned
  <2>3. ranges[R].from \in Nat
    BY <1>1, <2>1, OpenerIs
  <2>4. R - 1 \in Nat
    BY <1>2, <1>3
  <2>5. (R - 1) * p \in Nat
    BY <1>2, <2>4, Products
  <2> HIDE DEF R, p, t
  <2> QED
    BY <1>2, <2>2, <2>3, <2>5
<1> HIDE DEF R, p, t
<1>4. ASSUME asked < R PROVE FALSE
  <2>1. R - 1 \in Nat /\ asked <= R - 1 /\ asked \in Nat /\ R # 0
    BY <1>2, <1>4
  <2>2. asked * p <= (R - 1) * p /\ asked * p \in Nat /\ (R - 1) * p \in Nat
    BY <1>2, <2>1, Products
  <2>3. asked * p = p * asked
    BY <1>2
  <2> QED
    BY <1>2, <1>3, <2>1, <2>2, <2>3
<1> QED
  BY <1>2, <1>4 DEF R

\* The invariant holds whichever machine moves.
LEMMA ShardHolds == MCSpec => []ShardKept
<1>1. MCInit => ShardKept
  BY ShardInitial DEF MCInit, ShardKept
<1>2. ShardKept /\ [MCNext]_<<machine, vars, docVars, shardVars, fusedVars, acceptVars, releaseVars>> => ShardKept'
  <2>1. [MCNext]_<<machine, vars, docVars, shardVars, fusedVars, acceptVars, releaseVars>>
        => (machine' = "shard" => machine = "shard" /\ [Shard!Next]_shardVars)
    BY DEF MCNext, IndexRuns, DocRuns, ShardRuns, FusedRuns, AcceptRuns, ReleaseRuns
  <2> QED
    BY <2>1, ShardInductive DEF ShardKept
<1> QED
  BY <1>1, <1>2, PTL DEF MCSpec

\* A sharded stage (spine.py, reconcile.py, len_max.py) writes the table that one
\* worker over the whole corpus writes, whatever documents the second table lacks,
\* however the rows are grouped and in whatever order the shards are worked; it is
\* never refused, and it has no more shards than were asked for.
THEOREM ShardingIsFree == MCSpec => []ShardFree
<1>1. ShardKept => ShardFree
  <2> SUFFICES ASSUME ShardInv PROVE Shard!ShardFree /\ Shard!PlanHolds
    BY DEF ShardKept, ShardFree
  <2>1. Shard!ShardFree
    BY ShardWhole DEF Shard!ShardFree
  <2>2. Shard!PlanHolds
    BY ShardFew DEF Shard!PlanHolds, ShardInv
  <2> QED
    BY <2>1, <2>2
<1> QED
  BY <1>1, ShardHolds, PTL
=============================================================================
