----------------------------- MODULE Projection -----------------------------
(* One topic of a finished cell on its way to the submission files            *)
(* (pipeline/select_serialize): duplicate questions are merged, duplicate     *)
(* answers are merged, the caps cut the bank once, and three projections read *)
(* it: the budgeted report of Task 1, the ranked documents of Task 2, the     *)
(* nuggets of Task 3. No step retrieves or generates.                         *)
EXTENDS Integers, FiniteSets, Sequences, SequencesExt, FiniteSetsExt, Functions, Folds

CONSTANTS
    Topics,      \* inputs: see below
    KT3,         \* nuggets kept
    AnswersCap,  \* answers kept per nugget
    TopDocs,     \* rows of a ranking
    Digit,       \* the score column's resolution, in units of a score
    Eps          \* room left above the next score, in units of a score

\* An input: the bank, a sequence of nuggets
\*     [id, weight, status, and (aggregator AND), answers];
\* the answers [value, span, sentence, refs : document -> score] of a nugget; which
\* pairs of questions and of answer values are above the cutoff, which pairs of
\* values the judge confirms, the length of each sentence, what joining two
\* sentences adds to their length, the limit, the scorer's map and the loop
\* records [nugget -> Seq([late, pool : passage -> score, cited])].
\* A sentence is <<what it says, its spelling>>; a passage <<document, number>>.

VARIABLES
    topic,    \* the input
    stage,    \* what has been done
    bank,     \* the bank as merged so far
    kept,     \* the bank within the caps: Task 3
    report,   \* Task 1: [texts, cites, used]
    rows      \* Task 2: sequence of [doc, score], or Tied

vars == <<topic, stage, bank, kept, report, rows>>

Tied == <<"UnseparableTie">>
Near(pairs, x, y) == {x, y} \in pairs
Update(f, g) == [d \in DOMAIN f \cup DOMAIN g |-> IF d \in DOMAIN g THEN g[d] ELSE f[d]]
\* The inputs, with numbers where the program has numbers. Ids are distinct.
AnswerType(a, says) ==
    /\ a = [value |-> a.value, span |-> a.span, sentence |-> a.sentence, refs |-> a.refs]
    /\ a.refs = [d \in DOMAIN a.refs |-> a.refs[d]] /\ IsFiniteSet(DOMAIN a.refs)
    /\ \A d \in DOMAIN a.refs : d \in Int /\ a.refs[d] \in Int
    /\ a.sentence \in says
NuggetType(n, says) ==
    /\ n = [id |-> n.id, weight |-> n.weight, status |-> n.status, and |-> n.and, answers |-> n.answers]
    /\ n.id \in Int /\ n.weight \in Int
    /\ n.answers \in Seq(Range(n.answers)) /\ \A a \in Range(n.answers) : AnswerType(a, says)
BankType(b, says) ==
    /\ b \in Seq(Range(b)) /\ \A n \in Range(b) : NuggetType(n, says)
    /\ \A i, j \in DOMAIN b : b[i].id = b[j].id => i = j
TopicType(t) ==
    /\ BankType(t.bank, DOMAIN t.long)
    /\ <<"framing", 1>> \in DOMAIN t.long /\ \A s \in DOMAIN t.long : t.long[s] \in Nat
    /\ t.limit \in Nat /\ t.joint \in Nat
    /\ \A k \in DOMAIN t.scores : t.scores[k] \in Int
    /\ \A n \in Range(t.bank) :
          /\ t.loops[n.id] \in Seq(Range(t.loops[n.id]))
          /\ \A r \in Range(t.loops[n.id]) :
                IsFiniteSet(DOMAIN r.pool) /\ \A p \in DOMAIN r.pool : r.pool[p] \in Int

\* A set in an order: what comes n-th has n - 1 elements before it.
Listed(S, before(_, _)) ==
    [n \in 1 .. Cardinality(S) |-> CHOOSE x \in S : Cardinality({y \in S : before(y, x)}) = n - 1]

-----------------------------------------------------------------------------
(* Deduplication                                                              *)

Ids        == {n.id : n \in Range(topic.bank)}
Nugget(id) == CHOOSE n \in Range(topic.bank) : n.id = id

\* merge_questions_embedding: connected components of the pairs above the cutoff.
Closed(S) == \A x \in S, y \in Ids : Near(topic.alike, x, y) => y \in S
Component(id) ==
    CHOOSE S \in SUBSET Ids : id \in S /\ Closed(S) /\ \A T \in SUBSET S : id \in T /\ Closed(T) => T = S

\* An answer that says what one before it says is not added again.
Says(a, b) == a.value = b.value /\ a.span = b.span
NewAnswers(taken, n) ==
    LET new == Listed({i \in DOMAIN n.answers :
                          /\ ~\E j \in DOMAIN taken : Says(taken[j], n.answers[i])
                          /\ ~\E j \in 1 .. i - 1 : Says(n.answers[j], n.answers[i])}, <)
    IN taken \o [i \in DOMAIN new |-> n.answers[new[i]]]

\* _merge_component: the lower id represents, and keeps its status.
MergeComponent(members) ==
    LET ordered == Listed(members, <)
        keep    == Nugget(ordered[1])
    IN IF Len(ordered) = 1 THEN keep
       ELSE [keep EXCEPT !.weight = Max({Nugget(m).weight : m \in members}),
                         !.answers = FoldLeft(LAMBDA as, m : NewAnswers(as, Nugget(m)), <<>>, ordered)]

MergeQuestions ==
    LET groups == {Component(id) : id \in Ids}
        order  == Listed(groups, LAMBDA g, h : Min(g) < Min(h))
    IN [i \in DOMAIN order |-> MergeComponent(order[i])]

Bug_Absorb(kept_, away) == kept_

\* _absorb_answer: the documents of both, the better score of each.
Absorb(kept_, away) ==
    [kept_ EXCEPT !.refs = [d \in DOMAIN kept_.refs \cup DOMAIN away.refs |->
        Max({f[d] : f \in {x \in {kept_.refs, away.refs} : d \in DOMAIN x}})]]

\* merge_answers: the first earlier answer that both the cutoff and the judge
\* accept takes the later one; an AND nugget keeps its answers apart.
TakeAnswer(out, a) ==
    LET twins == {i \in DOMAIN out : Near(topic.close, out[i].value, a.value)
                                     /\ Near(topic.agreed, out[i].value, a.value)}
    IN IF twins = {} THEN Append(out, a)
       ELSE [out EXCEPT ![Min(twins)] = Absorb(@, a)]
MergeAnswers(n) ==
    IF n.and THEN n ELSE [n EXCEPT !.answers = FoldLeft(TakeAnswer, <<>>, n.answers)]

\* apply_caps
Score(a) == IF DOMAIN a.refs = {} THEN 0 ELSE Max(Range(a.refs))
ByWeight(m, n) == m.weight > n.weight \/ (m.weight = n.weight /\ m.id < n.id)
Ranked(S) == Listed(S, ByWeight)
BestAnswers(n) ==
    LET order == Listed(DOMAIN n.answers, LAMBDA i, j :
                     Score(n.answers[i]) > Score(n.answers[j])
                     \/ (Score(n.answers[i]) = Score(n.answers[j]) /\ i < j))
    IN [i \in 1 .. Min({AnswersCap, Len(order)}) |-> n.answers[order[i]]]
Capped ==
    LET order == Ranked(Range(bank))
    IN [i \in 1 .. Min({KT3, Len(order)}) |-> [order[i] EXCEPT !.answers = BestAnswers(order[i])]]

-----------------------------------------------------------------------------
(* Task 1                                                                     *)

Same(s, t)  == s[1] = t[1]
Joined(texts) ==
    FoldLeft(LAMBDA sum, s : sum + topic.long[s], 0, texts)
    + (IF Len(texts) > 1 THEN (Len(texts) - 1) * (1 + topic.joint) ELSE 0)

\* A repeated sentence is printed once, with the documents of both.
Repeat(r, k, refs) == [r EXCEPT !.cites[k] = Update(@, refs)]

\* admit: uncited, repeated, too long, or printed.
Admit(r, a) ==
    LET copies == {k \in DOMAIN r.texts : Same(r.texts[k], a.sentence)}
        cost   == topic.long[a.sentence] + (IF r.texts = <<>> THEN 0 ELSE 1)
    IN IF DOMAIN a.refs = {} THEN r
       ELSE IF copies # {} THEN Repeat(r, Min(copies), a.refs)
       ELSE IF r.used + cost > topic.limit THEN r
       ELSE [texts |-> Append(r.texts, a.sentence), cites |-> Append(r.cites, a.refs),
             used |-> r.used + cost]

Answered(n) == n.status = "answered" /\ n.answers # <<>>
Best(n)     == CHOOSE i \in DOMAIN n.answers : \A j \in DOMAIN n.answers :
                  Score(n.answers[i]) > Score(n.answers[j])
                  \/ (Score(n.answers[i]) = Score(n.answers[j]) /\ i <= j)
Tier1 == LET order == Ranked({n \in Range(kept) : Answered(n)})
         IN [i \in DOMAIN order |-> order[i].answers[Best(order[i])]]
\* Every other answer, by weight times score.
Tier2 ==
    LET Value(p) == p[1].weight * Score(p[1].answers[p[2]])
        rest  == UNION {{<<n, i>> : i \in DOMAIN n.answers \ {Best(n)}} : n \in {m \in Range(kept) : Answered(m)}}
        order == Listed(rest, LAMBDA p, q :
                     Value(p) > Value(q)
                     \/ (Value(p) = Value(q) /\ (p[1].id < q[1].id \/ (p[1].id = q[1].id /\ p[2] < q[2]))))
    IN [i \in DOMAIN order |-> order[i][1].answers[order[i][2]]]

Blank    == [texts |-> <<>>, cites |-> <<>>, used |-> 0]
\* _fallback: a cited sentence that fits was printed, which leaves the framing.
FallBack == [texts |-> <<<<"framing", 1>>>>, cites |-> <<[d \in {} |-> 0]>>, used |-> topic.long[<<"framing", 1>>]]

\* trim_to_limit: the joined text decides, and the tail gives way.
Trim(r) ==
    LET fit == Max({n \in 0 .. Len(r.texts) : Joined(SubSeq(r.texts, 1, n)) <= topic.limit})
    IN [r EXCEPT !.texts = SubSeq(@, 1, fit), !.cites = SubSeq(@, 1, fit)]

Bug_Order == Tier2 \o Tier1

Order == Tier1 \o Tier2

Report ==
    LET full == FoldLeft(Admit, Blank, Order)
    IN Trim(IF full.texts = <<>> THEN FallBack ELSE full)

-----------------------------------------------------------------------------
(* Task 2                                                                     *)

Claims == UNION {{<<n, i>> : i \in DOMAIN n.answers} : n \in Range(bank)}
Claim(p) == p[1].answers[p[2]]

\* The scorer's product, or the weight alone where it has none.
Worth(p, d) ==
    LET key == <<p[1].id, Claim(p).value, Claim(p).span, d>>
    IN IF key \in DOMAIN topic.scores THEN topic.scores[key] ELSE p[1].weight * Digit
Cited == UNION {DOMAIN Claim(p).refs : p \in Claims}
Total(d) ==
    LET mine == {p \in Claims : d \in DOMAIN Claim(p).refs}
    IN FoldFunction(+, 0, [p \in mine |-> Worth(p, d)])

\* reranker_by_doc: of the rounds the audit saw, the best score of a passage
\* within a nugget; a document's cited passages reduce to their mean, and those
\* only retrieved stand in for a document without one.
Seen(id)    == {r \in Range(topic.loops[id]) : ~r.late}
Pool(id)    == UNION {DOMAIN r.pool : r \in Seen(id)}
PoolOf(id, p) == Max({r.pool[p] : r \in {x \in Seen(id) : p \in DOMAIN x.pool}})
Kin(d, cited) ==
    {x \in {n.id : n \in Range(bank)} \X UNION {Pool(id) : id \in Ids} :
        /\ x[2][1] = d /\ x[2] \in Pool(x[1])
        /\ cited => \E r \in Seen(x[1]) : x[2] \in r.cited}
\* Means are compared as fractions of 6: at most three passages.
Mean(S) == (6 * FoldFunction(+, 0, [x \in S |-> PoolOf(x[1], x[2])])) \div Cardinality(S)
Opinion(d) == IF Kin(d, TRUE) # {} THEN {Mean(Kin(d, TRUE))}
              ELSE IF Kin(d, FALSE) # {} THEN {Mean(Kin(d, FALSE))} ELSE {}
Before(d, e) ==
    \/ Total(d) > Total(e)
    \/ Total(d) = Total(e) /\ Opinion(d) # {} /\ (Opinion(e) = {} \/ Max(Opinion(d)) > Max(Opinion(e)))
    \/ Total(d) = Total(e) /\ Opinion(d) = Opinion(e) /\ d < e

Printed(score) == (score + Digit \div 2) \div Digit

Bug_Together(x, y) == x = y

\* A tie is an equal printed score.
Together(x, y) == Printed(x) = Printed(y)

\* _separate_tied_groups: the rows of a tie share the gap to the next score, the
\* first keeps its own.
Separate(list) ==
    LET Run(k)  == {j \in DOMAIN list : Together(list[j].score, list[k].score)}
        Gap(k)  == IF Max(Run(k)) < Len(list)
                   THEN list[Min(Run(k))].score - list[Max(Run(k)) + 1].score ELSE Digit * 100
        Step(k) == (Gap(k) - Eps) \div (Cardinality(Run(k)) - 1)
        Alone(k) == Cardinality(Run(k)) = 1
    IN IF \E k \in DOMAIN list : ~Alone(k) /\ (Gap(k) <= Eps \/ Step(k) < Digit) THEN Tied
       ELSE [k \in DOMAIN list |->
                IF Alone(k) THEN list[k]
                ELSE [list[k] EXCEPT !.score = list[Min(Run(k))].score - (k - Min(Run(k))) * Step(k)]]

ClaimRows ==
    LET order == Listed(Cited, Before)
    IN Separate([i \in 1 .. Min({TopDocs, Len(order)}) |-> [doc |-> order[i], score |-> Total(order[i])]])

-----------------------------------------------------------------------------
Init ==
    /\ topic \in Topics /\ stage = "read"
    /\ bank = topic.bank
    /\ kept = <<>> /\ report = Blank /\ rows = <<>>

Questions ==
    /\ stage = "read" /\ stage' = "questions"
    /\ bank' = MergeQuestions
    /\ UNCHANGED <<topic, kept, report, rows>>

Answers ==
    /\ stage = "questions" /\ stage' = "answers"
    /\ bank' = [i \in DOMAIN bank |-> MergeAnswers(bank[i])]
    /\ UNCHANGED <<topic, kept, report, rows>>

Caps ==
    /\ stage = "answers" /\ stage' = "caps"
    /\ kept' = Capped
    /\ UNCHANGED <<topic, bank, report, rows>>

Project ==
    /\ stage = "caps" /\ stage' = "projected"
    /\ report' = Report /\ rows' = ClaimRows
    /\ UNCHANGED <<topic, bank, kept>>

\* check_run_file over the staged run; an unseparable tie has raised before it.
SelfCheck ==
    /\ stage = "projected" /\ rows # Tied
    /\ stage' = IF /\ rows # <<>> /\ Len(rows) <= TopDocs
                   /\ \A i \in 1 .. Len(rows) - 1 : Printed(rows[i + 1].score) < Printed(rows[i].score)
                THEN "published" ELSE "refused"
    /\ UNCHANGED <<topic, bank, kept, report, rows>>

Next == Questions \/ Answers \/ Caps \/ Project \/ SelfCheck
Spec == Init /\ [][Next]_vars

-----------------------------------------------------------------------------
(* Properties                                                                 *)

\* Two steps of merging lose no evidence: a document that a claim cited is cited,
\* with no worse a score, under the nugget that stands for the claim's. What
\* _merge_component does drop is a claim that the component already has word for
\* word, from an earlier question or from the same one, and its documents with it.
Repeated(n, i) ==
    \E m \in Range(topic.bank) : m.id \in Component(n.id)
        /\ \E j \in DOMAIN m.answers : Says(m.answers[j], n.answers[i])
                                      /\ (m.id < n.id \/ (m.id = n.id /\ j < i))
EvidenceKept ==
    stage # "read" =>
        \A n \in Range(topic.bank) : \A i \in DOMAIN n.answers : \A d \in DOMAIN n.answers[i].refs :
            \/ Repeated(n, i)
            \/ \E m \in Range(bank) : m.id = Min(Component(n.id))
                   /\ \E b \in Range(m.answers) : d \in DOMAIN b.refs /\ b.refs[d] >= n.answers[i].refs[d]

\* The report is one the track accepts: it fits as joined, says nothing twice,
\* and every sentence but the framing cites; a repeated sentence cites what all
\* its answers cite, those behind it in the order included.
ReportHonest ==
    stage = "projected" =>
        /\ Joined(report.texts) <= topic.limit
        /\ Len(report.texts) = Len(report.cites)
        /\ \A k, l \in DOMAIN report.texts : Same(report.texts[k], report.texts[l]) => k = l
        /\ \A k \in DOMAIN report.texts :
               /\ DOMAIN report.cites[k] = {} => report.texts = FallBack.texts
               /\ \A n \in Range(kept) : Answered(n) => \A a \in Range(n.answers) :
                      a.sentence = report.texts[k] => DOMAIN a.refs \subseteq DOMAIN report.cites[k]

\* Coverage first: the best sentence of an answered nugget is printed, or the
\* best sentences of the nuggets before it left it no room, or joining sentences
\* made the text longer than their sum and the tail gave way. No second sentence
\* of one nugget ever takes the place of the first of another.
CoverageFirst ==
    stage = "projected" /\ topic.joint = 0 =>
        \A k \in DOMAIN Tier1 :
            LET before == {Tier1[j].sentence : j \in {i \in 1 .. k - 1 : DOMAIN Tier1[i].refs # {}}}
            IN \/ DOMAIN Tier1[k].refs = {}
               \/ \E t \in Range(report.texts) : Same(t, Tier1[k].sentence)
               \/ FoldFunction(+, 0, [s \in before |-> topic.long[s] + 1]) + topic.long[Tier1[k].sentence] > topic.limit

\* A ranking raises, or it is one the organizers read as it was meant: no two
\* printed scores equal, none out of order, every document between its own total
\* and the next lower one; and only a run without rows fails the self-check.
RunPublishable ==
    stage \in {"published", "refused"} =>
        /\ stage = "refused" <=> rows = <<>>
        /\ \A j, k \in DOMAIN rows : j < k =>
               /\ Printed(rows[j].score) > Printed(rows[k].score)
               /\ Total(rows[j].doc) >= Total(rows[k].doc)
               /\ Printed(Total(rows[j].doc)) > Printed(Total(rows[k].doc)) => rows[j].score > Total(rows[k].doc)

\* task2_claims: rule 2 is a lookup, "and the score here cannot drift from the
\* scorer's". Where every citation of the topic is scored, what a claim adds to
\* a document is what the scorer wrote for some claim on that document.
NoDrift ==
    stage = "projected"
    /\ (\A n \in Range(topic.bank) : \A a \in Range(n.answers) : \A d \in DOMAIN a.refs :
            <<n.id, a.value, a.span, d>> \in DOMAIN topic.scores)
    => \A p \in Claims : \A d \in DOMAIN Claim(p).refs :
           Worth(p, d) \in {topic.scores[k] : k \in {x \in DOMAIN topic.scores : x[4] = d}}
=============================================================================
