-------------------------- MODULE ProjectionTopics --------------------------
(* Topics for Projection: three families, each about some of its decisions.   *)
EXTENDS Integers, Sequences, TLC

Nug(id, weight, answers) ==
    [id |-> id, weight |-> weight, status |-> IF answers = <<>> THEN "unanswered" ELSE "answered",
     and |-> FALSE, answers |-> answers]
Ans(value, says, refs) == [value |-> value, span |-> value, sentence |-> says, refs |-> refs]
Plain == [alike |-> {}, close |-> {}, agreed |-> {}, limit |-> 9, joint |-> 0,
          long |-> [s \in {"s", "t", "u", "framing"} \X {1, 2} |-> 2],
          scores |-> <<>>, loops |-> [i \in 1 .. 3 |-> <<>>]]
Pairs(S) == {{x, y} : x, y \in S} \ {{x} : x \in S}

\* Which questions and which answers are duplicates of which; the scorer scored
\* every citation.
Duplicates ==
    LET three == <<Nug(1, 1, <<Ans("v", <<"s", 1>>, 1 :> 1), Ans("w", <<"t", 1>>, 2 :> 2)>>),
                   Nug(2, 2, <<Ans("w", <<"t", 2>>, 1 :> 2), Ans("x", <<"u", 1>>, 3 :> 1 @@ 2 :> 3)>>),
                   Nug(3, 1, <<Ans("v", <<"s", 1>>, 3 :> 3)>>)>>
        scored == {c \in (1 .. 3) \X (1 .. 2) \X {1, 2, 3} :
                      c[2] <= Len(three[c[1]].answers) /\ c[3] \in DOMAIN three[c[1]].answers[c[2]].refs}
        key(c) == LET a == three[c[1]].answers[c[2]] IN <<c[1], a.value, a.span, c[3]>>
    IN {[Plain EXCEPT !.alike = q, !.close = c, !.agreed = g,
                      !.scores = [k \in {key(x) : x \in scored} |-> 5 + k[1]]]
           @@ [bank |-> [three EXCEPT ![2].and = apart]] :
        q \in SUBSET Pairs(1 .. 3), c \in SUBSET Pairs({"v", "w", "x"}), g \in SUBSET Pairs({"v", "w", "x"}),
        apart \in BOOLEAN}

\* Three nuggets of equal and unequal weight, sentences that repeat, one nugget
\* that nothing answers, one claim without a citation; every limit and length.
Budgets ==
    {[Plain EXCEPT !.limit = l, !.joint = j, !.long = [s \in DOMAIN Plain.long |-> IF s[1] = "framing" THEN 2 ELSE f[s[1]] + s[2] - 1]]
        @@ [bank |-> <<Nug(1, w, <<Ans("v", <<"s", 1>>, 1 :> 2), Ans("w", <<"t", 1>>, 2 :> 1)>>),
                       Nug(2, 2, <<Ans("x", <<"u", 1>>, bare), Ans("y", <<"s", spelled>>, 3 :> 1)>>),
                       Nug(3, 1, third)>>] :
        l \in {1, 3, 4, 6, 7, 8}, j \in 0 .. 1, f \in [{"s", "t", "u"} -> {1, 3}], w \in 1 .. 3,
        bare \in {<<>>, 4 :> 2}, spelled \in 1 .. 2,
        third \in {<<>>, <<Ans("z", <<"t", 1>>, 4 :> 1)>>}}

\* Four documents at every distance from one another, with and without passages
\* in the loops.
Rankings ==
    {[Plain EXCEPT !.scores = [k \in {<<1, "v", "v", d>> : d \in 1 .. 4} |-> f[k[4]]],
                   !.loops = (1 :> l) @@ Plain.loops]
        @@ [bank |-> <<Nug(1, 1, <<Ans("v", <<"s", 1>>, [d \in 1 .. 4 |-> 1])>>)>>] :
        f \in [1 .. 4 -> {20, 21, 22, 30, 60}],
        l \in {<<>>,
               <<[late |-> FALSE, pool |-> <<1, 1>> :> 3 @@ <<2, 1>> :> 5 @@ <<2, 2>> :> 4, cited |-> {<<1, 1>>}],
                 [late |-> FALSE, pool |-> <<2, 2>> :> 6, cited |-> {<<2, 2>>}],
                 [late |-> TRUE, pool |-> <<3, 1>> :> 9, cited |-> {<<3, 1>>}]>>}}

SomeTopics == Duplicates \cup Budgets \cup Rankings
=============================================================================
