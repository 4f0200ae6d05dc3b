----------------------------- MODULE QueryStack -----------------------------
(* One stack of the resident service answering one query after another        *)
(* (devkit/rsvc.py Service.query): the encoded query goes to the cell workers *)
(* of a CellPool, the late-interaction leg runs here meanwhile, the replies   *)
(* are gathered, fused, and a RerankPool scores the head of the list. Every   *)
(* worker is a process behind a pipe, and what its pipe holds outlives the    *)
(* query that asked for it. A message is the number of the query it is of.    *)
EXTENDS Integers, Sequences, FiniteSets

CONSTANTS
    Q,          \* queries, numbered in order of arrival
    W,          \* cell workers, in slice order
    M,          \* rerank instances
    MaxDeaths   \* bound: processes that die

Queries   == 1 .. Q
Cells     == {"cell"} \X (1 .. W)
Instances == {"rerank"} \X (1 .. M)
Procs     == Cells \cup Instances

VARIABLES
    pc, q, k,      \* place, query, worker whose turn it is
    fate,          \* each query: "new", "open", "ok", "late" (raised in the
                   \* late-interaction leg), "error"
    legs, scores,  \* the queries whose replies this answer was made from
    bad,           \* a reply of this gather reports an error
    solo,          \* the query asked for the single-instance comparison
    poisoned,      \* RerankPool._poisoned
    ask, answer,   \* the two directions of each worker's pipe
    alive

place == <<pc, q, k>>
made  == <<fate, legs, scores, bad, solo>>
pipes == <<ask, answer>>
vars  == <<place, made, poisoned, pipes, alive>>

Fates  == {"new", "open", "ok", "late", "error"}
Places == {"idle", "scatter", "late", "gather", "usable", "send", "score", "pair", "hear", "reply"}
Answers == [of : Queries, err : BOOLEAN]

TypeOK ==
    /\ pc \in Places
    /\ q \in 0 .. Q
    /\ k \in Nat
    /\ fate \in [Queries -> Fates]
    /\ legs \in [Queries -> SUBSET Queries]
    /\ scores \in [Queries -> SUBSET Queries]
    /\ bad \in BOOLEAN /\ solo \in BOOLEAN /\ poisoned \in BOOLEAN
    /\ ask \in [Procs -> Seq(Queries)]
    /\ answer \in [Procs -> Seq(Answers)]
    /\ alive \subseteq Procs
    /\ pc # "idle" => q \in Queries

Init ==
    /\ pc = "idle" /\ q = 0 /\ k = 1
    /\ fate = [p \in Queries |-> "new"]
    /\ legs = [p \in Queries |-> {}]
    /\ scores = [p \in Queries |-> {}]
    /\ bad = FALSE /\ solo = FALSE /\ poisoned = FALSE
    /\ ask = [w \in Procs |-> <<>>]
    /\ answer = [w \in Procs |-> <<>>]
    /\ alive = Procs

Cell(i)     == <<"cell", i>>
Instance(i) == <<"rerank", i>>

At(here)     == pc = here
Move(there)  == pc' = there /\ k' = 1 /\ bad' = FALSE
Turn         == pc' = pc /\ k' = k + 1

\* Whatever is raised ends the query (Service._run_exclusive catches it) and
\* leaves the pipes as they are.
Raise(how) ==
    /\ fate' = [fate EXCEPT ![q] = how]
    /\ Move("idle")
    /\ UNCHANGED <<q, legs, scores, solo>>

-----------------------------------------------------------------------------
(* Service.query                                                              *)

Begin ==
    /\ At("idle") /\ q < Q
    /\ q' = q + 1
    /\ fate' = [fate EXCEPT ![q + 1] = "open"]
    /\ solo' \in BOOLEAN
    /\ Move("scatter")
    /\ UNCHANGED <<legs, scores, poisoned, pipes, alive>>

\* encode_query raises before anything is sent.
EncodeRaises ==
    /\ At("scatter") /\ k = 1
    /\ Raise("error")
    /\ UNCHANGED <<poisoned, pipes, alive>>

\* CellPool.scatter: a worker after the other, without waiting.
Scatter ==
    /\ At("scatter") /\ k <= W
    /\ IF Cell(k) \in alive
       THEN /\ ask' = [ask EXCEPT ![Cell(k)] = Append(@, q)]
            /\ Turn /\ UNCHANGED <<q, made>>
       ELSE Raise("error") /\ UNCHANGED ask
    /\ UNCHANGED <<poisoned, answer, alive>>

Scattered ==
    /\ At("scatter") /\ k > W
    /\ Move("late")
    /\ UNCHANGED <<q, fate, legs, scores, solo, poisoned, pipes, alive>>

\* _fan_li_cells, while the cell workers search.
LateLeg ==
    /\ At("late")
    /\ Move("gather")
    /\ UNCHANGED <<q, fate, legs, scores, solo, poisoned, pipes, alive>>

LateLegRaises ==
    /\ At("late")
    /\ Raise("late")
    /\ UNCHANGED <<poisoned, pipes, alive>>

Bug_GatherRaisesAtOnce ==
    /\ At("gather") /\ k <= W /\ answer[Cell(k)] # <<>>
    /\ answer' = [answer EXCEPT ![Cell(k)] = Tail(@)]
    /\ IF Head(answer[Cell(k)]).err THEN Raise("error")
       ELSE /\ legs' = [legs EXCEPT ![q] = @ \cup {Head(answer[Cell(k)]).of}]
            /\ Turn /\ UNCHANGED <<q, fate, scores, bad, solo>>
    /\ UNCHANGED <<poisoned, ask, alive>>

\* CellPool.gather: the next message of each pipe, in slice order.
Gather ==
    /\ At("gather") /\ k <= W /\ answer[Cell(k)] # <<>>
    /\ answer' = [answer EXCEPT ![Cell(k)] = Tail(@)]
    /\ legs' = [legs EXCEPT ![q] = @ \cup {Head(answer[Cell(k)]).of}]
    /\ bad' = (bad \/ Head(answer[Cell(k)]).err)
    /\ Turn
    /\ UNCHANGED <<q, fate, scores, solo, poisoned, ask, alive>>

GatherRaises ==
    /\ At("gather") /\ k <= W
    /\ answer[Cell(k)] = <<>> /\ Cell(k) \notin alive
    /\ Raise("error")
    /\ UNCHANGED <<poisoned, pipes, alive>>

\* A leg's error is raised once every reply is in. An empty list, or a request
\* that asks for no reranking, is answered as it was fused.
Fuse ==
    /\ At("gather") /\ k > W
    /\ \/ bad /\ Raise("error")
       \/ ~bad /\ \E next \in {"usable", "reply"} : Move(next)
               /\ UNCHANGED <<q, fate, legs, scores, solo>>
    /\ UNCHANGED <<poisoned, pipes, alive>>

Reply ==
    /\ At("reply")
    /\ fate' = [fate EXCEPT ![q] = "ok"]
    /\ Move("idle")
    /\ UNCHANGED <<q, legs, scores, solo, poisoned, pipes, alive>>

-----------------------------------------------------------------------------
(* RerankPool.score and RerankPool.score_solo                                 *)

Poison == poisoned' = TRUE /\ Raise("error")

\* _check_usable, before the fan and again before the comparison.
CheckUsable ==
    /\ At("usable") \/ At("pair")
    /\ \/ /\ poisoned
          /\ Raise("error") /\ UNCHANGED poisoned
       \/ /\ ~poisoned /\ ~(Instances \subseteq alive)
          /\ Poison
       \/ /\ ~poisoned /\ Instances \subseteq alive
          /\ Move(IF At("usable") THEN "send" ELSE "hear")
          /\ UNCHANGED <<q, fate, legs, scores, solo, poisoned>>
    /\ UNCHANGED <<pipes, alive>>

\* Every instance gets its slice, an empty one included.
SendSlice ==
    /\ At("send") /\ k <= M
    /\ IF Instance(k) \in alive
       THEN /\ ask' = [ask EXCEPT ![Instance(k)] = Append(@, q)]
            /\ Turn /\ UNCHANGED <<q, made, poisoned>>
       ELSE Poison /\ UNCHANGED ask
    /\ UNCHANGED <<answer, alive>>

Sent ==
    /\ At("send") /\ k > M
    /\ Move("score")
    /\ UNCHANGED <<q, fate, legs, scores, solo, poisoned, pipes, alive>>

TakeScores(i) ==
    /\ answer[Instance(i)] # <<>>
    /\ answer' = [answer EXCEPT ![Instance(i)] = Tail(@)]
    /\ scores' = [scores EXCEPT ![q] = @ \cup {Head(answer[Instance(i)]).of}]
    /\ bad' = (bad \/ Head(answer[Instance(i)]).err)
    /\ UNCHANGED <<q, fate, legs, solo, poisoned, ask, alive>>

Bug_InstanceGoneBlind(i) ==
    /\ answer[Instance(i)] # <<>> /\ Instance(i) \notin alive
    /\ Raise("error")
    /\ poisoned' \in {poisoned, TRUE}
    /\ UNCHANGED <<pipes, alive>>

\* poll sees the closed pipe and recv raises, or is_alive sees it first.
InstanceGone(i) ==
    /\ answer[Instance(i)] = <<>> /\ Instance(i) \notin alive
    /\ Raise("error")
    /\ poisoned' \in {poisoned, TRUE}
    /\ UNCHANGED <<pipes, alive>>

Score ==
    /\ At("score") /\ k <= M
    /\ \/ TakeScores(k) /\ Turn
       \/ InstanceGone(k)

Scored ==
    /\ At("score") /\ k > M
    /\ \/ bad /\ Raise("error")
       \/ ~bad /\ Move(IF solo THEN "pair" ELSE "reply")
               /\ UNCHANGED <<q, fate, legs, scores, solo>>
    /\ UNCHANGED <<poisoned, pipes, alive>>

\* The whole pool once more, on instance 0.
SendSolo ==
    /\ At("hear") /\ k = 1
    /\ IF Instance(1) \in alive
       THEN /\ ask' = [ask EXCEPT ![Instance(1)] = Append(@, q)]
            /\ Turn /\ UNCHANGED <<q, made, poisoned>>
       ELSE Poison /\ UNCHANGED ask
    /\ UNCHANGED <<answer, alive>>

HearSolo ==
    /\ At("hear") /\ k = 2
    /\ \/ TakeScores(1) /\ Turn
       \/ InstanceGone(1)

HeardSolo ==
    /\ At("hear") /\ k = 3
    /\ \/ bad /\ Raise("error")
       \/ ~bad /\ Move("reply") /\ UNCHANGED <<q, fate, legs, scores, solo>>
    /\ UNCHANGED <<poisoned, pipes, alive>>

-----------------------------------------------------------------------------
(* _cell_loop and _rerank_loop: a failing leg or slice is reported, not       *)
(* raised. A worker may die.                                                  *)

Work(w) ==
    /\ w \in alive /\ ask[w] # <<>>
    /\ ask' = [ask EXCEPT ![w] = Tail(@)]
    /\ \E err \in BOOLEAN :
          answer' = [answer EXCEPT ![w] = Append(@, [of |-> Head(ask[w]), err |-> err])]
    /\ UNCHANGED <<place, made, poisoned, alive>>

Die(w) ==
    /\ w \in alive
    /\ Cardinality(Procs \ alive) < MaxDeaths
    /\ alive' = alive \ {w}
    /\ UNCHANGED <<place, made, poisoned, pipes>>

-----------------------------------------------------------------------------
Step ==
    \/ Begin \/ EncodeRaises \/ Scatter \/ Scattered \/ LateLeg \/ LateLegRaises
    \/ Gather \/ GatherRaises \/ Fuse \/ CheckUsable \/ SendSlice \/ Sent
    \/ Score \/ Scored \/ SendSolo \/ HearSolo \/ HeardSolo \/ Reply

Next == Step \/ \E w \in Procs : Work(w) \/ Die(w)

Spec == Init /\ [][Next]_vars

\* The stack runs and a live worker answers.
FairSpec == Spec /\ WF_vars(Step) /\ \A w \in Procs : WF_vars(Work(w))

-----------------------------------------------------------------------------
(* Properties.                                                                *)

\* A query is never scored by what an instance computed for another one,
\* through errors, deaths and the comparison pass: every reply is read before
\* an error is raised, and a fan out of step is poisoned or seen dead
\* (RerankPool.score, _check_usable).
OwnScores == \A p \in Queries : fate[p] = "ok" => scores[p] \subseteq {p}

\* A query is fused from its own legs as long as no query before it raised
\* between CellPool.scatter and CellPool.gather.
OwnLegs ==
    \A p \in Queries :
        fate[p] = "ok" /\ (\A o \in 1 .. p - 1 : fate[o] # "late") => legs[p] = {p}

\* A query that raises fails its own request only (devkit/rsvc.py ReplicaDied).
LegsOwn == \A p \in Queries : fate[p] = "ok" => legs[p] = {p}

\* Whatever dies or raises, a query comes back.
Ends == pc # "idle" ~> pc = "idle"
=============================================================================
