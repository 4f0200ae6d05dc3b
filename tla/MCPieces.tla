------------------------------ MODULE MCPieces ------------------------------
(* The pipeline and serving side: machines that share no state, side by side  *)
(* in one configuration. A behaviour runs the one that its first state picks  *)
(* while the others stand still. Bounds and inputs of each are given here.    *)
EXTENDS SeedBank, Sequences, SequencesExt, TLC

CONSTANTS a1, a2, a3, b1, b2, none,   \* arms and banks
          c1, c2, absent,               \* retrieval clients
          s1, w1, w2,                   \* a shard and its workers
          p1, p2, v1, v2                \* passages and answer values of a loop

\* The constants of the machines below that the theorems leave open.
CONSTANTS Clients, S, Lanes, Want, LaneStarts,                 \* RetrievalLane
          Q, W, M, MaxDeaths,                                  \* QueryStack
          FanInputs, FanTopK, FanWidths,                       \* PartFan
          RankInputs, RankLegs, RankWeights, RankOne,          \* Ranking
          TopicInputs, KT3, AnswersCap, TopDocs, Resolution, Headroom,   \* Projection
          MinSearches, MaxIters, MaxSearches, TokenBudget, MaxRetries,   \* RagLoop
          Passages, Values,
          Topics, Tasks, PoolSize, SubmitStarts, SubmitKills   \* Submission

\* A run declares one index for each request; a service has a worker per slice
\* and at least one rerank instance; a config declares a deliverable; what is
\* searched for are strings, and what is asked of them is no less than nothing;
\* the room left above a score shows in print.
ASSUME PiecesAssumption ==
    /\ S \in Nat \ {0} /\ Want \in [Clients -> Lanes] /\ Lanes # {} /\ absent \notin [of : Lanes, ok : BOOLEAN]
    /\ LaneStarts \in Nat
    /\ Q \in Nat /\ W \in Nat \ {0} /\ M \in Nat \ {0} /\ MaxDeaths \in Nat
    /\ FanTopK \in Nat /\ FanWidths \subseteq Nat \ {0}
    /\ \A s \in RankInputs :
          s.queries \in Seq(Nat) /\ s.topk \in Nat /\ s.depth \in Nat /\ s.cells \in Seq(Seq(SUBSET Nat))
    /\ RankLegs \in Seq(STRING)
    /\ Resolution \in Nat \ {0} /\ Headroom \in Nat /\ Headroom >= Resolution
    /\ Tasks \in Seq(Nat) /\ Tasks # <<>>

\* What a loop is budgeted.
ASSUME BudgetAssumption ==
    /\ MinSearches \in Nat
    /\ MaxIters \in Nat
    /\ MaxSearches \in Nat
    /\ TokenBudget \in Nat \ {0}
    /\ MaxRetries \in Nat

VARIABLE machine   \* "bank", "queue", "lane", "fan", "stack", "rank", "topic", "loop" or "submit"

ThreeArms  == {a1, a2, a3}
TwoBanks  == {b1, b2}

-----------------------------------------------------------------------------
(* WorkQueue: one shard, two workers, one of them killed, restarts.           *)

VARIABLES pending, running, sidecar, age, done, failed, out, attempts, fails, sentinel,
          wpc, shard, count, spc, todo, writing, seeds, dpc, kills

Queue == INSTANCE WorkQueue
    WITH Shards <- {s1}, Workers <- {w1, w2}, None <- none, KMax <- 2, MaxAge <- 0,
         Chained <- TRUE, Stalls <- FALSE, Restarts <- TRUE, MaxCrashes <- 1, MaxSeeds <- 2,
         pc <- wpc, n <- count, launches <- seeds, crashes <- kills

-----------------------------------------------------------------------------
(* RetrievalLane: one service, launched twice over any of three indexes.      *)

VARIABLES at, place, fate, source, up, lane, beat, launches, desc, fresh, inbox, taken, outbox

Index(r, b) == [rendering |-> r, build |-> b]
SomeLanes   == {Index("r1", "b1"), Index("r1", "b2"), Index("r2", "b1")}
TwoClients  == {c1, c2}
WantedLane  == c1 :> Index("r1", "b1") @@ c2 :> Index("r1", "b2")

Lane == INSTANCE RetrievalLane WITH Absent <- absent, MaxLaunches <- LaneStarts

-----------------------------------------------------------------------------
(* PartFan: five passages over three parts, with every pattern of ties.       *)

VARIABLES fan, width, found, broken, hits, reply, result

Deals    == {<<{1, 4}, {2, 5}, {3}>>, <<{5}, {}, {1, 2, 3, 4}>>, <<{2, 3, 5}, {1, 4}>>}
SomeFans ==
    {[parts |-> [p \in DOMAIN deal |-> {[id |-> d, score |-> f[d]] : d \in deal[p]}], device |-> v] :
        deal \in Deals, f \in [1 .. 5 -> 1 .. 2], v \in BOOLEAN}
OneToThree == 1 .. 3

Fan == INSTANCE PartFan WITH Fans <- FanInputs, TopK <- FanTopK, Widths <- FanWidths

-----------------------------------------------------------------------------
(* QueryStack: two queries over two cell workers and two rerank instances, of *)
(* which one dies.                                                            *)

VARIABLES qpc, query, k, answered, legs, scores, bad, solo, poisoned, ask, answer, alive

Stack == INSTANCE QueryStack
    WITH pc <- qpc, q <- query, fate <- answered

-----------------------------------------------------------------------------
(* Ranking: three legs over one or two cells, two strings of which one is     *)
(* repeated or blank, tables of scores with and without ties, both sides, what *)
(* is not published and a leg that is lost.                                   *)

VARIABLES search, rpc, unit, hands, lists, pools, ranked

ThreeLegs == <<"dense", "sparse", "late">>
OneCell   == <<<<{1, 3}, {2}>>>>
TwoCells  == <<<<{1, 3}, {2}>>, <<{4}>>>>
SomeWeights  == <<9, 8, 5, 4>>
Orders    == {<<1, 2, 3>>, <<2, 3, 1>>, <<3, 1, 2>>}

\* The second string scores as the first with the order of the passages turned.
Twice(f) ==
    [queries |-> <<1, 2, 1>>, topk |-> 2, depth |-> 2, remote |-> FALSE, threads |-> 2, cells |-> OneCell,
     score |-> [ql \in {1, 2} \X ToSet(ThreeLegs) |-> IF ql[1] = 1 THEN f[ql[2]] ELSE Tail(f[ql[2]]) \o <<Head(f[ql[2]])>>],
     cross |-> <<1, 2, 1, 2>>, lost |-> {}, published |-> TRUE, stored |-> TRUE]
Plainly == Twice([l \in ToSet(ThreeLegs) |-> <<1, 2, 3>>])
Tied    == <<2, 1, 3, 2>>

SomeSearches ==
    {Twice(f) : f \in [ToSet(ThreeLegs) -> Orders]}
    \cup {[Twice([l \in ToSet(ThreeLegs) |-> IF l = "late" THEN g ELSE Tied])
              EXCEPT !.queries = <<1, 0, 2, 1>>, !.cells = TwoCells, !.threads = 3, !.topk = 3, !.depth = 3] :
              g \in {<<1, 2, 3, 1>>, <<3, 3, 2, 1>>}}
    \cup {[Plainly EXCEPT !.remote = r, !.published = p, !.stored = s, !.lost = l, !.queries = q, !.topk = best,
                           !.threads = 1] :
              r \in BOOLEAN, p \in BOOLEAN, s \in BOOLEAN, l \in {{}, {<<1, "dense">>}},
              q \in {<<1>>, <<0>>, <<1, 2>>}, best \in {0, 1, 3}}

Search == INSTANCE Ranking
    WITH Searches <- RankInputs, Legs <- RankLegs, Weights <- RankWeights, One <- RankOne,
         pc <- rpc, next <- unit, busy <- hands, done <- lists

-----------------------------------------------------------------------------
(* RagLoop: two passages, two values; its budgets are in the configuration.   *)

VARIABLES lpc, menu, iters, searches, missed, tokens, retries, retrieved, shown, committed,
          status, closedBy, claimed, calls

TwoPassages == {p1, p2}
TwoValues   == {v1, v2}

Loop == INSTANCE RagLoop WITH pc <- lpc, failed <- missed, answers <- claimed

-----------------------------------------------------------------------------
(* Projection: the families of ProjectionTopics.                              *)

VARIABLES topic, tstage, tbank, kept, report, rows

Families == INSTANCE ProjectionTopics
SomeTopics == Families!SomeTopics

Topic == INSTANCE Projection
    WITH Topics <- TopicInputs, Digit <- Resolution, Eps <- Headroom,
         stage <- tstage, bank <- tbank

\* A topic of the projection has nuggets of distinct ids, as Projection types it,
\* and its caps are numbers.
ASSUME TopicsAssumption ==
    /\ \A t \in TopicInputs : Topic!TopicType(t)
    /\ KT3 \in Nat /\ AnswersCap \in Nat /\ TopDocs \in Nat

-----------------------------------------------------------------------------
(* Submission: two topics, two deliverables, two launches of which one is     *)
(* killed.                                                                    *)

VARIABLES cell, file, marked, fragment, passed, family, driver, listed, remain, covered, next,
          serial, tries, relaunches, skills

TwoTopics == 1 .. 2
TwoTasks  == <<1, 3>>

Submit == INSTANCE Submission
    WITH Workers <- PoolSize, MaxLaunches <- SubmitStarts, MaxKills <- SubmitKills,
         todo <- remain, shard <- serial, launches <- relaunches, kills <- skills

-----------------------------------------------------------------------------
queueVars ==
    <<pending, running, sidecar, age, done, failed, out, attempts, fails, sentinel,
      wpc, shard, count, spc, todo, writing, seeds, dpc, kills>>
laneVars   == <<at, place, fate, source, up, lane, beat, launches, desc, fresh, inbox, taken, outbox>>
fanVars    == <<fan, width, found, broken, hits, reply, result>>
stackVars  == <<qpc, query, k, answered, legs, scores, bad, solo, poisoned, ask, answer, alive>>
topicVars  == <<topic, tstage, tbank, kept, report, rows>>
rankVars   == <<search, rpc, unit, hands, lists, pools, ranked>>
loopVars   ==
    <<lpc, menu, iters, searches, missed, tokens, retries, retrieved, shown, committed,
      status, closedBy, claimed, calls>>
submitVars ==
    <<cell, file, marked, fragment, passed, family, driver, listed, remain, covered, next,
      serial, tries, relaunches, skills>>

FanIdle ==
    /\ fan = "idle" /\ width = "idle" /\ found = "idle" /\ broken = "idle" /\ hits = "idle" /\ reply = "idle"
    /\ result = "idle"
TopicIdle ==
    /\ topic = "idle" /\ tstage = "idle" /\ tbank = "idle" /\ kept = "idle" /\ report = "idle" /\ rows = "idle"

RankIdle ==
    /\ search = "idle" /\ rpc = "idle" /\ unit = "idle" /\ hands = "idle" /\ lists = "idle" /\ pools = "idle"
    /\ ranked = "idle"

MCInit ==
    /\ machine \in {"bank", "queue", "lane", "fan", "stack", "rank", "topic", "loop", "submit"}
    /\ Init /\ Queue!Init /\ Lane!Init /\ Stack!Init /\ Loop!Init /\ Submit!Init
    /\ machine = "submit" \/ cell = {}
    /\ IF machine = "fan" THEN Fan!Init ELSE FanIdle
    /\ IF machine = "rank" THEN Search!Init ELSE RankIdle
    /\ IF machine = "topic" THEN Topic!Init ELSE TopicIdle

BankRuns ==
    /\ machine = "bank" /\ Next
    /\ UNCHANGED <<machine, queueVars, laneVars, fanVars, stackVars, rankVars, topicVars, loopVars, submitVars>>
QueueRuns ==
    /\ machine = "queue" /\ Queue!Next
    /\ UNCHANGED <<machine, vars, laneVars, fanVars, stackVars, rankVars, topicVars, loopVars, submitVars>>
LaneRuns ==
    /\ machine = "lane" /\ Lane!Next
    /\ UNCHANGED <<machine, vars, queueVars, fanVars, stackVars, rankVars, topicVars, loopVars, submitVars>>
FanRuns ==
    /\ machine = "fan" /\ Fan!Next
    /\ UNCHANGED <<machine, vars, queueVars, laneVars, stackVars, rankVars, topicVars, loopVars, submitVars>>
StackRuns ==
    /\ machine = "stack" /\ Stack!Next
    /\ UNCHANGED <<machine, vars, queueVars, laneVars, fanVars, rankVars, topicVars, loopVars, submitVars>>
RankRuns ==
    /\ machine = "rank" /\ Search!Next
    /\ UNCHANGED <<machine, vars, queueVars, laneVars, fanVars, stackVars, topicVars, loopVars, submitVars>>
TopicRuns ==
    /\ machine = "topic" /\ Topic!Next
    /\ UNCHANGED <<machine, vars, queueVars, laneVars, fanVars, stackVars, rankVars, loopVars, submitVars>>
LoopRuns ==
    /\ machine = "loop" /\ Loop!Next
    /\ UNCHANGED <<machine, vars, queueVars, laneVars, fanVars, stackVars, rankVars, topicVars, submitVars>>
SubmitRuns ==
    /\ machine = "submit" /\ Submit!Next
    /\ UNCHANGED <<machine, vars, queueVars, laneVars, fanVars, stackVars, rankVars, topicVars, loopVars>>

MCNext ==
    \/ BankRuns \/ QueueRuns \/ LaneRuns \/ FanRuns \/ StackRuns
    \/ RankRuns \/ TopicRuns \/ LoopRuns \/ SubmitRuns

\* The fairness of the FairSpec of WorkQueue, RetrievalLane, QueryStack
\* and RagLoop.
QueueFair ==
    /\ \A w \in {w1, w2} :
          /\ WF_queueVars(machine = "queue" /\ Queue!Worker(w))
          /\ WF_queueVars(machine = "queue" /\ Queue!Restart(w))
    /\ WF_queueVars(machine = "queue" /\ Queue!SeedLaunch /\ spc # "end")
    /\ WF_queueVars(machine = "queue" /\ Queue!Seeder)
    /\ WF_queueVars(machine = "queue" /\ Queue!Driver)
    /\ WF_queueVars(machine = "queue" /\ Queue!Tick)

LaneFair ==
    /\ \A c \in Clients : WF_laneVars(machine = "lane" /\ Lane!ClientStep(c))
    /\ \A s \in 1 .. S :
          /\ WF_laneVars(machine = "lane" /\ Lane!BeatEnds(s))
          /\ WF_laneVars(machine = "lane" /\ Lane!Expire(s))
          /\ \A c \in Clients : /\ WF_laneVars(machine = "lane" /\ Lane!Take(s, c))
                               /\ WF_laneVars(machine = "lane" /\ Lane!Answer(s, c))

StackFair ==
    /\ WF_stackVars(machine = "stack" /\ Stack!Step)
    /\ \A w \in Stack!Procs : WF_stackVars(machine = "stack" /\ Stack!Work(w))

LoopFair == WF_loopVars(machine = "loop" /\ Loop!Next)

MCSpec ==
    /\ MCInit
    /\ [][MCNext]_<<machine, vars, queueVars, laneVars, fanVars, stackVars, rankVars, topicVars, loopVars, submitVars>>
    /\ QueueFair /\ LaneFair /\ StackFair /\ LoopFair

-----------------------------------------------------------------------------
(* Properties: those of the machine that runs, as its own module states them. *)
(* OneSeed is SeedBank's.                                                     *)

\* The chain of one substage ends, unless live claims are reaped for ever.
DriveEnds == machine = "queue" => Queue!DriveEnds

\* Hits come from the index the client's run declares (ServiceBackend).
RightLane == machine = "lane" => Lane!RightLane

\* A leg searched in slices is the leg searched whole.
SliceFree == machine = "fan" => Fan!SliceFree

\* A query is scored by what was computed for it, and fused from its own legs
\* unless one before it raised late.
OwnResults == machine = "stack" => Stack!OwnScores /\ Stack!OwnLegs

\* Nobody waits for what is gone: a query comes back whatever dies or raises, and
\* a client learns from the heartbeat that its service has left.
NobodyWaits ==
    /\ machine = "stack" => Stack!Ends
    /\ machine = "lane" => Lane!Detected

\* A ranking does not depend on how many threads made it, or on which side.
WidthFree == machine = "rank" => Search!WidthFree

\* Two steps of merging lose no evidence.
EvidenceKept == machine = "topic" => Topic!EvidenceKept

\* The report fits, repeats nothing, cites what its answers cite, and no second
\* sentence of a nugget takes the place of the first of another.
ReportHonest == machine = "topic" => Topic!ReportHonest /\ Topic!CoverageFirst

\* A ranking raises, or its printed scores order it as it was meant.
RunPublishable == machine = "topic" => Topic!RunPublishable

\* A claim of Task 2 is scored as the scorer scored it.
NoDrift == machine = "topic" => Topic!NoDrift

\* A loop's claims and answers rest on passages it was shown.
Grounded == Loop!Grounded

\* A loop ends, whatever its model says.
LoopEnds == machine = "loop" => Loop!Ends

\* What a finished driver leaves is one submission, and its gate has accepted it.
OneProjection == machine = "submit" => Submit!OneProjection /\ Submit!PublishedPassed
=============================================================================
