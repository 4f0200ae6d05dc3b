---------------------------- MODULE MCPieces_proof ----------------------------
(* The machines of MCPieces, for every value of the constants it leaves      *)
(* open: the seed bank a family of arms shares, the index a client's hits    *)
(* come from, the replies a query is made of, how a leg is sliced and a      *)
(* ranking fanned out, what a loop's claims rest on, and the submission a    *)
(* driver leaves. Only one machine moves, so a step of the whole is a step   *)
(* or a stutter of each.                                                     *)
EXTENDS MCPieces, DataLemmas

\* From the link on, an arm knows that a bank is published; from the read on, it
\* holds that bank, and so does every copy it has marked.
Adopted ==
    \A a \in Arms :
        /\ pc[a] \in {"mark", "read"} => shared # None
        /\ pc[a] \in {"copy", "copymark", "loop"} => bank[a] = shared
        /\ pc[a] = "copymark" => own[a] = bank[a]
        /\ ownDone[a] => own[a] = shared /\ shared # None

SeedInv == TypeOK /\ Adopted

\* Before any arm has started, nothing is published and nothing adopted.
LEMMA SeedInvInitial == Init => SeedInv
<1>1. ASSUME Init PROVE TypeOK
  <2>1. 0 \in 0 .. MaxCrashes
    BY SeedBankAssumption
  <2>2. \A a \in Arms : pc[a] \in Places /\ pc[a] = "start"
    BY <1>1 DEF Init, Places
  <2>3. pc \in [Arms -> Places]
    BY <1>1 DEF Init, Places
  <2> QED
    BY <1>1, <2>1, <2>2, <2>3 DEF Init, TypeOK
<1>2. Init => Adopted
  BY DEF Init, Adopted
<1> QED
  BY <1>1, <1>2 DEF SeedInv

\* Each step of an arm, and each kill, keeps what the others have adopted: once
\* linked, the shared bank never changes.
LEMMA SeedInvInductive == SeedInv /\ [Next]_vars => SeedInv'
<1>1. SUFFICES ASSUME SeedInv, [Next]_vars PROVE SeedInv'
  OBVIOUS
<1> USE SeedBankAssumption DEF SeedInv, TypeOK, Adopted, Places, Goto, files
<1>2. CASE UNCHANGED vars
  BY <1>1, <1>2 DEF vars
<1>3. ASSUME NEW a \in Arms, Step(a) PROVE SeedInv'
  <2>1. CASE Resume(a)
    BY <1>1, <2>1 DEF Resume
  <2>2. CASE Begin(a)
    BY <1>1, <2>2 DEF Begin
  <2>3. CASE Reuse(a)
    BY <1>1, <2>3 DEF Reuse
  <2>4. CASE Decompose(a)
    BY <1>1, <2>4 DEF Decompose
  <2>5. CASE Grow(a)
    BY <1>1, <2>5 DEF Grow
  <2>6. CASE Link(a)
    BY <1>1, <2>6 DEF Link
  <2>7. CASE Mark(a)
    BY <1>1, <2>7 DEF Mark
  <2>8. CASE Read(a)
    BY <1>1, <2>8 DEF Read
  <2>9. CASE Copy(a)
    BY <1>1, <2>9 DEF Copy
  <2>10. CASE CopyMark(a)
    BY <1>1, <2>10 DEF CopyMark
  <2> QED
    BY <1>3, <2>1, <2>2, <2>3, <2>4, <2>5, <2>6, <2>7, <2>8, <2>9, <2>10 DEF Step
<1>4. ASSUME NEW a \in Arms, Crash(a) PROVE SeedInv'
  BY <1>1, <1>4 DEF Crash
<1> QED
  BY <1>1, <1>2, <1>3, <1>4 DEF Next

\* Every arm that has finished round 0, however it was killed and restarted,
\* works from the bank the shared artifact holds (_round_zero with
\* publish_seed_bank), so any two of them agree.
THEOREM SeedBankShared == Spec => []OneSeed
<1>1. SeedInv => OneSeed
  BY DEF SeedInv, Adopted, OneSeed
<1> QED
  BY <1>1, SeedInvInitial, SeedInvInductive, PTL DEF Spec
-----------------------------------------------------------------------------
(* The machines beside each other.                                            *)

allVars ==
    <<machine, vars, queueVars, laneVars, fanVars, stackVars, rankVars, topicVars, loopVars, submitVars>>

-----------------------------------------------------------------------------
(* RetrievalLane.                                                             *)

LaneInv == Lane!TypeOK /\ Lane!RightLane

LEMMA LaneInitial == MCInit => LaneInv
<1> SUFFICES ASSUME Lane!Init PROVE LaneInv
  BY DEF MCInit
<1> USE PiecesAssumption DEF Lane!Init, Lane!Services
<1>1. (CHOOSE l \in Lanes : TRUE) \in Lanes
  OBVIOUS
<1>2. Lane!TypeOK
  BY <1>1 DEF Lane!TypeOK
<1>3. Lane!RightLane
  BY DEF Lane!RightLane
<1> QED
  BY <1>2, <1>3 DEF LaneInv

\* Services write descriptors and replies, never the source or the fate of a
\* client's hits.
LEMMA LaneServiceStep ==
    ASSUME LaneInv, NEW s \in 1 .. S,
           \/ Lane!Launch(s) \/ Lane!BeatBegins(s) \/ Lane!BeatEnds(s) \/ Lane!Stop(s)
           \/ Lane!Kill(s) \/ Lane!Expire(s) \/ \E c \in Clients : Lane!Take(s, c)
    PROVE  LaneInv'
<1> USE PiecesAssumption DEF LaneInv, Lane!Services, Lane!TypeOK, Lane!clients, Lane!services,
       Lane!registry, Lane!queues
<1>1. Lane!RightLane'
  BY DEF Lane!RightLane, Lane!Launch, Lane!BeatBegins, Lane!BeatEnds, Lane!Stop, Lane!Kill, Lane!Expire, Lane!Take
<1>2. CASE Lane!Launch(s)
  <2>1. PICK l \in Lanes : lane' = [lane EXCEPT ![s] = l] /\ desc' = [desc EXCEPT ![s] = l]
    BY <1>2 DEF Lane!Launch
  <2>2. launches[s] \in 0 .. LaneStarts /\ launches[s] + 1 \in 0 .. LaneStarts
    BY <1>2 DEF Lane!Launch
  <2>3. launches' \in [1 .. S -> 0 .. LaneStarts]
    BY <1>2, <2>2 DEF Lane!Launch
  <2> QED
    BY <1>1, <1>2, <2>1, <2>3 DEF Lane!Launch
<1>3. CASE Lane!BeatBegins(s)
  <2>1. /\ beat' \in [1 .. S -> BOOLEAN]
        /\ UNCHANGED <<at, place, fate, source, up, lane, launches, desc, fresh, inbox, taken, outbox>>
    BY <1>3 DEF Lane!BeatBegins
  <2> QED
    BY <1>1, <2>1
<1>4. CASE Lane!BeatEnds(s)
  BY <1>1, <1>4 DEF Lane!BeatEnds
<1>5. CASE Lane!Stop(s)
  BY <1>1, <1>5 DEF Lane!Stop
<1>6. CASE Lane!Kill(s)
  BY <1>1, <1>6 DEF Lane!Kill
<1>7. CASE Lane!Expire(s)
  BY <1>1, <1>7 DEF Lane!Expire
<1>8. ASSUME NEW c \in Clients, Lane!Take(s, c) PROVE LaneInv'
  <2>1. /\ inbox' \in [1 .. S -> SUBSET Clients] /\ taken' \in [1 .. S -> SUBSET Clients]
        /\ UNCHANGED <<at, place, fate, source, up, lane, beat, launches, desc, fresh, outbox>>
    BY <1>8 DEF Lane!Take
  <2> QED
    BY <1>1, <2>1
<1> QED
  BY <1>2, <1>3, <1>4, <1>5, <1>6, <1>7, <1>8

\* A reply carries the lane of the service that made it.
LEMMA LaneAnswerStep ==
    ASSUME LaneInv, NEW s \in 1 .. S, NEW c \in Clients, Lane!Answer(s, c)
    PROVE  LaneInv'
<1> USE PiecesAssumption DEF LaneInv, Lane!Services, Lane!Answer, Lane!clients, Lane!services,
       Lane!registry, Lane!queues
<1>1. PICK ok \in BOOLEAN : outbox' = [outbox EXCEPT ![s][c] = [of |-> lane[s], ok |-> ok]]
  OBVIOUS
<1>2. outbox' \in [1 .. S -> [Clients -> Lane!Reply \cup {absent}]]
  <2>1. [of |-> lane[s], ok |-> ok] \in Lane!Reply
    BY DEF Lane!TypeOK, Lane!Reply
  <2> QED
    BY <1>1, <2>1 DEF Lane!TypeOK
<1>3. Lane!RightLane'
  BY DEF Lane!RightLane
<1> QED
  BY <1>2, <1>3 DEF Lane!TypeOK

\* A client takes hits from a reply only when its lane is the wanted one.
LEMMA LaneClientStep ==
    ASSUME LaneInv, NEW c \in Clients, Lane!ClientStep(c) \/ Lane!Timeout(c)
    PROVE  LaneInv'
<1> USE PiecesAssumption DEF LaneInv, Lane!Services, Lane!TypeOK, Lane!RightLane, Lane!End,
       Lane!clients, Lane!services, Lane!registry, Lane!queues
<1>1. CASE Lane!Discover(c)
  <2>1. \/ Lane!End(c, "stale") /\ at' = at
        \/ \E t \in 1 .. S : /\ at' = [at EXCEPT ![c] = t]
                             /\ place' = [place EXCEPT ![c] = "drop"] /\ fate' = fate
    BY <1>1 DEF Lane!Discover
  <2>2. at' \in [Clients -> 1 .. S]
    BY <2>1
  <2>3. place' \in [Clients -> {"start", "drop", "look", "beat", "end"}]
    BY <2>1
  <2>4. fate' \in [Clients -> {"none", "hits", "error", "stale", "timeout"}]
    BY <2>1
  <2>5. \A d \in Clients : fate'[d] = "hits" => fate[d] = "hits"
    BY <2>1
  <2>6. Lane!TypeOK'
    BY <1>1, <2>2, <2>3, <2>4 DEF Lane!Discover
  <2> QED
    BY <1>1, <2>5, <2>6 DEF Lane!Discover
<1>2. CASE Lane!Drop(c)
  BY <1>2 DEF Lane!Drop
<1>3. CASE Lane!Collect(c)
  <2>1. at[c] \in 1 .. S /\ outbox[at[c]] \in [Clients -> Lane!Reply \cup {absent}]
    OBVIOUS
  <2>2. outbox[at[c]][c] \in Lane!Reply
    BY <1>3, <2>1 DEF Lane!Collect
  <2>3. outbox[at[c]][c].of \in Lanes
    BY <2>2 DEF Lane!Reply
  <2>4. outbox' \in [1 .. S -> [Clients -> Lane!Reply \cup {absent}]]
    BY <1>3, <2>1 DEF Lane!Collect
  <2>5. source' \in [Clients -> Lanes]
    BY <1>3, <2>3 DEF Lane!Collect
  <2>6. Lane!TypeOK'
    BY <1>3, <2>4, <2>5 DEF Lane!Collect
  <2>7. Lane!RightLane'
    BY <1>3 DEF Lane!Collect
  <2> QED
    BY <2>6, <2>7
<1>4. CASE Lane!NoReply(c)
  BY <1>4 DEF Lane!NoReply
<1>5. CASE Lane!StillBeating(c)
  BY <1>5 DEF Lane!StillBeating
<1>6. CASE Lane!Timeout(c)
  BY <1>6 DEF Lane!Timeout
<1> QED
  BY <1>1, <1>2, <1>3, <1>4, <1>5, <1>6 DEF Lane!ClientStep

LEMMA LaneInductive == LaneInv /\ [Lane!Next]_laneVars => LaneInv'
<1> SUFFICES ASSUME LaneInv, [Lane!Next]_laneVars PROVE LaneInv'
  OBVIOUS
<1>1. CASE UNCHANGED laneVars
  BY <1>1 DEF LaneInv, laneVars, Lane!TypeOK, Lane!RightLane
<1>2. CASE Lane!Next
  BY <1>2, LaneServiceStep, LaneAnswerStep, LaneClientStep DEF Lane!Next, Lane!Services
<1> QED
  BY <1>1, <1>2

\* Whatever service answers and over whichever index it came up, the hits of a
\* client come from the lane its run declares (ServiceBackend, _hits_of).
THEOREM HitsFromTheRightLane == MCSpec => []RightLane
<1>1. [MCNext]_allVars => [Lane!Next]_laneVars
  BY DEF MCNext, BankRuns, QueueRuns, LaneRuns, FanRuns, StackRuns, RankRuns, TopicRuns, LoopRuns,
         SubmitRuns, allVars, laneVars
<1>2. LaneInv => RightLane
  BY DEF LaneInv, RightLane
<1> QED
  BY LaneInitial, LaneInductive, <1>1, <1>2, PTL DEF MCSpec, allVars

-----------------------------------------------------------------------------
(* RagLoop: what a loop returns, when it may abstain, how often it generates. *)

\* Every claim has a first claim of its value.
LoopLed ==
    \A i \in DOMAIN committed :
        \E j \in Loop!Leads(committed) : committed[j].value = committed[i].value

\* The menu of a turn is the phase menu of a loop within its turns, or the one
\* action of a loop that has spent a budget.
MenuLegal ==
    /\ lpc \in {"turn", "retry"} => iters <= MaxIters
    /\ lpc = "generate" =>
        \/ /\ iters <= MaxIters
           /\ "submit_claim" \in menu
           /\ "search" \in menu => searches < MaxSearches
           /\ "abstain" \in menu => Loop!EffortFloor
        \/ Loop!BudgetExhausted /\ menu = Loop!ForcedMenu

\* Generations of n full turns.
Turns(n) == n * (1 + MaxRetries)

\* A turn that is over has used at most its re-decodes; the current one those
\* counted so far.
WithinBudget ==
    /\ lpc = "turn" => calls <= Turns(iters) /\ retries = 0
    /\ lpc = "generate" => iters > 0 /\ calls <= Turns(iters - 1) /\ retries = 0
    /\ lpc = "retry" => iters > 0 /\ calls <= Turns(iters - 1) + retries
    /\ calls <= Loop!CallLimit

\* Claims cite what was shown; the record is written once, at the end.
LoopRecorded ==
    /\ \A i \in DOMAIN committed : committed[i].passage \in shown
    /\ lpc \notin Loop!Ended => status = "unanswered" /\ claimed = {}
    /\ lpc = "done" =>
        /\ claimed = Loop!FanIn(committed)
        /\ status = "answered" => committed # <<>>
    /\ lpc = "raised" => status = "error" /\ claimed = {}

LoopInv == Loop!TypeOK /\ LoopLed /\ MenuLegal /\ WithinBudget /\ LoopRecorded /\ Loop!AbstentionEarned

(* Arithmetic of the generations.                                             *)

\* One more turn adds one generation and its re-decodes.
LEMMA TurnsStep ==
    ASSUME NEW n \in Nat
    PROVE  Turns(n + 1) = Turns(n) + 1 + MaxRetries /\ Turns(n) \in Nat
BY BudgetAssumption DEF Turns

\* More turns never mean fewer generations.
LEMMA TurnsMonotone ==
    ASSUME NEW m \in Nat, NEW n \in Nat, m <= n
    PROVE  Turns(m) <= Turns(n)
<1>1. n * (1 + MaxRetries) = m * (1 + MaxRetries) + (n - m) * (1 + MaxRetries)
  BY BudgetAssumption
<1>2. (n - m) * (1 + MaxRetries) \in Nat /\ m * (1 + MaxRetries) \in Nat
  BY BudgetAssumption
<1> QED
  BY <1>1, <1>2 DEF Turns

\* A generation of a legal turn stays within the limit, and within a full turn.
LEMMA CallBounded ==
    ASSUME LoopInv, Loop!Called, lpc \in {"generate", "retry"}
    PROVE  /\ calls' = calls + 1
           /\ calls' <= Loop!CallLimit
           /\ lpc = "generate" => calls' <= Turns(iters - 1) + 1
           /\ lpc = "retry" => calls' <= Turns(iters - 1) + retries + 1
           /\ calls' <= Turns(iters)
<1> USE BudgetAssumption DEF LoopInv, Loop!TypeOK, WithinBudget, Loop!Ended
<1> iters \in Nat \ {0} /\ iters - 1 \in Nat /\ iters - 1 <= MaxIters
  OBVIOUS
<1>1. Turns(iters) = Turns(iters - 1) + 1 + MaxRetries
  BY TurnsStep
<1>2. Turns(iters - 1) <= Turns(MaxIters) /\ Loop!CallLimit = Turns(MaxIters) + 1
  BY TurnsMonotone DEF Loop!CallLimit, Turns
<1>3. Turns(iters) \in Nat /\ Turns(iters - 1) \in Nat /\ Turns(MaxIters) \in Nat
  BY TurnsStep
<1>4. calls' = calls + 1
  BY <1>2, <1>3 DEF Loop!Called
<1>5. CASE lpc = "generate"
  BY <1>1, <1>2, <1>3, <1>4, <1>5
<1>6. CASE lpc = "retry"
  <2>1. Turns(iters) <= Turns(MaxIters)
    BY <1>6, TurnsMonotone DEF MenuLegal
  <2> QED
    BY <1>1, <1>2, <1>3, <1>4, <1>6, <2>1
<1> QED
  BY <1>5, <1>6

(* Commits and the fan-in.                                                    *)

\* A commit adds one claim at the end and touches no other.
LEMMA Appended ==
    ASSUME NEW s \in Seq(Loop!Claims), NEW c \in Loop!Claims
    PROVE  /\ Append(s, c) \in Seq(Loop!Claims)
           /\ Append(s, c) # <<>>
           /\ DOMAIN Append(s, c) = DOMAIN s \cup {Len(s) + 1}
           /\ Len(s) + 1 \notin DOMAIN s
           /\ \A i \in DOMAIN s : Append(s, c)[i] = s[i]
           /\ Append(s, c)[Len(s) + 1] = c
OBVIOUS

\* A commit keeps a first claim for every value: the new claim is one, or has one.
LEMMA CommitLed ==
    ASSUME NEW c \in Loop!Claims, committed \in Seq(Loop!Claims), LoopLed,
           committed' = Append(committed, c)
    PROVE  LoopLed'
<1> DEFINE n == Len(committed) + 1
<1>1. /\ DOMAIN committed' = DOMAIN committed \cup {n} /\ n \notin DOMAIN committed
      /\ \A i \in DOMAIN committed : committed'[i] = committed[i]
      /\ committed'[n] = c
      /\ committed' \in Seq(Loop!Claims)
  BY Appended
<1>2. \A i \in DOMAIN committed : 1 .. i - 1 \subseteq DOMAIN committed
  OBVIOUS
<1>3. 1 .. n - 1 = DOMAIN committed
  OBVIOUS
<1> HIDE DEF n
<1>4. Loop!Leads(committed) \subseteq Loop!Leads(committed')
  BY <1>1, <1>2 DEF Loop!Leads
<1>5. ASSUME NEW i \in DOMAIN committed
      PROVE  \E j \in Loop!Leads(committed') : committed'[j].value = committed'[i].value
  <2>1. PICK j \in Loop!Leads(committed) : committed[j].value = committed[i].value
    BY DEF LoopLed
  <2>2. j \in DOMAIN committed /\ j \in Loop!Leads(committed')
    BY <1>4, <2>1 DEF Loop!Leads
  <2> QED
    BY <1>1, <2>1, <2>2
<1>6. \E j \in Loop!Leads(committed') : committed'[j].value = committed'[n].value
  <2>1. CASE \E i \in DOMAIN committed : committed[i].value = c.value
    <3>1. PICK i \in DOMAIN committed : committed[i].value = c.value
      BY <2>1
    <3>2. committed'[i].value = committed'[n].value
      BY <1>1, <3>1
    <3>3. PICK j \in Loop!Leads(committed') : committed'[j].value = committed'[i].value
      BY <1>5, <3>1, Zenon
    <3> QED
      BY <3>2, <3>3, Zenon
  <2>2. CASE \A i \in DOMAIN committed : committed[i].value # c.value
    <3>1. n \in Loop!Leads(committed')
      BY <1>1, <1>3, <2>2 DEF Loop!Leads
    <3> QED
      BY <3>1
  <2> QED
    BY <2>1, <2>2
<1> QED
  BY <1>1, <1>5, <1>6 DEF LoopLed

\* fan_in gives answers of the right type, each resting on cited passages.
LEMMA FanInRests ==
    ASSUME committed \in Seq(Loop!Claims), NEW a \in Loop!FanIn(committed)
    PROVE  /\ a \in [value : Values, lead : Nat, support : SUBSET Passages]
           /\ a.support # {}
           /\ \A p \in a.support : \E i \in DOMAIN committed : committed[i].passage = p
<1>1. PICK i \in Loop!Leads(committed) :
        a = [value |-> committed[i].value, lead |-> i, support |-> Loop!Support(committed, i)]
  BY DEF Loop!FanIn
<1>2. i \in DOMAIN committed /\ i \in Nat /\ \A m \in DOMAIN committed : committed[m] \in Loop!Claims
  BY <1>1 DEF Loop!Leads
<1>3. committed[i].passage \in a.support
  BY <1>1, <1>2 DEF Loop!Support
<1>4. \A p \in a.support : \E m \in DOMAIN committed : committed[m].passage = p
  BY <1>1 DEF Loop!Support
<1>5. a.support \subseteq Passages /\ committed[i].value \in Values
  BY <1>2, <1>4 DEF Loop!Claims
<1> QED
  BY <1>1, <1>2, <1>3, <1>4, <1>5

\* fan_in loses no committed claim and gives one answer per value.
LEMMA FanInCovers ==
    ASSUME committed \in Seq(Loop!Claims), LoopLed
    PROVE  /\ \A i \in DOMAIN committed : \E a \in Loop!FanIn(committed) :
                a.value = committed[i].value /\ committed[i].passage \in a.support
           /\ \A a, b \in Loop!FanIn(committed) : a.value = b.value => a = b
<1>1. ASSUME NEW i \in DOMAIN committed
      PROVE  \E a \in Loop!FanIn(committed) :
                a.value = committed[i].value /\ committed[i].passage \in a.support
  <2>1. PICK j \in Loop!Leads(committed) : committed[j].value = committed[i].value
    BY DEF LoopLed
  <2>2. committed[i].passage \in Loop!Support(committed, j)
    BY <2>1 DEF Loop!Support
  <2> DEFINE a == [value |-> committed[j].value, lead |-> j, support |-> Loop!Support(committed, j)]
  <2>3. a \in Loop!FanIn(committed)
    BY DEF Loop!FanIn
  <2>4. a.value = committed[i].value /\ committed[i].passage \in a.support
    BY <2>1, <2>2
  <2> QED
    BY <2>3, <2>4
<1>2. ASSUME NEW a \in Loop!FanIn(committed), NEW b \in Loop!FanIn(committed), a.value = b.value
      PROVE  a = b
  <2>1. PICK i \in Loop!Leads(committed) :
          a = [value |-> committed[i].value, lead |-> i, support |-> Loop!Support(committed, i)]
    BY DEF Loop!FanIn
  <2>2. PICK j \in Loop!Leads(committed) :
          b = [value |-> committed[j].value, lead |-> j, support |-> Loop!Support(committed, j)]
    BY DEF Loop!FanIn
  <2>3. i \in Nat \ {0} /\ j \in Nat \ {0}
    BY DEF Loop!Leads
  <2>4. committed[i].value = committed[j].value
    BY <1>2, <2>1, <2>2
  <2>5. i = j
    BY <2>3, <2>4 DEF Loop!Leads
  <2> QED
    BY <2>1, <2>2, <2>5
<1> QED
  BY <1>1, <1>2

(* The invariant is inductive.                                                *)

\* A loop starts with nothing gathered, nothing committed and its budgets unspent.
LEMMA LoopInvInitial == Loop!Init => LoopInv
<1> SUFFICES ASSUME Loop!Init PROVE LoopInv
  OBVIOUS
<1> USE BudgetAssumption DEF Loop!Init
<1>1. Loop!TypeOK
  <2>1. committed \in Seq(Loop!Claims)
    OBVIOUS
  <2>2. claimed \subseteq [value : Values, lead : Nat, support : SUBSET Passages]
    BY Zenon
  <2>3. menu \subseteq Loop!Actions /\ retrieved \subseteq Passages /\ shown \subseteq Passages
    BY Zenon
  <2>4. /\ iters \in 0 .. MaxIters + 1 /\ searches \in 0 .. MaxSearches /\ calls \in Nat
        /\ retries \in 0 .. MaxRetries /\ tokens \in 0 .. TokenBudget
    OBVIOUS
  <2> QED
    BY <2>1, <2>2, <2>3, <2>4, Zenon DEF Loop!TypeOK
<1>2. LoopLed /\ MenuLegal /\ LoopRecorded /\ Loop!AbstentionEarned
  BY DEF LoopLed, MenuLegal, LoopRecorded, Loop!AbstentionEarned, Loop!Ended
<1>3. WithinBudget
  <2>1. Turns(0) \in Nat /\ Loop!CallLimit \in Nat
    BY TurnsStep DEF Loop!CallLimit, Turns
  <2> QED
    BY <2>1 DEF WithinBudget
<1> QED
  BY <1>1, <1>2, <1>3 DEF LoopInv

\* The head of a turn gives it a legal menu; a spent budget stays spent.
LEMMA TurnKeeps ==
    ASSUME LoopInv, Loop!Turn
    PROVE  LoopInv'
<1> USE BudgetAssumption DEF LoopInv, Loop!Turn, Loop!trail, Loop!result, Loop!Ended
<1>1. Loop!TypeOK'
  BY DEF Loop!TypeOK, MenuLegal, Loop!PhaseMenu, Loop!ForcedMenu, Loop!Actions
<1>2. LoopLed'
  BY DEF LoopLed, Loop!Leads
<1>3. MenuLegal'
  <2>1. CASE Loop!BudgetExhausted
    <3>1. Loop!BudgetExhausted'
      BY <2>1 DEF Loop!BudgetExhausted, Loop!TypeOK
    <3> QED
      BY <2>1, <3>1 DEF Loop!ForcedMenu, MenuLegal
  <2>2. CASE ~Loop!BudgetExhausted
    <3>1. Loop!EffortFloor' = Loop!EffortFloor
      BY DEF Loop!EffortFloor
    <3>2. iters' <= MaxIters
      BY <2>2 DEF Loop!BudgetExhausted, Loop!TypeOK
    <3> QED
      BY <2>2, <3>1, <3>2 DEF Loop!PhaseMenu, MenuLegal
  <2> QED
    BY <2>1, <2>2
<1>4. WithinBudget'
  <2>1. iters' - 1 = iters /\ iters' > 0
    BY DEF Loop!TypeOK
  <2> QED
    BY <2>1 DEF WithinBudget, Loop!CallLimit, Turns
<1>5. LoopRecorded' /\ Loop!AbstentionEarned'
  BY DEF LoopRecorded, Loop!AbstentionEarned, Loop!FanIn, Loop!Leads, Loop!Support
<1> QED
  BY <1>1, <1>2, <1>3, <1>4, <1>5

\* Only an unforced turn leaves the loop running after its generation.
LEMMA Unforced ==
    ASSUME LoopInv, lpc = "generate",
           \/ "search" \in menu
           \/ "submit_claim" \in menu
           \/ "submit_answer" \in menu /\ committed = <<>>
    PROVE  /\ iters <= MaxIters
           /\ "search" \in menu => searches < MaxSearches
BY DEF LoopInv, MenuLegal, Loop!ForcedMenu

\* A search counts against its cap and only adds to what was shown.
LEMMA SearchKeeps ==
    ASSUME LoopInv, Loop!Search
    PROVE  LoopInv'
<1> USE BudgetAssumption DEF LoopInv, Loop!Search, Loop!Generated, Loop!result, Loop!Ended
<1>1. iters <= MaxIters /\ searches < MaxSearches
  BY Unforced
<1>2. calls' = calls + 1 /\ calls' <= Loop!CallLimit /\ calls' <= Turns(iters)
  BY CallBounded
<1>3. Loop!TypeOK'
  BY <1>1, <1>2 DEF Loop!TypeOK
<1>4. LoopLed'
  BY DEF LoopLed, Loop!Leads
<1>5. MenuLegal' /\ WithinBudget'
  BY <1>1, <1>2 DEF MenuLegal, WithinBudget, Loop!CallLimit, Turns
<1>6. LoopRecorded' /\ Loop!AbstentionEarned'
  BY DEF LoopRecorded, Loop!AbstentionEarned
<1> QED
  BY <1>3, <1>4, <1>5, <1>6

\* A claim is generated within a legal turn.
LEMMA ClaimingBounded ==
    ASSUME LoopInv, Loop!Claiming
    PROVE  /\ lpc \in {"generate", "retry"}
           /\ iters <= MaxIters
           /\ calls' = calls + 1
           /\ calls' <= Loop!CallLimit
           /\ calls' <= Turns(iters)
           /\ iters > 0
           /\ calls' <= Turns(iters - 1) + retries + 1
<1>1. Loop!Called /\ lpc \in {"generate", "retry"} /\ iters <= MaxIters
  BY Unforced DEF Loop!Claiming, Loop!Generated, LoopInv, MenuLegal
<1>2. retries \in Nat /\ (lpc = "generate" => retries = 0) /\ iters > 0
  BY <1>1, BudgetAssumption DEF LoopInv, Loop!TypeOK, WithinBudget
<1>3. iters - 1 \in Nat
  BY <1>2 DEF LoopInv, Loop!TypeOK
<1>4. Turns(iters - 1) \in Nat
  BY <1>3, TurnsStep
<1> QED
  BY <1>1, <1>2, <1>4, CallBounded

\* A commit adds a claim on a passage that was shown.
LEMMA CommitKeeps ==
    ASSUME LoopInv, NEW p \in Passages, NEW v \in Values, Loop!Commit(p, v)
    PROVE  LoopInv'
<1> USE BudgetAssumption DEF LoopInv, Loop!Commit, Loop!counters, Loop!trail, Loop!result, Loop!Ended
<1> DEFINE c == [value |-> v, passage |-> p]
<1>1. c \in Loop!Claims /\ committed \in Seq(Loop!Claims) /\ committed' = Append(committed, c)
  BY DEF Loop!Claims, Loop!TypeOK
<1>2. /\ lpc \in {"generate", "retry"} /\ iters <= MaxIters
      /\ calls' = calls + 1 /\ calls' <= Loop!CallLimit /\ calls' <= Turns(iters)
  BY ClaimingBounded
<1>3. committed' \in Seq(Loop!Claims)
  BY <1>1, Appended
<1>4. Loop!TypeOK'
  BY <1>2, <1>3 DEF Loop!TypeOK
<1>5. LoopLed'
  BY <1>1, CommitLed
<1>6. MenuLegal' /\ WithinBudget'
  BY <1>2 DEF MenuLegal, WithinBudget, Loop!CallLimit, Turns
<1>7. LoopRecorded' /\ Loop!AbstentionEarned'
  <2>1. \A i \in DOMAIN committed' : committed'[i].passage \in shown
    <3>1. \A i \in DOMAIN committed' :
            (i \in DOMAIN committed /\ committed'[i] = committed[i]) \/ committed'[i] = c
      BY <1>1, Appended
    <3> QED
      BY <3>1 DEF LoopRecorded
  <2> QED
    BY <1>2, <2>1 DEF LoopRecorded, Loop!AbstentionEarned
<1> QED
  BY <1>4, <1>5, <1>6, <1>7

\* A rejected claim is decoded again while re-decodes are left, else its turn ends.
LEMMA RejectKeeps ==
    ASSUME LoopInv, Loop!Reject
    PROVE  LoopInv'
<1> USE BudgetAssumption DEF LoopInv, Loop!Reject, Loop!counters, Loop!trail, Loop!result, Loop!Ended
<1>1. /\ lpc \in {"generate", "retry"} /\ iters <= MaxIters /\ iters > 0
      /\ calls' = calls + 1 /\ calls' <= Loop!CallLimit /\ calls' <= Turns(iters)
      /\ calls' <= Turns(iters - 1) + retries + 1
  BY ClaimingBounded
<1>2. Loop!TypeOK'
  BY <1>1 DEF Loop!TypeOK
<1>3. LoopLed'
  BY DEF LoopLed, Loop!Leads
<1>4. Turns(iters - 1) \in Nat
  <2>1. iters - 1 \in Nat
    BY <1>1 DEF Loop!TypeOK
  <2> QED
    BY <2>1, TurnsStep
<1>5. MenuLegal' /\ WithinBudget'
  <2>1. retries \in Nat
    BY DEF Loop!TypeOK
  <2> QED
    BY <1>1, <1>4, <2>1 DEF MenuLegal, WithinBudget, Loop!CallLimit, Turns
<1>6. LoopRecorded' /\ Loop!AbstentionEarned'
  BY <1>1 DEF LoopRecorded, Loop!AbstentionEarned
<1> QED
  BY <1>2, <1>3, <1>5, <1>6

\* A failed attempt happens in a legal turn and ends it.
LEMMA AnswerFailsKeeps ==
    ASSUME LoopInv, Loop!AnswerFails
    PROVE  LoopInv'
<1> USE BudgetAssumption DEF LoopInv, Loop!AnswerFails, Loop!Generated, Loop!trail, Loop!result, Loop!Ended
<1>1. iters <= MaxIters
  BY Unforced
<1>2. calls' = calls + 1 /\ calls' <= Loop!CallLimit /\ calls' <= Turns(iters)
  BY CallBounded
<1>3. Loop!TypeOK'
  BY <1>2 DEF Loop!TypeOK
<1>4. LoopLed'
  BY DEF LoopLed, Loop!Leads
<1>5. MenuLegal' /\ WithinBudget'
  BY <1>1, <1>2 DEF MenuLegal, WithinBudget, Loop!CallLimit, Turns
<1>6. LoopRecorded' /\ Loop!AbstentionEarned'
  BY DEF LoopRecorded, Loop!AbstentionEarned
<1> QED
  BY <1>3, <1>4, <1>5, <1>6

\* Whatever closes the loop writes the fan-in of what was committed.
LEMMA CloseKeeps ==
    ASSUME LoopInv, Loop!Called, lpc \in {"generate", "retry"},
           NEW outcome \in {"answered", "unanswered"},
           NEW by \in {"model", "budget", "timeout", "malformed"},
           Loop!Close(outcome, by),
           outcome = "answered" => committed # <<>>,
           outcome = "unanswered" /\ by \in {"model", "budget"} =>
               Loop!EffortFloor \/ (Loop!BudgetExhausted /\ committed = <<>>)
    PROVE  LoopInv'
<1> USE BudgetAssumption DEF LoopInv, Loop!Close, Loop!counters, Loop!trail, Loop!Ended
<1>1. calls' = calls + 1 /\ calls' <= Loop!CallLimit
  BY CallBounded
<1>2. Loop!TypeOK'
  <2>1. Loop!FanIn(committed) \subseteq [value : Values, lead : Nat, support : SUBSET Passages]
    BY FanInRests DEF Loop!TypeOK
  <2> QED
    BY <1>1, <2>1 DEF Loop!TypeOK
<1>3. LoopLed'
  BY DEF LoopLed, Loop!Leads
<1>4. MenuLegal' /\ WithinBudget'
  BY <1>1 DEF MenuLegal, WithinBudget, Loop!CallLimit
<1>5. LoopRecorded'
  BY DEF LoopRecorded, Loop!FanIn, Loop!Leads, Loop!Support
<1>6. Loop!AbstentionEarned'
  BY DEF Loop!AbstentionEarned, Loop!EffortFloor, Loop!BudgetExhausted
<1> QED
  BY <1>2, <1>3, <1>4, <1>5, <1>6

\* The three ways to a record: an answer, an abstention, a fault.
LEMMA ClosingKeeps ==
    ASSUME LoopInv, Loop!SubmitAnswer \/ Loop!Abstain \/ Loop!Fault
    PROVE  LoopInv'
<1>1. CASE Loop!SubmitAnswer
  BY <1>1, CloseKeeps DEF Loop!SubmitAnswer, Loop!Generated
<1>2. CASE Loop!Abstain
  <2>1. "abstain" \in menu => Loop!EffortFloor \/ (Loop!BudgetExhausted /\ committed = <<>>)
    BY <1>2 DEF LoopInv, MenuLegal, Loop!Abstain, Loop!Generated, Loop!ForcedMenu
  <2> QED
    BY <1>2, <2>1, CloseKeeps DEF Loop!Abstain, Loop!Generated
<1>3. CASE Loop!Fault
  BY <1>3, CloseKeeps DEF Loop!Fault
<1> QED
  BY <1>1, <1>2, <1>3

\* An escaped exception leaves an empty record.
LEMMA EscapeKeeps ==
    ASSUME LoopInv, Loop!Escape
    PROVE  LoopInv'
<1> USE BudgetAssumption DEF LoopInv, Loop!Escape, Loop!counters, Loop!trail, Loop!Ended
<1>1. calls' = calls + 1 /\ calls' <= Loop!CallLimit
  BY CallBounded
<1>2. Loop!TypeOK'
  BY <1>1 DEF Loop!TypeOK
<1>3. LoopLed'
  BY DEF LoopLed, Loop!Leads
<1>4. MenuLegal' /\ WithinBudget'
  BY <1>1 DEF MenuLegal, WithinBudget, Loop!CallLimit
<1>5. LoopRecorded' /\ Loop!AbstentionEarned'
  BY DEF LoopRecorded, Loop!AbstentionEarned
<1> QED
  BY <1>2, <1>3, <1>4, <1>5

\* Every step of the loop keeps the invariant.
LEMMA LoopInvInductive == LoopInv /\ [Loop!Next]_(Loop!vars) => LoopInv'
<1> SUFFICES ASSUME LoopInv, [Loop!Next]_(Loop!vars) PROVE LoopInv'
  OBVIOUS
<1>1. CASE Loop!Turn
  BY <1>1, TurnKeeps
<1>2. CASE Loop!Search
  BY <1>2, SearchKeeps
<1>3. CASE \E p \in Passages, v \in Values : Loop!Commit(p, v)
  BY <1>3, CommitKeeps
<1>4. CASE Loop!Reject
  BY <1>4, RejectKeeps
<1>5. CASE Loop!SubmitAnswer \/ Loop!Abstain \/ Loop!Fault
  BY <1>5, ClosingKeeps
<1>6. CASE Loop!AnswerFails
  BY <1>6, AnswerFailsKeeps
<1>7. CASE Loop!Escape
  BY <1>7, EscapeKeeps
<1>8. CASE UNCHANGED Loop!vars
  <2> USE <1>8 DEF Loop!vars, Loop!counters, Loop!trail, Loop!result, LoopInv
  <2>1. Loop!TypeOK'
    BY DEF Loop!TypeOK
  <2>2. LoopLed'
    BY DEF LoopLed, Loop!Leads
  <2>3. MenuLegal'
    BY DEF MenuLegal, Loop!ForcedMenu, Loop!BudgetExhausted, Loop!EffortFloor
  <2>4. WithinBudget'
    BY DEF WithinBudget, Turns, Loop!CallLimit
  <2>5. LoopRecorded'
    BY DEF LoopRecorded, Loop!FanIn, Loop!Leads, Loop!Support
  <2>6. Loop!AbstentionEarned'
    BY DEF Loop!AbstentionEarned, Loop!BudgetExhausted
  <2> QED
    BY <2>1, <2>2, <2>3, <2>4, <2>5, <2>6
<1> QED
  BY <1>1, <1>2, <1>3, <1>4, <1>5, <1>6, <1>7, <1>8 DEF Loop!Next

\* The invariant holds in every reachable state.
LEMMA LoopInvariant == MCSpec => []LoopInv
<1>1. [MCNext]_allVars => [Loop!Next]_(Loop!vars)
  BY DEF MCNext, BankRuns, QueueRuns, LaneRuns, FanRuns, StackRuns, RankRuns, TopicRuns, LoopRuns,
         SubmitRuns, allVars, loopVars, Loop!vars, Loop!counters, Loop!trail, Loop!result
<1>2. MCInit => Loop!Init
  BY DEF MCInit
<1> QED
  BY LoopInvInitial, LoopInvInductive, <1>1, <1>2, PTL DEF MCSpec, allVars

(* What a reader should know of a loop.                                       *)

\* Every variable stays in its range; the searches never exceed their cap, and one
\* forced turn at most comes after the last of MaxIters.
THEOREM LoopTypeCorrect == MCSpec => []Loop!TypeOK
<1>1. LoopInv => Loop!TypeOK
  BY DEF LoopInv
<1> QED
  BY <1>1, LoopInvariant, PTL

\* No claim and no answer rests on a passage the loop was not shown, and no loop is
\* answered without an answer.
THEOREM ClaimsGrounded == MCSpec => []Grounded
<1>1. LoopInv => Grounded
  <2> SUFFICES ASSUME LoopInv PROVE Grounded
    OBVIOUS
  <2> USE DEF LoopInv, LoopRecorded, Loop!Ended
  <2>1. committed \in Seq(Loop!Claims)
    BY DEF Loop!TypeOK
  <2>2. CASE lpc = "done"
    <3>1. \A a \in claimed : a.support # {} /\ a.support \subseteq shown
      BY <2>1, <2>2, FanInRests
    <3>2. status = "answered" => claimed # {}
      <4>1. committed # <<>> => 1 \in DOMAIN committed
        BY <2>1
      <4> QED
        BY <2>1, <2>2, <4>1, FanInCovers
    <3> QED
      BY <3>1, <3>2 DEF Grounded, Loop!Grounded
  <2>3. CASE lpc # "done"
    BY <2>3 DEF Grounded, Loop!Grounded, Loop!TypeOK
  <2> QED
    BY <2>2, <2>3
<1> QED
  BY <1>1, LoopInvariant, PTL

\* A loop that returns, by its choice, by a spent budget or after a fault, returns
\* every claim it committed, one answer for each value.
THEOREM LoopReturnsCommitted == MCSpec => []Loop!CommittedReturned
<1>1. LoopInv => Loop!CommittedReturned
  BY FanInCovers DEF LoopInv, Loop!TypeOK, LoopRecorded, Loop!CommittedReturned
<1> QED
  BY <1>1, LoopInvariant, PTL

\* A loop abstains only past the effort floor, or with its budget spent and nothing
\* committed.
THEOREM LoopEarnsAbstention == MCSpec => []Loop!AbstentionEarned
<1>1. LoopInv => Loop!AbstentionEarned
  BY DEF LoopInv
<1> QED
  BY <1>1, LoopInvariant, PTL

\* The generations of a loop are bounded by its budget, and the bound needs the one
\* more for the forced turn.
THEOREM LoopBoundsGenerations == MCSpec => []Loop!GenerationsBounded
<1>1. LoopInv => Loop!GenerationsBounded
  BY DEF LoopInv, WithinBudget, Loop!GenerationsBounded
<1> QED
  BY <1>1, LoopInvariant, PTL

-----------------------------------------------------------------------------
(* QueryStack: pipes between queries hold what the next one must not read.    *)

\* A worker has nothing to say, or one word, about the query under way.
Clear(w) == ask[w] = <<>> /\ answer[w] = <<>>
Owes(w)  == \/ ask[w] = <<query>> /\ answer[w] = <<>>
            \/ ask[w] = <<>> /\ \E err \in BOOLEAN : answer[w] = <<[of |-> query, err |-> err]>>

CellAsked(i) ==
    \/ qpc = "scatter" /\ i < k
    \/ qpc = "late"
    \/ qpc = "gather" /\ i >= k
InstanceAsked(i) ==
    \/ qpc = "send" /\ i < k
    \/ qpc = "score" /\ i >= k
    \/ qpc = "hear" /\ k = 2 /\ i = 1

CellsInStep ==
    \A i \in 1 .. W : IF CellAsked(i) THEN Owes(Stack!Cell(i)) ELSE Clear(Stack!Cell(i))
InstancesInStep ==
    \A i \in 1 .. M : IF InstanceAsked(i) THEN Owes(Stack!Instance(i)) ELSE Clear(Stack!Instance(i))

NoneLate == \A p \in 1 .. Q : answered[p] # "late"

\* The scatter of a query has yet to meet one of these.
Ahead == IF qpc = "scatter" THEN k .. W ELSE IF qpc \in {"late", "gather"} THEN {} ELSE 1 .. W

\* Unless a query has raised late, the cells are in step, or a dead one stops
\* every scatter to come; the instances are in step while they are used, or the
\* next use is refused.
Piped ==
    /\ NoneLate => CellsInStep \/ \E j \in Ahead : Stack!Cell(j) \notin alive
    /\ (qpc \in {"send", "score", "hear"} \/ (~poisoned /\ Stack!Instances \subseteq alive)) => InstancesInStep

Shaped ==
    /\ query \in 0 .. Q /\ k \in Nat \ {0}
    /\ DOMAIN answered = 1 .. Q /\ DOMAIN legs = 1 .. Q /\ DOMAIN scores = 1 .. Q
    /\ DOMAIN ask = Stack!Procs /\ DOMAIN answer = Stack!Procs

\* Queries come one after the other, and only the open one is written to.
Queued ==
    /\ qpc # "idle" => query # 0
    /\ \A p \in 1 .. Q : p > query => answered[p] = "new" /\ legs[p] = {}
    /\ qpc # "idle" => answered[query] = "open"

Gathered ==
    NoneLate =>
        /\ qpc \in {"scatter", "late"} => legs[query] = {}
        /\ qpc = "gather" => legs[query] = IF k = 1 THEN {} ELSE {query}
        /\ qpc \in {"usable", "send", "score", "pair", "hear", "reply"} => legs[query] = {query}

ScoredOwn == \A p \in 1 .. Q : scores[p] \subseteq {p}

StackInv == Shaped /\ Queued /\ Piped /\ Gathered /\ ScoredOwn /\ Stack!OwnLegs

\* A worker is one thing only, and has its pipes.
LEMMA ProcsApart ==
    /\ \A i \in 1 .. W : Stack!Cell(i) \in Stack!Procs
    /\ \A i \in 1 .. M : Stack!Instance(i) \in Stack!Procs
    /\ \A i \in 1 .. W, j \in 1 .. M : Stack!Cell(i) # Stack!Instance(j)
    /\ \A i, j \in 1 .. W : Stack!Cell(i) = Stack!Cell(j) => i = j
    /\ \A i, j \in 1 .. M : Stack!Instance(i) = Stack!Instance(j) => i = j
    /\ \A i \in 1 .. M : Stack!Instance(i) \in Stack!Instances
    /\ \A w \in Stack!Procs : (\E i \in 1 .. W : w = Stack!Cell(i)) \/ (\E i \in 1 .. M : w = Stack!Instance(i))
<1> USE DEF Stack!Procs, Stack!Cells, Stack!Instances, Stack!Cell, Stack!Instance
<1>1. \A w \in Stack!Procs : (\E i \in 1 .. W : w = Stack!Cell(i)) \/ (\E i \in 1 .. M : w = Stack!Instance(i))
  OBVIOUS
<1>2. \A i \in 1 .. W, j \in 1 .. M : Stack!Cell(i) # Stack!Instance(j)
  OBVIOUS
<1> QED
  BY <1>1, <1>2

LEMMA OneWord ==
    ASSUME NEW x
    PROVE  Append(<<>>, x) = <<x>> /\ Head(<<x>>) = x /\ Tail(<<x>>) = <<>> /\ <<x>> # <<>>
OBVIOUS

LEMMA StackInitial == MCInit => StackInv
<1> SUFFICES ASSUME Stack!Init PROVE StackInv
  BY DEF MCInit
<1> USE PiecesAssumption DEF Stack!Init, Stack!Queries
<1>1. Shaped
  BY DEF Shaped
<1>2. Queued /\ Gathered /\ ScoredOwn /\ Stack!OwnLegs
  BY DEF Queued, Gathered, ScoredOwn, Stack!OwnLegs
<1>3. CellsInStep /\ InstancesInStep
  BY ProcsApart DEF CellsInStep, InstancesInStep, CellAsked, InstanceAsked, Clear
<1> QED
  BY <1>1, <1>2, <1>3 DEF StackInv, Piped

\* A worker moves its word from one direction of its pipe to the other.
LEMMA WorkKeepsWords ==
    ASSUME StackInv, NEW w \in Stack!Procs, Stack!Work(w)
    PROVE  StackInv'
<1> USE PiecesAssumption DEF Stack!place, Stack!made
<1>1. PICK err \in BOOLEAN : answer' = [answer EXCEPT ![w] = Append(@, [of |-> Head(ask[w]), err |-> err])]
  BY DEF Stack!Work
<1>2. ask' = [ask EXCEPT ![w] = Tail(@)] /\ ask[w] # <<>>
  BY DEF Stack!Work
<1>3. UNCHANGED <<qpc, query, k, answered, legs, scores, bad, solo, poisoned, alive>>
  BY DEF Stack!Work
<1>4. DOMAIN ask = Stack!Procs /\ DOMAIN answer = Stack!Procs
  BY DEF StackInv, Shaped
<1>5. Shaped'
  BY <1>1, <1>2, <1>3 DEF StackInv, Shaped
<1>6. ASSUME NEW v \in Stack!Procs PROVE (Clear(v) => Clear(v)') /\ (Owes(v) => Owes(v)')
  <2>1. CASE v # w
    BY <1>1, <1>2, <1>3, <1>4, <2>1 DEF Clear, Owes
  <2>2. CASE v = w
    <3>1. ~Clear(v)
      BY <1>2, <2>2 DEF Clear
    <3>2. ASSUME Owes(v) PROVE Owes(v)'
      <4>1. ask[w] = <<query>> /\ answer[w] = <<>>
        BY <1>2, <2>2, <3>2 DEF Owes
      <4>2. Head(ask[w]) = query /\ Tail(ask[w]) = <<>>
        BY <4>1, OneWord
      <4>3. ask'[w] = <<>> /\ answer'[w] = Append(<<>>, [of |-> query, err |-> err])
        BY <1>1, <1>2, <1>4, <4>1, <4>2
      <4> QED
        BY <1>3, <2>2, <4>3, OneWord DEF Owes
    <3> QED
      BY <3>1, <3>2
  <2> QED
    BY <2>1, <2>2
<1>7. (CellsInStep => CellsInStep') /\ (InstancesInStep => InstancesInStep')
  <2>1. \A i \in 1 .. W : CellAsked(i)' = CellAsked(i)
    BY <1>3 DEF CellAsked
  <2>2. \A i \in 1 .. M : InstanceAsked(i)' = InstanceAsked(i)
    BY <1>3 DEF InstanceAsked
  <2> QED
    BY <1>6, <2>1, <2>2, ProcsApart DEF CellsInStep, InstancesInStep
<1>8. Piped'
  <2>1. NoneLate' = NoneLate /\ Ahead' = Ahead
    BY <1>3 DEF NoneLate, Ahead
  <2> QED
    BY <1>3, <1>7, <2>1 DEF StackInv, Piped
<1>9. Queued' /\ Gathered' /\ ScoredOwn' /\ Stack!OwnLegs'
  BY <1>3 DEF StackInv, Queued, Gathered, NoneLate, ScoredOwn, Stack!OwnLegs, Stack!Queries
<1> QED
  BY <1>5, <1>8, <1>9 DEF StackInv

LEMMA DeathStopsQueries ==
    ASSUME StackInv, NEW w \in Stack!Procs, Stack!Die(w)
    PROVE  StackInv'
<1>1. /\ alive' \subseteq alive
      /\ UNCHANGED <<qpc, query, k, answered, legs, scores, bad, solo, poisoned, ask, answer>>
  BY DEF Stack!Die, Stack!place, Stack!made, Stack!pipes
<1>2. Piped'
  <2>1. /\ CellsInStep' = CellsInStep /\ InstancesInStep' = InstancesInStep
        /\ NoneLate' = NoneLate /\ Ahead' = Ahead
    BY <1>1 DEF CellsInStep, InstancesInStep, NoneLate, Ahead, CellAsked, InstanceAsked, Clear, Owes
  <2> QED
    BY <1>1, <2>1 DEF StackInv, Piped
<1>3. Queued' /\ Gathered' /\ ScoredOwn' /\ Stack!OwnLegs' /\ Shaped'
  BY <1>1 DEF StackInv, Queued, Gathered, NoneLate, ScoredOwn, Stack!OwnLegs, Stack!Queries, Shaped
<1> QED
  BY <1>2, <1>3 DEF StackInv

\* A query that raises leaves the pipes as they are: nothing is asked of them, or
\* a later query is stopped before it reads them.
LEMMA RaiseEnds ==
    ASSUME StackInv, qpc # "idle", NEW how \in {"late", "error"}, Stack!Raise(how),
           UNCHANGED <<ask, answer, alive>>, poisoned' \in {poisoned, TRUE},
           how = "late" \/ (\A i \in 1 .. W : ~CellAsked(i)) \/ \E i \in 1 .. W : Stack!Cell(i) \notin alive,
           poisoned' \/ (\A i \in 1 .. M : ~InstanceAsked(i)) \/ \E i \in 1 .. M : Stack!Instance(i) \notin alive
    PROVE  StackInv'
<1>1. /\ query \in 1 .. Q /\ DOMAIN answered = 1 .. Q
      /\ qpc' = "idle" /\ k' = 1 /\ UNCHANGED <<query, legs, scores>>
      /\ answered' = [answered EXCEPT ![query] = how]
      /\ answered[query] = "open"
  BY PiecesAssumption DEF StackInv, Shaped, Queued, Stack!Raise, Stack!Move
<1>2. /\ \A p \in 1 .. Q : answered'[p] = IF p = query THEN how ELSE answered[p]
      /\ DOMAIN answered' = 1 .. Q
  BY <1>1
<1>3. (NoneLate' => NoneLate) /\ (how = "late" => ~NoneLate')
  BY <1>1, <1>2 DEF NoneLate
<1>4. Shaped' /\ Queued'
  BY <1>1, <1>2, PiecesAssumption DEF StackInv, Shaped, Queued
<1>5. Gathered' /\ ScoredOwn'
  BY <1>1, <1>3 DEF StackInv, Gathered, ScoredOwn
<1>6. Stack!OwnLegs'
  <2> SUFFICES ASSUME NEW p \in 1 .. Q, answered'[p] = "ok", \A o \in 1 .. p - 1 : answered'[o] # "late"
               PROVE  legs'[p] = {p}
    BY DEF Stack!OwnLegs, Stack!Queries
  <2>1. p # query /\ answered[p] = "ok"
    BY <1>2
  <2>2. \A o \in 1 .. p - 1 : o \in 1 .. Q
    BY PiecesAssumption
  <2>3. \A o \in 1 .. p - 1 : answered[o] # "late"
    BY <1>1, <1>2, <2>2
  <2> QED
    BY <1>1, <2>1, <2>3 DEF StackInv, Stack!OwnLegs, Stack!Queries
<1>7. \A i \in 1 .. W : ~CellAsked(i)'
  BY <1>1 DEF CellAsked
<1>8. \A i \in 1 .. M : ~InstanceAsked(i)'
  BY <1>1 DEF InstanceAsked
<1>9. Ahead' = 1 .. W /\ Ahead \subseteq 1 .. W
  BY <1>1 DEF Ahead, StackInv, Shaped
<1>10. \A w : Clear(w)' = Clear(w)
  BY DEF Clear
<1>11. NoneLate' => CellsInStep' \/ \E j \in Ahead' : Stack!Cell(j) \notin alive'
  BY <1>3, <1>7, <1>9, <1>10 DEF StackInv, Piped, CellsInStep
<1>12. ~poisoned' /\ Stack!Instances \subseteq alive' => InstancesInStep'
  BY <1>8, <1>10, ProcsApart DEF StackInv, Piped, InstancesInStep
<1> QED
  BY <1>1, <1>4, <1>5, <1>6, <1>11, <1>12 DEF StackInv, Piped

\* A query that goes on has asked for what it has asked for.
LEMMA MoveOn ==
    ASSUME StackInv, qpc # "idle", NEW there, there # "idle", Stack!Move(there),
           UNCHANGED <<query, answered, legs, scores, ask, answer, alive, poisoned>>,
           \A i \in 1 .. W : CellAsked(i)' = CellAsked(i),
           \A i \in 1 .. M : InstanceAsked(i)' = InstanceAsked(i),
           \A j \in Ahead : Stack!Cell(j) \notin alive => j \in Ahead',
           there \in {"send", "score", "hear"} =>
               qpc \in {"send", "score", "hear"} \/ (~poisoned /\ Stack!Instances \subseteq alive),
           Gathered'
    PROVE  StackInv'
<1>1. qpc' = there /\ k' = 1
  BY DEF Stack!Move
<1>2. Shaped' /\ Queued' /\ ScoredOwn' /\ Stack!OwnLegs'
  BY <1>1 DEF StackInv, Shaped, Queued, ScoredOwn, Stack!OwnLegs, Stack!Queries
<1>3. \A w : Clear(w)' = Clear(w) /\ Owes(w)' = Owes(w)
  BY DEF Clear, Owes
<1>4. CellsInStep' = CellsInStep
  BY <1>3 DEF CellsInStep
<1>5. InstancesInStep' = InstancesInStep
  BY <1>3 DEF InstancesInStep
<1>6. NoneLate' = NoneLate
  BY DEF NoneLate
<1> QED
  BY <1>1, <1>2, <1>4, <1>5, <1>6 DEF StackInv, Piped

\* Service.query up to the gather, where no pipe is written or read.
LEMMA QueryMoves ==
    ASSUME StackInv, \/ Stack!Begin \/ Stack!EncodeRaises \/ Stack!Scattered \/ Stack!LateLeg
                     \/ Stack!LateLegRaises \/ Stack!GatherRaises \/ Stack!Fuse \/ Stack!Reply
    PROVE  StackInv'
<1> USE PiecesAssumption
<1>1. CASE Stack!Begin
  <2>1. /\ qpc = "idle" /\ qpc' = "scatter" /\ query' = query + 1 /\ query < Q /\ k' = 1
        /\ answered' = [answered EXCEPT ![query + 1] = "open"]
        /\ UNCHANGED <<legs, scores, poisoned, ask, answer, alive>>
    BY <1>1 DEF Stack!Begin, Stack!Move, Stack!At, Stack!pipes
  <2>2. /\ query \in 0 .. Q /\ query' \in 1 .. Q /\ DOMAIN answered = 1 .. Q
        /\ answered[query'] = "new" /\ legs[query'] = {}
    BY <2>1 DEF StackInv, Shaped, Queued
  <2>3. /\ \A p \in 1 .. Q : answered'[p] = IF p = query' THEN "open" ELSE answered[p]
        /\ DOMAIN answered' = 1 .. Q
    BY <2>1, <2>2
  <2>4. NoneLate' = NoneLate
    BY <2>2, <2>3 DEF NoneLate
  <2>5. Shaped' /\ Queued'
    BY <2>1, <2>2, <2>3 DEF StackInv, Shaped, Queued
  <2>6. Gathered' /\ ScoredOwn'
    BY <2>1, <2>2 DEF StackInv, Gathered, ScoredOwn
  <2>7. Stack!OwnLegs'
    <3> SUFFICES ASSUME NEW p \in 1 .. Q, answered'[p] = "ok", \A o \in 1 .. p - 1 : answered'[o] # "late"
                 PROVE  legs'[p] = {p}
      BY DEF Stack!OwnLegs, Stack!Queries
    <3>1. \A o \in 1 .. p - 1 : o \in 1 .. Q
      OBVIOUS
    <3>2. answered[p] = "ok" /\ \A o \in 1 .. p - 1 : answered[o] # "late"
      BY <2>2, <2>3, <3>1
    <3> QED
      BY <2>1, <3>2 DEF StackInv, Stack!OwnLegs, Stack!Queries
  <2>8. /\ \A i \in 1 .. W : ~CellAsked(i) /\ ~CellAsked(i)'
        /\ \A i \in 1 .. M : ~InstanceAsked(i) /\ ~InstanceAsked(i)'
        /\ Ahead = 1 .. W /\ Ahead' = 1 .. W
    BY <2>1 DEF CellAsked, InstanceAsked, Ahead
  <2>9. \A w : Clear(w)' = Clear(w)
    BY <2>1 DEF Clear
  <2>10. (CellsInStep => CellsInStep') /\ (InstancesInStep => InstancesInStep')
    BY <2>8, <2>9 DEF CellsInStep, InstancesInStep
  <2>11. Piped'
    BY <2>1, <2>4, <2>8, <2>10 DEF StackInv, Piped
  <2> QED
    BY <2>5, <2>6, <2>7, <2>11 DEF StackInv
<1>2. CASE Stack!EncodeRaises
  <2>1. qpc = "scatter" /\ k = 1 /\ Stack!Raise("error") /\ UNCHANGED <<poisoned, ask, answer, alive>>
    BY <1>2 DEF Stack!EncodeRaises, Stack!At, Stack!pipes
  <2> QED
    BY <2>1, RaiseEnds DEF CellAsked, InstanceAsked
<1>3. CASE Stack!Scattered
  <2>1. /\ qpc = "scatter" /\ k > W /\ Stack!Move("late")
        /\ UNCHANGED <<query, answered, legs, scores, poisoned, ask, answer, alive>>
    BY <1>3 DEF Stack!Scattered, Stack!At, Stack!pipes
  <2>2. qpc' = "late" /\ k \in Nat /\ NoneLate' = NoneLate
    BY <2>1 DEF Stack!Move, StackInv, Shaped, NoneLate
  <2>3. \A i \in 1 .. W : CellAsked(i) /\ CellAsked(i)'
    BY <2>1, <2>2 DEF CellAsked
  <2>4. Ahead = {} /\ (\A i \in 1 .. M : ~InstanceAsked(i)' /\ ~InstanceAsked(i)) /\ Gathered'
    BY <2>1, <2>2 DEF Ahead, InstanceAsked, StackInv, Gathered
  <2>5. /\ \A i \in 1 .. W : CellAsked(i)' = CellAsked(i)
        /\ \A i \in 1 .. M : InstanceAsked(i)' = InstanceAsked(i)
        /\ \A j \in Ahead : Stack!Cell(j) \notin alive => j \in Ahead'
    BY <2>3, <2>4 DEF CellAsked, InstanceAsked
  <2> QED
    BY <2>1, <2>4, <2>5, MoveOn
<1>4. CASE Stack!LateLeg
  <2>1. /\ qpc = "late" /\ Stack!Move("gather")
        /\ UNCHANGED <<query, answered, legs, scores, poisoned, ask, answer, alive>>
    BY <1>4 DEF Stack!LateLeg, Stack!At, Stack!pipes
  <2>2. qpc' = "gather" /\ k' = 1 /\ NoneLate' = NoneLate
    BY <2>1 DEF Stack!Move, NoneLate
  <2>3. \A i \in 1 .. W : CellAsked(i) /\ CellAsked(i)'
    BY <2>1, <2>2 DEF CellAsked
  <2>4. Ahead = {} /\ (\A i \in 1 .. M : ~InstanceAsked(i)' /\ ~InstanceAsked(i)) /\ Gathered'
    BY <2>1, <2>2 DEF Ahead, InstanceAsked, StackInv, Gathered
  <2>5. /\ \A i \in 1 .. W : CellAsked(i)' = CellAsked(i)
        /\ \A i \in 1 .. M : InstanceAsked(i)' = InstanceAsked(i)
        /\ \A j \in Ahead : Stack!Cell(j) \notin alive => j \in Ahead'
    BY <2>3, <2>4 DEF CellAsked, InstanceAsked
  <2> QED
    BY <2>1, <2>4, <2>5, MoveOn
<1>5. CASE Stack!LateLegRaises
  <2>1. qpc = "late" /\ Stack!Raise("late") /\ UNCHANGED <<poisoned, ask, answer, alive>>
    BY <1>5 DEF Stack!LateLegRaises, Stack!At, Stack!pipes
  <2> QED
    BY <2>1, RaiseEnds DEF InstanceAsked
<1>6. CASE Stack!GatherRaises
  <2>1. /\ qpc = "gather" /\ k <= W /\ k \in Nat \ {0} /\ Stack!Cell(k) \notin alive
        /\ Stack!Raise("error") /\ UNCHANGED <<poisoned, ask, answer, alive>>
    BY <1>6 DEF Stack!GatherRaises, Stack!At, Stack!pipes, StackInv, Shaped
  <2> QED
    BY <2>1, RaiseEnds DEF InstanceAsked
<1>7. CASE Stack!Fuse
  <2>1. qpc = "gather" /\ k > W /\ k \in Nat /\ UNCHANGED <<poisoned, ask, answer, alive>>
    BY <1>7 DEF Stack!Fuse, Stack!At, Stack!pipes, StackInv, Shaped
  <2>2. /\ \A i \in 1 .. W : ~CellAsked(i)
        /\ \A i \in 1 .. M : ~InstanceAsked(i)
        /\ Ahead = {}
    BY <2>1 DEF CellAsked, InstanceAsked, Ahead
  <2>3. CASE Stack!Raise("error")
    BY <2>1, <2>2, <2>3, RaiseEnds
  <2>4. ASSUME NEW there \in {"usable", "reply"}, Stack!Move(there), UNCHANGED <<query, answered, legs, scores>>
        PROVE  StackInv'
    <3>1. qpc' = there /\ NoneLate' = NoneLate
      BY <2>4 DEF Stack!Move, NoneLate
    <3>2. /\ \A i \in 1 .. W : ~CellAsked(i)'
          /\ \A i \in 1 .. M : ~InstanceAsked(i)'
      BY <3>1 DEF CellAsked, InstanceAsked
    <3>3. Gathered'
      BY <2>1, <2>4, <3>1 DEF StackInv, Gathered
    <3>4. /\ \A i \in 1 .. W : CellAsked(i)' = CellAsked(i)
          /\ \A i \in 1 .. M : InstanceAsked(i)' = InstanceAsked(i)
          /\ \A j \in Ahead : Stack!Cell(j) \notin alive => j \in Ahead'
      BY <2>2, <3>2 DEF CellAsked, InstanceAsked
    <3> QED
      BY <2>1, <2>4, <3>3, <3>4, MoveOn
  <2> QED
    BY <1>7, <2>3, <2>4 DEF Stack!Fuse
<1>8. CASE Stack!Reply
  <2>1. /\ qpc = "reply" /\ qpc' = "idle" /\ k' = 1
        /\ answered' = [answered EXCEPT ![query] = "ok"]
        /\ UNCHANGED <<query, legs, scores, poisoned, ask, answer, alive>>
    BY <1>8 DEF Stack!Reply, Stack!At, Stack!Move, Stack!pipes
  <2>2. query \in 1 .. Q /\ DOMAIN answered = 1 .. Q /\ answered[query] = "open"
    BY <2>1 DEF StackInv, Shaped, Queued
  <2>3. /\ \A p \in 1 .. Q : answered'[p] = IF p = query THEN "ok" ELSE answered[p]
        /\ DOMAIN answered' = 1 .. Q
    BY <2>1, <2>2
  <2>4. NoneLate' = NoneLate
    BY <2>2, <2>3 DEF NoneLate
  <2>5. Shaped' /\ Queued' /\ Gathered' /\ ScoredOwn'
    BY <2>1, <2>2, <2>3 DEF StackInv, Shaped, Queued, Gathered, ScoredOwn
  <2>6. Stack!OwnLegs'
    <3> SUFFICES ASSUME NEW p \in 1 .. Q, answered'[p] = "ok", \A o \in 1 .. p - 1 : answered'[o] # "late"
                 PROVE  legs'[p] = {p}
      BY DEF Stack!OwnLegs, Stack!Queries
    <3>1. \A o \in 1 .. p - 1 : o \in 1 .. Q /\ answered[o] # "late"
      BY <2>2, <2>3
    <3>2. CASE p # query
      BY <2>1, <2>3, <3>1, <3>2 DEF StackInv, Stack!OwnLegs, Stack!Queries
    <3>3. CASE p = query
      <4>1. NoneLate
        <5>1. \A o \in 1 .. Q : o > query => answered[o] = "new"
          BY DEF StackInv, Queued
        <5>2. \A o \in 1 .. Q : o \in 1 .. query - 1 \/ o = query \/ o > query
          BY <2>2
        <5>3. \A o \in 1 .. query - 1 : answered[o] # "late"
          BY <3>1, <3>3
        <5> QED
          BY <2>2, <5>1, <5>2, <5>3 DEF NoneLate
      <4> QED
        BY <2>1, <3>3, <4>1 DEF StackInv, Gathered
    <3> QED
      BY <3>2, <3>3
  <2>7. /\ \A i \in 1 .. W : ~CellAsked(i) /\ ~CellAsked(i)'
        /\ \A i \in 1 .. M : ~InstanceAsked(i) /\ ~InstanceAsked(i)'
        /\ Ahead = 1 .. W /\ Ahead' = 1 .. W
    BY <2>1 DEF CellAsked, InstanceAsked, Ahead
  <2>8. \A w : Clear(w)' = Clear(w)
    BY <2>1 DEF Clear
  <2>9. (CellsInStep => CellsInStep') /\ (InstancesInStep => InstancesInStep')
    BY <2>7, <2>8 DEF CellsInStep, InstancesInStep
  <2>10. Piped'
    BY <2>1, <2>4, <2>7, <2>9 DEF StackInv, Piped
  <2> QED
    BY <2>5, <2>6, <2>10 DEF StackInv
<1> QED
  BY <1>1, <1>2, <1>3, <1>4, <1>5, <1>6, <1>7, <1>8

\* CellPool: what is sent is owed until it is read.
LEMMA CellsTalk ==
    ASSUME StackInv, Stack!Scatter \/ Stack!Gather
    PROVE  StackInv'
<1> USE PiecesAssumption
<1>1. CASE Stack!Scatter
  <2>1. PICK n \in 1 .. W :
           /\ qpc = "scatter" /\ k = n /\ Stack!Cell(n) \in Stack!Procs
           /\ UNCHANGED <<poisoned, answer, alive>>
    BY <1>1, ProcsApart DEF Stack!Scatter, Stack!At, StackInv, Shaped
  <2>2. CASE Stack!Cell(n) \notin alive
    <3>1. Stack!Raise("error") /\ UNCHANGED <<poisoned, ask, answer, alive>>
      BY <1>1, <2>1, <2>2 DEF Stack!Scatter
    <3> QED
      BY <2>1, <2>2, <3>1, RaiseEnds DEF InstanceAsked
  <2>3. CASE Stack!Cell(n) \in alive
    <3>1. /\ ask' = [ask EXCEPT ![Stack!Cell(n)] = Append(@, query)]
          /\ qpc' = "scatter" /\ k' = k + 1
          /\ UNCHANGED <<query, answered, legs, scores, bad, solo, poisoned, answer, alive>>
      BY <1>1, <2>1, <2>3 DEF Stack!Scatter, Stack!Turn, Stack!made
    <3>2. /\ DOMAIN ask = Stack!Procs
          /\ ask'[Stack!Cell(n)] = Append(ask[Stack!Cell(n)], query)
          /\ \A v \in Stack!Procs \ {Stack!Cell(n)} : ask'[v] = ask[v]
      BY <2>1, <3>1 DEF StackInv, Shaped
    <3>3. Shaped' /\ Queued' /\ Gathered' /\ ScoredOwn' /\ Stack!OwnLegs'
      <4>1. Shaped'
        BY <2>1, <3>1 DEF StackInv, Shaped
      <4>2. Queued' /\ ScoredOwn' /\ Stack!OwnLegs'
        BY <2>1, <3>1 DEF StackInv, Queued, ScoredOwn, Stack!OwnLegs, Stack!Queries
      <4>3. Gathered'
        BY <2>1, <3>1 DEF StackInv, Gathered, NoneLate
      <4> QED
        BY <4>1, <4>2, <4>3
    <3>4. ASSUME NEW v \in Stack!Procs \ {Stack!Cell(n)}
          PROVE  (Clear(v) => Clear(v)') /\ (Owes(v) => Owes(v)')
      BY <3>1, <3>2 DEF Clear, Owes
    <3>5. Clear(Stack!Cell(n)) => Owes(Stack!Cell(n))'
      BY <3>1, <3>2, OneWord DEF Clear, Owes
    <3>6. CellsInStep => CellsInStep'
      <4> SUFFICES ASSUME CellsInStep, NEW i \in 1 .. W
                   PROVE  IF CellAsked(i)' THEN Owes(Stack!Cell(i))' ELSE Clear(Stack!Cell(i))'
        BY DEF CellsInStep
      <4>1. CASE i = n
        <5>1. ~CellAsked(i) /\ CellAsked(i)'
          BY <2>1, <3>1, <4>1 DEF CellAsked
        <5> QED
          BY <3>5, <4>1, <5>1 DEF CellsInStep
      <4>2. CASE i # n
        <5>1. CellAsked(i)' = CellAsked(i)
          BY <2>1, <3>1, <4>2 DEF CellAsked
        <5>2. Stack!Cell(i) \in Stack!Procs \ {Stack!Cell(n)}
          BY <2>1, <4>2, ProcsApart
        <5> QED
          BY <3>4, <5>1, <5>2 DEF CellsInStep
      <4> QED
        BY <4>1, <4>2
    <3>7. InstancesInStep => InstancesInStep'
      <4>1. \A i \in 1 .. M : Stack!Instance(i) \in Stack!Procs \ {Stack!Cell(n)}
        BY <2>1, ProcsApart
      <4>2. \A i \in 1 .. M : ~InstanceAsked(i) /\ ~InstanceAsked(i)'
        BY <2>1, <3>1 DEF InstanceAsked
      <4> QED
        BY <3>4, <4>1, <4>2 DEF InstancesInStep
    <3>8. \A j \in Ahead : Stack!Cell(j) \notin alive => j \in Ahead'
      BY <2>1, <2>3, <3>1 DEF Ahead
    <3>9. Piped'
      <4>1. NoneLate' = NoneLate
        BY <3>1 DEF NoneLate
      <4> QED
        BY <2>1, <3>1, <3>6, <3>7, <3>8, <4>1 DEF StackInv, Piped
    <3> QED
      BY <3>3, <3>9 DEF StackInv
  <2> QED
    BY <2>2, <2>3
<1>2. CASE Stack!Gather
  <2>1. PICK n \in 1 .. W : qpc = "gather" /\ k = n
    BY <1>2 DEF Stack!Gather, Stack!At, StackInv, Shaped
  <2> DEFINE w == Stack!Cell(n)
  <2>2. /\ w \in Stack!Procs /\ answer[w] # <<>>
        /\ answer' = [answer EXCEPT ![w] = Tail(@)]
        /\ legs' = [legs EXCEPT ![query] = @ \cup {Head(answer[w]).of}]
        /\ qpc' = "gather" /\ k' = k + 1
        /\ UNCHANGED <<query, answered, scores, poisoned, ask, alive>>
    BY <1>2, <2>1, ProcsApart DEF Stack!Gather, Stack!At, Stack!Turn
  <2>3. /\ DOMAIN answer = Stack!Procs /\ DOMAIN legs = 1 .. Q /\ query \in 1 .. Q
        /\ answered[query] = "open"
        /\ answer'[w] = Tail(answer[w]) /\ DOMAIN answer' = Stack!Procs
        /\ \A v \in Stack!Procs \ {w} : answer'[v] = answer[v]
        /\ legs'[query] = legs[query] \cup {Head(answer[w]).of} /\ DOMAIN legs' = 1 .. Q
        /\ \A p \in (1 .. Q) \ {query} : legs'[p] = legs[p]
    BY <2>1, <2>2 DEF StackInv, Shaped, Queued
  <2> HIDE DEF w
  <2>4. NoneLate' = NoneLate
    BY <2>1, <2>2 DEF NoneLate
  <2>5. ASSUME NEW v \in Stack!Procs \ {w}
        PROVE  (Clear(v) => Clear(v)') /\ (Owes(v) => Owes(v)')
    BY <2>1, <2>2, <2>3 DEF Clear, Owes
  <2>6. Owes(w) => Clear(w)' /\ Head(answer[w]).of = query
    <3> SUFFICES ASSUME Owes(w) PROVE Clear(w)' /\ Head(answer[w]).of = query
      OBVIOUS
    <3>1. PICK err \in BOOLEAN : ask[w] = <<>> /\ answer[w] = <<[of |-> query, err |-> err]>>
      BY <2>1, <2>2 DEF Owes
    <3>2. Head(answer[w]) = [of |-> query, err |-> err] /\ Tail(answer[w]) = <<>>
      BY <3>1, OneWord
    <3> QED
      BY <2>1, <2>2, <2>3, <3>1, <3>2 DEF Clear
  <2>7. CellAsked(n) /\ ~CellAsked(n)'
    BY <2>1, <2>2 DEF CellAsked
  <2>8. CellsInStep => CellsInStep'
    <3> SUFFICES ASSUME CellsInStep, NEW i \in 1 .. W
                 PROVE  IF CellAsked(i)' THEN Owes(Stack!Cell(i))' ELSE Clear(Stack!Cell(i))'
      BY DEF CellsInStep
    <3>1. CASE i = n
      BY <2>1, <2>2, <2>6, <2>7, <3>1 DEF CellsInStep, w
    <3>2. CASE i # n
      <4>1. CellAsked(i)' = CellAsked(i)
        BY <2>1, <2>2, <3>2 DEF CellAsked
      <4>2. Stack!Cell(i) \in Stack!Procs \ {w}
        BY <2>1, <2>2, <3>2, ProcsApart DEF w
      <4> QED
        BY <2>5, <4>1, <4>2 DEF CellsInStep
    <3> QED
      BY <3>1, <3>2
  <2>9. InstancesInStep => InstancesInStep'
    <3>1. \A i \in 1 .. M : Stack!Instance(i) \in Stack!Procs \ {w}
      BY <2>1, <2>2, ProcsApart DEF w
    <3>2. \A i \in 1 .. M : ~InstanceAsked(i) /\ ~InstanceAsked(i)'
      BY <2>1, <2>2 DEF InstanceAsked
    <3> QED
      BY <2>5, <3>1, <3>2 DEF InstancesInStep
  <2>10. Ahead = {} /\ Ahead' = {}
    BY <2>1, <2>2 DEF Ahead
  <2>11. Piped'
    BY <2>1, <2>2, <2>4, <2>8, <2>9, <2>10 DEF StackInv, Piped
  <2>12. Gathered'
    <3> SUFFICES ASSUME NoneLate PROVE legs'[query] = {query}
      <4>1. qpc' = "gather" /\ k' # 1 /\ query' = query
        BY <2>1, <2>2
      <4> QED
        BY <2>4, <4>1 DEF Gathered, NoneLate
    <3>1. Owes(w)
      BY <2>1, <2>2, <2>7, <2>10 DEF StackInv, Piped, CellsInStep, w
    <3>2. legs[query] \subseteq {query}
      BY <2>1, <2>2 DEF StackInv, Gathered
    <3> QED
      BY <2>3, <2>6, <3>1, <3>2
  <2>13. Stack!OwnLegs'
    BY <2>1, <2>2, <2>3 DEF StackInv, Stack!OwnLegs, Stack!Queries
  <2>14. Shaped' /\ Queued' /\ ScoredOwn'
    BY <2>1, <2>2, <2>3 DEF StackInv, Shaped, Queued, ScoredOwn
  <2> QED
    BY <2>11, <2>12, <2>13, <2>14 DEF StackInv
<1> QED
  BY <1>1, <1>2

\* RerankPool, where no pipe is written or read.
LEMMA RerankMoves ==
    ASSUME StackInv, Stack!CheckUsable \/ Stack!Sent \/ Stack!Scored \/ Stack!HeardSolo
    PROVE  StackInv'
<1> USE PiecesAssumption
<1>1. ASSUME NEW here \in {"usable", "pair", "send", "score", "hear"}, qpc = here,
             NEW there \in {"send", "hear", "score", "pair", "reply"}, Stack!Move(there),
             UNCHANGED <<query, answered, legs, scores, poisoned, ask, answer, alive>>,
             \A i \in 1 .. M : InstanceAsked(i)' = InstanceAsked(i),
             here \in {"usable", "pair"} => ~poisoned /\ Stack!Instances \subseteq alive
      PROVE  StackInv'
  <2>1. qpc' = there /\ NoneLate' = NoneLate
    BY <1>1 DEF Stack!Move, NoneLate
  <2>2. /\ \A i \in 1 .. W : CellAsked(i)' = CellAsked(i)
        /\ \A j \in Ahead : Stack!Cell(j) \notin alive => j \in Ahead'
    BY <1>1, <2>1 DEF CellAsked, Ahead
  <2>3. Gathered'
    BY <1>1, <2>1 DEF StackInv, Gathered
  <2> QED
    BY <1>1, <2>2, <2>3, MoveOn
<1>2. CASE Stack!CheckUsable
  <2>1. qpc \in {"usable", "pair"} /\ UNCHANGED <<ask, answer, alive>>
    BY <1>2 DEF Stack!CheckUsable, Stack!At, Stack!pipes
  <2>2. (\A i \in 1 .. W : ~CellAsked(i)) /\ \A i \in 1 .. M : ~InstanceAsked(i)
    BY <2>1 DEF CellAsked, InstanceAsked
  <2>3. CASE Stack!Raise("error") /\ poisoned' \in {poisoned, TRUE}
    BY <2>1, <2>2, <2>3, RaiseEnds
  <2>4. CASE /\ ~poisoned /\ Stack!Instances \subseteq alive
             /\ Stack!Move(IF qpc = "usable" THEN "send" ELSE "hear")
             /\ UNCHANGED <<query, answered, legs, scores, poisoned>>
    <3>1. PICK there \in {"send", "hear"} : Stack!Move(there)
      BY <2>4
    <3>2. \A i \in 1 .. M : ~InstanceAsked(i)'
      BY <2>1, <3>1 DEF InstanceAsked, Stack!Move
    <3>3. \A i \in 1 .. M : InstanceAsked(i)' = InstanceAsked(i)
      BY <2>2, <3>2 DEF InstanceAsked
    <3> QED
      BY <1>1, <2>1, <2>4, <3>1, <3>3
  <2> QED
    BY <1>2, <2>3, <2>4 DEF Stack!CheckUsable, Stack!At, Stack!Poison
<1>3. CASE Stack!Sent
  <2>1. /\ qpc = "send" /\ k > M /\ k \in Nat /\ Stack!Move("score")
        /\ UNCHANGED <<query, answered, legs, scores, poisoned, ask, answer, alive>>
    BY <1>3 DEF Stack!Sent, Stack!At, Stack!pipes, StackInv, Shaped
  <2>2. \A i \in 1 .. M : InstanceAsked(i)' = InstanceAsked(i)
    BY <2>1 DEF InstanceAsked, Stack!Move
  <2> QED
    BY <1>1, <2>1, <2>2
<1>4. CASE Stack!Scored \/ Stack!HeardSolo
  <2>1. /\ (qpc = "score" /\ k > M) \/ (qpc = "hear" /\ k = 3)
        /\ k \in Nat /\ UNCHANGED <<poisoned, ask, answer, alive>>
    BY <1>4 DEF Stack!Scored, Stack!HeardSolo, Stack!At, Stack!pipes, StackInv, Shaped
  <2>2. (\A i \in 1 .. W : ~CellAsked(i)) /\ \A i \in 1 .. M : ~InstanceAsked(i)
    BY <2>1 DEF CellAsked, InstanceAsked
  <2>3. CASE Stack!Raise("error")
    BY <2>1, <2>2, <2>3, RaiseEnds
  <2>4. ASSUME NEW there \in {"pair", "reply"}, Stack!Move(there), UNCHANGED <<query, answered, legs, scores>>
        PROVE  StackInv'
    <3>1. \A i \in 1 .. M : ~InstanceAsked(i)'
      BY <2>4 DEF InstanceAsked, Stack!Move
    <3>2. \A i \in 1 .. M : InstanceAsked(i)' = InstanceAsked(i)
      BY <2>2, <3>1 DEF InstanceAsked
    <3> QED
      BY <1>1, <2>1, <2>4, <3>2
  <2> QED
    BY <1>4, <2>3, <2>4 DEF Stack!Scored, Stack!HeardSolo
<1> QED
  BY <1>2, <1>3, <1>4

\* RerankPool: a slice, or the pool once more, is sent to an instance.
LEMMA SlicesSent ==
    ASSUME StackInv, Stack!SendSlice \/ Stack!SendSolo
    PROVE  StackInv'
<1> USE PiecesAssumption
<1>1. PICK n \in 1 .. M :
         /\ (qpc = "send" /\ k = n) \/ (qpc = "hear" /\ k = 1 /\ n = 1)
         /\ Stack!Instance(n) \in Stack!Procs /\ Stack!Instance(n) \in Stack!Instances
         /\ IF Stack!Instance(n) \in alive
            THEN /\ ask' = [ask EXCEPT ![Stack!Instance(n)] = Append(@, query)]
                 /\ Stack!Turn /\ UNCHANGED <<query, Stack!made, poisoned>>
            ELSE Stack!Poison /\ UNCHANGED ask
         /\ UNCHANGED <<answer, alive>>
  <2>1. CASE Stack!SendSlice
    <3>1. k \in 1 .. M
      BY <2>1 DEF Stack!SendSlice, StackInv, Shaped
    <3> QED
      BY <2>1, <3>1, ProcsApart DEF Stack!SendSlice, Stack!At
  <2>2. CASE Stack!SendSolo
    <3>1. 1 \in 1 .. M
      OBVIOUS
    <3> QED
      BY <2>2, <3>1, ProcsApart DEF Stack!SendSolo, Stack!At
  <2> QED
    BY <2>1, <2>2
<1> DEFINE w == Stack!Instance(n)
<1>2. CASE w \notin alive
  <2>1. poisoned' = TRUE /\ Stack!Raise("error") /\ UNCHANGED <<ask, answer, alive>>
    BY <1>1, <1>2 DEF Stack!Poison
  <2>2. qpc # "idle" /\ \A i \in 1 .. W : ~CellAsked(i)
    BY <1>1 DEF CellAsked
  <2> QED
    BY <2>1, <2>2, RaiseEnds
<1>3. CASE w \in alive
  <2>1. /\ ask' = [ask EXCEPT ![w] = Append(@, query)]
        /\ qpc' = qpc /\ k' = k + 1
        /\ UNCHANGED <<query, answered, legs, scores, poisoned, answer, alive>>
    BY <1>1, <1>3 DEF Stack!Turn, Stack!made
  <2>2. /\ DOMAIN ask = Stack!Procs /\ DOMAIN ask' = Stack!Procs
        /\ ask'[w] = Append(ask[w], query)
        /\ \A v \in Stack!Procs \ {w} : ask'[v] = ask[v]
    BY <1>1, <2>1 DEF StackInv, Shaped
  <2> HIDE DEF w
  <2>3. Shaped' /\ Queued'
    BY <2>1, <2>2 DEF StackInv, Shaped, Queued
  <2>4. ScoredOwn' /\ Stack!OwnLegs'
    BY <2>1 DEF StackInv, ScoredOwn, Stack!OwnLegs, Stack!Queries
  <2>5. NoneLate' = NoneLate
    BY <2>1 DEF NoneLate
  <2>6. Gathered'
    BY <1>1, <2>1, <2>5 DEF StackInv, Gathered
  <2>7. ASSUME NEW v \in Stack!Procs \ {w}
        PROVE  (Clear(v) => Clear(v)') /\ (Owes(v) => Owes(v)')
    BY <2>1, <2>2 DEF Clear, Owes
  <2>8. Clear(w) => Owes(w)'
    BY <2>1, <2>2, OneWord DEF Clear, Owes
  <2>9. ~InstanceAsked(n) /\ InstanceAsked(n)'
    BY <1>1, <2>1 DEF InstanceAsked
  <2>10. InstancesInStep => InstancesInStep'
    <3> SUFFICES ASSUME InstancesInStep, NEW i \in 1 .. M
                 PROVE  IF InstanceAsked(i)' THEN Owes(Stack!Instance(i))' ELSE Clear(Stack!Instance(i))'
      BY DEF InstancesInStep
    <3>1. CASE i = n
      BY <2>8, <2>9, <3>1 DEF InstancesInStep, w
    <3>2. CASE i # n
      <4>1. InstanceAsked(i)' = InstanceAsked(i)
        BY <1>1, <2>1, <3>2 DEF InstanceAsked
      <4>2. Stack!Instance(i) \in Stack!Procs \ {w}
        BY <3>2, ProcsApart DEF w
      <4> QED
        BY <2>7, <4>1, <4>2 DEF InstancesInStep
    <3> QED
      BY <3>1, <3>2
  <2>11. CellsInStep => CellsInStep'
    <3>1. \A i \in 1 .. W : Stack!Cell(i) \in Stack!Procs \ {w}
      BY ProcsApart DEF w
    <3>2. \A i \in 1 .. W : ~CellAsked(i) /\ ~CellAsked(i)'
      BY <1>1, <2>1 DEF CellAsked
    <3> QED
      BY <2>7, <3>1, <3>2 DEF CellsInStep
  <2>12. Ahead' = Ahead
    BY <1>1, <2>1 DEF Ahead
  <2>13. Piped'
    BY <1>1, <2>1, <2>5, <2>10, <2>11, <2>12 DEF StackInv, Piped
  <2> QED
    BY <2>3, <2>4, <2>6, <2>13 DEF StackInv
<1> QED
  BY <1>2, <1>3

\* What an instance answers is of the query it was asked for.
LEMMA ScoresTaken ==
    ASSUME StackInv, Stack!Score \/ Stack!HearSolo
    PROVE  StackInv'
<1> USE PiecesAssumption
<1>1. PICK n \in 1 .. M :
         /\ (qpc = "score" /\ k = n) \/ (qpc = "hear" /\ k = 2 /\ n = 1)
         /\ Stack!Instance(n) \in Stack!Procs
         /\ (Stack!TakeScores(n) /\ Stack!Turn) \/ Stack!InstanceGone(n)
  BY ProcsApart DEF Stack!Score, Stack!HearSolo, Stack!At, StackInv, Shaped
<1>2. InstanceAsked(n) /\ \A i \in 1 .. W : ~CellAsked(i)
  BY <1>1 DEF InstanceAsked, CellAsked
<1> DEFINE w == Stack!Instance(n)
<1>3. CASE Stack!InstanceGone(n)
  <2>1. /\ Stack!Raise("error") /\ poisoned' \in {poisoned, TRUE}
        /\ w \notin alive /\ UNCHANGED <<ask, answer, alive>>
    BY <1>3 DEF Stack!InstanceGone, Stack!pipes
  <2>2. qpc # "idle" /\ \E i \in 1 .. M : Stack!Instance(i) \notin alive
    BY <1>1, <2>1
  <2> QED
    BY <1>2, <2>1, <2>2, RaiseEnds
<1>4. CASE Stack!TakeScores(n) /\ Stack!Turn
  <2>1. /\ answer[w] # <<>>
        /\ answer' = [answer EXCEPT ![w] = Tail(@)]
        /\ scores' = [scores EXCEPT ![query] = @ \cup {Head(answer[w]).of}]
        /\ qpc' = qpc /\ k' = k + 1
        /\ UNCHANGED <<query, answered, legs, poisoned, ask, alive>>
    BY <1>4 DEF Stack!TakeScores, Stack!Turn
  <2>2. /\ DOMAIN answer = Stack!Procs /\ DOMAIN scores = 1 .. Q /\ query \in 1 .. Q
        /\ answer'[w] = Tail(answer[w]) /\ DOMAIN answer' = Stack!Procs
        /\ \A v \in Stack!Procs \ {w} : answer'[v] = answer[v]
        /\ scores'[query] = scores[query] \cup {Head(answer[w]).of} /\ DOMAIN scores' = 1 .. Q
        /\ \A p \in (1 .. Q) \ {query} : scores'[p] = scores[p]
    BY <1>1, <2>1 DEF StackInv, Shaped, Queued
  <2> HIDE DEF w
  <2>3. Owes(w) /\ InstancesInStep
    BY <1>1, <1>2 DEF StackInv, Piped, InstancesInStep, w
  <2>4. Clear(w)' /\ Head(answer[w]).of = query
    <3>1. PICK err \in BOOLEAN : ask[w] = <<>> /\ answer[w] = <<[of |-> query, err |-> err]>>
      BY <2>1, <2>3 DEF Owes
    <3>2. Head(answer[w]) = [of |-> query, err |-> err] /\ Tail(answer[w]) = <<>>
      BY <3>1, OneWord
    <3> QED
      BY <2>1, <2>2, <3>1, <3>2 DEF Clear
  <2>5. ASSUME NEW v \in Stack!Procs \ {w}
        PROVE  (Clear(v) => Clear(v)') /\ (Owes(v) => Owes(v)')
    BY <2>1, <2>2 DEF Clear, Owes
  <2>6. Shaped' /\ Queued'
    BY <1>1, <2>1, <2>2 DEF StackInv, Shaped, Queued
  <2>7. ScoredOwn'
    BY <2>2, <2>4 DEF StackInv, ScoredOwn
  <2>8. Stack!OwnLegs' /\ NoneLate' = NoneLate
    BY <2>1 DEF StackInv, Stack!OwnLegs, Stack!Queries, NoneLate
  <2>9. Gathered'
    BY <1>1, <2>1, <2>8 DEF StackInv, Gathered
  <2>10. ~InstanceAsked(n)'
    BY <1>1, <2>1 DEF InstanceAsked
  <2>11. InstancesInStep'
    <3> SUFFICES ASSUME NEW i \in 1 .. M
                 PROVE  IF InstanceAsked(i)' THEN Owes(Stack!Instance(i))' ELSE Clear(Stack!Instance(i))'
      BY DEF InstancesInStep
    <3>1. CASE i = n
      BY <2>4, <2>10, <3>1 DEF w
    <3>2. CASE i # n
      <4>1. InstanceAsked(i)' = InstanceAsked(i)
        BY <1>1, <2>1, <3>2 DEF InstanceAsked
      <4>2. Stack!Instance(i) \in Stack!Procs \ {w}
        BY <3>2, ProcsApart DEF w
      <4> QED
        BY <2>3, <2>5, <4>1, <4>2 DEF InstancesInStep
    <3> QED
      BY <3>1, <3>2
  <2>12. CellsInStep => CellsInStep'
    <3>1. \A i \in 1 .. W : Stack!Cell(i) \in Stack!Procs \ {w}
      BY ProcsApart DEF w
    <3>2. \A i \in 1 .. W : ~CellAsked(i)'
      BY <1>1, <2>1 DEF CellAsked
    <3> QED
      BY <1>2, <2>5, <3>1, <3>2 DEF CellsInStep
  <2>13. Ahead' = Ahead
    BY <1>1, <2>1 DEF Ahead
  <2>14. Piped'
    BY <2>1, <2>8, <2>11, <2>12, <2>13 DEF StackInv, Piped
  <2> QED
    BY <2>6, <2>7, <2>8, <2>9, <2>14 DEF StackInv
<1> QED
  BY <1>1, <1>3, <1>4

LEMMA StackInductive == StackInv /\ [Stack!Next]_stackVars => StackInv'
<1> SUFFICES ASSUME StackInv, [Stack!Next]_stackVars PROVE StackInv'
  OBVIOUS
<1>1. CASE UNCHANGED stackVars
  <2>1. Piped'
    BY <1>1 DEF stackVars, StackInv, Piped, NoneLate, Ahead, CellsInStep, InstancesInStep, CellAsked,
                InstanceAsked, Clear, Owes
  <2> QED
    BY <1>1, <2>1 DEF stackVars, StackInv, Shaped, Queued, Gathered, NoneLate, ScoredOwn, Stack!OwnLegs,
                      Stack!Queries
<1>2. CASE Stack!Step
  BY <1>2, QueryMoves, CellsTalk, RerankMoves, SlicesSent, ScoresTaken DEF Stack!Step
<1> QED
  BY <1>1, <1>2, WorkKeepsWords, DeathStopsQueries DEF Stack!Next

\* Through errors and deaths, an answer is made from what was computed for its
\* own query: the scores of RerankPool always, the legs of CellPool.gather as long
\* as no query before it raised between its scatter and its gather.
THEOREM AnswersAreOwn == MCSpec => []OwnResults
<1>1. [MCNext]_allVars => [Stack!Next]_stackVars
  BY DEF MCNext, BankRuns, QueueRuns, LaneRuns, FanRuns, StackRuns, RankRuns, TopicRuns, LoopRuns,
         SubmitRuns, allVars, stackVars
<1>2. StackInv => OwnResults
  BY DEF StackInv, ScoredOwn, OwnResults, Stack!OwnScores, Stack!Queries
<1> QED
  BY StackInitial, StackInductive, <1>1, <1>2, PTL DEF MCSpec, allVars

-----------------------------------------------------------------------------
(* Submission: a topic that has its last deliverable has them all, of one     *)
(* projection, and is not run again.                                          *)

Final   == Len(Tasks)
Stages  == {"idle", "project", "gate", "write", "mark", "manifest"}
Running == {"project", "gate", "write", "mark"}

SubmitShaped ==
    /\ cell \subseteq Topics /\ listed \subseteq Topics /\ covered \subseteq Topics /\ remain \subseteq Topics
    /\ DOMAIN file = Topics \X (1 .. Final) /\ marked \subseteq Topics \X (1 .. Final)
    /\ serial \in [Topics -> [at : Stages, task : 0 .. Final, again : BOOLEAN]]
    /\ tries \in [Topics -> Nat]
    /\ driver \in {"off", "map", "reduce", "end"}
    /\ next \in Nat \ {0} /\ DOMAIN family = 1 .. Final

\* A shard that runs: what its gate has accepted is what it writes, and the
\* deliverables behind it are its own.
ShardRuns(t) ==
    /\ serial[t].at # "idle" => tries[t] # 0
    /\ serial[t].at \in {"gate", "write", "mark"} => serial[t].task # 0
    /\ serial[t].at \in {"write", "mark"} => <<t, serial[t].task, tries[t]>> \in passed
    /\ serial[t].at = "mark" => file[<<t, serial[t].task>>] = tries[t]
    /\ serial[t].at \in {"gate", "write", "mark"} =>
           \A j \in 1 .. serial[t].task - 1 : <<t, j>> \in marked /\ file[<<t, j>>] = tries[t]

\* What is marked has been accepted.
MarkedPassed == \A t \in Topics, j \in 1 .. Final :
    <<t, j>> \in marked => <<t, j, file[<<t, j>>]>> \in passed /\ file[<<t, j>>] # 0

Whole(t) == \A j \in 1 .. Final : <<t, j>> \in marked /\ file[<<t, j>>] = file[<<t, 1>>]

LastIsWhole == \A t \in Topics : <<t, Final>> \in marked => Whole(t)
NotAgain    == \A t \in Topics : <<t, Final>> \in marked => serial[t].at \notin Running
                                                          /\ (t \in remain => serial[t].at # "idle")

\* The joined files so far have the covered topics, each of one projection.
Joined ==
    driver \in {"reduce", "end"} =>
        /\ \A t \in covered : <<t, Final>> \in marked
        /\ driver = "end" => next > Final
        /\ \A j \in 1 .. Final : j < next => family[j] = [t \in covered |-> file[<<t, 1>>]]

SubmitInv ==
    /\ SubmitShaped /\ MarkedPassed /\ LastIsWhole /\ NotAgain /\ Joined
    /\ \A t \in Topics : ShardRuns(t)

LEMMA FinalIsPositive == Final \in Nat \ {0} /\ DOMAIN Tasks = 1 .. Final
BY PiecesAssumption DEF Final

LEMMA SubmitInitial == MCInit => SubmitInv
<1> SUFFICES ASSUME Submit!Init PROVE SubmitInv
  BY DEF MCInit
<1> USE FinalIsPositive DEF Submit!Init, Submit!Pieces, Submit!Idle
<1>1. SubmitShaped
  BY DEF SubmitShaped, Stages
<1>2. MarkedPassed /\ LastIsWhole /\ NotAgain /\ Joined
  BY DEF MarkedPassed, LastIsWhole, NotAgain, Joined
<1>3. \A t \in Topics : ShardRuns(t)
  BY DEF ShardRuns
<1> QED
  BY <1>1, <1>2, <1>3 DEF SubmitInv

\* The driver: a launch lists what is not whole, a kill leaves nothing running,
\* and a reduce joins topics that nobody writes any more.
LEMMA DriverKeeps ==
    ASSUME SubmitInv, Submit!Launch \/ Submit!Kill \/ Submit!Reduce \/ Submit!Concat
    PROVE  SubmitInv'
<1> USE FinalIsPositive DEF Submit!files, Submit!work
<1>1. CASE Submit!Launch
  <2>1. SubmitShaped'
    BY <1>1 DEF Submit!Launch, SubmitInv, SubmitShaped
  <2>2. MarkedPassed' /\ LastIsWhole' /\ Joined'
    BY <1>1 DEF Submit!Launch, SubmitInv, MarkedPassed, LastIsWhole, Whole, Joined
  <2>3. NotAgain'
    BY <1>1 DEF Submit!Launch, SubmitInv, SubmitShaped, NotAgain, LastIsWhole, Whole, Submit!ShardDone
  <2>4. \A t \in Topics : ShardRuns(t)'
    BY <1>1 DEF Submit!Launch, SubmitInv, ShardRuns
  <2> QED
    BY <2>1, <2>2, <2>3, <2>4 DEF SubmitInv
<1>2. CASE Submit!Kill
  <2>1. /\ serial' = [t \in Topics |-> [at |-> "idle", task |-> 0, again |-> FALSE]]
        /\ remain' = {} /\ driver' = "off"
        /\ UNCHANGED <<cell, file, marked, fragment, passed, tries, listed, covered, next, family>>
    BY <1>2 DEF Submit!Kill, Submit!Idle
  <2>2. SubmitShaped'
    BY <2>1 DEF SubmitInv, SubmitShaped, Stages
  <2>3. MarkedPassed' /\ LastIsWhole' /\ Joined' /\ NotAgain'
    BY <2>1 DEF SubmitInv, MarkedPassed, LastIsWhole, Whole, Joined, NotAgain, Running
  <2>4. \A t \in Topics : ShardRuns(t)'
    BY <2>1 DEF ShardRuns
  <2> QED
    BY <2>2, <2>3, <2>4 DEF SubmitInv
<1>3. CASE Submit!Reduce
  <2>1. SubmitShaped'
    BY <1>3 DEF Submit!Reduce, SubmitInv, SubmitShaped
  <2>2. MarkedPassed' /\ LastIsWhole' /\ NotAgain'
    BY <1>3 DEF Submit!Reduce, SubmitInv, MarkedPassed, LastIsWhole, Whole, NotAgain
  <2>3. Joined'
    <3>1. driver' = "reduce" /\ next' = 1 /\ marked' = marked
      BY <1>3 DEF Submit!Reduce
    <3>2. \A t \in covered' : <<t, Final>> \in marked'
      BY <1>3 DEF Submit!Reduce, Submit!ShardDone, Final
    <3>3. \A j \in 1 .. Final : ~(j < next')
      BY <3>1
    <3> QED
      BY <3>1, <3>2, <3>3 DEF Joined
  <2>4. \A t \in Topics : ShardRuns(t)'
    BY <1>3 DEF Submit!Reduce, SubmitInv, ShardRuns
  <2> QED
    BY <2>1, <2>2, <2>3, <2>4 DEF SubmitInv
<1>4. CASE Submit!Concat
  <2>1. /\ driver = "reduce" /\ next' = next + 1
        /\ family' = [family EXCEPT ![next] =
              [t \in {u \in covered : file[<<u, next>>] # 0} |-> file[<<t, next>>]]]
        /\ driver' = IF next = Final THEN "end" ELSE "reduce"
        /\ UNCHANGED <<cell, file, marked, fragment, passed, serial, tries, remain, listed, covered>>
    BY <1>4 DEF Submit!Concat, Final
  <2>2. SubmitShaped'
    BY <2>1 DEF SubmitInv, SubmitShaped
  <2>3. MarkedPassed' /\ LastIsWhole' /\ NotAgain'
    BY <2>1 DEF SubmitInv, MarkedPassed, LastIsWhole, Whole, NotAgain
  <2>4. \A t \in Topics : ShardRuns(t)'
    BY <2>1 DEF SubmitInv, ShardRuns
  <2>5. Joined'
    <3>1. \A t \in covered : t \in Topics /\ <<t, Final>> \in marked /\ Whole(t)
      BY <2>1 DEF SubmitInv, SubmitShaped, Joined, LastIsWhole
    <3>2. next \in 1 .. Final =>
              \A t \in covered : file[<<t, next>>] = file[<<t, 1>>] /\ file[<<t, next>>] # 0
      BY <3>1 DEF Whole, SubmitInv, MarkedPassed
    <3>3. next \in 1 .. Final => family'[next] = [t \in covered |-> file[<<t, 1>>]]
      <4> SUFFICES ASSUME next \in 1 .. Final PROVE family'[next] = [t \in covered |-> file[<<t, 1>>]]
        OBVIOUS
      <4>1. family'[next] = [t \in {u \in covered : file[<<u, next>>] # 0} |-> file[<<t, next>>]]
        BY <2>1 DEF SubmitInv, SubmitShaped
      <4>2. {u \in covered : file[<<u, next>>] # 0} = covered
        BY <3>2
      <4> QED
        BY <3>2, <4>1, <4>2, Zenon
    <3>4. \A j \in 1 .. Final : j < next + 1 => family'[j] = [t \in covered |-> file[<<t, 1>>]]
      <4> SUFFICES ASSUME NEW j \in 1 .. Final, j < next + 1
                   PROVE  family'[j] = [t \in covered |-> file[<<t, 1>>]]
        OBVIOUS
      <4>1. CASE j = next
        BY <3>3, <4>1
      <4>2. CASE j # next
        <5>1. j < next
          BY <4>2 DEF SubmitInv, SubmitShaped
        <5> QED
          BY <2>1, <4>2, <5>1 DEF SubmitInv, SubmitShaped, Joined
      <4> QED
        BY <4>1, <4>2
    <3>5. driver' = "end" => next + 1 > Final
      BY <2>1 DEF SubmitInv, SubmitShaped
    <3> QED
      BY <2>1, <3>1, <3>4, <3>5 DEF Joined
  <2> QED
    BY <2>2, <2>3, <2>4, <2>5 DEF SubmitInv
<1> QED
  BY <1>1, <1>2, <1>3, <1>4

LEMMA TopicCompletes == ASSUME SubmitInv, NEW t \in Topics, Submit!Complete(t) PROVE SubmitInv'
<1>1. /\ cell' \subseteq Topics
      /\ UNCHANGED <<file, marked, fragment, passed, serial, tries, remain, driver, listed, covered, next, family>>
  BY DEF Submit!Complete, Submit!files, Submit!work, Submit!run, SubmitInv, SubmitShaped
<1>2. \A u \in Topics : ShardRuns(u)'
  BY <1>1 DEF SubmitInv, ShardRuns
<1> QED
  BY <1>1, <1>2 DEF SubmitInv, SubmitShaped, MarkedPassed, LastIsWhole, Whole, NotAgain, Joined

LEMMA MoveIsOneRecord ==
    ASSUME NEW t \in Topics, NEW at_, NEW task_, Submit!Move(t, at_, task_),
           serial \in [Topics -> [at : Stages, task : 0 .. Final, again : BOOLEAN]]
    PROVE  serial' = [serial EXCEPT ![t] = [at |-> at_, task |-> task_, again |-> serial[t].again]]
<1> DEFINE r == [at |-> at_, task |-> task_, again |-> serial[t].again]
<1>1. serial[t] \in [at : Stages, task : 0 .. Final, again : BOOLEAN] /\ DOMAIN serial = Topics
  OBVIOUS
<1>2. serial'[t] = [[serial[t] EXCEPT !.at = at_] EXCEPT !.task = task_]
  BY <1>1 DEF Submit!Move
<1>3. serial'[t] = r
  BY <1>1, <1>2
<1>4. DOMAIN serial' = Topics /\ \A u \in Topics \ {t} : serial'[u] = serial[u]
  BY <1>1 DEF Submit!Move
<1>5. serial' = [u \in Topics |-> serial'[u]]
  BY <1>1, <1>4 DEF Submit!Move
<1> QED
  BY <1>1, <1>3, <1>4, <1>5

\* A shard up to the gate of a deliverable, and once it has left: no file is
\* written.
LEMMA ShardWaits ==
    ASSUME SubmitInv, NEW t \in Topics,
           \/ Submit!Start(t) \/ Submit!Reconnect(t) \/ Submit!Raise(t) \/ Submit!Projected(t)
           \/ Submit!Gate(t) \/ Submit!Manifest(t)
    PROVE  SubmitInv'
<1> USE FinalIsPositive
<1>1. /\ UNCHANGED <<cell, file, marked, driver, listed, covered, next, family>>
      /\ passed \subseteq passed' /\ remain' \subseteq remain
  BY DEF Submit!Start, Submit!Reconnect, Submit!Raise, Submit!Projected, Submit!Gate, Submit!Manifest,
         Submit!Else, Submit!run, Submit!files, Submit!Left
<1>2. /\ serial \in [Topics -> [at : Stages, task : 0 .. Final, again : BOOLEAN]]
      /\ tries \in [Topics -> Nat] /\ tries[t] \in Nat
      /\ serial[t] \in [at : Stages, task : 0 .. Final, again : BOOLEAN]
  BY DEF SubmitInv, SubmitShaped
<1>3. MarkedPassed' /\ LastIsWhole' /\ Joined'
  BY <1>1 DEF SubmitInv, MarkedPassed, LastIsWhole, Whole, Joined
<1>4. ASSUME NEW s \in [at : Stages, task : 0 .. Final, again : BOOLEAN], serial' = [serial EXCEPT ![t] = s],
             \/ tries' = [tries EXCEPT ![t] = @ + 1] \/ (tries' = tries /\ (s.at = "idle" \/ serial[t].at # "idle")),
             s.at \in Running => serial[t].at \in Running \/ (serial[t].at = "idle" /\ t \in remain),
             s.at = "idle" => t \notin remain',
             s.at \in {"gate", "write", "mark"} =>
                 /\ tries' = tries /\ s.task # 0
                 /\ s.at = "gate" => s.task = 1
                 /\ s.at # "gate" => serial[t].at = "gate" /\ s.task = serial[t].task,
             s.at = "write" => <<t, s.task, tries[t]>> \in passed',
             s.at # "mark"
      PROVE  SubmitInv'
  <2>1. /\ serial' \in [Topics -> [at : Stages, task : 0 .. Final, again : BOOLEAN]]
        /\ serial'[t] = s /\ \A u \in Topics \ {t} : serial'[u] = serial[u]
    BY <1>2, <1>4
  <2>2. /\ tries' \in [Topics -> Nat] /\ \A u \in Topics \ {t} : tries'[u] = tries[u]
        /\ s.at # "idle" => tries'[t] # 0
    <3>1. CASE tries' = [tries EXCEPT ![t] = @ + 1]
      BY <1>2, <3>1
    <3>2. CASE tries' = tries /\ (s.at = "idle" \/ serial[t].at # "idle")
      BY <1>2, <3>2 DEF SubmitInv, ShardRuns
    <3> QED
      BY <1>4, <3>1, <3>2
  <2>3. SubmitShaped'
    BY <1>1, <2>1, <2>2 DEF SubmitInv, SubmitShaped
  <2>4. NotAgain'
    BY <1>1, <1>4, <2>1 DEF SubmitInv, NotAgain, Running
  <2>5. ASSUME NEW u \in Topics PROVE ShardRuns(u)'
    <3>1. CASE u # t
      BY <1>1, <2>1, <2>2, <2>5, <3>1 DEF SubmitInv, ShardRuns
    <3>2. CASE u = t
      <4>1. s.at \in {"gate", "write", "mark"} =>
                \A j \in 1 .. s.task - 1 : <<t, j>> \in marked /\ file[<<t, j>>] = tries[t]
        <5>1. CASE s.at = "gate"
          BY <1>4, <5>1
        <5>2. CASE s.at = "write"
          BY <1>4, <5>2 DEF SubmitInv, ShardRuns
        <5> QED
          BY <1>4, <5>1, <5>2
      <4> QED
        BY <1>1, <1>4, <2>1, <2>2, <3>2, <4>1 DEF ShardRuns
    <3> QED
      BY <3>1, <3>2
  <2> QED
    BY <1>3, <2>3, <2>4, <2>5 DEF SubmitInv
<1>5. CASE Submit!Start(t)
  <2> DEFINE s == [at |-> "project", task |-> 0, again |-> serial[t].again]
  <2>1. /\ serial' = [serial EXCEPT ![t] = s] /\ serial[t].at = "idle" /\ t \in remain
        /\ tries' = [tries EXCEPT ![t] = @ + 1]
    BY <1>2, <1>5, MoveIsOneRecord DEF Submit!Start, Submit!Idle
  <2>2. s \in [at : Stages, task : 0 .. Final, again : BOOLEAN] /\ s.at = "project"
    BY <1>2 DEF Stages
  <2> QED
    BY <1>4, <2>1, <2>2
<1>6. CASE Submit!Reconnect(t)
  <2> DEFINE s == [serial[t] EXCEPT !.again = TRUE]
  <2>1. /\ serial' = [serial EXCEPT ![t] = s] /\ serial[t].at = "project"
        /\ tries' = [tries EXCEPT ![t] = @ + 1]
    BY <1>2, <1>6 DEF Submit!Reconnect
  <2>2. s \in [at : Stages, task : 0 .. Final, again : BOOLEAN] /\ s.at = "project"
    BY <1>2, <2>1
  <2> QED
    BY <1>4, <2>1, <2>2 DEF Running
<1>7. CASE Submit!Raise(t) \/ Submit!Manifest(t)
  <2>1. Submit!Idle \in [at : Stages, task : 0 .. Final, again : BOOLEAN] /\ Submit!Idle.at = "idle"
    BY DEF Submit!Idle, Stages
  <2>2. serial' = [serial EXCEPT ![t] = Submit!Idle] /\ tries' = tries /\ t \notin remain'
    BY <1>7 DEF Submit!Raise, Submit!Manifest, Submit!Left
  <2> QED
    BY <1>4, <2>1, <2>2 DEF Running
<1>8. CASE Submit!Projected(t)
  <2> DEFINE s == [at |-> "gate", task |-> 1, again |-> serial[t].again]
  <2>1. serial' = [serial EXCEPT ![t] = s] /\ serial[t].at = "project" /\ tries' = tries
    BY <1>2, <1>8, MoveIsOneRecord DEF Submit!Projected
  <2>2. s \in [at : Stages, task : 0 .. Final, again : BOOLEAN] /\ s.at = "gate" /\ s.task = 1
    BY <1>2 DEF Stages
  <2> HIDE DEF s
  <2>3. /\ serial[t].at \in Running /\ serial[t].at # "idle"
        /\ s.at # "idle" /\ s.at # "write" /\ s.at # "mark" /\ s.task # 0
    BY <2>1, <2>2 DEF Running
  <2> QED
    BY <1>4, <2>1, <2>2, <2>3
<1>9. CASE Submit!Gate(t)
  <2>1. serial[t].at = "gate" /\ tries' = tries /\ serial[t].task # 0
    BY <1>9 DEF Submit!Gate, SubmitInv, ShardRuns
  <2>2. CASE Submit!Left(t)
    <3>1. Submit!Idle \in [at : Stages, task : 0 .. Final, again : BOOLEAN] /\ Submit!Idle.at = "idle"
      BY DEF Submit!Idle, Stages
    <3>2. serial' = [serial EXCEPT ![t] = Submit!Idle] /\ t \notin remain'
      BY <2>2 DEF Submit!Left
    <3> QED
      BY <1>4, <2>1, <3>1, <3>2 DEF Running
  <2>3. CASE Submit!Move(t, "write", serial[t].task) /\ <<t, serial[t].task, tries[t]>> \in passed'
    <3> DEFINE s == [at |-> "write", task |-> serial[t].task, again |-> serial[t].again]
    <3>1. serial' = [serial EXCEPT ![t] = s]
      BY <1>2, <2>3, MoveIsOneRecord
    <3>2. s \in [at : Stages, task : 0 .. Final, again : BOOLEAN] /\ s.at = "write" /\ s.task = serial[t].task
      BY <1>2 DEF Stages
    <3> QED
      BY <1>4, <2>1, <2>3, <3>1, <3>2 DEF Running
  <2> QED
    BY <1>9, <2>2, <2>3 DEF Submit!Gate, Submit!Publishes
<1> QED
  BY <1>5, <1>6, <1>7, <1>8, <1>9

\* A file is replaced only while its topic lacks the last deliverable, and under
\* a name its gate has accepted.
LEMMA ShardWrites == ASSUME SubmitInv, NEW t \in Topics, Submit!Write(t) PROVE SubmitInv'
<1> USE FinalIsPositive
<1>1. /\ serial \in [Topics -> [at : Stages, task : 0 .. Final, again : BOOLEAN]]
      /\ serial[t].at = "write" /\ serial[t].task \in 1 .. Final /\ tries[t] # 0
      /\ <<t, serial[t].task, tries[t]>> \in passed /\ <<t, Final>> \notin marked
  BY DEF Submit!Write, SubmitInv, SubmitShaped, ShardRuns, NotAgain, Running
<1> DEFINE r == [at |-> "mark", task |-> serial[t].task, again |-> serial[t].again]
<1>2. /\ serial' = [serial EXCEPT ![t] = r]
      /\ file' = [file EXCEPT ![<<t, serial[t].task>>] = tries[t]]
      /\ UNCHANGED <<cell, marked, fragment, passed, tries, remain, driver, listed, covered, next, family>>
  BY <1>1, MoveIsOneRecord DEF Submit!Write, Submit!Else, Submit!run
<1>3. r \in [at : Stages, task : 0 .. Final, again : BOOLEAN] /\ r.at = "mark" /\ r.task = serial[t].task
  BY <1>1 DEF Stages
<1> HIDE DEF r
<1>4. /\ serial' \in [Topics -> [at : Stages, task : 0 .. Final, again : BOOLEAN]]
      /\ serial'[t] = r /\ \A u \in Topics \ {t} : serial'[u] = serial[u]
  BY <1>1, <1>2, <1>3
<1>5. /\ DOMAIN file' = Topics \X (1 .. Final) /\ file'[<<t, serial[t].task>>] = tries[t]
      /\ \A u \in Topics, j \in 1 .. Final : u # t \/ j # serial[t].task => file'[<<u, j>>] = file[<<u, j>>]
  BY <1>1, <1>2 DEF SubmitInv, SubmitShaped
<1>6. SubmitShaped'
  BY <1>2, <1>4, <1>5 DEF SubmitInv, SubmitShaped
<1>7. MarkedPassed'
  <2> SUFFICES ASSUME NEW u \in Topics, NEW j \in 1 .. Final, <<u, j>> \in marked
               PROVE  <<u, j, file'[<<u, j>>]>> \in passed /\ file'[<<u, j>>] # 0
    BY <1>2 DEF MarkedPassed
  <2>1. CASE u = t /\ j = serial[t].task
    BY <1>1, <1>5, <2>1
  <2>2. CASE u # t \/ j # serial[t].task
    BY <1>5, <2>2 DEF SubmitInv, MarkedPassed
  <2> QED
    BY <2>1, <2>2
<1>8. ASSUME NEW u \in Topics, <<u, Final>> \in marked
      PROVE  u # t /\ \A j \in 1 .. Final : file'[<<u, j>>] = file[<<u, j>>]
  BY <1>1, <1>5, <1>8
<1>9. LastIsWhole'
  BY <1>2, <1>8 DEF SubmitInv, LastIsWhole, Whole
<1>10. NotAgain'
  BY <1>1, <1>2, <1>4 DEF SubmitInv, NotAgain
<1>11. Joined'
  <2>1. driver \in {"reduce", "end"} => \A u \in covered : file'[<<u, 1>>] = file[<<u, 1>>]
    <3> SUFFICES ASSUME driver \in {"reduce", "end"}, NEW u \in covered
                 PROVE  file'[<<u, 1>>] = file[<<u, 1>>]
      OBVIOUS
    <3>1. u \in Topics /\ <<u, Final>> \in marked
      BY DEF SubmitInv, SubmitShaped, Joined
    <3>2. 1 \in 1 .. Final
      OBVIOUS
    <3> QED
      BY <1>8, <3>1, <3>2
  <2>2. driver \in {"reduce", "end"} =>
            [u \in covered |-> file'[<<u, 1>>]] = [u \in covered |-> file[<<u, 1>>]]
    BY <2>1
  <2> QED
    BY <1>2, <2>2 DEF SubmitInv, Joined
<1>12. ASSUME NEW u \in Topics PROVE ShardRuns(u)'
  <2>1. CASE u # t
    <3>1. \A j \in 1 .. Final : file'[<<u, j>>] = file[<<u, j>>]
      BY <1>5, <2>1
    <3>2. serial'[u] = serial[u] /\ serial[u].task \in 0 .. Final
      BY <1>1, <1>4, <2>1
    <3>3. \A j \in 1 .. serial[u].task - 1 : j \in 1 .. Final
      BY <3>2
    <3> QED
      BY <1>2, <3>1, <3>2, <3>3 DEF SubmitInv, ShardRuns
  <2>2. CASE u = t
    <3>1. \A j \in 1 .. serial[t].task - 1 : <<t, j>> \in marked /\ file[<<t, j>>] = tries[t]
      BY <1>1 DEF SubmitInv, ShardRuns
    <3>2. \A j \in 1 .. serial[t].task - 1 : j \in 1 .. Final /\ j # serial[t].task
      BY <1>1
    <3>3. \A j \in 1 .. serial[t].task - 1 : file'[<<t, j>>] = tries[t]
      BY <1>5, <3>1, <3>2
    <3>4. /\ serial'[t].at = "mark" /\ serial'[t].task = serial[t].task /\ tries' = tries
          /\ passed' = passed /\ marked' = marked /\ serial[t].task # 0
      BY <1>1, <1>2, <1>3, <1>4
    <3>5. ShardRuns(t)'
      BY <1>1, <1>5, <3>1, <3>3, <3>4 DEF ShardRuns
    <3> QED
      BY <2>2, <3>5
  <2> QED
    BY <2>1, <2>2
<1> QED
  BY <1>6, <1>7, <1>9, <1>10, <1>11, <1>12 DEF SubmitInv

\* The last mark of a shard makes its topic whole.
LEMMA ShardMarks == ASSUME SubmitInv, NEW t \in Topics, Submit!Mark(t) PROVE SubmitInv'
<1> USE FinalIsPositive
<1>1. /\ serial \in [Topics -> [at : Stages, task : 0 .. Final, again : BOOLEAN]]
      /\ serial[t].at = "mark" /\ serial[t].task \in 1 .. Final /\ tries[t] # 0
      /\ <<t, serial[t].task, tries[t]>> \in passed /\ <<t, Final>> \notin marked
      /\ file[<<t, serial[t].task>>] = tries[t]
      /\ \A j \in 1 .. serial[t].task - 1 : <<t, j>> \in marked /\ file[<<t, j>>] = tries[t]
  BY DEF Submit!Mark, SubmitInv, SubmitShaped, ShardRuns, NotAgain, Running
<1> DEFINE r == IF serial[t].task = Final
                THEN [at |-> "manifest", task |-> 0, again |-> serial[t].again]
                ELSE [at |-> "gate", task |-> serial[t].task + 1, again |-> serial[t].again]
<1>2. /\ serial' = [serial EXCEPT ![t] = r]
      /\ marked' = marked \cup {<<t, serial[t].task>>}
      /\ UNCHANGED <<cell, file, fragment, passed, tries, remain, driver, listed, covered, next, family>>
  <2>1. CASE serial[t].task = Final
    BY <1>1, <2>1, MoveIsOneRecord DEF Submit!Mark, Submit!Else, Submit!run, Final
  <2>2. CASE serial[t].task # Final
    BY <1>1, <2>2, MoveIsOneRecord DEF Submit!Mark, Submit!Else, Submit!run, Final
  <2> QED
    BY <2>1, <2>2
<1>3. /\ r \in [at : Stages, task : 0 .. Final, again : BOOLEAN] /\ r.at \in {"manifest", "gate"}
      /\ serial[t].task = Final => r.at = "manifest"
      /\ r.at = "gate" => r.task = serial[t].task + 1
  <2>1. CASE serial[t].task = Final
    BY <1>1, <2>1 DEF Stages
  <2>2. CASE serial[t].task # Final
    <3>1. serial[t].task + 1 \in 0 .. Final /\ serial[t].again \in BOOLEAN
      BY <1>1, <2>2
    <3> QED
      BY <2>2, <3>1 DEF Stages
  <2> QED
    BY <2>1, <2>2
<1> HIDE DEF r
<1>4. /\ serial' \in [Topics -> [at : Stages, task : 0 .. Final, again : BOOLEAN]]
      /\ serial'[t] = r /\ \A u \in Topics \ {t} : serial'[u] = serial[u]
  BY <1>1, <1>2, <1>3
<1>5. SubmitShaped'
  BY <1>1, <1>2, <1>4 DEF SubmitInv, SubmitShaped
<1>6. MarkedPassed'
  BY <1>1, <1>2 DEF SubmitInv, MarkedPassed
<1>7. LastIsWhole'
  <2> SUFFICES ASSUME NEW u \in Topics, <<u, Final>> \in marked' PROVE Whole(u)'
    BY DEF LastIsWhole
  <2>1. CASE <<u, Final>> \in marked
    BY <1>2, <2>1 DEF SubmitInv, LastIsWhole, Whole
  <2>2. CASE <<u, Final>> \notin marked
    <3>1. u = t /\ serial[t].task = Final
      BY <1>2, <2>2
    <3>2. \A j \in 1 .. Final : <<t, j>> \in marked' /\ file[<<t, j>>] = tries[t]
      BY <1>1, <1>2, <3>1
    <3> QED
      BY <1>2, <3>1, <3>2 DEF Whole
  <2> QED
    BY <2>1, <2>2
<1>8. NotAgain'
  <2> SUFFICES ASSUME NEW u \in Topics, <<u, Final>> \in marked'
               PROVE  serial'[u].at \notin Running /\ (u \in remain => serial'[u].at # "idle")
    BY <1>2 DEF NotAgain
  <2>1. CASE u # t
    BY <1>2, <1>4, <2>1 DEF SubmitInv, NotAgain
  <2>2. CASE u = t
    <3>1. serial[t].task = Final
      BY <1>1, <1>2, <2>2
    <3> QED
      BY <1>3, <1>4, <2>2, <3>1 DEF Running
  <2> QED
    BY <2>1, <2>2
<1>9. Joined'
  BY <1>2 DEF SubmitInv, Joined
<1>10. ASSUME NEW u \in Topics PROVE ShardRuns(u)'
  <2>1. CASE u # t
    BY <1>2, <1>4, <2>1 DEF SubmitInv, ShardRuns
  <2>2. CASE u = t
    <3>1. \A j \in 1 .. serial[t].task : j = serial[t].task \/ j \in 1 .. serial[t].task - 1
      BY <1>1
    <3>2. \A j \in 1 .. serial[t].task : <<t, j>> \in marked' /\ file[<<t, j>>] = tries[t]
      BY <1>1, <1>2, <3>1
    <3>3. /\ serial'[t].at \in {"manifest", "gate"} /\ tries' = tries /\ file' = file
          /\ serial'[t].at = "gate" => serial'[t].task = serial[t].task + 1
      BY <1>2, <1>3, <1>4
    <3>4. ShardRuns(t)'
      BY <1>1, <3>2, <3>3 DEF ShardRuns
    <3> QED
      BY <2>2, <3>4
  <2> QED
    BY <2>1, <2>2
<1> QED
  BY <1>5, <1>6, <1>7, <1>8, <1>9, <1>10 DEF SubmitInv

LEMMA SubmitInductive == SubmitInv /\ [Submit!Next]_submitVars => SubmitInv'
<1> SUFFICES ASSUME SubmitInv, [Submit!Next]_submitVars PROVE SubmitInv'
  OBVIOUS
<1>1. CASE UNCHANGED submitVars
  <2>1. \A t \in Topics : ShardRuns(t)'
    BY <1>1 DEF submitVars, SubmitInv, ShardRuns
  <2> QED
    BY <1>1, <2>1 DEF submitVars, SubmitInv, SubmitShaped, MarkedPassed, LastIsWhole, Whole, NotAgain, Joined
<1> QED
  BY <1>1, DriverKeeps, TopicCompletes, ShardWaits, ShardWrites, ShardMarks DEF Submit!Next, Submit!Shard

\* What a finished driver leaves is one submission, although it was killed,
\* refused and started again: a topic that shard_done lets pass is whole and of
\* one projection, and is not projected again (serialize_parallel, concat_arm).
THEOREM SubmissionIsOne == MCSpec => []OneProjection
<1>1. [MCNext]_allVars => [Submit!Next]_submitVars
  BY DEF MCNext, BankRuns, QueueRuns, LaneRuns, FanRuns, StackRuns, RankRuns, TopicRuns, LoopRuns,
         SubmitRuns, allVars, submitVars
<1>2. SubmitInv => OneProjection
  <2> SUFFICES ASSUME SubmitInv PROVE Submit!OneProjection /\ Submit!PublishedPassed
    BY DEF OneProjection
  <2>1. Submit!OneProjection
    <3> SUFFICES ASSUME driver = "end", NEW j \in 1 .. Final
                 PROVE  family[j] = family[1] /\ DOMAIN family[j] = covered
      BY FinalIsPositive DEF Submit!OneProjection
    <3>1. \A i \in 1 .. Final : family[i] = [t \in covered |-> file[<<t, 1>>]]
      <4>1. next > Final /\ next \in Nat
        BY DEF SubmitInv, Joined, SubmitShaped
      <4>2. \A i \in 1 .. Final : i < next
        BY <4>1, FinalIsPositive
      <4> QED
        BY <4>2 DEF SubmitInv, Joined
    <3>2. 1 \in 1 .. Final
      BY FinalIsPositive
    <3>3. family[1] = [t \in covered |-> file[<<t, 1>>]]
      BY <3>1, <3>2
    <3> QED
      BY <3>1, <3>3
  <2>2. Submit!PublishedPassed
    BY DEF SubmitInv, SubmitShaped, MarkedPassed, Submit!PublishedPassed
  <2> QED
    BY <2>1, <2>2
<1> QED
  BY SubmitInitial, SubmitInductive, <1>1, <1>2, PTL DEF MCSpec, allVars

-----------------------------------------------------------------------------
(* PartFan: a leg searched in slices.                                         *)

Hit == [id : Nat, score : Nat]
\* The order of the merge, as a set of pairs.
BestFirst == {p \in Hit \X Hit : Fan!Better(p[1], p[2])}

LEMMA BestFirstIs ==
    ASSUME NEW x \in Hit, NEW y \in Hit
    PROVE  <<x, y>> \in BestFirst <=> (x.score > y.score \/ (x.score = y.score /\ x.id < y.id))
BY DEF BestFirst, Fan!Better

LEMMA BestFirstOrders == Strict(BestFirst) /\ \A X \in SUBSET Hit : OrderOn(BestFirst, X)
<1>1. ASSUME NEW x, NEW y, <<x, y>> \in BestFirst PROVE x \in Hit /\ y \in Hit
  BY <1>1 DEF BestFirst
<1>2. Strict(BestFirst)
  <2> SUFFICES ASSUME NEW x, NEW y, <<x, y>> \in BestFirst, <<y, x>> \in BestFirst PROVE FALSE
    BY DEF Strict
  <2>1. x \in Hit /\ y \in Hit
    BY <1>1
  <2> QED
    BY <2>1, BestFirstIs DEF Hit
<1>3. ASSUME NEW X \in SUBSET Hit, NEW x \in X, NEW y \in X
      PROVE  x = y \/ <<x, y>> \in BestFirst \/ <<y, x>> \in BestFirst
  <2>1. x \in Hit /\ y \in Hit
    OBVIOUS
  <2>2. x = [id |-> x.id, score |-> x.score] /\ y = [id |-> y.id, score |-> y.score]
    BY <2>1 DEF Hit
  <2> QED
    BY <2>1, <2>2, BestFirstIs DEF Hit
<1>4. ASSUME NEW X \in SUBSET Hit, NEW x \in X, NEW y \in X, NEW z \in X,
             <<x, y>> \in BestFirst, <<y, z>> \in BestFirst
      PROVE  <<x, z>> \in BestFirst
  <2>1. x \in Hit /\ y \in Hit /\ z \in Hit
    OBVIOUS
  <2> QED
    BY <1>4, <2>1, BestFirstIs DEF Hit
<1> QED
  BY <1>2, <1>3, <1>4 DEF OrderOn

\* A list without repetitions, sorted.
LEMMA FanSorts ==
    ASSUME NEW list \in Seq(Hit), IsInjective(list)
    PROVE  Sorts(BestFirst, Fan!Sorted(list), Range(list))
<1> DEFINE D == 1 .. Len(list)
           A(i) == {j \in DOMAIN list : \/ Fan!Better(list[j], list[i])
                                        \/ (list[j] = list[i] /\ j < i)}
           c(n) == CHOOSE i \in DOMAIN list : Fan!Cardinality(A(i)) = n - 1
           t == [n \in DOMAIN list |-> list[c(n)]]
<1>1. DOMAIN list = D /\ \A i \in D : list[i] \in Hit
  BY LenProperties, ElementOfSeq
<1>2. Fan!Sorted(list) = t
  BY DEF Fan!Sorted
<1>3. ASSUME NEW i \in D PROVE A(i) = Prior(BestFirst, list, i)
  <2>1. ASSUME NEW j \in D
        PROVE  (Fan!Better(list[j], list[i]) \/ (list[j] = list[i] /\ j < i)) <=> <<list[j], list[i]>> \in BestFirst
    <3>1. list[j] = list[i] => j = i
      BY <1>1 DEF IsInjective
    <3>2. ~(j < i /\ j = i)
      OBVIOUS
    <3>3. list[j] \in Hit /\ list[i] \in Hit
      BY <1>1
    <3> QED
      BY <3>1, <3>2, <3>3 DEF BestFirst
  <2> QED
    BY <1>1, <2>1 DEF Prior
<1>4. ASSUME NEW n \in D PROVE \E i \in D : Cardinality(Prior(BestFirst, list, i)) = n - 1 /\ t[n] = list[i]
  <2>1. PICK i \in D : Cardinality(Prior(BestFirst, list, i)) = n - 1
    <3>1. OrderOn(BestFirst, Hit)
      BY BestFirstOrders
    <3> QED
      BY <3>1, RanksAll
  <2>2. \A j \in D : Fan!Cardinality(A(j)) = Cardinality(Prior(BestFirst, list, j))
    <3>1. \A X : Fan!Cardinality(X) = Cardinality(X)
      BY DEF Fan!Cardinality, Cardinality
    <3> QED
      BY <1>3, <3>1
  <2> DEFINE P(j) == Fan!Cardinality(A(j)) = n - 1
  <2>3. \E j \in DOMAIN list : P(j)
    BY <1>1, <2>1, <2>2
  <2>4. PICK j : j = c(n)
    OBVIOUS
  <2>5. j \in DOMAIN list /\ P(j)
    <3>1. c(n) = CHOOSE m \in DOMAIN list : P(m)
      OBVIOUS
    <3> HIDE DEF P, c
    <3> QED
      BY <2>3, <2>4, <3>1
  <2>6. t[n] = list[j]
    BY <1>1, <2>4
  <2> QED
    BY <1>1, <2>2, <2>5, <2>6
<1>5. ByRank(BestFirst, list, t)
  <2>1. t = [n \in 1 .. Len(list) |-> t[n]]
    BY <1>1
  <2> HIDE DEF t
  <2> QED
    BY <1>4, <2>1 DEF ByRank
<1>6. OrderOn(BestFirst, Hit)
  BY BestFirstOrders
<1> HIDE DEF t
<1>7. Sorts(BestFirst, t, Range(list))
  BY <1>5, <1>6, RankSorts
<1> QED
  BY <1>2, <1>7

\* A finite set of hits, ranked.
LEMMA FanRanks ==
    ASSUME NEW X \in SUBSET Hit, IsFiniteSet(X)
    PROVE  Sorts(BestFirst, Fan!Ranked(X), X)
<1> DEFINE s == Fan!SetToSeq(X)
<1>1. s = SetToSeq(X)
  BY DEF Fan!SetToSeq, SetToSeq, Fan!Cardinality, Cardinality, Fan!IsInjective, IsInjective
<1>2. s \in Seq(X) /\ IsInjective(s) /\ Range(s) = X
  BY <1>1, SetListed
<1> HIDE DEF s
<1>3. s \in Seq(Hit)
  BY <1>2
<1>4. Sorts(BestFirst, Fan!Sorted(s), Range(s))
  BY <1>2, <1>3, FanSorts
<1> QED
  BY <1>2, <1>4 DEF Fan!Ranked, s

\* A part that leaves something out returns k of it, none worse than what it leaves out.
LEMMA FullParts ==
    ASSUME NEW X, IsFiniteSet(X), NEW Y \in Fan!TopKs(X), NEW x \in X \ Y
    PROVE  /\ Y \in SUBSET X /\ IsFiniteSet(Y) /\ Cardinality(Y) = FanTopK
           /\ \A y \in Y : y.score >= x.score
<1>1. \A Z : Fan!Cardinality(Z) = Cardinality(Z)
  BY DEF Fan!Cardinality, Cardinality
<1>2. /\ Y \in SUBSET X
      /\ Cardinality(Y) = IF Cardinality(X) < FanTopK THEN Cardinality(X) ELSE FanTopK
      /\ \A y \in Y : y.score >= x.score
  BY <1>1 DEF Fan!TopKs
<1>3. IsFiniteSet(Y) /\ Cardinality(Y) # Cardinality(X)
  <2>1. IsFiniteSet(Y) /\ (Cardinality(Y) = Cardinality(X) => Y = X)
    BY <1>2, FS_Subset
  <2> QED
    BY <2>1
<1> QED
  BY <1>2, <1>3

\* The best of what the parts return score as the best of what they hold.
BestOf(J, whole, best) ==
    \A j \in J : whole[j] \in SUBSET Hit /\ IsFiniteSet(whole[j]) /\ best[j] \in Fan!TopKs(whole[j])
Together(J, part) == UNION {part[j] : j \in J}

LEMMA ScoresSame ==
    ASSUME NEW J, NEW whole, NEW best, BestOf(J, whole, best),
           NEW E, E = Together(J, whole), NEW F, F = Together(J, best),
           NEW e, Sorts(BestFirst, e, E), NEW s, Sorts(BestFirst, s, F)
    PROVE  /\ Len(FirstOf(s, FanTopK)) = Len(FirstOf(e, FanTopK))
           /\ \A i \in 1 .. Len(FirstOf(s, FanTopK)) :
                 FirstOf(s, FanTopK)[i].score = FirstOf(e, FanTopK)[i].score
<1>1. Strict(BestFirst) /\ FanTopK \in Nat
  BY BestFirstOrders, PiecesAssumption
<1>2. E \in SUBSET Hit /\ F \in SUBSET E
  BY DEF Fan!TopKs, BestOf, Together
<1> DEFINE a == Len(s)
           b == Len(e)
<1>3. /\ s \in Seq(F) /\ e \in Seq(E) /\ a \in Nat /\ b \in Nat
      /\ \A i \in 1 .. a : s[i] \in F
      /\ \A i \in 1 .. b : e[i] \in E
  BY LenProperties, ElementOfSeq DEF Sorts
<1>4. ASSUME NEW i \in 1 .. b, NEW j \in 1 .. b, i <= j PROVE e[i].score >= e[j].score
  <2>1. e[i] \in Hit /\ e[j] \in Hit
    BY <1>2, <1>3
  <2>2. i = j \/ <<e[i], e[j]>> \in BestFirst
    <3>1. Ordered(BestFirst, e, b)
      BY DEF Sorts
    <3> HIDE DEF a, b
    <3>2. i = j \/ i < j
      BY <1>3, <1>4
    <3> QED
      BY <3>1, <3>2 DEF Ordered
  <2> QED
    BY <2>1, <2>2, BestFirstIs DEF Hit
<1>5. ASSUME NEW i \in 1 .. a, NEW j \in 1 .. a, i <= j PROVE s[i].score >= s[j].score
  <2>1. s[i] \in Hit /\ s[j] \in Hit
    BY <1>2, <1>3
  <2>2. i = j \/ <<s[i], s[j]>> \in BestFirst
    <3>1. Ordered(BestFirst, s, a)
      BY DEF Sorts
    <3> HIDE DEF a, b
    <3>2. i = j \/ i < j
      BY <1>3, <1>5
    <3> QED
      BY <3>1, <3>2 DEF Ordered
  <2> QED
    BY <2>1, <2>2, BestFirstIs DEF Hit
<1>6. ASSUME NEW i \in 1 .. a PROVE i <= b /\ s[i].score <= e[i].score
  <2>1. PICK j \in 1 .. b : s[i] = e[j] /\ i <= j
    BY <1>1, <1>2, PartLater
  <2>2. i \in 1 .. b
    BY <1>3, <2>1
  <2>3. e[i].score >= e[j].score /\ e[i] \in Hit /\ e[j] \in Hit
    BY <1>2, <1>3, <1>4, <2>1, <2>2
  <2> QED
    BY <2>1, <2>2, <2>3 DEF Hit
<1>7. ASSUME NEW i \in 1 .. b, i <= FanTopK PROVE i <= a /\ s[i].score >= e[i].score
  <2>1. CASE \A j \in 1 .. i : e[j] \in F
    <3>1. Inside(e, i, s, a)
      BY <2>1 DEF Inside, Sorts
    <3>2. Inside(s, a, e, b)
      BY <1>2, <1>3 DEF Inside, Sorts
    <3>3. Ordered(BestFirst, s, a) /\ Ordered(BestFirst, e, b)
      BY DEF Sorts
    <3>4. i \in Nat /\ i <= b /\ i \in 1 .. i
      BY <1>3
    <3> HIDE DEF a, b
    <3>5. i <= a /\ e[i] = s[i]
      BY <1>1, <1>3, <3>1, <3>2, <3>3, <3>4, PrefixSame
    <3>6. i \in 1 .. b
      OBVIOUS
    <3>7. e[i] \in Hit
      BY <1>2, <1>3, <3>6
    <3> QED
      BY <3>5, <3>7 DEF Hit
  <2>2. CASE ~ \A j \in 1 .. i : e[j] \in F
    <3>1. PICK j \in 1 .. i : e[j] \notin F
      BY <2>2
    <3>2. j \in 1 .. b /\ j <= i
      BY <1>3
    <3>3. e[j].score >= e[i].score /\ e[j] \in E
      BY <1>3, <1>4, <3>2
    <3>4. PICK n \in J : e[j] \in whole[n]
      BY <3>3 DEF Together
    <3>5. PICK X, Y : X = whole[n] /\ Y = best[n]
      OBVIOUS
    <3>6. /\ IsFiniteSet(X) /\ X \in SUBSET Hit /\ Y \in Fan!TopKs(X) /\ e[j] \in X \ Y
          /\ Y \in SUBSET F
      BY <3>1, <3>4, <3>5 DEF BestOf, Together
    <3>7. /\ Y \in SUBSET X /\ IsFiniteSet(Y) /\ Cardinality(Y) = FanTopK
          /\ \A y \in Y : y.score >= e[j].score
      BY <3>6, FullParts
    <3>8. PICK w : Sorts(BestFirst, w, Y)
      <4>1. Y \in SUBSET Hit
        BY <3>6, <3>7
      <4> QED
        BY <3>7, <4>1, FanRanks
    <3>9. w \in Seq(Y) /\ Len(w) = FanTopK
      BY <1>1, <3>7, <3>8, SortedOnce
    <3>10. i \in 1 .. Len(w) /\ w[i] \in Y
      <4>1. i \in 1 .. Len(w)
        <5>1. i \in 1 .. FanTopK
          BY <1>1, <1>7
        <5>2. Len(w) = FanTopK
          BY <3>9
        <5> QED
          BY <5>1, <5>2
      <4> QED
        BY <3>9, <4>1, ElementOfSeq
    <3>11. PICK q0 \in 1 .. a : w[i] = s[q0] /\ i <= q0
      BY <1>1, <3>6, <3>8, <3>10, PartLater
    <3>12. i \in 1 .. a
      BY <1>3, <3>11
    <3>13. s[i].score >= w[i].score /\ w[i].score >= e[j].score
      BY <1>5, <3>7, <3>10, <3>11, <3>12
    <3>14. s[i] \in Hit /\ w[i] \in Hit /\ e[j] \in Hit /\ e[i] \in Hit
      <4>1. s[i] \in F /\ e[j] \in E /\ e[i] \in E
        BY <1>3, <3>2, <3>12
      <4> QED
        BY <1>2, <3>6, <3>10, <4>1
    <3> HIDE DEF a, b
    <3> QED
      BY <3>3, <3>12, <3>13, <3>14 DEF Hit
  <2> QED
    BY <2>1, <2>2
<1>8. Len(FirstOf(s, FanTopK)) = IF a < FanTopK THEN a ELSE FanTopK
  BY <1>1, <1>3, FirstIs
<1>9. Len(FirstOf(e, FanTopK)) = IF b < FanTopK THEN b ELSE FanTopK
  BY <1>1, <1>3, FirstIs
<1>10. \A i \in 1 .. Len(FirstOf(s, FanTopK)) : FirstOf(s, FanTopK)[i] = s[i] /\ i \in 1 .. a /\ i <= FanTopK
  BY <1>1, <1>3, FirstIs
<1>11. \A i \in 1 .. Len(FirstOf(e, FanTopK)) : FirstOf(e, FanTopK)[i] = e[i]
  BY <1>1, <1>3, FirstIs
<1>12. a <= b
  <2>1. a = 0 \/ a \in 1 .. a
    BY <1>3
  <2> QED
    BY <1>3, <1>6, <2>1
<1>13. b <= a \/ FanTopK <= a
  <2>1. CASE b <= FanTopK
    <3>1. b = 0 \/ b \in 1 .. b
      BY <1>3
    <3> QED
      BY <1>3, <1>7, <2>1, <3>1
  <2>2. CASE ~(b <= FanTopK)
    <3>1. FanTopK = 0 \/ FanTopK \in 1 .. b
      BY <1>1, <1>3, <2>2
    <3> QED
      BY <1>1, <1>3, <1>7, <3>1
  <2> QED
    BY <2>1, <2>2
<1>14. Len(FirstOf(s, FanTopK)) = Len(FirstOf(e, FanTopK))
  <2> HIDE DEF a, b
  <2> QED
    BY <1>1, <1>3, <1>8, <1>9, <1>12, <1>13
<1>15. ASSUME NEW i \in 1 .. Len(FirstOf(s, FanTopK))
       PROVE  FirstOf(s, FanTopK)[i].score = FirstOf(e, FanTopK)[i].score
  <2>1. FirstOf(s, FanTopK)[i] = s[i] /\ i \in 1 .. a /\ i <= FanTopK
    BY <1>10
  <2>2. FirstOf(e, FanTopK)[i] = e[i]
    BY <1>11, <1>14
  <2>3. i \in 1 .. b
    BY <1>3, <1>12, <2>1
  <2>4. s[i].score <= e[i].score /\ s[i].score >= e[i].score
    BY <1>6, <1>7, <2>1, <2>3
  <2>5. s[i] \in Hit /\ e[i] \in Hit
    <3>1. s[i] \in F /\ e[i] \in E
      BY <1>3, <2>1, <2>3
    <3> QED
      BY <1>2, <3>1
  <2>6. s[i].score = e[i].score
    <3>1. s[i].score \in Nat /\ e[i].score \in Nat
      BY <2>5 DEF Hit
    <3> QED
      BY <2>4, <3>1
  <2> QED
    BY <2>1, <2>2, <2>6
<1> QED
  BY <1>14, <1>15

\* What a slice is dealt, and what it has searched of that.
Dealt(s)  == UNION {found[p] : p \in Fan!Searched(s)}
Walked(s) == UNION {found[p] : p \in {n \in Fan!Searched(s) : n <= hits[s].at}}
Found     == UNION {found[p] : p \in DOMAIN found}

FanShaped ==
    /\ Fan!Fan(fan) /\ width \in Nat \ {0}
    /\ DOMAIN found = 1 .. Fan!Parts
    /\ \A p \in 1 .. Fan!Parts : found[p] \in Fan!TopKs(fan.parts[p])
    /\ hits \in [Fan!Slices -> [at : Nat, list : Seq(Hit)]]
    /\ reply \in [Fan!Slices -> {<<>>} \cup {<<r>> : r \in [hits : Seq(Hit), err : BOOLEAN]}]
\* A slice has, once each, the hits of the parts it has searched.
FanListed ==
    \A s \in Fan!Slices : IsInjective(hits[s].list) /\ Range(hits[s].list) = Walked(s)
\* A reply is the best of what its slice was dealt, or says that its leg raised.
FanReplied ==
    \A s \in Fan!Slices :
        reply[s] # <<>> =>
            IF reply[s][1].err THEN s \in broken /\ Fan!Searched(s) # {}
            ELSE reply[s][1].hits = FirstOf(Fan!Ranked(Dealt(s)), FanTopK)

FanInv == machine = "fan" => FanShaped /\ FanListed /\ FanReplied /\ Fan!SliceFree

LEMMA FanSizes ==
    ASSUME FanShaped
    PROVE  /\ Fan!Parts \in Nat \ {0} /\ Fan!Wide \in Nat \ {0}
           /\ Fan!Slices = 1 .. Fan!Wide
           /\ DOMAIN fan.parts = 1 .. Fan!Parts
<1>1. fan.parts \in Seq(SUBSET Hit) /\ fan.parts # <<>>
  BY DEF FanShaped, Fan!Fan, Hit
<1>2. Len(fan.parts) \in Nat /\ Len(fan.parts) # 0 /\ DOMAIN fan.parts = 1 .. Len(fan.parts)
  BY <1>1, EmptySeq, LenProperties
<1>3. Fan!Parts = Len(fan.parts)
  BY DEF Fan!Parts
<1> QED
  BY <1>2, <1>3 DEF FanShaped, Fan!Wide, Fan!Slices

\* The parts are finite and share no passage, and what they return is theirs.
LEMMA PartsApart ==
    ASSUME FanShaped
    PROVE  /\ \A p \in 1 .. Fan!Parts :
                 /\ fan.parts[p] \in SUBSET Hit /\ IsFiniteSet(fan.parts[p])
                 /\ found[p] \in SUBSET fan.parts[p] /\ IsFiniteSet(found[p])
           /\ \A p, n \in 1 .. Fan!Parts : p # n => found[p] \cap found[n] = {}
<1>1. fan.parts \in Seq(SUBSET Hit) /\ DOMAIN fan.parts = 1 .. Fan!Parts
  BY FanSizes DEF FanShaped, Fan!Fan, Hit
<1>2. ASSUME NEW p \in 1 .. Fan!Parts
      PROVE  /\ fan.parts[p] \in SUBSET Hit /\ IsFiniteSet(fan.parts[p])
             /\ found[p] \in SUBSET fan.parts[p] /\ IsFiniteSet(found[p])
  <2>1. fan.parts[p] \in SUBSET Hit
    BY <1>1, ElementOfSeq, LenProperties
  <2>2. IsFiniteSet(fan.parts[p])
    <3>1. \A n \in DOMAIN fan.parts : Fan!IsFiniteSet(fan.parts[n])
      BY DEF FanShaped, Fan!Fan
    <3>2. \A X : Fan!IsFiniteSet(X) <=> IsFiniteSet(X)
      BY DEF Fan!IsFiniteSet, IsFiniteSet
    <3> QED
      BY <1>1, <3>1, <3>2
  <2>3. found[p] \in SUBSET fan.parts[p]
    BY DEF FanShaped, Fan!TopKs
  <2> QED
    BY <2>1, <2>2, <2>3, FS_Subset
<1>3. ASSUME NEW p \in 1 .. Fan!Parts, NEW n \in 1 .. Fan!Parts, p # n PROVE found[p] \cap found[n] = {}
  <2> SUFFICES ASSUME NEW x \in found[p], x \in found[n] PROVE FALSE
    OBVIOUS
  <2>1. x \in fan.parts[p] /\ x \in fan.parts[n]
    BY <1>2
  <2> QED
    BY <1>1, <1>3, <2>1 DEF FanShaped, Fan!Fan
<1> QED
  BY <1>2, <1>3

\* Every part is searched by one slice and by no other.
LEMMA SlicesCover ==
    ASSUME FanShaped
    PROVE  /\ \A p \in 1 .. Fan!Parts : \E s \in Fan!Slices : p \in Fan!Searched(s)
           /\ \A s \in Fan!Slices : Fan!Searched(s) \in SUBSET (1 .. Fan!Parts)
           /\ \A s, t \in Fan!Slices : s # t => Fan!Searched(s) \cap Fan!Searched(t) = {}
<1>1. Fan!Parts \in Nat \ {0} /\ Fan!Wide \in Nat \ {0} /\ Fan!Slices = 1 .. Fan!Wide
  BY FanSizes
<1>2. CASE Fan!Whole
  <2>1. \A s \in Fan!Slices : Fan!Searched(s) = IF s = 1 THEN 1 .. Fan!Parts ELSE {}
    BY <1>2 DEF Fan!Searched
  <2>2. 1 \in Fan!Slices
    BY <1>1
  <2> QED
    BY <2>1, <2>2
<1>3. CASE ~Fan!Whole
  <2> DEFINE P == Fan!Parts
             N == Fan!Wide
  <2>1. P \in Nat /\ N \in Nat \ {0}
    BY <1>1
  <2> DEFINE R(s) == ((s - 1) * P) \div N + 1 .. (s * P) \div N
  <2>2. \A s \in Fan!Slices : Fan!Searched(s) = R(s)
    BY <1>3 DEF Fan!Searched, Fan!Bounds
  <2>3. Fan!Slices = 1 .. N
    BY <1>1
  <2> HIDE DEF P, N
  <2>4. /\ \A p \in 1 .. P : \E s \in 1 .. N : p \in R(s)
        /\ \A s \in 1 .. N : R(s) \subseteq 1 .. P
        /\ \A s, t \in 1 .. N : s # t => R(s) \cap R(t) = {}
    BY <2>1, RunsCover
  <2> HIDE DEF R
  <2>5. \A p \in 1 .. P : \E s \in Fan!Slices : p \in Fan!Searched(s)
    BY <2>2, <2>3, <2>4
  <2>6. \A s \in Fan!Slices : Fan!Searched(s) \in SUBSET (1 .. P)
    BY <2>2, <2>3, <2>4
  <2>7. \A s, t \in Fan!Slices : s # t => Fan!Searched(s) \cap Fan!Searched(t) = {}
    BY <2>2, <2>3, <2>4
  <2> QED
    BY <2>5, <2>6, <2>7 DEF P
<1> QED
  BY <1>2, <1>3

\* What the slices are dealt is finite, apart, and everything that was found.
LEMMA DealtApart ==
    ASSUME FanShaped
    PROVE  /\ Found \in SUBSET Hit /\ IsFiniteSet(Found)
           /\ \A s \in Fan!Slices : Dealt(s) \in SUBSET Found /\ IsFiniteSet(Dealt(s))
           /\ \A x \in Found : \E s \in Fan!Slices : x \in Dealt(s)
           /\ \A s, t \in Fan!Slices : s # t => Dealt(s) \cap Dealt(t) = {}
<1> DEFINE P == 1 .. Fan!Parts
<1>1. DOMAIN found = P /\ \A p \in P : found[p] \in SUBSET Hit /\ IsFiniteSet(found[p])
  BY PartsApart DEF FanShaped
<1>2. Found \in SUBSET Hit
  BY <1>1 DEF Found
<1>3. IsFiniteSet(Found)
  <2> DEFINE n == Fan!Parts
  <2>1. n \in Nat /\ \A p \in 1 .. n : IsFiniteSet(found[p])
    BY <1>1, FanSizes
  <2>2. Found = UNION {found[p] : p \in 1 .. n}
    BY <1>1 DEF Found
  <2> HIDE DEF n
  <2> QED
    BY <2>1, <2>2, UnionFinite
<1>4. ASSUME NEW s \in Fan!Slices PROVE Dealt(s) \in SUBSET Found /\ IsFiniteSet(Dealt(s))
  <2>1. Fan!Searched(s) \in SUBSET P
    BY SlicesCover
  <2>2. Dealt(s) \in SUBSET Found
    BY <1>1, <2>1 DEF Dealt, Found
  <2> QED
    BY <1>3, <2>2, FS_Subset
<1>5. ASSUME NEW x \in Found PROVE \E s \in Fan!Slices : x \in Dealt(s)
  <2>1. PICK p \in P : x \in found[p]
    BY <1>1 DEF Found
  <2>2. PICK s \in Fan!Slices : p \in Fan!Searched(s)
    BY SlicesCover
  <2> QED
    BY <2>1, <2>2 DEF Dealt
<1>6. ASSUME NEW s \in Fan!Slices, NEW t \in Fan!Slices, s # t PROVE Dealt(s) \cap Dealt(t) = {}
  <2> SUFFICES ASSUME NEW x \in Dealt(s), x \in Dealt(t) PROVE FALSE
    OBVIOUS
  <2>1. PICK p \in Fan!Searched(s), n \in Fan!Searched(t) : x \in found[p] /\ x \in found[n]
    BY DEF Dealt
  <2>2. p \in P /\ n \in P /\ p # n
    BY <1>6, SlicesCover
  <2>3. found[p] \cap found[n] = {}
    BY <2>2, PartsApart
  <2> QED
    BY <2>1, <2>3
<1> QED
  BY <1>2, <1>3, <1>4, <1>5, <1>6

\* What may come back: a lost slice is said, or the hits are the best of all that
\* was found and score as the best of the cell.
FanRight(r) ==
    IF r.err THEN \E s \in broken : Fan!Searched(s) # {}
    ELSE /\ r.hits = FirstOf(Fan!Ranked(Found), FanTopK)
         /\ Fan!Scores(r.hits) = Fan!Scores(FirstOf(Fan!Ranked(Fan!Everything), FanTopK))

LEMMA TopIsFirst == \A list : Fan!Top(list) = FirstOf(list, FanTopK)
BY DEF Fan!Top, FirstOf

LEMMA RightIsFree == Fan!SliceFree <=> (result # <<>> => FanRight(result[1]))
BY TopIsFirst DEF Fan!SliceFree, FanRight, Found

\* The best of what was found score as the best of the cell.
LEMMA FoundScores ==
    ASSUME FanShaped
    PROVE  Fan!Scores(FirstOf(Fan!Ranked(Found), FanTopK))
              = Fan!Scores(FirstOf(Fan!Ranked(Fan!Everything), FanTopK))
<1> DEFINE P == 1 .. Fan!Parts
           E == Fan!Everything
           F == Found
           s == Fan!Ranked(F)
           e == Fan!Ranked(E)
<1>1. \A p \in P : fan.parts[p] \in SUBSET Hit /\ IsFiniteSet(fan.parts[p]) /\ found[p] \in Fan!TopKs(fan.parts[p])
  BY PartsApart DEF FanShaped
<1>2. E = UNION {fan.parts[p] : p \in P} /\ F = UNION {found[p] : p \in P}
  BY FanSizes DEF FanShaped, Fan!Everything, Found
<1>3. E \in SUBSET Hit /\ IsFiniteSet(E)
  <2>1. Fan!Parts \in Nat
    BY FanSizes
  <2>2. IsFiniteSet(UNION {fan.parts[p] : p \in P})
    <3> DEFINE n == Fan!Parts
               f == fan.parts
    <3>1. n \in Nat /\ \A p \in 1 .. n : IsFiniteSet(f[p])
      BY <1>1, <2>1
    <3> HIDE DEF n, f
    <3>2. IsFiniteSet(UNION {f[p] : p \in 1 .. n})
      BY <3>1, UnionFinite
    <3> QED
      BY <3>2 DEF n, f
  <2> QED
    BY <1>1, <1>2, <2>2
<1>4. F \in SUBSET Hit /\ IsFiniteSet(F)
  BY DealtApart
<1>5. FanTopK \in Nat
  BY PiecesAssumption
<1>6. Sorts(BestFirst, s, F) /\ Sorts(BestFirst, e, E)
  <2> HIDE DEF E, F
  <2> QED
    BY <1>3, <1>4, FanRanks
<1> HIDE DEF s, e
<1> DEFINE u == FirstOf(s, FanTopK)
           v == FirstOf(e, FanTopK)
<1>7. Len(u) = Len(v) /\ \A i \in 1 .. Len(u) : u[i].score = v[i].score
  <2>1. BestOf(P, fan.parts, found) /\ E = Together(P, fan.parts) /\ F = Together(P, found)
    BY <1>1, <1>2 DEF BestOf, Together
  <2> HIDE DEF E, F, P
  <2> QED
    BY <1>6, <2>1, ScoresSame
<1>8. u \in Seq(F) /\ v \in Seq(E)
  <2>1. s \in Seq(F) /\ e \in Seq(E)
    BY <1>6 DEF Sorts
  <2> HIDE DEF E, F
  <2> QED
    BY <1>5, <2>1, FirstIs
<1>9. DOMAIN u = 1 .. Len(u) /\ DOMAIN v = 1 .. Len(u)
  <2> HIDE DEF E, F, u, v
  <2> QED
    BY <1>7, <1>8, LenProperties
<1> HIDE DEF u, v
<1>10. Fan!Scores(u) = Fan!Scores(v)
  BY <1>7, <1>9 DEF Fan!Scores
<1> QED
  BY <1>10 DEF u, v, s, e

\* The replies merged, as the parent merges them.
Merged ==
    IF Fan!Wide = 1 THEN reply[1]
    ELSE <<[hits |-> Fan!Cut(Fan!FlattenSeq([s \in Fan!Slices |-> reply[s][1].hits])), err |-> Fan!AnyError]>>

LEMMA OneSlice ==
    ASSUME FanShaped, FanReplied, reply[1] # <<>>, Fan!Wide = 1
    PROVE  FanRight(reply[1][1])
<1>1. Fan!Slices = {1}
  BY FanSizes
<1>2. Dealt(1) = Found
  BY <1>1, DealtApart
<1>3. IF reply[1][1].err THEN 1 \in broken /\ Fan!Searched(1) # {}
      ELSE reply[1][1].hits = FirstOf(Fan!Ranked(Found), FanTopK)
  BY <1>1, <1>2 DEF FanReplied
<1> QED
  BY <1>3, FoundScores DEF FanRight

LEMMA MergedHits ==
    ASSUME FanShaped, FanReplied, \A s \in Fan!Slices : reply[s] # <<>> /\ ~reply[s][1].err
    PROVE  Fan!Cut(Fan!FlattenSeq([s \in Fan!Slices |-> reply[s][1].hits])) = FirstOf(Fan!Ranked(Found), FanTopK)
<1> DEFINE D == Fan!Slices
           U == [s \in D |-> Fan!Ranked(Dealt(s))]
           G == [s \in D |-> FirstOf(U[s], FanTopK)]
           flat == FlattenSeq(G)
           T == UNION {Range(G[s]) : s \in D}
           F == Found
           len == Fan!Wide
<1>1. FanTopK \in Nat /\ len \in Nat /\ D = 1 .. len
  BY FanSizes, PiecesAssumption
<1>2. [s \in D |-> reply[s][1].hits] = G
  BY DEF FanReplied
<1>3. Fan!FlattenSeq(G) = flat
  BY DEF Fan!FlattenSeq, FlattenSeq
<1>4. ASSUME NEW s \in D
      PROVE  /\ Dealt(s) \in SUBSET F /\ Dealt(s) \in SUBSET Hit /\ Sorts(BestFirst, U[s], Dealt(s))
             /\ U[s] \in Seq(Dealt(s)) /\ IsInjective(U[s])
  <2>1. Dealt(s) \in SUBSET F /\ F \in SUBSET Hit /\ IsFiniteSet(Dealt(s))
    BY DealtApart
  <2>2. Sorts(BestFirst, Fan!Ranked(Dealt(s)), Dealt(s))
    <3> DEFINE X == Dealt(s)
    <3>1. X \in SUBSET Hit /\ IsFiniteSet(X)
      BY <2>1
    <3> HIDE DEF X
    <3>2. Sorts(BestFirst, Fan!Ranked(X), X)
      BY <3>1, FanRanks
    <3> QED
      BY <3>2 DEF X
  <2>3. U[s] = Fan!Ranked(Dealt(s))
    OBVIOUS
  <2> HIDE DEF U
  <2>4. Sorts(BestFirst, U[s], Dealt(s))
    BY <2>2, <2>3
  <2> QED
    BY <2>1, <2>4, BestFirstOrders, SortedOnce
<1>5. ASSUME NEW s \in D
      PROVE  /\ G[s] \in Seq(Hit) /\ IsInjective(G[s]) /\ Range(G[s]) \in SUBSET Dealt(s)
             /\ \A i \in 1 .. Len(G[s]) : G[s][i] \in Range(G[s])
  <2> DEFINE X == Dealt(s)
             a == U[s]
             b == G[s]
  <2>1. a \in Seq(X) /\ IsInjective(a) /\ X \in SUBSET Hit
    BY <1>4
  <2>2. b = FirstOf(a, FanTopK)
    OBVIOUS
  <2> HIDE DEF X, a, b
  <2>3. b \in Seq(X) /\ \A i \in 1 .. Len(b) : b[i] = a[i] /\ i \in 1 .. Len(a)
    BY <1>1, <2>1, <2>2, FirstIs
  <2>4. DOMAIN b = 1 .. Len(b) /\ DOMAIN a = 1 .. Len(a) /\ \A i \in 1 .. Len(b) : b[i] \in X
    BY <2>1, <2>3, LenProperties, ElementOfSeq
  <2>5. IsInjective(b)
    BY <2>1, <2>3, <2>4 DEF IsInjective
  <2>6. Range(b) \in SUBSET X /\ \A i \in 1 .. Len(b) : b[i] \in Range(b)
    BY <2>4 DEF Range
  <2>7. b \in Seq(Hit)
    BY <2>1, <2>3
  <2> QED
    BY <2>5, <2>6, <2>7 DEF X, b
<1>6. \A s, t \in D : s # t => Range(G[s]) \cap Range(G[t]) = {}
  <2> SUFFICES ASSUME NEW s \in D, NEW t \in D, s # t PROVE Range(G[s]) \cap Range(G[t]) = {}
    OBVIOUS
  <2>1. Dealt(s) \cap Dealt(t) = {}
    BY DealtApart
  <2>2. Range(G[s]) \in SUBSET Dealt(s) /\ Range(G[t]) \in SUBSET Dealt(t)
    BY <1>5
  <2> HIDE DEF G
  <2> QED
    BY <2>1, <2>2
<1>7. flat \in Seq(Hit) /\ IsInjective(flat) /\ Range(flat) = T
  <2>1. G = [s \in 1 .. len |-> G[s]]
    BY <1>1
  <2> HIDE DEF G, D, len
  <2>2. OnceEach(Hit, G, len)
    BY <1>1, <1>5, <1>6 DEF OnceEach
  <2> DEFINE H == [s \in 1 .. len |-> G[s]]
  <2>3. FlattenSeq(H) \in Seq(Hit) /\ IsInjective(FlattenSeq(H)) /\ Range(FlattenSeq(H)) = UNION {Range(G[s]) : s \in 1 .. len}
    BY <1>1, <2>2, FlatOnce
  <2>4. H = G
    BY <2>1
  <2> HIDE DEF H
  <2> QED
    BY <1>1, <2>3, <2>4
<1>8. T \in SUBSET F
  <2>1. \A s \in D : Range(G[s]) \in SUBSET F
    <3> SUFFICES ASSUME NEW s \in D PROVE Range(G[s]) \in SUBSET F
      OBVIOUS
    <3>1. Range(G[s]) \in SUBSET Dealt(s) /\ Dealt(s) \in SUBSET F
      BY <1>4, <1>5
    <3> HIDE DEF G, D, F
    <3> QED
      BY <3>1
  <2> HIDE DEF G, D, F
  <2> QED
    BY <2>1
<1> DEFINE r == Fan!Ranked(F)
           t == Fan!Sorted(flat)
<1>9. Sorts(BestFirst, r, F)
  <2>1. F \in SUBSET Hit /\ IsFiniteSet(F)
    BY DealtApart
  <2> HIDE DEF F
  <2> QED
    BY <2>1, FanRanks
<1>10. Sorts(BestFirst, t, T)
  <2> HIDE DEF flat, T
  <2>1. Sorts(BestFirst, Fan!Sorted(flat), Range(flat))
    BY <1>7, FanSorts
  <2> QED
    BY <1>7, <2>1
<1>11. \A x \in F : \E s \in D : x \in Dealt(s)
  BY DealtApart
<1>12. \A s \in D : \A i \in 1 .. Len(FirstOf(U[s], FanTopK)) : FirstOf(U[s], FanTopK)[i] \in T
  <2> SUFFICES ASSUME NEW s \in D, NEW i \in 1 .. Len(FirstOf(U[s], FanTopK)) PROVE FirstOf(U[s], FanTopK)[i] \in T
    OBVIOUS
  <2>1. G[s] = FirstOf(U[s], FanTopK)
    OBVIOUS
  <2> HIDE DEF U, G, D
  <2>2. i \in 1 .. Len(G[s])
    BY <2>1
  <2>3. G[s][i] \in Range(G[s])
    BY <1>5, <2>2
  <2> QED
    BY <2>1, <2>3
<1>13. \A i \in 1 .. Len(r) : i <= FanTopK => r[i] \in T
  <2> DEFINE B == [s \in D |-> Dealt(s)]
  <2>1. \A s \in D : B[s] \in SUBSET F /\ Sorts(BestFirst, U[s], B[s])
    BY <1>4
  <2>2. SortedParts(BestFirst, F, D, B, U)
    BY <1>11, <2>1 DEF SortedParts
  <2>3. HoldsTops(T, D, U, FanTopK)
    BY <1>12 DEF HoldsTops
  <2> HIDE DEF B, U, G, D, F, T, r
  <2> QED
    BY <1>1, <1>9, <2>2, <2>3, BestFirstOrders, TopsHold
<1>14. FirstOf(t, FanTopK) = FirstOf(r, FanTopK)
  <2> HIDE DEF F, T, r, t
  <2> QED
    BY <1>1, <1>8, <1>9, <1>10, <1>13, BestFirstOrders, FirstsSame
<1>15. Fan!Cut(flat) = FirstOf(t, FanTopK)
  BY TopIsFirst DEF Fan!Cut
<1> HIDE DEF G, flat, t, r
<1>16. Fan!Cut(Fan!FlattenSeq([s \in Fan!Slices |-> reply[s][1].hits])) = Fan!Cut(flat)
  BY <1>2, <1>3
<1> QED
  BY <1>14, <1>15, <1>16 DEF r

LEMMA ManySlices ==
    ASSUME FanShaped, FanReplied, \A s \in Fan!Slices : reply[s] # <<>>,
           NEW r, r = [hits |-> Fan!Cut(Fan!FlattenSeq([s \in Fan!Slices |-> reply[s][1].hits])), err |-> Fan!AnyError]
    PROVE  FanRight(r)
<1>1. CASE Fan!AnyError
  <2>1. PICK s \in Fan!Slices : reply[s][1].err
    BY <1>1 DEF Fan!AnyError
  <2>2. s \in broken /\ Fan!Searched(s) # {}
    BY <2>1 DEF FanReplied
  <2> QED
    BY <1>1, <2>2 DEF FanRight
<1>2. CASE ~Fan!AnyError
  <2>1. \A s \in Fan!Slices : reply[s] # <<>> /\ ~reply[s][1].err
    BY <1>2 DEF Fan!AnyError
  <2>2. r.hits = FirstOf(Fan!Ranked(Found), FanTopK) /\ ~r.err
    BY <1>2, <2>1, MergedHits
  <2> QED
    BY <2>2, FoundScores DEF FanRight
<1> QED
  BY <1>1, <1>2

LEMMA MergedRight ==
    ASSUME FanShaped, FanReplied, \A s \in Fan!Slices : reply[s] # <<>>
    PROVE  FanRight(Merged[1])
<1>1. CASE Fan!Wide = 1
  <2>1. 1 \in Fan!Slices
    BY FanSizes
  <2> QED
    BY <1>1, <2>1, OneSlice DEF Merged
<1>2. CASE Fan!Wide # 1
  <2> DEFINE r == [hits |-> Fan!Cut(Fan!FlattenSeq([s \in Fan!Slices |-> reply[s][1].hits])), err |-> Fan!AnyError]
  <2>1. FanRight(r)
    <3>1. r = [hits |-> Fan!Cut(Fan!FlattenSeq([s \in Fan!Slices |-> reply[s][1].hits])), err |-> Fan!AnyError]
      OBVIOUS
    <3> HIDE DEF r
    <3> QED
      BY <3>1, ManySlices
  <2>2. Merged = <<r>>
    BY <1>2 DEF Merged
  <2> HIDE DEF r
  <2> QED
    BY <2>1, <2>2
<1> QED
  BY <1>1, <1>2

-----------------------------------------------------------------------------
(* The steps of a leg.                                                        *)

LEMMA FanInitial == MCInit => FanInv
<1> SUFFICES ASSUME MCInit, machine = "fan" PROVE FanShaped /\ FanListed /\ FanReplied /\ Fan!SliceFree
  BY DEF FanInv
<1>1. Fan!Init
  BY DEF MCInit
<1>2. Fan!Fan(fan) /\ width \in Nat \ {0}
  BY <1>1, PiecesAssumption DEF Fan!Init
<1>3. DOMAIN fan.parts = 1 .. Fan!Parts
  <2>1. fan.parts \in Seq(SUBSET Hit)
    BY <1>2 DEF Fan!Fan, Hit
  <2> QED
    BY <2>1, LenProperties DEF Fan!Parts
<1>4. DOMAIN found = 1 .. Fan!Parts
  <2> DEFINE D == DOMAIN fan.parts
             R == UNION {Fan!TopKs(fan.parts[p]) : p \in DOMAIN fan.parts}
  <2>1. found \in [D -> R]
    BY <1>1 DEF Fan!Init
  <2> HIDE DEF D, R
  <2>2. DOMAIN found = D
    BY <2>1
  <2> QED
    BY <1>3, <2>2 DEF D
<1>5. \A p \in 1 .. Fan!Parts : found[p] \in Fan!TopKs(fan.parts[p])
  BY <1>1, <1>3 DEF Fan!Init
<1>6. /\ hits = [s \in Fan!Slices |-> [at |-> 0, list |-> <<>>]]
      /\ reply = [s \in Fan!Slices |-> <<>>] /\ result = <<>>
  BY <1>1 DEF Fan!Init
<1>7. FanShaped
  <2>1. [at |-> 0, list |-> <<>>] \in [at : Nat, list : Seq(Hit)]
    OBVIOUS
  <2> QED
    BY <1>2, <1>4, <1>5, <1>6, <2>1 DEF FanShaped
<1>8. ASSUME NEW s \in Fan!Slices PROVE IsInjective(hits[s].list) /\ Range(hits[s].list) = Walked(s)
  <2>1. hits[s].at = 0 /\ hits[s].list = <<>>
    BY <1>6
  <2>2. Fan!Searched(s) \in SUBSET (1 .. Fan!Parts)
    BY <1>7, SlicesCover
  <2>3. Walked(s) = {}
    BY <2>1, <2>2 DEF Walked
  <2> QED
    BY <2>1, <2>3 DEF IsInjective, Range
<1> QED
  BY <1>6, <1>7, <1>8 DEF FanListed, FanReplied, Fan!SliceFree

LEMMA FanStays ==
    ASSUME fan' = fan, width' = width, found' = found
    PROVE  /\ Fan!Parts' = Fan!Parts /\ Fan!Wide' = Fan!Wide /\ Fan!Slices' = Fan!Slices
           /\ \A s : Fan!Searched(s)' = Fan!Searched(s) /\ Dealt(s)' = Dealt(s)
           /\ Found' = Found /\ Fan!Everything' = Fan!Everything
<1>1. Fan!Parts' = Fan!Parts /\ Fan!Wide' = Fan!Wide
  BY DEF Fan!Parts, Fan!Wide
<1>2. \A s : Fan!Searched(s)' = Fan!Searched(s)
  BY <1>1, Zenon DEF Fan!Searched, Fan!Whole, Fan!Bounds
<1> QED
  BY <1>1, <1>2, Zenon DEF Fan!Slices, Dealt, Found, Fan!Everything

\* What a slice has does not change while nothing writes its hits.
LEMMA WalkedStays ==
    ASSUME fan' = fan, width' = width, found' = found, NEW s, hits'[s] = hits[s]
    PROVE  Walked(s)' = Walked(s)
<1>1. Fan!Searched(s)' = Fan!Searched(s)
  BY FanStays
<1> QED
  BY <1>1, Zenon DEF Walked

LEMMA RightStays ==
    ASSUME fan' = fan, width' = width, found' = found, broken' = broken, result' = result, Fan!SliceFree
    PROVE  Fan!SliceFree'
<1>1. Fan!SliceFree <=> (result # <<>> => FanRight(result[1]))
  BY RightIsFree
<1>2. (Fan!SliceFree <=> (result # <<>> => FanRight(result[1])))'
  BY RightIsFree, PTL
<1>3. Found' = Found /\ Fan!Everything' = Fan!Everything /\ \A s : Fan!Searched(s)' = Fan!Searched(s)
  BY FanStays
<1>4. FanRight(result[1]) => FanRight(result[1])'
  BY <1>3 DEF FanRight
<1> QED
  BY <1>1, <1>2, <1>4

LEMMA SearchStep ==
    ASSUME FanShaped, FanListed, FanReplied, Fan!SliceFree, NEW s \in Fan!Slices, Fan!SearchPart(s)
    PROVE  (FanShaped /\ FanListed /\ FanReplied /\ Fan!SliceFree)'
<1>1. PICK p \in Fan!Searched(s) :
         /\ p > hits[s].at /\ \A n \in Fan!Searched(s) : n > hits[s].at => p <= n
         /\ hits' = [hits EXCEPT ![s] = [at |-> p, list |-> hits[s].list \o Fan!Ranked(found[p])]]
  BY DEF Fan!SearchPart
<1>2. /\ fan' = fan /\ width' = width /\ found' = found /\ broken' = broken
      /\ reply' = reply /\ result' = result
  BY DEF Fan!SearchPart, Fan!scenario
<1>3. p \in 1 .. Fan!Parts /\ Fan!Searched(s) \in SUBSET (1 .. Fan!Parts)
  BY SlicesCover
<1> DEFINE old == hits[s].list
           more == Fan!Ranked(found[p])
           start == hits[s].at
<1>4. start \in Nat /\ old \in Seq(Hit) /\ IsInjective(old) /\ Range(old) = Walked(s)
  BY DEF FanShaped, FanListed
<1>5. found[p] \in SUBSET Hit /\ IsFiniteSet(found[p])
  BY <1>3, PartsApart
<1>6. more \in Seq(Hit) /\ IsInjective(more) /\ Range(more) = found[p]
  <2> DEFINE X == found[p]
  <2>1. X \in SUBSET Hit /\ IsFiniteSet(X)
    BY <1>5
  <2> HIDE DEF X
  <2>2. Sorts(BestFirst, Fan!Ranked(X), X)
    BY <2>1, FanRanks
  <2>3. Fan!Ranked(X) \in Seq(X) /\ IsInjective(Fan!Ranked(X)) /\ Range(Fan!Ranked(X)) = X
    BY <2>2, BestFirstOrders, SortedOnce
  <2>4. Fan!Ranked(X) \in Seq(Hit)
    BY <2>1, <2>3
  <2> QED
    BY <2>3, <2>4 DEF X
<1>7. Walked(s) \cap found[p] = {}
  <2> SUFFICES ASSUME NEW x \in Walked(s), x \in found[p] PROVE FALSE
    OBVIOUS
  <2>1. PICK n \in Fan!Searched(s) : n <= start /\ x \in found[n]
    BY DEF Walked
  <2>2. n \in 1 .. Fan!Parts /\ n # p
    BY <1>1, <1>3, <1>4, <2>1
  <2> QED
    BY <1>3, <2>1, <2>2, PartsApart
<1>8. {n \in Fan!Searched(s) : n <= p} = {n \in Fan!Searched(s) : n <= start} \cup {p}
  <2>1. \A n \in Fan!Searched(s) : n \in Int /\ p \in Int /\ start \in Int
    BY <1>3, <1>4
  <2> HIDE DEF start
  <2>2. \A n \in Fan!Searched(s) : n <= p <=> (n <= start \/ n = p)
    BY <1>1, <2>1 DEF start
  <2> QED
    BY <2>2
<1> HIDE DEF old, more, start
<1>9. old \o more \in Seq(Hit) /\ IsInjective(old \o more) /\ Range(old \o more) = Walked(s) \cup found[p]
  BY <1>4, <1>6, <1>7, ConcatOnce
<1>10. hits' = [hits EXCEPT ![s] = [at |-> p, list |-> old \o more]]
  BY <1>1 DEF old, more
<1>11. hits'[s] = [at |-> p, list |-> old \o more] /\ \A t \in Fan!Slices : t # s => hits'[t] = hits[t]
  BY <1>10 DEF FanShaped
<1>12. Fan!Slices' = Fan!Slices /\ Fan!Parts' = Fan!Parts
  BY <1>2, FanStays
<1>13. FanShaped'
  <2>1. hits' \in [Fan!Slices -> [at : Nat, list : Seq(Hit)]]
    <3>1. [at |-> p, list |-> old \o more] \in [at : Nat, list : Seq(Hit)]
      BY <1>3, <1>9
    <3> QED
      BY <1>10, <3>1 DEF FanShaped
  <2> QED
    BY <1>2, <1>12, <2>1 DEF FanShaped
<1>14. FanListed'
  <2> SUFFICES ASSUME NEW t \in Fan!Slices
               PROVE  IsInjective(hits'[t].list) /\ Range(hits'[t].list) = Walked(t)'
    BY <1>12 DEF FanListed
  <2>1. CASE t # s
    <3>1. hits'[t] = hits[t]
      BY <1>11, <2>1
    <3>2. Walked(t)' = Walked(t)
      BY <1>2, <3>1, WalkedStays
    <3> QED
      BY <3>1, <3>2 DEF FanListed
  <2>2. CASE t = s
    <3>1. hits'[s].at = p /\ hits'[s].list = old \o more
      BY <1>11
    <3>2. Walked(s)' = UNION {found[m] : m \in {n \in Fan!Searched(s) : n <= p}}
      <4>1. Fan!Searched(s)' = Fan!Searched(s)
        BY <1>2, FanStays
      <4> QED
        BY <1>2, <3>1, <4>1, Zenon DEF Walked
    <3>3. Walked(s)' = Walked(s) \cup found[p]
      BY <1>8, <3>2 DEF Walked, start
    <3> QED
      BY <1>9, <2>2, <3>1, <3>3
  <2> QED
    BY <2>1, <2>2
<1>15. FanReplied'
  <2> SUFFICES ASSUME NEW t \in Fan!Slices, reply[t] # <<>>
               PROVE  IF reply[t][1].err THEN t \in broken /\ Fan!Searched(t)' # {}
                      ELSE reply[t][1].hits = FirstOf(Fan!Ranked(Dealt(t)'), FanTopK)
    BY <1>2, <1>12 DEF FanReplied
  <2>1. Fan!Searched(t)' = Fan!Searched(t) /\ Dealt(t)' = Dealt(t)
    BY <1>2, FanStays
  <2> QED
    BY <2>1 DEF FanReplied
<1>16. Fan!SliceFree'
  BY <1>2, RightStays
<1> QED
  BY <1>13, <1>14, <1>15, <1>16

LEMMA ReplyStep ==
    ASSUME FanShaped, FanListed, FanReplied, Fan!SliceFree, NEW s \in Fan!Slices, Fan!Reply(s)
    PROVE  (FanShaped /\ FanListed /\ FanReplied /\ Fan!SliceFree)'
<1> DEFINE lost == s \in broken /\ Fan!Searched(s) # {}
<1>1. PICK r : /\ reply' = [reply EXCEPT ![s] = <<r>>]
               /\ r = IF lost THEN [hits |-> <<>>, err |-> TRUE]
                      ELSE [hits |-> Fan!Cut(hits[s].list), err |-> FALSE]
  BY DEF Fan!Reply
<1>2. /\ fan' = fan /\ width' = width /\ found' = found /\ broken' = broken
      /\ hits' = hits /\ result' = result
  BY DEF Fan!Reply, Fan!scenario
<1>3. \A p \in Fan!Searched(s) : p <= hits[s].at
  BY DEF Fan!Reply
<1>4. Walked(s) = Dealt(s)
  BY <1>3 DEF Walked, Dealt
<1> DEFINE list == hits[s].list
           X == Dealt(s)
<1>5. list \in Seq(Hit) /\ IsInjective(list) /\ Range(list) = X
  BY <1>4 DEF FanShaped, FanListed
<1>6. X \in SUBSET Hit /\ IsFiniteSet(X) /\ FanTopK \in Nat
  BY DealtApart, PiecesAssumption
<1> HIDE DEF list, X
<1>7. Fan!Sorted(list) = Fan!Ranked(X)
  <2> DEFINE t == Fan!Sorted(list)
             u == Fan!Ranked(X)
  <2>1. Sorts(BestFirst, t, X) /\ Sorts(BestFirst, u, X)
    BY <1>5, <1>6, FanSorts, FanRanks
  <2> HIDE DEF t, u
  <2>2. t = u
    BY <2>1, BestFirstOrders, SortsUnique
  <2> QED
    BY <2>2 DEF t, u
<1>8. Fan!Cut(list) = FirstOf(Fan!Ranked(X), FanTopK)
  BY <1>7, TopIsFirst DEF Fan!Cut
<1>9. Fan!Cut(list) \in Seq(Hit)
  <2> DEFINE u == Fan!Ranked(X)
  <2>1. u \in Seq(X)
    BY <1>6, FanRanks DEF Sorts
  <2> HIDE DEF u
  <2>2. FirstOf(u, FanTopK) \in Seq(X)
    BY <1>6, <2>1, FirstIs
  <2>3. FirstOf(u, FanTopK) \in Seq(Hit)
    BY <1>6, <2>2
  <2> QED
    BY <1>8, <2>3 DEF u
<1>10. r \in [hits : Seq(Hit), err : BOOLEAN]
  <2>1. <<>> \in Seq(Hit)
    OBVIOUS
  <2> QED
    BY <1>1, <1>9, <2>1 DEF list
<1>11. IF r.err THEN lost ELSE r.hits = FirstOf(Fan!Ranked(X), FanTopK)
  BY <1>1, <1>8 DEF list
<1>12. Fan!Slices' = Fan!Slices /\ Fan!Parts' = Fan!Parts
  BY <1>2, FanStays
<1>13. reply'[s] = <<r>> /\ \A t \in Fan!Slices : t # s => reply'[t] = reply[t]
  BY <1>1 DEF FanShaped
<1> HIDE DEF lost
<1>14. FanShaped'
  <2>1. reply' \in [Fan!Slices -> {<<>>} \cup {<<m>> : m \in [hits : Seq(Hit), err : BOOLEAN]}]
    BY <1>1, <1>10 DEF FanShaped
  <2> QED
    BY <1>2, <1>12, <2>1 DEF FanShaped
<1>15. FanListed'
  <2> SUFFICES ASSUME NEW t \in Fan!Slices
               PROVE  IsInjective(hits[t].list) /\ Range(hits[t].list) = Walked(t)'
    BY <1>2, <1>12 DEF FanListed
  <2>1. Walked(t)' = Walked(t)
    BY <1>2, WalkedStays
  <2> QED
    BY <2>1 DEF FanListed
<1>16. FanReplied'
  <2> SUFFICES ASSUME NEW t \in Fan!Slices, reply'[t] # <<>>
               PROVE  IF reply'[t][1].err THEN t \in broken /\ Fan!Searched(t)' # {}
                      ELSE reply'[t][1].hits = FirstOf(Fan!Ranked(Dealt(t)'), FanTopK)
    BY <1>2, <1>12 DEF FanReplied
  <2>1. Fan!Searched(t)' = Fan!Searched(t) /\ Dealt(t)' = Dealt(t)
    BY <1>2, FanStays
  <2>2. CASE t # s
    BY <1>13, <2>1, <2>2 DEF FanReplied
  <2>3. CASE t = s
    <3>1. reply'[t][1] = r
      BY <1>13, <2>3
    <3> QED
      BY <1>11, <2>1, <2>3, <3>1 DEF lost, X
  <2> QED
    BY <2>2, <2>3
<1>17. Fan!SliceFree'
  BY <1>2, RightStays
<1> QED
  BY <1>14, <1>15, <1>16, <1>17

LEMMA GatherStep ==
    ASSUME FanShaped, FanListed, FanReplied, Fan!SliceFree, Fan!Gather
    PROVE  (FanShaped /\ FanListed /\ FanReplied /\ Fan!SliceFree)'
<1>1. /\ fan' = fan /\ width' = width /\ found' = found /\ broken' = broken
      /\ hits' = hits /\ reply' = reply
  BY DEF Fan!Gather, Fan!scenario
<1>2. result' = Merged /\ \A s \in Fan!Slices : reply[s] # <<>>
  BY DEF Fan!Gather, Merged
<1>3. FanRight(Merged[1])
  BY <1>2, MergedRight
<1>4. Fan!Slices' = Fan!Slices /\ Fan!Parts' = Fan!Parts
  BY <1>1, FanStays
<1>5. FanShaped'
  BY <1>1, <1>4 DEF FanShaped
<1>6. FanListed'
  <2> SUFFICES ASSUME NEW t \in Fan!Slices
               PROVE  IsInjective(hits[t].list) /\ Range(hits[t].list) = Walked(t)'
    BY <1>1, <1>4 DEF FanListed
  <2>1. Walked(t)' = Walked(t)
    BY <1>1, WalkedStays
  <2> QED
    BY <2>1 DEF FanListed
<1>7. FanReplied'
  <2> SUFFICES ASSUME NEW t \in Fan!Slices, reply[t] # <<>>
               PROVE  IF reply[t][1].err THEN t \in broken /\ Fan!Searched(t)' # {}
                      ELSE reply[t][1].hits = FirstOf(Fan!Ranked(Dealt(t)'), FanTopK)
    BY <1>1, <1>4 DEF FanReplied
  <2>1. Fan!Searched(t)' = Fan!Searched(t) /\ Dealt(t)' = Dealt(t)
    BY <1>1, FanStays
  <2> QED
    BY <2>1 DEF FanReplied
<1>8. Fan!SliceFree'
  <2>1. (Fan!SliceFree <=> (result # <<>> => FanRight(result[1])))'
    BY RightIsFree, PTL
  <2>2. Found' = Found /\ Fan!Everything' = Fan!Everything /\ \A s : Fan!Searched(s)' = Fan!Searched(s)
    BY <1>1, FanStays
  <2>3. PICK r : r = Merged[1]
    OBVIOUS
  <2>4. FanRight(r)
    BY <1>3, <2>3
  <2>5. FanRight(r)'
    BY <1>1, <2>2, <2>4 DEF FanRight
  <2>6. (FanRight(result[1]))'
    BY <1>2, <2>3, <2>5 DEF FanRight
  <2> QED
    BY <2>1, <2>6
<1> QED
  BY <1>5, <1>6, <1>7, <1>8

LEMMA FanInductive == FanInv /\ [machine' = machine /\ Fan!Next]_<<machine, fanVars>> => FanInv'
<1> SUFFICES ASSUME FanInv, [machine' = machine /\ Fan!Next]_<<machine, fanVars>>, machine' = "fan"
             PROVE  (FanShaped /\ FanListed /\ FanReplied /\ Fan!SliceFree)'
  BY DEF FanInv
<1>1. FanShaped /\ FanListed /\ FanReplied /\ Fan!SliceFree
  BY DEF FanInv
<1>2. CASE UNCHANGED <<machine, fanVars>>
  <2>1. /\ fan' = fan /\ width' = width /\ found' = found /\ broken' = broken
        /\ hits' = hits /\ reply' = reply /\ result' = result
    BY <1>2 DEF fanVars
  <2>2. Fan!Slices' = Fan!Slices /\ Fan!Parts' = Fan!Parts
    BY <2>1, FanStays
  <2>3. \A t : Fan!Searched(t)' = Fan!Searched(t) /\ Dealt(t)' = Dealt(t)
    BY <2>1, FanStays
  <2>4. \A t : Walked(t)' = Walked(t)
    BY <2>1, WalkedStays
  <2>5. FanShaped'
    BY <1>1, <2>1, <2>2 DEF FanShaped
  <2>6. FanListed'
    BY <1>1, <2>1, <2>2, <2>4 DEF FanListed
  <2>7. FanReplied'
    BY <1>1, <2>1, <2>2, <2>3 DEF FanReplied
  <2>8. Fan!SliceFree'
    BY <1>1, <2>1, RightStays
  <2> QED
    BY <2>5, <2>6, <2>7, <2>8
<1>3. CASE Fan!Next
  BY <1>1, <1>3, SearchStep, ReplyStep, GatherStep DEF Fan!Next
<1> QED
  BY <1>2, <1>3

\* A leg searched in slices is the leg searched whole: its scores are those of the k
\* best of the cell, and a leg that lost a slice says so, however many parts there
\* are, however they are sliced, and whatever ties (CellPool, _cell_loop, merge_slices).
THEOREM SlicingIsFree == MCSpec => []SliceFree
<1>1. [MCNext]_allVars => [machine' = machine /\ Fan!Next]_<<machine, fanVars>>
  BY DEF MCNext, BankRuns, QueueRuns, LaneRuns, FanRuns, StackRuns, RankRuns, TopicRuns, LoopRuns,
         SubmitRuns, allVars, fanVars
<1>2. FanInv => SliceFree
  BY DEF FanInv, SliceFree
<1> QED
  BY FanInitial, FanInductive, <1>1, <1>2, PTL DEF MCSpec, allVars
-----------------------------------------------------------------------------
(* Ranking: a search answers as one thread would have.                        *)

\* The n-th list a search asks for, and the answer of one thread.
Asked(n)  == Search!Pool(Search!Unit(n), Search!Depth)
Askable   == {Asked(n) : n \in Nat}
OneThread == IF Search!Queries = <<>> THEN <<>> ELSE Search!Top(Search!Reference, search.topk)

\* What threads bring back is what was asked for, and it is collected in order;
\* no search gets that far without its strings and its legs.
RankShaped ==
    /\ search \in RankInputs
    /\ unit \in Nat /\ hands \subseteq Nat \ {0}
    /\ DOMAIN lists \subseteq Nat \ {0} /\ pools \in Seq(Askable)
RankFetched ==
    /\ \A n \in DOMAIN lists : lists[n] = Asked(n)
    /\ \A n \in 1 .. Len(pools) : pools[n] = Asked(n)
RankGated ==
    /\ rpc \in {"fan", "remote"} => Search!Queries # <<>>
    /\ rpc = "fan" => search.lost = {}
    /\ rpc # "answered" => ranked = <<>>
RankRight ==
    rpc = "answered" /\ search.topk <= search.depth =>
        /\ ranked = OneThread
        /\ Search!Queries # <<>> => search.lost = {}
RankInv == machine = "rank" => RankShaped /\ RankFetched /\ RankGated /\ RankRight

LEMMA RightIsWidthFree == RankRight <=> Search!WidthFree
BY DEF RankRight, Search!WidthFree, OneThread

\* All of it is a function of the search.
LEMMA RankStays ==
    ASSUME search' = search
    PROVE  /\ Search!Queries' = Search!Queries /\ Search!Units' = Search!Units
           /\ \A n : Asked(n)' = Asked(n)
           /\ Askable' = Askable /\ OneThread' = OneThread
<1>1. Search!Queries' = Search!Queries
  BY DEF Search!Queries
<1>2. Search!Units' = Search!Units
  BY <1>1 DEF Search!Units, Search!Langs
<1>3. Search!Depth' = Search!Depth
  BY DEF Search!Depth
<1>4. \A n : Search!Unit(n)' = Search!Unit(n)
  BY <1>1 DEF Search!Unit, Search!Langs
<1>5. \A u, d : Search!Pool(u, d)' = Search!Pool(u, d)
  BY DEF Search!Pool, Search!Hits
<1>6. \A n : Asked(n)' = Asked(n)
  BY <1>3, <1>4, <1>5 DEF Asked
<1>7. Askable' = Askable
  BY <1>6 DEF Askable
<1>8. OneThread' = OneThread
  BY <1>1, <1>2, <1>4, <1>5 DEF OneThread, Search!Reference, Search!Rerank
<1> QED
  BY <1>1, <1>2, <1>6, <1>7, <1>8

\* A pool as deep as the reranker reads is as deep as it is asked for.
LEMMA DepthIs ==
    ASSUME RankShaped, search.topk <= search.depth
    PROVE  /\ Search!Depth = Search!MaxOf(1, search.depth) /\ Search!MaxOf(0, search.topk) = search.topk
           /\ Search!MaxOf(search.topk, search.depth) = search.depth
           /\ search.topk \in Nat /\ search.depth \in Nat
<1>1. search.topk \in Nat /\ search.depth \in Nat
  BY PiecesAssumption DEF RankShaped
<1> QED
  BY <1>1 DEF Search!Depth, Search!CandidateDepth, Search!MaxOf

LEMMA OpenStep ==
    ASSUME RankShaped, RankFetched, RankGated, RankRight,
           Search!Open \/ Search!Ask \/ Search!Take \/ UNCHANGED rankVars
    PROVE  (RankShaped /\ RankFetched /\ RankGated /\ RankRight)'
<1>1. search' = search /\ lists' = lists /\ pools' = pools /\ ranked' = ranked
  BY DEF Search!Open, Search!Ask, Search!Take, rankVars
<1>2. unit' \in Nat /\ hands' \subseteq Nat \ {0}
  <2>1. unit \in Nat /\ hands \subseteq Nat \ {0}
    BY DEF RankShaped
  <2>2. \/ unit' = unit /\ hands' = hands
        \/ unit' = unit + 1 /\ hands' = hands \cup {unit + 1}
    BY DEF Search!Open, Search!Ask, Search!Take, rankVars
  <2>3. unit + 1 \in Nat \ {0}
    BY <2>1
  <2> QED
    BY <2>1, <2>2, <2>3
<1>3. /\ Search!Queries' = Search!Queries /\ Askable' = Askable /\ OneThread' = OneThread
      /\ \A n : Asked(n)' = Asked(n)
  BY <1>1, RankStays
<1>4. RankShaped'
  BY <1>1, <1>2, <1>3 DEF RankShaped
<1>5. RankFetched'
  BY <1>1, <1>3 DEF RankFetched
<1>6. RankGated'
  BY <1>1, <1>3 DEF RankGated, Search!Open, Search!Ask, Search!Take, rankVars
<1>7. RankRight'
  <2>1. CASE rpc' = rpc
    BY <1>1, <1>3, <2>1 DEF RankRight
  <2>2. CASE rpc' # rpc
    <3>1. rpc' = "answered" => Search!Queries = <<>> /\ rpc # "answered"
      BY <2>2 DEF Search!Open, Search!Ask, Search!Take, rankVars
    <3> QED
      BY <1>1, <1>3, <3>1 DEF RankRight, RankGated, OneThread
  <2> QED
    BY <2>1, <2>2
<1> QED
  BY <1>4, <1>5, <1>6, <1>7

LEMMA FinishStep ==
    ASSUME RankShaped, RankFetched, RankGated, RankRight, Search!Finish
    PROVE  (RankShaped /\ RankFetched /\ RankGated /\ RankRight)'
<1>1. /\ search' = search /\ unit' = unit /\ pools' = pools /\ ranked' = ranked
      /\ rpc' = rpc /\ rpc = "fan"
  BY DEF Search!Finish
<1>2. PICK n \in hands : /\ hands' = hands \ {n}
                         /\ lists' = [m \in DOMAIN lists \cup {n} |-> IF m = n THEN Asked(n) ELSE lists[m]]
  BY DEF Search!Finish, Asked
<1>3. /\ Search!Queries' = Search!Queries /\ Askable' = Askable /\ OneThread' = OneThread
      /\ \A m : Asked(m)' = Asked(m)
  BY <1>1, RankStays
<1>4. RankShaped'
  BY <1>1, <1>2, <1>3 DEF RankShaped
<1>5. RankFetched'
  BY <1>1, <1>2, <1>3 DEF RankFetched
<1> QED
  BY <1>1, <1>3, <1>4, <1>5 DEF RankGated, RankRight

LEMMA CollectStep ==
    ASSUME RankShaped, RankFetched, RankGated, RankRight, Search!Collect
    PROVE  (RankShaped /\ RankFetched /\ RankGated /\ RankRight)'
<1>1. /\ search' = search /\ unit' = unit /\ hands' = hands /\ ranked' = ranked
      /\ rpc' = rpc /\ rpc = "fan"
  BY DEF Search!Collect
<1>2. PICK n \in Search!Collectable : /\ pools' = Append(pools, lists[n])
                                      /\ lists' = [m \in DOMAIN lists \ {n} |-> lists[m]]
  BY DEF Search!Collect
<1>3. /\ Search!Queries' = Search!Queries /\ Askable' = Askable /\ OneThread' = OneThread
      /\ \A m : Asked(m)' = Asked(m)
  BY <1>1, RankStays
<1>4. n = Len(pools) + 1 /\ n \in DOMAIN lists /\ Len(pools) \in Nat
  <2>1. n \in DOMAIN lists /\ n \in Nat \ {0} /\ n > Len(pools) /\ Len(pools) \in Nat
        /\ \A m \in 1 .. n - 1 : m <= Len(pools)
    BY <1>2, LenProperties DEF Search!Collectable, RankShaped
  <2> QED
    BY <2>1
<1>5. lists[n] = Asked(n) /\ lists[n] \in Askable
  BY <1>4 DEF RankFetched, Askable
<1>6. pools' \in Seq(Askable) /\ Len(pools') = Len(pools) + 1
      /\ \A m \in 1 .. Len(pools) + 1 : pools'[m] = Asked(m)
  <2>1. pools \in Seq(Askable) /\ \A m \in 1 .. Len(pools) : pools[m] = Asked(m)
    BY DEF RankShaped, RankFetched
  <2> QED
    BY <1>2, <1>4, <1>5, <2>1, AppendProperties
<1>7. RankShaped'
  BY <1>1, <1>2, <1>3, <1>6 DEF RankShaped
<1>8. RankFetched'
  BY <1>1, <1>2, <1>3, <1>6 DEF RankFetched
<1> QED
  BY <1>1, <1>3, <1>7, <1>8 DEF RankGated, RankRight

\* The lists are there in the order they were asked for, so the answer is that of
\* one thread.
LEMMA DecideStep ==
    ASSUME RankShaped, RankFetched, RankGated, RankRight, Search!Decide
    PROVE  (RankShaped /\ RankFetched /\ RankGated /\ RankRight)'
<1>1. /\ search' = search /\ unit' = unit /\ hands' = hands /\ pools' = pools /\ lists' = lists
      /\ rpc' = "answered" /\ rpc = "fan" /\ ranked' = Search!Rank(pools) /\ Len(pools) = Search!Units
  BY DEF Search!Decide
<1>3. /\ Search!Queries' = Search!Queries /\ Askable' = Askable /\ OneThread' = OneThread
      /\ \A m : Asked(m)' = Asked(m)
  BY <1>1, RankStays
<1>4. RankShaped'
  BY <1>1, <1>3 DEF RankShaped
<1>5. RankFetched'
  BY <1>1, <1>3 DEF RankFetched
<1>6. RankGated'
  BY <1>1 DEF RankGated
<1>7. ASSUME search.topk <= search.depth PROVE ranked' = OneThread /\ search.lost = {}
  <2>1. pools = [n \in 1 .. Search!Units |-> Asked(n)]
    <3>1. pools = [n \in DOMAIN pools |-> pools[n]] /\ DOMAIN pools = 1 .. Len(pools)
      BY LenProperties DEF RankShaped
    <3> QED
      BY <1>1, <3>1 DEF RankFetched
  <2>2. \A n : Asked(n) = Search!Pool(Search!Unit(n), Search!MaxOf(1, search.depth))
    BY <1>7, DepthIs DEF Asked
  <2>3. Search!Reference = Search!Rerank(Search!Rrf(pools))
    BY <2>1, <2>2, Zenon DEF Search!Reference
  <2>4. Search!Rank(pools) = Search!Top(Search!Reference, search.topk)
    BY <1>7, <2>3, DepthIs DEF Search!Rank
  <2> QED
    BY <1>1, <2>4 DEF RankGated, OneThread
<1>8. RankRight'
  BY <1>1, <1>3, <1>7 DEF RankRight
<1> QED
  BY <1>4, <1>5, <1>6, <1>8

\* A list the service sends on, and what an empty one would have added.
Thinned(s) == IF s = <<>> THEN <<>> ELSE <<s>>

LEMMA SearchFlat == \A ss : Search!FlattenSeq(ss) = FlattenSeq(ss)
BY DEF Search!FlattenSeq, FlattenSeq

LEMMA KeptIs == \A ss : Search!Kept(ss) = FlattenSeq([n \in DOMAIN ss |-> Thinned(ss[n])])
BY SearchFlat, Zenon DEF Search!Kept, Thinned

LEMMA KeptAppend ==
    ASSUME NEW X, NEW ss \in Seq(X), NEW s \in X
    PROVE  Search!Kept(Append(ss, s)) = Search!Kept(ss) \o Thinned(s)
<1>1. PICK h, tt : h = [x \in X |-> Thinned(x)] /\ tt = Append(ss, s)
  OBVIOUS
<1>2. (\A x \in X : h[x] \in Seq(X)) /\ h[s] = Thinned(s)
  BY <1>1 DEF Thinned
<1>3. (\A n \in DOMAIN ss : ss[n] \in X) /\ \A n \in DOMAIN tt : tt[n] \in X
  <2>1. tt \in Seq(X)
    BY <1>1
  <2> QED
    BY <2>1
<1>4. PICK f, g : f = [n \in DOMAIN ss |-> h[ss[n]]] /\ g = [n \in DOMAIN tt |-> h[tt[n]]]
  OBVIOUS
<1>5. f = [n \in DOMAIN ss |-> Thinned(ss[n])] /\ g = [n \in DOMAIN tt |-> Thinned(tt[n])]
  BY <1>1, <1>3, <1>4
<1>6. Images(h, ss, s, f, g, X, X)
  BY <1>1, <1>2, <1>4 DEF Images
<1>7. FlattenSeq(g) = FlattenSeq(f) \o h[s]
  BY ONLY <1>6, ImageLonger
<1> QED
  BY <1>1, <1>2, <1>5, <1>7, KeptIs, Zenon

LEMMA KeptEmpty == Search!Kept(<<>>) = <<>>
<1>1. [n \in DOMAIN <<>> |-> Thinned(<<>>[n])] = <<>>
  OBVIOUS
<1> QED
  BY <1>1, FlatEmpty, KeptIs, Zenon

LEMMA KeptType ==
    ASSUME NEW X, NEW ss \in Seq(X)
    PROVE  Search!Kept(ss) \in Seq(X)
<1>1. PICK f : f = [n \in DOMAIN ss |-> Thinned(ss[n])]
  OBVIOUS
<1>2. f = [n \in DOMAIN ss |-> f[n]] /\ \A n \in DOMAIN ss : f[n] \in Seq(X)
  BY <1>1 DEF Thinned
<1>3. FlattenSeq(f) \in Seq(X)
  BY <1>2, ImageType
<1> QED
  BY <1>1, <1>3, KeptIs, Zenon

\* Where an id is ranked, and with what it is credited.
Credited(s, id) == Search!Share(s, id)

LEMMA SharesIs == \A ss, id : Search!Shares(ss, id) = FlattenSeq([n \in DOMAIN ss |-> Credited(ss[n], id)])
BY SearchFlat, Zenon DEF Search!Shares, Credited

LEMMA NothingCredited == \A id : Credited(<<>>, id) = <<>>
<1> TAKE id
<1>1. Search!RankIn(<<>>, id) = 0
  BY DEF Search!RankIn, Search!SelectInSeq
<1> QED
  BY <1>1 DEF Credited, Search!Share

\* The credits an id can have in some lists.
Credits(X, id) == {RankWeights[Search!RankIn(x, id)] : x \in X}

LEMMA CreditedType == ASSUME NEW X, NEW id PROVE \A x \in X : Credited(x, id) \in Seq(Credits(X, id))
<1> SUFFICES ASSUME NEW x \in X PROVE Credited(x, id) \in Seq(Credits(X, id))
  OBVIOUS
<1>1. PICK c : c = RankWeights[Search!RankIn(x, id)]
  OBVIOUS
<1>2. c \in Credits(X, id)
  BY <1>1 DEF Credits
<1>3. Credited(x, id) = <<>> \/ Credited(x, id) = <<c>>
  BY <1>1, Zenon DEF Credited, Search!Share
<1>4. PICK y, K : y = Credited(x, id) /\ K = Credits(X, id)
  OBVIOUS
<1>5. c \in K /\ (y = <<>> \/ y = <<c>>)
  BY <1>2, <1>3, <1>4
<1>6. y \in Seq(K)
  <2>1. <<>> \in Seq(K)
    OBVIOUS
  <2>2. <<c>> \in Seq(K)
    BY <1>5
  <2> QED
    BY <1>5, <2>1, <2>2, Zenon
<1> QED
  BY <1>4, <1>6, Zenon

LEMMA SharesAppend ==
    ASSUME NEW X, NEW ss \in Seq(X), NEW s \in X, NEW id
    PROVE  Search!Shares(Append(ss, s), id) = Search!Shares(ss, id) \o Credited(s, id)
<1>1. PICK h, tt : h = [x \in X |-> Credited(x, id)] /\ tt = Append(ss, s)
  OBVIOUS
<1> PICK Y : Y = Credits(X, id)
  OBVIOUS
<1>2. (\A x \in X : h[x] \in Seq(Y)) /\ h[s] = Credited(s, id)
  <2>2. \A x \in X : Credited(x, id) \in Seq(Y)
    BY CreditedType
  <2> QED
    BY <1>1, <2>2
<1>3. (\A n \in DOMAIN ss : ss[n] \in X) /\ \A n \in DOMAIN tt : tt[n] \in X
  <2>1. tt \in Seq(X)
    BY <1>1
  <2> QED
    BY <2>1
<1>4. PICK f, g : f = [n \in DOMAIN ss |-> h[ss[n]]] /\ g = [n \in DOMAIN tt |-> h[tt[n]]]
  OBVIOUS
<1>5. f = [n \in DOMAIN ss |-> Credited(ss[n], id)] /\ g = [n \in DOMAIN tt |-> Credited(tt[n], id)]
  BY <1>1, <1>3, <1>4
<1>6. Images(h, ss, s, f, g, X, Y)
  BY <1>1, <1>2, <1>4 DEF Images
<1>7. FlattenSeq(g) = FlattenSeq(f) \o h[s]
  BY ONLY <1>6, ImageLonger
<1> QED
  BY <1>1, <1>2, <1>5, <1>7, SharesIs, Zenon

LEMMA IdsAppend ==
    ASSUME NEW X, NEW ss \in Seq(X), NEW s \in X
    PROVE  Search!Ids(Append(ss, s)) = Search!Ids(ss) \cup {hit.id : hit \in Search!ToSet(s)}
<1>1. PICK tt : tt = Append(ss, s)
  OBVIOUS
<1>2. /\ DOMAIN ss = 1 .. Len(ss) /\ Len(ss) \in Nat /\ DOMAIN tt = 1 .. Len(ss) + 1
      /\ tt[Len(ss) + 1] = s /\ \A n \in 1 .. Len(ss) : tt[n] = ss[n]
  BY <1>1, LenProperties, AppendProperties
<1>3. DOMAIN tt = DOMAIN ss \cup {Len(ss) + 1} /\ \A n \in DOMAIN ss : tt[n] = ss[n]
  BY <1>2
<1>4. Search!Ids(tt) = Search!Ids(ss) \cup {hit.id : hit \in Search!ToSet(s)}
  BY <1>2, <1>3 DEF Search!Ids
<1> QED
  BY <1>1, <1>4

LEMMA SharesType ==
    ASSUME NEW X, NEW ss \in Seq(X), NEW id
    PROVE  Search!Shares(ss, id) \in Seq(Credits(X, id))
<1>1. PICK f : f = [n \in DOMAIN ss |-> Credited(ss[n], id)]
  OBVIOUS
<1>2. f = [n \in DOMAIN ss |-> f[n]] /\ \A n \in DOMAIN ss : f[n] \in Seq(Credits(X, id))
  BY <1>1, CreditedType
<1>3. FlattenSeq(f) \in Seq(Credits(X, id))
  BY <1>2, ImageType
<1> QED
  BY <1>1, <1>3, SharesIs, Zenon

\* A list that is empty has no part in the fusion.
KeepsSums(ss) ==
    /\ \A id : Search!Shares(Search!Kept(ss), id) = Search!Shares(ss, id)
    /\ Search!Ids(Search!Kept(ss)) = Search!Ids(ss)

LEMMA KeptNext ==
    ASSUME NEW X, NEW tt \in Seq(X), NEW s \in X, KeepsSums(tt)
    PROVE  KeepsSums(Append(tt, s))
<1>1. PICK u : u = Search!Kept(tt)
  OBVIOUS
<1>2. u \in Seq(X)
  BY <1>1, KeptType
<1>3. Search!Kept(Append(tt, s)) = u \o Thinned(s)
  BY <1>1, KeptAppend
<1>4. \A id : Search!Shares(u, id) = Search!Shares(tt, id)
  BY <1>1 DEF KeepsSums
<1>5. Search!Ids(u) = Search!Ids(tt)
  BY <1>1 DEF KeepsSums
<1>6. \A id : Search!Shares(Append(tt, s), id) = Search!Shares(tt, id) \o Credited(s, id)
  BY SharesAppend
<1>7. Search!Ids(Append(tt, s)) = Search!Ids(tt) \cup {hit.id : hit \in Search!ToSet(s)}
  BY IdsAppend
<1>8. CASE s = <<>>
  <2>1. Search!Kept(Append(tt, s)) = u
    BY <1>2, <1>3, <1>8 DEF Thinned
  <2>2. \A id : Search!Shares(tt, id) \o <<>> = Search!Shares(tt, id)
    BY SharesType
  <2>3. \A id : Search!Shares(Append(tt, s), id) = Search!Shares(tt, id)
    <3> TAKE id
    <3>1. Credited(s, id) = <<>>
      BY <1>8, NothingCredited
    <3> QED
      BY <1>6, <2>2, <3>1
  <2>4. {hit.id : hit \in Search!ToSet(s)} = {}
    BY <1>8 DEF Search!ToSet
  <2>5. Search!Ids(Append(tt, s)) = Search!Ids(tt)
    BY <1>7, <2>4
  <2> QED
    BY <1>4, <1>5, <2>1, <2>3, <2>5, Zenon DEF KeepsSums
<1>9. CASE s # <<>>
  <2>1. Search!Kept(Append(tt, s)) = Append(u, s)
    <3>1. u \o <<s>> = Append(u, s)
      BY <1>2
    <3> QED
      BY <1>3, <1>9, <3>1 DEF Thinned
  <2>2. \A id : Search!Shares(Append(u, s), id) = Search!Shares(u, id) \o Credited(s, id)
    BY <1>2, SharesAppend
  <2>3. Search!Ids(Append(u, s)) = Search!Ids(u) \cup {hit.id : hit \in Search!ToSet(s)}
    BY <1>2, IdsAppend
  <2>4. \A id : Search!Shares(Append(u, s), id) = Search!Shares(Append(tt, s), id)
    BY <1>4, <1>6, <2>2, Zenon
  <2>5. Search!Ids(Append(u, s)) = Search!Ids(Append(tt, s))
    BY <1>5, <1>7, <2>3, Zenon
  <2> QED
    BY <2>1, <2>4, <2>5, Zenon DEF KeepsSums
<1> QED
  BY <1>8, <1>9

LEMMA KeptSame ==
    ASSUME NEW X, NEW ss \in Seq(X)
    PROVE  Search!Rrf(Search!Kept(ss)) = Search!Rrf(ss)
<1> DEFINE T == {tt \in Seq(X) : KeepsSums(tt)}
<1>1. <<>> \in T
  BY KeptEmpty DEF KeepsSums
<1>2. ASSUME NEW tt \in Seq(X), NEW s \in X, tt \in T PROVE Append(tt, s) \in T
  <2>1. Append(tt, s) \in Seq(X)
    OBVIOUS
  <2>2. KeepsSums(Append(tt, s))
    BY <1>2, KeptNext
  <2> QED
    BY <2>1, <2>2
<1> HIDE DEF T
<1>3. Seq(X) \subseteq T
  BY <1>1, <1>2, SeqInd
<1>4. KeepsSums(ss)
  BY <1>3 DEF T
<1> DEFINE Sum(uu, id) == Search!FoldLeft(Search!Plus, 0, Search!Shares(uu, id))
<1>5. \A id : Sum(Search!Kept(ss), id) = Sum(ss, id)
  BY <1>4, Zenon DEF KeepsSums
<1>6. Search!Ids(Search!Kept(ss)) = Search!Ids(ss)
  BY <1>4 DEF KeepsSums
<1>7. \A uu : Search!Rrf(uu) = Search!SetToSortSeq({[id |-> id, score |-> Sum(uu, id)] : id \in Search!Ids(uu)}, Search!Better)
  BY Zenon DEF Search!Rrf
<1>8. {[id |-> id, score |-> Sum(Search!Kept(ss), id)] : id \in Search!Ids(Search!Kept(ss))} =
          {[id |-> id, score |-> Sum(ss, id)] : id \in Search!Ids(ss)}
  <2> HIDE DEF Sum
  <2> QED
    BY <1>5, <1>6
<1> HIDE DEF Sum
<1> QED
  BY <1>7, <1>8, Zenon

LEMMA QueriesCount == ASSUME RankShaped PROVE Search!Units \in Nat
<1>1. search.queries \in Seq(Nat) /\ search.cells \in Seq(Seq(SUBSET Nat)) /\ RankLegs \in Seq(STRING)
  BY PiecesAssumption DEF RankShaped
<1>2. PICK raw : raw = search.queries
  OBVIOUS
<1>3. PICK f : f = [n \in DOMAIN raw |->
                      IF raw[n] = 0 \/ \E m \in 1 .. n - 1 : raw[m] = raw[n] THEN <<>> ELSE <<raw[n]>>]
  OBVIOUS
<1>4. Search!Queries = FlattenSeq(f)
  BY <1>2, <1>3, SearchFlat, Zenon DEF Search!Queries, Search!QueryStrings
<1>5. raw \in Seq(Nat) /\ f = [n \in DOMAIN raw |-> f[n]] /\ \A n \in DOMAIN raw : f[n] \in Seq(Nat)
  BY <1>1, <1>2, <1>3
<1>6. Search!Queries \in Seq(Nat)
  <2>1. FlattenSeq(f) \in Seq(Nat)
    BY <1>5, ImageType
  <2> QED
    BY <1>4, <2>1, Zenon
<1>7. PICK a, b, c : a = Len(Search!Queries) /\ b = Len(RankLegs) /\ c = Len(search.cells)
  OBVIOUS
<1>8. a \in Nat /\ b \in Nat /\ c \in Nat
  BY <1>1, <1>6, <1>7, LenProperties
<1>9. a * b \in Nat
  BY <1>8
<1>10. (a * b) * c \in Nat
  BY <1>8, <1>9
<1> QED
  BY <1>7, <1>10 DEF Search!Units, Search!Langs

\* A service ranks the lists of one string, and leaves out the empty ones.
LEMMA RemoteStep ==
    ASSUME RankShaped, RankFetched, RankGated, RankRight, Search!Remote
    PROVE  (RankShaped /\ RankFetched /\ RankGated /\ RankRight)'
<1>1. /\ search' = search /\ unit' = unit /\ hands' = hands /\ pools' = pools /\ lists' = lists
      /\ rpc = "remote"
  BY DEF Search!Remote
<1>2. PICK asked : asked = [n \in 1 .. Search!Units |-> Search!Pool(Search!Unit(n), Search!MaxOf(search.topk, search.depth))]
  OBVIOUS
<1>3. \/ rpc' = "raised" /\ ranked' = ranked
      \/ rpc' = "answered" /\ search.lost = {} /\ ranked' = Search!Rank(Search!Kept(asked))
  BY <1>2, Zenon DEF Search!Remote
<1>4. /\ Search!Queries' = Search!Queries /\ Askable' = Askable /\ OneThread' = OneThread
      /\ \A m : Asked(m)' = Asked(m)
  BY <1>1, RankStays
<1>5. RankShaped'
  BY <1>1, <1>4 DEF RankShaped
<1>6. RankFetched'
  BY <1>1, <1>4 DEF RankFetched
<1>7. RankGated'
  BY <1>1, <1>3 DEF RankGated
<1>8. Search!Rrf(Search!Kept(asked)) = Search!Rrf(asked)
  <2>1. PICK n \in Nat : n = Search!Units
    BY QueriesCount
  <2>2. PICK X : X = {asked[m] : m \in 1 .. n}
    OBVIOUS
  <2>3. asked = [m \in 1 .. n |-> asked[m]]
    BY <1>2, <2>1
  <2>4. asked \in [1 .. n -> X]
    BY <2>2, <2>3
  <2>5. asked \in Seq(X)
    BY <2>4, FunIsSeq
  <2> QED
    BY <2>5, KeptSame
<1>9. ASSUME search.topk <= search.depth, rpc' = "answered" PROVE ranked' = OneThread
  <2>1. ranked' = Search!Top(Search!Rerank(Search!Rrf(asked)), search.topk)
    <3>1. ranked' = Search!Rank(Search!Kept(asked))
      BY <1>3, <1>9
    <3>2. Search!MaxOf(0, search.topk) = search.topk
      BY <1>9, DepthIs
    <3> QED
      BY <1>8, <3>1, <3>2, Zenon DEF Search!Rank
  <2>2. search.topk \in Nat /\ search.depth \in Nat
    BY <1>9, DepthIs
  <2>3. CASE search.depth = 0
    <3>1. search.topk = 0
      BY <1>9, <2>2, <2>3
    <3>2. \A list : Search!Top(list, 0) = <<>>
      <4> TAKE list
      <4>1. (1 .. 0) \cap DOMAIN list = {}
        OBVIOUS
      <4> QED
        BY <4>1 DEF Search!Top
    <3>3. ranked' = <<>> /\ Search!Top(Search!Reference, search.topk) = <<>>
      BY <2>1, <3>1, <3>2
    <3> QED
      BY <3>3 DEF OneThread
  <2>4. CASE search.depth # 0
    <3>1. Search!MaxOf(search.topk, search.depth) = search.depth /\ Search!MaxOf(1, search.depth) = search.depth
      BY <1>9, <2>2, <2>4, DepthIs DEF Search!MaxOf
    <3>2. asked = [n \in 1 .. Search!Units |-> Search!Pool(Search!Unit(n), Search!MaxOf(1, search.depth))]
      BY <1>2, <3>1, Zenon
    <3>3. Search!Reference = Search!Rerank(Search!Rrf(asked))
      BY <3>2, Zenon DEF Search!Reference
    <3>4. Search!Queries # <<>>
      BY <1>1 DEF RankGated
    <3> QED
      BY <2>1, <3>3, <3>4, Zenon DEF OneThread
  <2> QED
    BY <2>3, <2>4
<1>10. RankRight'
  BY <1>1, <1>3, <1>4, <1>9 DEF RankRight
<1> QED
  BY <1>5, <1>6, <1>7, <1>10

LEMMA RankInitial == MCInit => RankInv
<1> SUFFICES ASSUME MCInit, machine = "rank" PROVE RankShaped /\ RankFetched /\ RankGated /\ RankRight
  BY DEF RankInv
<1>1. Search!Init
  BY DEF MCInit
<1>2. RankShaped /\ RankFetched
  BY <1>1 DEF Search!Init, RankShaped, RankFetched
<1>3. RankGated /\ RankRight
  BY <1>1 DEF Search!Init, RankGated, RankRight
<1> QED
  BY <1>2, <1>3

LEMMA RankInductive == RankInv /\ [machine' = machine /\ Search!Next]_<<machine, rankVars>> => RankInv'
<1> SUFFICES ASSUME RankInv, [machine' = machine /\ Search!Next]_<<machine, rankVars>>, machine' = "rank"
             PROVE  (RankShaped /\ RankFetched /\ RankGated /\ RankRight)'
  BY DEF RankInv
<1>1. RankShaped /\ RankFetched /\ RankGated /\ RankRight
  BY DEF RankInv
<1>2. CASE UNCHANGED <<machine, rankVars>>
  <2>1. UNCHANGED rankVars
    BY <1>2
  <2> QED
    BY <1>1, <2>1, OpenStep
<1>3. CASE Search!Next
  BY <1>1, <1>3, OpenStep, FinishStep, CollectStep, DecideStep, RemoteStep DEF Search!Next
<1> QED
  BY <1>2, <1>3

\* Up to the depth of the reranker, the k best are the first k of the ranking one
\* thread makes of the distinct strings, whatever k, the number of threads, the order
\* in which they finish and the side that ranks, for every index, every table of scores
\* and however sums are rounded; and no leg is ever missing from it (retrieve, rrf,
\* Service.query).
THEOREM RankingIsWidthFree == MCSpec => []WidthFree
<1>1. [MCNext]_allVars => [machine' = machine /\ Search!Next]_<<machine, rankVars>>
  BY DEF MCNext, BankRuns, QueueRuns, LaneRuns, FanRuns, StackRuns, RankRuns, TopicRuns, LoopRuns,
         SubmitRuns, allVars, rankVars
<1>2. RankInv => WidthFree
  BY RightIsWidthFree DEF RankInv, WidthFree
<1> QED
  BY RankInitial, RankInductive, <1>1, <1>2, PTL DEF MCSpec, allVars

-----------------------------------------------------------------------------
(* Projection: the score column of a ranking.                                 *)

\* A ranking by score, and the rows that print as its k-th.
Falling(list) ==
    /\ DOMAIN list = 1 .. Len(list) /\ Len(list) \in Nat
    /\ \A m \in DOMAIN list :
          list[m] = [doc |-> list[m].doc, score |-> list[m].score] /\ list[m].score \in Int
    /\ \A i, m \in DOMAIN list : i <= m => list[m].score <= list[i].score
TiedTo(list, m) == {i \in DOMAIN list : Topic!Together(list[i].score, list[m].score)}

\* The names of Separate.
FirstTied(list, m) == Topic!Min(TiedTo(list, m))
LastTied(list, m)  == Topic!Max(TiedTo(list, m))
RoomOf(list, m) ==
    IF LastTied(list, m) < Len(list)
    THEN list[FirstTied(list, m)].score - list[LastTied(list, m) + 1].score ELSE Resolution * 100
StepOf(list, m) == (RoomOf(list, m) - Headroom) \div (Topic!Cardinality(TiedTo(list, m)) - 1)
TooClose(list) ==
    \E m \in DOMAIN list : Topic!Cardinality(TiedTo(list, m)) # 1
                           /\ (RoomOf(list, m) <= Headroom \/ StepOf(list, m) < Resolution)
Spread(list) ==
    [m \in DOMAIN list |->
        IF Topic!Cardinality(TiedTo(list, m)) = 1 THEN list[m]
        ELSE [list[m] EXCEPT !.score = list[FirstTied(list, m)].score
                                       - (m - FirstTied(list, m)) * StepOf(list, m)]]

LEMMA CountsAlike == \A T : Topic!Cardinality(T) = Cardinality(T)
BY Zenon DEF Topic!Cardinality, Cardinality

LEMMA SeparateIs == \A list : Topic!Separate(list) = IF TooClose(list) THEN Topic!Tied ELSE Spread(list)
BY ZenonT(30) DEF Topic!Separate, TooClose, Spread, TiedTo, FirstTied, LastTied, RoomOf, StepOf

\* A score that is a unit of print higher prints higher.
LEMMA PrintedFalls ==
    ASSUME NEW a \in Int, NEW c \in Int
    PROVE  /\ Topic!Printed(a) \in Int
           /\ a <= c => Topic!Printed(a) <= Topic!Printed(c)
           /\ a + Resolution <= c => Topic!Printed(a) < Topic!Printed(c)
<1>1. PICK h \in Int : h = Resolution \div 2
  BY PiecesAssumption, DivInt
<1>2. Topic!Printed(a) = (a + h) \div Resolution /\ Topic!Printed(c) = (c + h) \div Resolution
  BY <1>1 DEF Topic!Printed
<1>3. a + h \in Int /\ c + h \in Int /\ Resolution \in Nat \ {0}
  BY PiecesAssumption
<1>4. PICK u \in Int, v \in Int : u = a + h /\ v = c + h
  BY <1>3
<1>5. (a <= c => u <= v) /\ (a + Resolution <= c => u + Resolution <= v)
  BY <1>3, <1>4
<1>6. /\ u \div Resolution \in Int
      /\ u <= v => u \div Resolution <= v \div Resolution
      /\ u + Resolution <= v => u \div Resolution < v \div Resolution
  BY <1>3, DivInt, DivLess
<1> QED
  BY <1>2, <1>4, <1>5, <1>6

\* The rows that print alike are neighbours.
LEMMA TiesTogether ==
    ASSUME NEW list, Falling(list), NEW m \in DOMAIN list
    PROVE  /\ FirstTied(list, m) \in DOMAIN list /\ LastTied(list, m) \in DOMAIN list
           /\ TiedTo(list, m) = FirstTied(list, m) .. LastTied(list, m)
           /\ m \in TiedTo(list, m)
           /\ Topic!Cardinality(TiedTo(list, m)) = LastTied(list, m) - FirstTied(list, m) + 1
<1> DEFINE T == TiedTo(list, m)
<1>1. PICK n \in Nat : n = Len(list) /\ DOMAIN list = 1 .. n
  BY DEF Falling
<1>2. T \subseteq 1 .. n /\ m \in T
  BY <1>1 DEF TiedTo, Topic!Together
<1>3. PICK lo \in T : \A i \in T : lo <= i
  <2>1. T \subseteq Nat /\ T # {}
    BY <1>2
  <2> HIDE DEF T
  <2> QED
    BY <2>1, LeastNat
<1>4. PICK hi \in T : \A i \in T : i <= hi
  <2> DEFINE U == {n - i : i \in T}
  <2>1. U \subseteq Nat /\ U # {}
    BY <1>2
  <2> HIDE DEF U
  <2>2. PICK x \in U : \A y \in U : x <= y
    BY <2>1, LeastNat
  <2>3. PICK i \in T : x = n - i
    BY <2>2 DEF U
  <2>4. ASSUME NEW y \in T PROVE y <= i
    <3>1. n - y \in U
      BY DEF U
    <3>2. n - i <= n - y
      BY <2>2, <2>3, <3>1
    <3> QED
      BY <1>2, <3>2
  <2> QED
    BY <2>4
<1>5. FirstTied(list, m) = lo
  <2> HIDE DEF T
  <2>1. \A x \in T : (\A y \in T : x <= y) => x = lo
    BY <1>2, <1>3
  <2>2. Topic!Min(T) = lo
    BY <1>3, <2>1 DEF Topic!Min
  <2> QED
    BY <2>2 DEF FirstTied, T
<1>6. LastTied(list, m) = hi
  <2> HIDE DEF T
  <2>1. \A x \in T : (\A y \in T : x >= y) => x = hi
    BY <1>2, <1>4
  <2>2. \A y \in T : hi >= y
    BY <1>2, <1>4
  <2>3. Topic!Max(T) = hi
    BY <2>1, <2>2 DEF Topic!Max
  <2> QED
    BY <2>3 DEF LastTied, T
<1>7. lo .. hi \subseteq T
  <2> SUFFICES ASSUME NEW i \in lo .. hi PROVE i \in T
    OBVIOUS
  <2>1. i \in 1 .. n /\ lo \in 1 .. n /\ hi \in 1 .. n /\ lo <= i /\ i <= hi
    BY <1>2
  <2>2. PICK a \in Int, b \in Int, c \in Int : a = list[lo].score /\ b = list[i].score /\ c = list[hi].score
    BY <1>1, <2>1 DEF Falling
  <2>3. c <= b /\ b <= a
    BY <1>1, <2>1, <2>2 DEF Falling
  <2>4. Topic!Printed(c) <= Topic!Printed(b) /\ Topic!Printed(b) <= Topic!Printed(a)
    BY <2>3, PrintedFalls
  <2>5. Topic!Printed(c) = Topic!Printed(list[m].score) /\ Topic!Printed(a) = Topic!Printed(list[m].score)
    BY <2>2 DEF TiedTo, Topic!Together
  <2>6. Topic!Printed(b) \in Int /\ Topic!Printed(c) \in Int /\ Topic!Printed(a) \in Int
    BY PrintedFalls
  <2>7. Topic!Printed(b) = Topic!Printed(list[m].score)
    BY <2>4, <2>5, <2>6
  <2> QED
    BY <1>1, <2>1, <2>2, <2>7 DEF TiedTo, Topic!Together
<1>8. T = lo .. hi
  <2> HIDE DEF T
  <2>1. \A i \in T : i \in Int /\ lo <= i /\ i <= hi
    BY <1>2, <1>3, <1>4
  <2>2. T \subseteq lo .. hi
    BY <2>1
  <2> QED
    BY <2>2, <1>7
<1>9. Cardinality(lo .. hi) = hi - lo + 1
  BY <1>2, <1>3, <1>4, FS_Interval
<1> QED
  BY <1>1, <1>2, <1>5, <1>6, <1>8, <1>9, CountsAlike

\* A separated row keeps to the room of its tie.
KeepsToRoom(list, m) ==
    LET lo == FirstTied(list, m)
        hi == LastTied(list, m)
    IN /\ Spread(list)[m].doc = list[m].doc /\ Spread(list)[m].score \in Int
       /\ Spread(list)[m].score <= list[lo].score
       /\ m = lo => Spread(list)[m].score = list[m].score
       /\ lo = hi => Spread(list)[m].score = list[m].score
       /\ lo # hi => /\ StepOf(list, m) \in Int /\ Resolution <= StepOf(list, m)
                     /\ Spread(list)[m].score = list[lo].score - (m - lo) * StepOf(list, m)
                     /\ hi < Len(list) => list[hi + 1].score + Headroom <= Spread(list)[m].score

LEMMA RoomKept ==
    ASSUME NEW list, Falling(list), ~TooClose(list), NEW m \in DOMAIN list
    PROVE  KeepsToRoom(list, m)
<1>1. PICK n \in Nat : n = Len(list) /\ DOMAIN list = 1 .. n
  BY Zenon DEF Falling
<1>2. PICK lo \in 1 .. n, hi \in 1 .. n :
        /\ lo = FirstTied(list, m) /\ hi = LastTied(list, m) /\ lo <= m /\ m <= hi
        /\ Topic!Cardinality(TiedTo(list, m)) = hi - lo + 1
  BY <1>1, TiesTogether
<1>3. list[lo].score \in Int /\ list[m] = [doc |-> list[m].doc, score |-> list[m].score]
      /\ list[m].score \in Int
  BY <1>1, <1>2 DEF Falling
<1>4. PICK row : row = Spread(list)[m]
  OBVIOUS
<1>5. CASE lo = hi
  <2>1. row = list[m] /\ m = lo
    BY <1>1, <1>2, <1>4, <1>5 DEF Spread
  <2> QED
    BY <1>2, <1>3, <1>4, <1>5, <2>1 DEF KeepsToRoom
<1>6. CASE lo # hi
  <2> DEFINE room == RoomOf(list, m)
  <2>1. room \in Int /\ (hi < n => room = list[lo].score - list[hi + 1].score)
    <3>1. CASE hi < n
      <4>1. list[hi + 1].score \in Int
        BY <1>1, <1>2, <3>1 DEF Falling
      <4> QED
        BY <1>1, <1>2, <1>3, <3>1, <4>1 DEF RoomOf
    <3>2. CASE ~(hi < n)
      <4>1. room = Resolution * 100
        BY <1>1, <1>2, <3>2 DEF RoomOf
      <4> QED
        BY <3>2, <4>1, PiecesAssumption
    <3> QED
      BY <3>1, <3>2
  <2>2. PICK c \in Nat \ {0} : c = hi - lo
    <3>1. hi - lo \in Nat \ {0}
      BY <1>1, <1>2, <1>6
    <3> QED
      BY <3>1
  <2> HIDE DEF room
  <2>3. StepOf(list, m) = (room - Headroom) \div c
    <3>1. StepOf(list, m) = (room - Headroom) \div (Topic!Cardinality(TiedTo(list, m)) - 1)
      BY DEF StepOf, room
    <3>2. Topic!Cardinality(TiedTo(list, m)) - 1 = c
      BY <1>2, <2>2
    <3> QED
      BY <3>1, <3>2, Zenon
  <2>4. PICK s \in Int : s = StepOf(list, m) /\ c * s <= room - Headroom
    <3>1. room - Headroom \in Int
      BY <2>1, PiecesAssumption
    <3> QED
      BY <2>2, <2>3, <3>1, DivInt
  <2>5. Topic!Cardinality(TiedTo(list, m)) # 1
    BY <1>2, <1>6
  <2>6. Resolution <= s
    <3>1. ~(s < Resolution)
      BY <2>4, <2>5 DEF TooClose
    <3> QED
      BY <2>4, <3>1, PiecesAssumption
  <2>7. PICK g \in Nat : g = m - lo /\ g <= c
    BY <1>1, <1>2, <2>2
  <2>8. row = [doc |-> list[m].doc, score |-> list[lo].score - g * s]
    <3>1. row = [list[m] EXCEPT !.score = list[lo].score - (m - lo) * s]
      BY <1>2, <1>4, <2>4, <2>5 DEF Spread
    <3> QED
      BY <1>3, <2>7, <3>1
  <2>9. 0 <= g * s /\ g * s <= c * s /\ g * s \in Int /\ c * s \in Int
    <3>1. s \in Nat
      BY <2>4, <2>6, PiecesAssumption
    <3>2. PICK r \in Nat : c = g + r
      <4>1. c - g \in Nat /\ c = g + (c - g)
        BY <2>2, <2>7
      <4> QED
        BY <4>1
    <3>3. g * s \in Nat /\ r * s \in Nat
      BY <3>1
    <3>4. c * s = g * s + r * s
      BY <3>1, <3>2
    <3> QED
      BY <3>3, <3>4
  <2>10. hi < n => list[hi + 1].score + Headroom <= row.score
    <3> SUFFICES ASSUME hi < n PROVE list[hi + 1].score + Headroom <= row.score
      OBVIOUS
    <3>1. list[hi + 1].score \in Int
      BY <1>1, <1>2 DEF Falling
    <3>2. PICK z \in Int : z = g * s /\ z <= room - Headroom
      <4>1. PICK y \in Int, w \in Int : y = c * s /\ w = g * s
        BY <2>9
      <4>2. y <= room - Headroom /\ w <= y
        BY <2>4, <2>9, <4>1
      <4> QED
        BY <2>1, <4>1, <4>2, PiecesAssumption
    <3>3. row.score = list[lo].score - z
      BY <2>8, <3>2
    <3> QED
      BY <1>3, <2>1, <3>1, <3>2, <3>3, PiecesAssumption
  <2>11. m = lo => row.score = list[m].score
    <3> SUFFICES ASSUME m = lo PROVE row.score = list[m].score
      OBVIOUS
    <3>1. g * s = 0
      BY <2>7, <2>4
    <3> QED
      BY <1>3, <2>8, <3>1
  <2>12. row.doc = list[m].doc /\ row.score = list[lo].score - (m - lo) * s
    BY <2>7, <2>8
  <2>13. row.score \in Int /\ row.score <= list[lo].score
    BY <1>3, <2>8, <2>9
  <2> QED
    BY <1>1, <1>2, <1>4, <1>6, <2>4, <2>6, <2>10, <2>11, <2>12, <2>13, Zenon DEF KeepsToRoom
<1> QED
  BY <1>5, <1>6

\* _separate_tied_groups: it either raises or keeps every document in its place,
\* and then the printed scores fall strictly, no row crosses one that was printed
\* genuinely lower, and the first row of a tie keeps its score.
THEOREM TiesAreSeparated ==
    ASSUME NEW list, Falling(list), Topic!Separate(list) # Topic!Tied,
           NEW new, new = Topic!Separate(list)
    PROVE  /\ DOMAIN new = DOMAIN list
           /\ \A i, m \in DOMAIN list : i < m =>
                 /\ Topic!Printed(new[m].score) < Topic!Printed(new[i].score)
                 /\ Topic!Printed(list[m].score) < Topic!Printed(list[i].score)
                       => list[m].score < new[i].score
           /\ \A m \in DOMAIN list :
                 /\ new[m].doc = list[m].doc
                 /\ (\A i \in DOMAIN list : i < m => ~Topic!Together(list[i].score, list[m].score))
                       => new[m].score = list[m].score
<1>1. new = Spread(list) /\ ~TooClose(list)
  BY SeparateIs
<1>2. PICK n \in Nat : n = Len(list) /\ DOMAIN list = 1 .. n
  BY DEF Falling
<1>3. DOMAIN new = DOMAIN list
  BY <1>1 DEF Spread
<1>4. ASSUME NEW i \in 1 .. n, NEW m \in 1 .. n, i < m
      PROVE  /\ Topic!Printed(new[m].score) < Topic!Printed(new[i].score)
             /\ Topic!Printed(list[m].score) < Topic!Printed(list[i].score)
                   => list[m].score < new[i].score
  <2>1. PICK lo \in 1 .. n, hi \in 1 .. n :
          /\ lo = FirstTied(list, i) /\ hi = LastTied(list, i)
          /\ TiedTo(list, i) = lo .. hi /\ i \in lo .. hi
    BY <1>2, TiesTogether
  <2>2. PICK lo2 \in 1 .. n, hi2 \in 1 .. n :
          /\ lo2 = FirstTied(list, m) /\ hi2 = LastTied(list, m)
          /\ TiedTo(list, m) = lo2 .. hi2 /\ m \in lo2 .. hi2
    BY <1>2, TiesTogether
  <2>3. KeepsToRoom(list, i) /\ KeepsToRoom(list, m)
    BY <1>1, <1>2, RoomKept
  <2>4. PICK a \in Int, c \in Int : a = new[i].score /\ c = new[m].score
    BY <1>1, <2>3 DEF KeepsToRoom
  <2>5. \A x \in 1 .. n : list[x].score \in Int
    BY <1>2 DEF Falling
  <2>6. \A x, y \in 1 .. n : x <= y => list[y].score <= list[x].score
    BY <1>2 DEF Falling
  <2>7. CASE Topic!Printed(list[i].score) = Topic!Printed(list[m].score)
    <3>1. TiedTo(list, i) = TiedTo(list, m)
      BY <2>7 DEF TiedTo, Topic!Together
    <3>2. lo2 = lo /\ hi2 = hi /\ StepOf(list, m) = StepOf(list, i)
      BY <2>1, <2>2, <3>1, Zenon DEF FirstTied, LastTied, StepOf, RoomOf
    <3>3. lo # hi
      BY <1>4, <2>1, <2>2, <3>2
    <3>4. PICK s \in Int : s = StepOf(list, i) /\ Resolution <= s
      BY <2>1, <2>3, <3>3 DEF KeepsToRoom
    <3>5. a = list[lo].score - (i - lo) * s /\ c = list[lo].score - (m - lo) * s
      BY <1>1, <2>1, <2>2, <2>3, <2>4, <3>2, <3>3, <3>4 DEF KeepsToRoom
    <3>6. PICK d \in Nat : m - lo = i - lo + 1 + d
      <4>1. m - i - 1 \in Nat /\ m - lo = i - lo + 1 + (m - i - 1)
        BY <1>4
      <4> QED
        BY <4>1
    <3>7. PICK u \in Int, v \in Nat : u = (i - lo) * s /\ v = d * s /\ (m - lo) * s = u + s + v
      <4>1. s \in Nat /\ i - lo \in Int
        BY <3>4, PiecesAssumption
      <4>2. PICK h \in Int : h = i - lo
        BY <4>1
      <4>3. h * s \in Int /\ d * s \in Nat /\ (h + 1 + d) * s = h * s + s + d * s
        BY <4>1
      <4> QED
        BY <3>6, <4>2, <4>3
    <3>8. c + Resolution <= a
      <4>1. PICK b \in Int : b = list[lo].score
        BY <2>5
      <4>2. a = b - u /\ c = b - (u + s + v)
        BY <3>5, <3>7, <4>1
      <4>3. Resolution \in Int
        BY PiecesAssumption
      <4> QED
        BY <3>4, <3>7, <4>2, <4>3
    <3> QED
      BY <2>4, <2>7, <3>8, PrintedFalls, <2>5
  <2>8. CASE Topic!Printed(list[i].score) # Topic!Printed(list[m].score)
    <3>1. \A x \in lo2 .. hi2 : x \in 1 .. n /\ Topic!Printed(list[x].score) = Topic!Printed(list[m].score)
      BY <1>2, <2>2 DEF TiedTo, Topic!Together
    <3>2. \A x \in lo .. hi : Topic!Printed(list[x].score) = Topic!Printed(list[i].score)
      BY <2>1 DEF TiedTo, Topic!Together
    <3>3. hi < lo2
      <4>1. CASE lo2 <= hi /\ hi <= hi2
        BY <2>1, <2>2, <2>8, <3>1, <3>2, <4>1
      <4>2. CASE hi2 < hi
        <5>1. m \in lo .. hi
          BY <1>4, <2>1, <2>2, <4>2
        <5> QED
          BY <2>8, <3>2, <5>1
      <4> QED
        BY <4>1, <4>2
    <3>4. i < lo2 /\ lo2 <= m
      BY <2>1, <2>2, <3>3
    <3>5. c <= list[lo2].score /\ list[m].score <= list[lo2].score
      BY <1>1, <2>2, <2>3, <2>4, <2>6, <3>4 DEF KeepsToRoom
    <3>6. CASE lo = hi
      <4>1. a = list[i].score
        BY <1>1, <2>1, <2>3, <2>4, <3>6 DEF KeepsToRoom
      <4>2. list[lo2].score < a
        <5>1. list[lo2].score <= a
          BY <2>6, <3>4, <4>1
        <5>2. list[lo2].score # a
          BY <2>2, <2>8, <3>1, <4>1
        <5> QED
          BY <2>5, <5>1, <5>2
      <4>3. Topic!Printed(list[lo2].score) < Topic!Printed(a)
        <5>1. Topic!Printed(list[lo2].score) # Topic!Printed(a)
          BY <2>2, <2>8, <3>1, <4>1
        <5>2. PICK b \in Int : b = list[lo2].score
          BY <2>5
        <5>3. Topic!Printed(b) <= Topic!Printed(a)
          BY <4>2, <5>2, PrintedFalls
        <5>4. Topic!Printed(b) \in Int /\ Topic!Printed(a) \in Int
          BY PrintedFalls
        <5> QED
          BY <5>1, <5>2, <5>3, <5>4
      <4>4. Topic!Printed(c) < Topic!Printed(a)
        <5>1. PICK b \in Int : b = list[lo2].score
          BY <2>5
        <5>2. Topic!Printed(c) <= Topic!Printed(b)
          BY <3>5, <5>1, PrintedFalls
        <5>3. Topic!Printed(b) \in Int /\ Topic!Printed(a) \in Int /\ Topic!Printed(c) \in Int
          BY PrintedFalls
        <5> QED
          BY <4>3, <5>1, <5>2, <5>3
      <4> QED
        BY <2>4, <2>5, <3>5, <4>2, <4>4
    <3>7. CASE lo # hi
      <4>1. hi < n /\ hi + 1 <= lo2 /\ hi + 1 \in 1 .. n
        BY <3>3
      <4>2. PICK b \in Int : b = list[hi + 1].score
        BY <2>5, <4>1
      <4>3. b + Headroom <= a
        BY <1>1, <1>2, <2>1, <2>3, <2>4, <3>7, <4>1, <4>2 DEF KeepsToRoom
      <4>4. list[lo2].score <= b
        BY <2>6, <4>1, <4>2
      <4>5. c + Resolution <= a /\ list[m].score < a
        <5>1. PICK e \in Int, f \in Int : e = list[lo2].score /\ f = list[m].score
          BY <2>5
        <5>2. c <= e /\ f <= e /\ e <= b
          BY <3>5, <4>4, <5>1
        <5>3. Resolution \in Nat \ {0} /\ Headroom \in Nat /\ Resolution <= Headroom
          BY PiecesAssumption
        <5>4. c + Resolution <= a /\ f < a
          BY <4>2, <4>3, <5>2, <5>3, <2>4
        <5> QED
          BY <5>1, <5>4
      <4> QED
        BY <2>4, <4>5, PrintedFalls
    <3> QED
      BY <3>6, <3>7
  <2> QED
    BY <2>7, <2>8
<1>5. ASSUME NEW m \in 1 .. n
      PROVE  /\ new[m].doc = list[m].doc
             /\ (\A i \in 1 .. n : i < m => ~Topic!Together(list[i].score, list[m].score))
                   => new[m].score = list[m].score
  <2>1. KeepsToRoom(list, m)
    BY <1>1, <1>2, RoomKept
  <2>2. PICK lo \in 1 .. n : lo = FirstTied(list, m) /\ lo <= m /\ lo \in TiedTo(list, m)
    <3>1. PICK lo \in 1 .. n, hi \in 1 .. n :
            lo = FirstTied(list, m) /\ TiedTo(list, m) = lo .. hi /\ m \in lo .. hi
      BY <1>2, TiesTogether
    <3> QED
      BY <3>1
  <2>3. Topic!Together(list[lo].score, list[m].score)
    BY <2>2 DEF TiedTo
  <2>4. (\A i \in 1 .. n : i < m => ~Topic!Together(list[i].score, list[m].score)) => m = lo
    BY <2>2, <2>3
  <2> QED
    BY <1>1, <2>1, <2>2, <2>4 DEF KeepsToRoom
<1> QED
  BY <1>2, <1>3, <1>4, <1>5

-----------------------------------------------------------------------------
(* Projection: what is listed in an order.                                    *)

LEMMA FiniteAlike == \A T : Topic!IsFiniteSet(T) <=> IsFiniteSet(T)
BY Zenon DEF Topic!IsFiniteSet, IsFiniteSet

LEMMA RangeAlike == \A f : Topic!Range(f) = Range(f)
BY Zenon DEF Topic!Range, Range

LEMMA LeastIs ==
    ASSUME NEW T, IsFiniteSet(T), T \subseteq Int, T # {}
    PROVE  Topic!Min(T) \in T /\ \A y \in T : Topic!Min(T) <= y
BY Extremes DEF Topic!Min

LEMMA GreatestIs ==
    ASSUME NEW T, IsFiniteSet(T), T \subseteq Int, T # {}
    PROVE  Topic!Max(T) \in T /\ \A y \in T : y <= Topic!Max(T)
<1>1. PICK x \in T : \A y \in T : y <= x
  BY Extremes
<1>2. \E u \in T : \A y \in T : u >= y
  <2>1. \A y \in T : x >= y
    BY <1>1
  <2> QED
    BY <2>1
<1>3. Topic!Max(T) \in T /\ \A y \in T : Topic!Max(T) >= y
  BY <1>2 DEF Topic!Max
<1> QED
  BY <1>3

\* A sequence that lists a set as Listed does.
PlacedBy(t, T, F) ==
    /\ t = [n \in 1 .. Topic!Cardinality(T) |-> t[n]]
    /\ \A n \in 1 .. Topic!Cardinality(T) :
          (\E x \in T : Topic!Cardinality(F[x]) = n - 1) => t[n] \in T /\ Topic!Cardinality(F[t[n]]) = n - 1

LEMMA PlacesSort ==
    ASSUME NEW t, NEW T, IsFiniteSet(T), NEW F, PlacedBy(t, T, F), NEW a, NEW b, NEW c, NEW d, Keyed(T, a, b, c, d),
           \A x \in T : F[x] = {y \in T : <<y, x>> \in LexOn(T, a, b, c, d)}
    PROVE  Sorts(LexOn(T, a, b, c, d), t, T) /\ Len(t) = Cardinality(T)
<1>1. PICK L : L = LexOn(T, a, b, c, d)
  OBVIOUS
<1>2. OrderOn(L, T)
  BY <1>1, LexOrders
<1>3. Topic!Cardinality(T) = Cardinality(T)
  BY CountsAlike
<1>4. t = [n \in 1 .. Cardinality(T) |-> t[n]]
  <2>1. t = [n \in 1 .. Topic!Cardinality(T) |-> t[n]]
    BY Zenon DEF PlacedBy
  <2> QED
    BY <1>3, <2>1, Zenon
<1>5. ASSUME NEW n \in 1 .. Cardinality(T), NEW x \in T, Cardinality(F[x]) = n - 1
      PROVE  t[n] \in T /\ Cardinality(F[t[n]]) = n - 1
  <2>1. n \in 1 .. Topic!Cardinality(T) /\ Topic!Cardinality(F[x]) = n - 1
    BY <1>3, <1>5, CountsAlike
  <2>2. t[n] \in T /\ Topic!Cardinality(F[t[n]]) = n - 1
    BY <2>1 DEF PlacedBy
  <2> QED
    BY <2>2, CountsAlike
<1>6. \A x \in T : F[x] = {y \in T : <<y, x>> \in L}
  BY <1>1, Zenon
<1>7. Counts(t, T, L, F)
  BY <1>2, <1>4, <1>5, <1>6 DEF Counts
<1> QED
  BY <1>1, <1>7, CountsSorts

LEMMA ListedInts ==
    ASSUME NEW T, IsFiniteSet(T), T \subseteq Int
    PROVE  \E t : t = Topic!Listed(T, <) /\ Sorts({p \in T \X T : p[1] < p[2]}, t, T)
<1> DEFINE a == [x \in T |-> x]
           F == [x \in T |-> {y \in T : y < x}]
           L == {p \in T \X T : p[1] < p[2]}
<1>0. PICK t : t = [n \in 1 .. Topic!Cardinality(T) |->
                      CHOOSE x \in T : Topic!Cardinality({y \in T : y < x}) = n - 1]
  OBVIOUS
<1>1. PlacedBy(t, T, F)
  <2>1. t = [n \in 1 .. Topic!Cardinality(T) |-> t[n]]
    <3> DEFINE G(n) == CHOOSE x \in T : Topic!Cardinality({y \in T : y < x}) = n - 1
    <3>1. t = [n \in 1 .. Topic!Cardinality(T) |-> G(n)]
      BY <1>0
    <3> HIDE DEF G
    <3> QED
      BY <3>1
  <2>2. ASSUME NEW n \in 1 .. Topic!Cardinality(T), NEW x \in T, Topic!Cardinality(F[x]) = n - 1
        PROVE  t[n] \in T /\ Topic!Cardinality(F[t[n]]) = n - 1
    <3>1. Topic!Cardinality({y \in T : y < x}) = n - 1
      BY <2>2
    <3>2. t[n] \in T /\ Topic!Cardinality({y \in T : y < t[n]}) = n - 1
      BY <1>0, <3>1
    <3> QED
      BY <3>2
  <2> HIDE DEF F
  <2> QED
    BY <2>1, <2>2 DEF PlacedBy
<1>2. Keyed(T, a, a, a, a)
  BY DEF Keyed
<1>3. LexOn(T, a, a, a, a) = L
  BY DEF LexOn
<1>4. \A x \in T : F[x] = {y \in T : <<y, x>> \in L}
  OBVIOUS
<1> HIDE DEF a, F, L
<1>5. Sorts(L, t, T)
  BY <1>1, <1>2, <1>3, <1>4, PlacesSort
<1>6. Topic!Listed(T, <) = t
  BY <1>0, Zenon DEF Topic!Listed
<1> QED
  BY <1>5, <1>6, Zenon DEF L

-----------------------------------------------------------------------------
(* Projection: duplicate questions.                                           *)

LEMMA PartFinite ==
    ASSUME NEW n \in Nat, NEW T, T \subseteq 1 .. n
    PROVE  T \subseteq 1 .. n /\ IsFiniteSet(T) /\ T \subseteq Int
<1>1. IsFiniteSet(1 .. n)
  BY FS_Interval
<1>2. 1 .. n \subseteq Int
  OBVIOUS
<1> DEFINE D == 1 .. n
<1> HIDE DEF D
<1>3. IsFiniteSet(T) /\ T \subseteq Int
  BY <1>1, <1>2, FS_Subset DEF D
<1> QED
  BY <1>3

\* What a step of the fold over the members adds.
Adds(v, took, n, X, Y) == took \in Seq(X) /\ n.answers \in Seq(Y) /\ v = Topic!NewAnswers(took, n)
Added(v, took, n, X, Y) ==
    /\ v \in Seq(X \cup Y)
    /\ \A i \in 1 .. Len(took) : i \in 1 .. Len(v) /\ v[i] = took[i]
    /\ \A i \in 1 .. Len(n.answers) :
          \/ \E j \in 1 .. Len(took) : Topic!Says(took[j], n.answers[i])
          \/ \E j \in 1 .. i - 1 : Topic!Says(n.answers[j], n.answers[i])
          \/ \E j \in 1 .. Len(v) : v[j] = n.answers[i]

LEMMA NewAnswersIs ==
    ASSUME NEW X, NEW Y, NEW took, NEW n, NEW v, Adds(v, took, n, X, Y)
    PROVE  Added(v, took, n, X, Y)
<1>0. took \in Seq(X) /\ n.answers \in Seq(Y) /\ v = Topic!NewAnswers(took, n)
  BY Zenon DEF Adds
<1>1. PICK as \in Seq(Y) : as = n.answers
  BY <1>0
<1> DEFINE T == {i \in DOMAIN as : /\ ~\E j \in DOMAIN took : Topic!Says(took[j], as[i])
                                   /\ ~\E j \in 1 .. i - 1 : Topic!Says(as[j], as[i])}
<1>2. /\ Len(as) \in Nat /\ DOMAIN as = 1 .. Len(as) /\ \A i \in 1 .. Len(as) : as[i] \in Y
      /\ Len(took) \in Nat /\ DOMAIN took = 1 .. Len(took)
  BY <1>0, LenProperties, ElementOfSeq
<1>3. T \subseteq 1 .. Len(as) /\ IsFiniteSet(T) /\ T \subseteq Int
  <2>1. T \subseteq 1 .. Len(as)
    BY <1>2
  <2> HIDE DEF T
  <2> QED
    BY <1>2, <2>1, PartFinite
<1>4. PICK t : t = Topic!Listed(T, <) /\ Sorts({p \in T \X T : p[1] < p[2]}, t, T)
  <2> HIDE DEF T
  <2> QED
    BY <1>3, ListedInts
<1> DEFINE u == [i \in DOMAIN t |-> as[t[i]]]
           r == took \o u
<1>5. t \in Seq(T) /\ \A i \in T : \E j \in 1 .. Len(t) : t[j] = i
  <2>1. \E L : Sorts(L, t, T)
    BY <1>4, Zenon
  <2> HIDE DEF T
  <2> QED
    BY <2>1, Zenon DEF Sorts
<1>6. Topic!NewAnswers(took, n) = r
  <2> DEFINE V(i) == /\ ~\E j \in DOMAIN took : Topic!Says(took[j], n.answers[i])
                     /\ ~\E j \in 1 .. i - 1 : Topic!Says(n.answers[j], n.answers[i])
             U == {i \in DOMAIN n.answers : V(i)}
  <2>1. U = T
    BY <1>1, Zenon
  <2>2. Topic!NewAnswers(took, n) =
          took \o [i \in DOMAIN Topic!Listed(U, <) |-> n.answers[Topic!Listed(U, <)[i]]]
    BY Zenon DEF Topic!NewAnswers
  <2> HIDE DEF U, T
  <2>3. PICK w : w = Topic!Listed(U, <)
    OBVIOUS
  <2>4. w = t
    BY <1>4, <2>1, <2>3, Zenon
  <2> QED
    BY <1>1, <2>2, <2>3, <2>4, Zenon
<1>7. Len(t) \in Nat /\ DOMAIN t = 1 .. Len(t) /\ \A i \in 1 .. Len(t) : t[i] \in T
  <2> HIDE DEF T
  <2> QED
    BY <1>5, LenProperties, ElementOfSeq
<1>8. u \in Seq(Y) /\ Len(u) = Len(t)
  <2>1. u \in [1 .. Len(t) -> Y]
    BY <1>2, <1>3, <1>7
  <2> HIDE DEF u
  <2> QED
    BY <1>7, <2>1, FunIsSeq
<1>9. \A i \in 1 .. Len(t) : u[i] = as[t[i]]
  BY <1>7
<1> HIDE DEF u
<1>10. r \in Seq(X \cup Y) /\ Len(r) = Len(took) + Len(t)
       /\ (\A i \in 1 .. Len(took) : r[i] = took[i])
       /\ (\A i \in 1 .. Len(t) : r[Len(took) + i] = u[i])
  <2>1. took \in Seq(X \cup Y) /\ u \in Seq(X \cup Y)
    BY <1>0, <1>8
  <2> QED
    BY <2>1, <1>7, <1>8
<1> HIDE DEF r
<1>11. ASSUME NEW i \in 1 .. Len(as), i \in T PROVE \E j \in 1 .. Len(r) : r[j] = as[i]
  <2>1. PICK j \in 1 .. Len(t) : t[j] = i
    BY <1>5, <1>11
  <2>2. PICK a \in Nat, b \in Nat : a = Len(took) /\ b = Len(t)
    BY <1>2, <1>7
  <2>3. PICK e : e = a + j
    OBVIOUS
  <2>4. e \in 1 .. Len(r)
    BY <1>10, <2>2, <2>3
  <2>5. r[e] = as[i]
    BY <1>9, <1>10, <2>1, <2>2, <2>3, Zenon
  <2> QED
    BY <2>4, <2>5
<1>12. \A i \in 1 .. Len(as) :
         \/ \E j \in 1 .. Len(took) : Topic!Says(took[j], as[i])
         \/ \E j \in 1 .. i - 1 : Topic!Says(as[j], as[i])
         \/ \E j \in 1 .. Len(r) : r[j] = as[i]
  BY <1>2, <1>11
<1>13. \A i \in 1 .. Len(took) : i \in 1 .. Len(r)
  BY <1>2, <1>7, <1>10
<1>14. v = r
  BY <1>0, <1>6, Zenon
<1>15. v \in Seq(X \cup Y)
  BY <1>10, <1>14, Zenon
<1>16. \A i \in 1 .. Len(took) : i \in 1 .. Len(v) /\ v[i] = took[i]
  BY <1>10, <1>13, <1>14, Zenon
<1>17. \A i \in 1 .. Len(n.answers) :
         \/ \E j \in 1 .. Len(took) : Topic!Says(took[j], n.answers[i])
         \/ \E j \in 1 .. i - 1 : Topic!Says(n.answers[j], n.answers[i])
         \/ \E j \in 1 .. Len(v) : v[j] = n.answers[i]
  BY <1>1, <1>12, <1>14, Zenon
<1> QED
  BY <1>15, <1>16, <1>17, Zenon DEF Added

\* The answers of the members, folded.
AllAnswers(order) == Topic!FoldLeft(LAMBDA as, m : Topic!NewAnswers(as, Topic!Nugget(m)), <<>>, order)
GatheredBy(h, order) ==
    /\ h[1 .. 0] = <<>>
    /\ \A i \in 1 .. Len(order) : h[1 .. i] = Topic!NewAnswers(h[1 .. i - 1], Topic!Nugget(order[i]))
    /\ AllAnswers(order) = h[1 .. Len(order)]

LEMMA GatheredIs ==
    ASSUME NEW X, NEW D, NEW order \in Seq(D), \A m \in D : Topic!Nugget(m).answers \in Seq(X)
    PROVE  \E h : GatheredBy(h, order) /\ \A i \in 0 .. Len(order) : h[1 .. i] \in Seq(X)
<1> DEFINE n == Len(order)
           J == DOMAIN order
           V == Seq(X)
           f == [x \in V \X (1 .. n) |-> Topic!NewAnswers(x[1], Topic!Nugget(order[x[2]]))]
           Body(h) == h = [s \in SUBSET J |-> IF s = {} THEN <<>>
                              ELSE Topic!NewAnswers(h[s \ {Top(s)}], Topic!Nugget(order[Top(s)]))]
<1>1. J = 1 .. n /\ n \in Nat /\ \A i \in 1 .. n : order[i] \in D
  BY LenProperties, ElementOfSeq
<1>2. \A x \in V : \A i \in 1 .. n : f[<<x, i>>] = Topic!NewAnswers(x, Topic!Nugget(order[i]))
  OBVIOUS
<1> HIDE DEF f, n, J
<1>3. \A x \in V : \A i \in 1 .. n : f[<<x, i>>] \in V
  <2> SUFFICES ASSUME NEW x \in V, NEW i \in 1 .. n PROVE f[<<x, i>>] \in V
    OBVIOUS
  <2>1. PICK m \in D : m = order[i]
    BY <1>1
  <2>2. PICK y : y = Topic!Nugget(m)
    OBVIOUS
  <2>3. y.answers \in Seq(X)
    BY <2>2
  <2>4. PICK r : r = Topic!NewAnswers(x, y)
    OBVIOUS
  <2>5. Adds(r, x, y, X, X)
    BY <2>3, <2>4, Zenon DEF Adds
  <2>6. r \in Seq(X \cup X) /\ X \cup X = X
    BY <2>5, NewAnswersIs DEF Added
  <2> QED
    BY <1>2, <2>1, <2>2, <2>4, <2>6
<1>4. <<>> \in V
  OBVIOUS
<1> HIDE DEF V
<1>5. PICK e : FoldDown(e, f, <<>>, n)
  BY <1>1, FoldExists
<1>6. \A s \in SUBSET (1 .. n) : e[s] \in V
  BY <1>1, <1>3, <1>4, <1>5, FoldType
<1>7. \A s \in SUBSET J : s # {} => Top(s) \in s
  BY <1>1, TopIn
<1>8. Body(e)
  <2>1. \A s \in SUBSET J : s # {} =>
          f[<<e[s \ {Top(s)}], Top(s)>>] = Topic!NewAnswers(e[s \ {Top(s)}], Topic!Nugget(order[Top(s)]))
    <3> SUFFICES ASSUME NEW s \in SUBSET J, s # {}
                 PROVE  f[<<e[s \ {Top(s)}], Top(s)>>]
                        = Topic!NewAnswers(e[s \ {Top(s)}], Topic!Nugget(order[Top(s)]))
      OBVIOUS
    <3>1. PICK i \in 1 .. n : i = Top(s)
      BY <1>1, <1>7
    <3>2. PICK x \in V : x = e[s \ {Top(s)}]
      BY <1>1, <1>6
    <3> QED
      BY <1>2, <3>1, <3>2, Zenon
  <2>2. [s \in SUBSET J |-> IF s = {} THEN <<>> ELSE f[<<e[s \ {Top(s)}], Top(s)>>]]
        = [s \in SUBSET J |-> IF s = {} THEN <<>>
              ELSE Topic!NewAnswers(e[s \ {Top(s)}], Topic!Nugget(order[Top(s)]))]
    BY <2>1
  <2> QED
    BY <1>1, <1>5, <2>2, Zenon DEF FoldDown
<1> DEFINE g == CHOOSE h : Body(h)
<1>9. Body(g)
  <2> HIDE DEF Body
  <2> QED
    BY <1>8
<1>10. AllAnswers(order) = g[J]
  BY DEF AllAnswers, Topic!FoldLeft, Topic!MapThenFoldSet, Topic!Max, Top, J
<1> HIDE DEF g
<1> DEFINE Z == {g[s] : s \in SUBSET J}
           fg == [x \in Z \X (1 .. n) |-> Topic!NewAnswers(x[1], Topic!Nugget(order[x[2]]))]
<1>11. \A x \in Z : \A i \in 1 .. n : fg[<<x, i>>] = Topic!NewAnswers(x, Topic!Nugget(order[i]))
  OBVIOUS
<1>12. \A s \in SUBSET J : g[s] \in Z
  OBVIOUS
<1> HIDE DEF Z, fg
<1>13. FoldDown(g, fg, <<>>, n)
  <2>1. \A s \in SUBSET J : s # {} =>
          fg[<<g[s \ {Top(s)}], Top(s)>>] = Topic!NewAnswers(g[s \ {Top(s)}], Topic!Nugget(order[Top(s)]))
    <3> SUFFICES ASSUME NEW s \in SUBSET J, s # {}
                 PROVE  fg[<<g[s \ {Top(s)}], Top(s)>>]
                        = Topic!NewAnswers(g[s \ {Top(s)}], Topic!Nugget(order[Top(s)]))
      OBVIOUS
    <3>1. PICK i \in 1 .. n : i = Top(s)
      BY <1>1, <1>7
    <3>2. PICK x \in Z : x = g[s \ {Top(s)}]
      BY <1>12
    <3> QED
      BY <1>11, <3>1, <3>2, Zenon
  <2>2. [s \in SUBSET J |-> IF s = {} THEN <<>> ELSE fg[<<g[s \ {Top(s)}], Top(s)>>]]
        = [s \in SUBSET J |-> IF s = {} THEN <<>>
              ELSE Topic!NewAnswers(g[s \ {Top(s)}], Topic!Nugget(order[Top(s)]))]
    BY <2>1
  <2> QED
    BY <1>1, <1>9, <2>2, Zenon DEF FoldDown
<1> HIDE DEF Body
<1>14. g[1 .. 0] = <<>> /\ \A i \in 1 .. n : g[1 .. i] = fg[<<g[1 .. i - 1], i>>]
  BY <1>1, <1>13, FoldAt
<1>15. \A i \in 1 .. n : g[1 .. i] = Topic!NewAnswers(g[1 .. i - 1], Topic!Nugget(order[i]))
  <2> SUFFICES ASSUME NEW i \in 1 .. n PROVE g[1 .. i] = Topic!NewAnswers(g[1 .. i - 1], Topic!Nugget(order[i]))
    OBVIOUS
  <2>1. 1 .. i - 1 \in SUBSET J
    BY <1>1
  <2>2. g[1 .. i - 1] \in Z
    BY <1>12, <2>1
  <2> QED
    BY <1>11, <1>14, <2>2
<1>16. \A i \in 0 .. n : g[1 .. i] \in V
  <2> DEFINE N == {i \in Nat : i <= n => g[1 .. i] \in V}
  <2>1. 0 \in N
    BY <1>4, <1>14
  <2>2. ASSUME NEW i \in Nat, i \in N PROVE i + 1 \in N
    <3> SUFFICES ASSUME i + 1 <= n PROVE g[1 .. i + 1] \in V
      OBVIOUS
    <3>1. g[1 .. i] \in V
      BY <1>1, <2>2
    <3>2. PICK j \in 1 .. n : j = i + 1 /\ j - 1 = i
      BY <1>1
    <3>3. g[1 .. j] = Topic!NewAnswers(g[1 .. i], Topic!Nugget(order[j]))
      BY <1>15, <3>2
    <3>4. g[1 .. j] \in V
      BY <1>2, <1>3, <3>1, <3>3
    <3> QED
      BY <3>2, <3>4
  <2> HIDE DEF N
  <2>3. Nat \subseteq N
    BY <2>1, <2>2, NatInd
  <2> QED
    BY <1>1, <2>3 DEF N
<1>17. AllAnswers(order) = g[1 .. n]
  BY <1>1, <1>10
<1>18. GatheredBy(g, order)
  BY <1>14, <1>15, <1>17 DEF GatheredBy, n
<1> QED
  BY <1>16, <1>18 DEF n, V

LEMMA ImageFinite ==
    ASSUME NEW T, IsFiniteSet(T), NEW f
    PROVE  IsFiniteSet({f[x] : x \in T})
<1> DEFINE R == {f[x] : x \in T}
           h == [x \in T |-> f[x]]
<1>1. h \in Surjection(T, R)
  BY DEF Surjection
<1> HIDE DEF R, h
<1>2. IsFiniteSet(R)
  BY <1>1, FS_Surjection
<1> QED
  BY <1>2 DEF R

\* Every id names its nugget.
LEMMA Named ==
    ASSUME Topic!TopicType(topic)
    PROVE  /\ IsFiniteSet(Topic!Ids) /\ Topic!Ids \subseteq Int
           /\ \A id \in Topic!Ids : /\ Topic!Nugget(id) \in Range(topic.bank) /\ Topic!Nugget(id).id = id
                                    /\ Topic!NuggetType(Topic!Nugget(id), DOMAIN topic.long)
           /\ \A n \in Range(topic.bank) : n.id \in Topic!Ids /\ Topic!Nugget(n.id) = n
<1>1. PICK b : b = topic.bank
  OBVIOUS
<1>2. Topic!BankType(b, DOMAIN topic.long)
  BY <1>1 DEF Topic!TopicType
<1>3. /\ b \in Seq(Range(b)) /\ \A n \in Range(b) : Topic!NuggetType(n, DOMAIN topic.long)
      /\ \A i, j \in DOMAIN b : b[i].id = b[j].id => i = j
  BY <1>2, RangeAlike, Zenon DEF Topic!BankType
<1>4. Topic!Ids = {n.id : n \in Range(b)}
  BY <1>1, RangeAlike, Zenon DEF Topic!Ids
<1>5. DOMAIN b = 1 .. Len(b) /\ Len(b) \in Nat
  BY <1>3, LenProperties
<1>6. \A n \in Range(b) : \A m \in Range(b) : n.id = m.id => n = m
  BY <1>3 DEF Range
<1>7. \A id : Topic!Nugget(id) = CHOOSE n \in Range(b) : n.id = id
  BY <1>1, RangeAlike, Zenon DEF Topic!Nugget
<1>8. ASSUME NEW n \in Range(b) PROVE n.id \in Topic!Ids /\ Topic!Nugget(n.id) = n /\ n.id \in Int
  <2>1. Topic!Nugget(n.id) \in Range(b) /\ Topic!Nugget(n.id).id = n.id
    BY <1>7
  <2>2. n.id \in Int
    BY <1>3 DEF Topic!NuggetType
  <2> QED
    BY <1>4, <1>6, <2>1, <2>2
<1>9. ASSUME NEW id \in Topic!Ids
      PROVE  /\ Topic!Nugget(id) \in Range(b) /\ Topic!Nugget(id).id = id /\ id \in Int
             /\ Topic!NuggetType(Topic!Nugget(id), DOMAIN topic.long)
  <2>1. PICK n \in Range(b) : n.id = id
    BY <1>4
  <2> QED
    BY <1>3, <1>8, <2>1
<1>10. IsFiniteSet(Topic!Ids)
  <2> DEFINE f == [i \in 1 .. Len(b) |-> b[i].id]
             R == {f[i] : i \in 1 .. Len(b)}
  <2>1. IsFiniteSet(1 .. Len(b))
    BY <1>5, PartFinite
  <2>2. Topic!Ids = R
    BY <1>4, <1>5 DEF Range
  <2> DEFINE D == 1 .. Len(b)
  <2> HIDE DEF f, D
  <2>3. IsFiniteSet({f[i] : i \in D})
    BY <2>1, ImageFinite DEF D
  <2> QED
    BY <2>2, <2>3 DEF D
<1> QED
  BY <1>1, <1>8, <1>9, <1>10

\* A component is what every closed set around it has.
Meet(id) == {x \in Topic!Ids : \A T \in SUBSET Topic!Ids : id \in T /\ Topic!Closed(T) => x \in T}

LEMMA ComponentIs ==
    ASSUME NEW id \in Topic!Ids
    PROVE  /\ Topic!Component(id) = Meet(id) /\ id \in Meet(id) /\ Meet(id) \subseteq Topic!Ids
           /\ Topic!Closed(Meet(id))
<1>1. \A x, y : Topic!Near(topic.alike, x, y) <=> Topic!Near(topic.alike, y, x)
  <2>1. \A x, y : {x, y} = {y, x}
    OBVIOUS
  <2> QED
    BY <2>1 DEF Topic!Near
<1>2. id \in Meet(id) /\ Meet(id) \subseteq Topic!Ids
  BY DEF Meet
<1>3. Topic!Closed(Meet(id))
  BY DEF Meet, Topic!Closed
<1> DEFINE Fits(T) == id \in T /\ Topic!Closed(T) /\ \A U \in SUBSET T : id \in U /\ Topic!Closed(U) => U = T
<1>4. Fits(Meet(id))
  <2> SUFFICES ASSUME NEW U \in SUBSET Meet(id), id \in U, Topic!Closed(U) PROVE U = Meet(id)
    BY <1>2, <1>3
  <2>1. Meet(id) \subseteq U
    BY <1>2 DEF Meet
  <2> QED
    BY <2>1
<1>5. ASSUME NEW T \in SUBSET Topic!Ids, Fits(T) PROVE T = Meet(id)
  <2>1. Meet(id) \subseteq T
    BY <1>5 DEF Meet
  <2> QED
    BY <1>2, <1>3, <1>5, <2>1
<1>6. Topic!Component(id) = CHOOSE T \in SUBSET Topic!Ids : Fits(T)
  BY Zenon DEF Topic!Component
<1>7. Fits(Topic!Component(id)) /\ Topic!Component(id) \in SUBSET Topic!Ids
  <2>1. \E T \in SUBSET Topic!Ids : Fits(T)
    BY <1>2, <1>4
  <2> HIDE DEF Fits
  <2> QED
    BY <1>6, <2>1
<1>8. Topic!Component(id) = Meet(id)
  <2> HIDE DEF Fits
  <2> QED
    BY <1>5, <1>7
<1> QED
  BY <1>2, <1>3, <1>8

LEMMA ComponentsApart ==
    ASSUME NEW id \in Topic!Ids, NEW x \in Topic!Ids, x \in Topic!Component(id)
    PROVE  Topic!Component(x) = Topic!Component(id)
<1>1. \A u, v : Topic!Near(topic.alike, u, v) => Topic!Near(topic.alike, v, u)
  <2>1. \A u, v : {u, v} = {v, u}
    OBVIOUS
  <2> QED
    BY <2>1 DEF Topic!Near
<1> DEFINE A == Meet(id)
           B == Meet(x)
<1>2. /\ Topic!Component(id) = A /\ id \in A /\ A \subseteq Topic!Ids /\ Topic!Closed(A)
      /\ Topic!Component(x) = B /\ x \in B /\ B \subseteq Topic!Ids /\ Topic!Closed(B)
  BY ComponentIs
<1>3. B \subseteq A
  BY <1>2 DEF Meet
<1>4. id \in B
  <2> SUFFICES ASSUME id \notin B PROVE FALSE
    OBVIOUS
  <2>1. Topic!Closed(A \ B)
    <3> SUFFICES ASSUME NEW u \in A \ B, NEW v \in Topic!Ids, Topic!Near(topic.alike, u, v) PROVE v \in A \ B
      BY DEF Topic!Closed
    <3>1. v \in A
      BY <1>2 DEF Topic!Closed
    <3>2. v \in B => u \in B
      BY <1>1, <1>2 DEF Topic!Closed
    <3> QED
      BY <3>1, <3>2
  <2>2. A \ B \in SUBSET Topic!Ids /\ id \in A \ B
    BY <1>2
  <2>3. x \in A \ B
    BY <1>2, <2>1, <2>2 DEF Meet
  <2> QED
    BY <1>2, <2>3
<1>5. A \subseteq B
  BY <1>2, <1>4 DEF Meet
<1> QED
  BY <1>2, <1>3, <1>5

-----------------------------------------------------------------------------
(* Projection: what a bank is made of.                                        *)

TypedAnswers(V, P) ==
    {a \in [value : V, span : P, sentence : DOMAIN topic.long, refs : UNION {[D -> Int] : D \in SUBSET Int}] :
        IsFiniteSet(DOMAIN a.refs)}
Typed(n) == Topic!NuggetType(n, DOMAIN topic.long)
Banked(b) == IsFiniteSet(Range(b)) /\ \A n \in Range(b) : n.id \in Topic!Ids /\ Typed(n)

LEMMA AnswersTyped ==
    ASSUME NEW V, NEW P
    PROVE  /\ \A a : Topic!AnswerType(a, DOMAIN topic.long) /\ a.value \in V /\ a.span \in P => a \in TypedAnswers(V, P)
           /\ \A a \in TypedAnswers(V, P) : Topic!AnswerType(a, DOMAIN topic.long)
<1>1. ASSUME NEW a, Topic!AnswerType(a, DOMAIN topic.long), a.value \in V, a.span \in P
      PROVE  a \in TypedAnswers(V, P)
  <2>1. /\ a = [value |-> a.value, span |-> a.span, sentence |-> a.sentence, refs |-> a.refs]
        /\ a.refs = [d \in DOMAIN a.refs |-> a.refs[d]] /\ IsFiniteSet(DOMAIN a.refs)
        /\ \A d \in DOMAIN a.refs : d \in Int /\ a.refs[d] \in Int
        /\ a.sentence \in DOMAIN topic.long
    BY <1>1, FiniteAlike DEF Topic!AnswerType
  <2>2. PICK f, D : f = a.refs /\ D = DOMAIN f
    OBVIOUS
  <2>3. f \in [D -> Int] /\ D \in SUBSET Int
    BY <2>1, <2>2
  <2>4. a.refs \in UNION {[E -> Int] : E \in SUBSET Int}
    BY <2>2, <2>3
  <2> QED
    BY <1>1, <2>1, <2>4 DEF TypedAnswers
<1>2. ASSUME NEW a \in TypedAnswers(V, P) PROVE Topic!AnswerType(a, DOMAIN topic.long)
  <2>1. /\ a \in [value : V, span : P, sentence : DOMAIN topic.long, refs : UNION {[D -> Int] : D \in SUBSET Int}]
        /\ IsFiniteSet(DOMAIN a.refs)
    BY DEF TypedAnswers
  <2>2. /\ a = [value |-> a.value, span |-> a.span, sentence |-> a.sentence, refs |-> a.refs]
        /\ a.sentence \in DOMAIN topic.long
    BY <2>1
  <2>3. PICK D \in SUBSET Int : a.refs \in [D -> Int]
    BY <2>1
  <2>4. a.refs = [d \in DOMAIN a.refs |-> a.refs[d]] /\ \A d \in DOMAIN a.refs : d \in Int /\ a.refs[d] \in Int
    BY <2>3
  <2> QED
    BY <2>1, <2>2, <2>4, FiniteAlike DEF Topic!AnswerType
<1> QED
  BY <1>1, <1>2

LEMMA NuggetIs ==
    ASSUME NEW n, Typed(n)
    PROVE  /\ n = [id |-> n.id, weight |-> n.weight, status |-> n.status, and |-> n.and, answers |-> n.answers]
           /\ n.id \in Int /\ n.weight \in Int /\ n.answers \in Seq(Range(n.answers))
           /\ \A a \in Range(n.answers) : Topic!AnswerType(a, DOMAIN topic.long)
BY RangeAlike DEF Typed, Topic!NuggetType

\* A nugget with other answers.
Rewrites(e, n, w, as, X) ==
    /\ Typed(n) /\ w \in Int /\ as \in Seq(X) /\ \A a \in X : Topic!AnswerType(a, DOMAIN topic.long)
    /\ \/ e = [n EXCEPT !.weight = w, !.answers = as]
       \/ w = n.weight /\ e = [n EXCEPT !.answers = as]

LEMMA Rewritten ==
    ASSUME NEW e, NEW n, NEW w, NEW as, NEW X, Rewrites(e, n, w, as, X)
    PROVE  Typed(e) /\ e.id = n.id /\ e.answers = as
<1>0. /\ Typed(n) /\ w \in Int /\ as \in Seq(X) /\ \A a \in X : Topic!AnswerType(a, DOMAIN topic.long)
      /\ \/ e = [n EXCEPT !.weight = w, !.answers = as]
         \/ w = n.weight /\ e = [n EXCEPT !.answers = as]
  BY Zenon DEF Rewrites
<1>1. e = [id |-> n.id, weight |-> w, status |-> n.status, and |-> n.and, answers |-> as]
  <2>1. PICK i, o, s, d, q : i = n.id /\ o = n.weight /\ s = n.status /\ d = n.and /\ q = n.answers
    OBVIOUS
  <2>2. n = [id |-> i, weight |-> o, status |-> s, and |-> d, answers |-> q]
    BY <1>0, <2>1, NuggetIs, Zenon
  <2>3. \/ e = [[id |-> i, weight |-> o, status |-> s, and |-> d, answers |-> q] EXCEPT !.weight = w, !.answers = as]
        \/ w = o /\ e = [[id |-> i, weight |-> o, status |-> s, and |-> d, answers |-> q] EXCEPT !.answers = as]
    BY <1>0, <2>1, <2>2, Zenon
  <2>4. e.id = i /\ e.weight = w /\ e.status = s /\ e.and = d /\ e.answers = as
    BY ONLY <2>3
  <2>5. e = [field \in {"id", "weight", "status", "and", "answers"} |-> e[field]]
    BY ONLY <2>3
  <2>6. e = [id |-> e.id, weight |-> e.weight, status |-> e.status, and |-> e.and, answers |-> e.answers]
    BY ONLY <2>5
  <2> QED
    BY <2>1, <2>4, <2>6, Zenon
<1>2. as \in Seq(Range(as)) /\ Range(as) \subseteq X
  <2>0. as \in Seq(X)
    BY <1>0
  <2>1. DOMAIN as = 1 .. Len(as) /\ Len(as) \in Nat /\ \A i \in 1 .. Len(as) : as[i] \in X
    BY <2>0, LenProperties, ElementOfSeq
  <2>2. as \in [1 .. Len(as) -> Range(as)]
    <3>1. as = [i \in DOMAIN as |-> as[i]]
      BY <2>0, LenProperties
    <3> QED
      BY <2>1, <3>1 DEF Range
  <2> QED
    BY <2>1, <2>2, FunIsSeq DEF Range
<1>3. /\ e = [id |-> e.id, weight |-> e.weight, status |-> e.status, and |-> e.and, answers |-> e.answers]
      /\ e.id = n.id /\ e.weight = w /\ e.answers = as
  BY <1>1
<1>4. Range(e.answers) = Range(as)
  BY <1>3
<1>5. Topic!NuggetType(e, DOMAIN topic.long)
  BY <1>0, <1>2, <1>3, <1>4, NuggetIs, RangeAlike DEF Topic!NuggetType
<1> QED
  BY <1>3, <1>5 DEF Typed

\* What the members of a component are merged to.
MergedOf(ms, t) ==
    IF Len(t) = 1 THEN Topic!Nugget(t[1])
    ELSE [Topic!Nugget(t[1]) EXCEPT !.weight = Topic!Max({Topic!Nugget(m).weight : m \in ms}),
                                    !.answers = AllAnswers(t)]
Increasing(T) == {p \in T \X T : p[1] < p[2]}

LEMMA MembersListed ==
    ASSUME Topic!TopicType(topic), NEW ms \in SUBSET Topic!Ids, ms # {}
    PROVE  \E t : /\ t \in Seq(ms) /\ Len(t) \in Nat \ {0} /\ t[1] \in ms
                  /\ \A i, j \in 1 .. Len(t) : i < j => t[i] < t[j]
                  /\ \A x \in ms : t[1] <= x /\ \E i \in 1 .. Len(t) : t[i] = x
                  /\ Topic!MergeComponent(ms) = MergedOf(ms, t)
<1>1. IsFiniteSet(ms) /\ ms \subseteq Int
  BY Named, FS_Subset
<1>2. PICK t : t = Topic!Listed(ms, <) /\ Sorts({p \in ms \X ms : p[1] < p[2]}, t, ms)
  BY <1>1, ListedInts
<1>3. Sorts(Increasing(ms), t, ms)
  BY <1>2, Zenon DEF Increasing
<1>4. t \in Seq(ms) /\ Ordered(Increasing(ms), t, Len(t)) /\ \A x \in ms : \E i \in 1 .. Len(t) : t[i] = x
  BY <1>3, Zenon DEF Sorts
<1>5. Len(t) \in Nat /\ \A i \in 1 .. Len(t) : t[i] \in ms
  BY <1>4, LenProperties, ElementOfSeq
<1>6. \A i, j \in 1 .. Len(t) : i < j => t[i] < t[j]
  BY <1>4, <1>5 DEF Ordered, Increasing
<1>7. Len(t) # 0
  BY <1>4, <1>5
<1>8. \A x \in ms : t[1] <= x
  <2> SUFFICES ASSUME NEW x \in ms PROVE t[1] <= x
    OBVIOUS
  <2>1. PICK i \in 1 .. Len(t) : t[i] = x
    BY <1>4
  <2>2. CASE i = 1
    BY <1>1, <2>1, <2>2
  <2>3. CASE i # 1
    <3>1. t[1] < t[i]
      BY <1>5, <1>6, <1>7, <2>3
    <3>2. 1 \in 1 .. Len(t)
      BY <1>5, <1>7
    <3>3. t[1] \in Int /\ t[i] \in Int
      BY <1>1, <1>5, <3>2
    <3>4. PICK a \in Int, b \in Int : a = t[1] /\ b = t[i]
      BY <3>3
    <3> QED
      BY <2>1, <3>1, <3>4
  <2> QED
    BY <2>2, <2>3
<1>9. Topic!MergeComponent(ms) = MergedOf(ms, t)
  BY <1>2, Zenon DEF Topic!MergeComponent, MergedOf, AllAnswers
<1> QED
  BY <1>4, <1>5, <1>6, <1>7, <1>8, <1>9

Raw == UNION {Range(n.answers) : n \in Range(topic.bank)}

LEMMA RawTyped ==
    ASSUME Topic!TopicType(topic)
    PROVE  /\ \A a \in Raw : Topic!AnswerType(a, DOMAIN topic.long)
           /\ \A m \in Topic!Ids : Typed(Topic!Nugget(m)) /\ Topic!Nugget(m).answers \in Seq(Raw)
<1>1. \A m \in Topic!Ids : Topic!Nugget(m) \in Range(topic.bank) /\ Typed(Topic!Nugget(m))
  BY Named DEF Typed
<1>2. \A n \in Range(topic.bank) : Typed(n)
  BY Named DEF Typed
<1>3. \A a \in Raw : Topic!AnswerType(a, DOMAIN topic.long)
  BY <1>2, NuggetIs DEF Raw
<1>4. ASSUME NEW m \in Topic!Ids PROVE Topic!Nugget(m).answers \in Seq(Raw)
  <2>1. Topic!Nugget(m).answers \in Seq(Range(Topic!Nugget(m).answers))
    BY <1>1, NuggetIs
  <2>2. Range(Topic!Nugget(m).answers) \subseteq Raw
    BY <1>1 DEF Raw
  <2> QED
    BY <2>1, <2>2
<1> QED
  BY <1>1, <1>3, <1>4

\* Several members are merged to the first, with the answers of all.
LEMMA SeveralMerged ==
    ASSUME Topic!TopicType(topic), NEW ms \in SUBSET Topic!Ids, ms # {},
           NEW t \in Seq(ms), Len(t) \in Nat \ {0}, Len(t) # 1, t[1] \in ms, NEW e, e = MergedOf(ms, t)
    PROVE  Typed(e) /\ e.id = t[1] /\ e.answers = AllAnswers(t)
<1>1. Typed(Topic!Nugget(t[1])) /\ Topic!Nugget(t[1]).id = t[1]
  BY Named DEF Typed
<1>2. PICK w, as : w = Topic!Max({Topic!Nugget(m).weight : m \in ms}) /\ as = AllAnswers(t)
  OBVIOUS
<1>3. w \in Int
  <2> DEFINE f == [m \in ms |-> Topic!Nugget(m).weight]
             V == {f[m] : m \in ms}
  <2>1. V = {Topic!Nugget(m).weight : m \in ms}
    OBVIOUS
  <2>2. \A m \in ms : f[m] \in Int
    BY RawTyped, NuggetIs
  <2>3. V \subseteq Int /\ V # {}
    BY <2>2
  <2> HIDE DEF f
  <2>4. IsFiniteSet(V)
    <3>1. IsFiniteSet(ms)
      BY Named, FS_Subset
    <3> QED
      BY ONLY <3>1, ImageFinite DEF V
  <2> HIDE DEF V
  <2>5. Topic!Max(V) \in V
    BY <2>3, <2>4, GreatestIs
  <2> QED
    BY <1>2, <2>1, <2>3, <2>5
<1>4. as \in Seq(Raw)
  <2>1. \A m \in ms : Topic!Nugget(m).answers \in Seq(Raw)
    BY RawTyped
  <2>2. PICK h : GatheredBy(h, t) /\ \A i \in 0 .. Len(t) : h[1 .. i] \in Seq(Raw)
    BY <2>1, GatheredIs
  <2> QED
    BY <1>2, <2>2 DEF GatheredBy
<1>5. e = [Topic!Nugget(t[1]) EXCEPT !.weight = w, !.answers = as]
  BY <1>2, Zenon DEF MergedOf
<1>6. PICK n : n = Topic!Nugget(t[1])
  OBVIOUS
<1>7. Typed(n) /\ e = [n EXCEPT !.weight = w, !.answers = as]
  BY <1>1, <1>5, <1>6, Zenon
<1>8. \A a \in Raw : Topic!AnswerType(a, DOMAIN topic.long)
  BY RawTyped
<1>9. Rewrites(e, n, w, as, Raw)
  BY <1>3, <1>4, <1>7, <1>8, Zenon DEF Rewrites
<1>10. Typed(e) /\ e.id = n.id /\ e.answers = as
  BY <1>9, Rewritten
<1> QED
  BY <1>1, <1>2, <1>6, <1>10

\* A component is merged to one nugget, under its lowest id.
LEMMA ComponentTyped ==
    ASSUME Topic!TopicType(topic), NEW ms \in SUBSET Topic!Ids, ms # {}
    PROVE  /\ Typed(Topic!MergeComponent(ms)) /\ Topic!MergeComponent(ms).id \in ms
           /\ \A x \in ms : Topic!MergeComponent(ms).id <= x
<1>1. PICK t : /\ t \in Seq(ms) /\ Len(t) \in Nat \ {0} /\ t[1] \in ms
               /\ \A x \in ms : t[1] <= x
               /\ Topic!MergeComponent(ms) = MergedOf(ms, t)
  BY MembersListed
<1>2. Typed(Topic!Nugget(t[1])) /\ Topic!Nugget(t[1]).id = t[1]
  BY <1>1, Named DEF Typed
<1>3. CASE Len(t) = 1
  BY <1>1, <1>2, <1>3 DEF MergedOf
<1>4. CASE Len(t) # 1
  BY <1>1, <1>4, SeveralMerged
<1> QED
  BY <1>3, <1>4

Groups == {Topic!Component(id) : id \in Topic!Ids}

LEMMA GroupsAre ==
    ASSUME Topic!TopicType(topic)
    PROVE  /\ IsFiniteSet(Groups)
           /\ \A g \in Groups : /\ g \in SUBSET Topic!Ids /\ g # {} /\ IsFiniteSet(g)
                                /\ Topic!Min(g) \in g /\ \A y \in g : Topic!Min(g) <= y
           /\ \A g, h \in Groups : Topic!Min(g) = Topic!Min(h) => g = h
<1>1. ASSUME NEW id \in Topic!Ids
      PROVE  LET g == Topic!Component(id)
             IN  /\ g \in SUBSET Topic!Ids /\ g # {} /\ IsFiniteSet(g)
                 /\ Topic!Min(g) \in g /\ \A y \in g : Topic!Min(g) <= y
                 /\ Topic!Component(Topic!Min(g)) = g
  <2>1. PICK g : g = Topic!Component(id)
    OBVIOUS
  <2>2. g \in SUBSET Topic!Ids /\ g # {}
    BY <2>1, ComponentIs
  <2>3. IsFiniteSet(g) /\ g \subseteq Int
    BY <2>2, Named, FS_Subset
  <2>4. Topic!Min(g) \in g /\ \A y \in g : Topic!Min(g) <= y
    BY <2>2, <2>3, LeastIs
  <2>5. PICK x \in Topic!Ids : x = Topic!Min(g)
    BY <2>2, <2>4
  <2>6. Topic!Component(x) = Topic!Component(id)
    BY <2>1, <2>4, <2>5, ComponentsApart
  <2> QED
    BY <2>1, <2>2, <2>3, <2>4, <2>5, <2>6
<1>2. IsFiniteSet(Groups)
  <2> DEFINE f == [id \in Topic!Ids |-> Topic!Component(id)]
  <2>1. Groups = {f[id] : id \in Topic!Ids}
    BY DEF Groups
  <2>2. IsFiniteSet(Topic!Ids)
    BY Named
  <2> HIDE DEF f
  <2> QED
    BY <2>1, <2>2, ImageFinite
<1> QED
  BY <1>1, <1>2 DEF Groups

LEMMA QuestionsMerged ==
    ASSUME Topic!TopicType(topic)
    PROVE  \E t : /\ t \in Seq(Groups) /\ \A g \in Groups : \E i \in 1 .. Len(t) : t[i] = g
                  /\ \A i, j \in 1 .. Len(t) : i < j => Topic!Min(t[i]) < Topic!Min(t[j])
                  /\ Topic!MergeQuestions = [i \in 1 .. Len(t) |-> Topic!MergeComponent(t[i])]
<1> DEFINE T == Groups
           a == [g \in T |-> Topic!Min(g)]
           F == [x \in T |-> {y \in T : Topic!Min(y) < Topic!Min(x)}]
<1>0. PICK t : t = [n \in 1 .. Topic!Cardinality(T) |->
                      CHOOSE x \in T : Topic!Cardinality({y \in T : Topic!Min(y) < Topic!Min(x)}) = n - 1]
  OBVIOUS
<1>1. PlacedBy(t, T, F)
  <2>1. t = [n \in 1 .. Topic!Cardinality(T) |-> t[n]]
    <3> DEFINE G(n) == CHOOSE x \in T : Topic!Cardinality({y \in T : Topic!Min(y) < Topic!Min(x)}) = n - 1
    <3>1. t = [n \in 1 .. Topic!Cardinality(T) |-> G(n)]
      BY <1>0
    <3> HIDE DEF G
    <3> QED
      BY <3>1
  <2>2. ASSUME NEW n \in 1 .. Topic!Cardinality(T), NEW x \in T, Topic!Cardinality(F[x]) = n - 1
        PROVE  t[n] \in T /\ Topic!Cardinality(F[t[n]]) = n - 1
    <3>1. Topic!Cardinality({y \in T : Topic!Min(y) < Topic!Min(x)}) = n - 1
      BY <2>2
    <3>2. t[n] \in T /\ Topic!Cardinality({y \in T : Topic!Min(y) < Topic!Min(t[n])}) = n - 1
      BY <1>0, <3>1
    <3> QED
      BY <3>2
  <2> HIDE DEF F
  <2> QED
    BY <2>1, <2>2 DEF PlacedBy
<1>2. Keyed(T, a, a, a, a)
  <2>1. \A x \in T : a[x] = Topic!Min(x) /\ Topic!Min(x) \in Int
    <3> SUFFICES ASSUME NEW x \in T PROVE Topic!Min(x) \in Int
      OBVIOUS
    <3>1. Topic!Min(x) \in Topic!Ids /\ Topic!Ids \subseteq Int
      BY GroupsAre, Named
    <3> QED
      BY <3>1
  <2>2. \A x, y \in T : Topic!Min(x) = Topic!Min(y) => x = y
    BY GroupsAre
  <2> HIDE DEF a
  <2> QED
    BY <2>1, <2>2 DEF Keyed
<1>3. \A x \in T : F[x] = {y \in T : <<y, x>> \in LexOn(T, a, a, a, a)}
  BY DEF LexOn
<1>4. IsFiniteSet(T)
  BY GroupsAre
<1>5. \A x, y : <<x, y>> \in LexOn(T, a, a, a, a) => Topic!Min(x) < Topic!Min(y)
  BY DEF LexOn
<1>6. Topic!MergeQuestions = [i \in DOMAIN t |-> Topic!MergeComponent(t[i])]
  <2> DEFINE Mapped(u) == [i \in DOMAIN u |-> Topic!MergeComponent(u[i])]
             L == [n \in 1 .. Topic!Cardinality(T) |->
                      CHOOSE x \in T : Topic!Cardinality({y \in T : Topic!Min(y) < Topic!Min(x)}) = n - 1]
  <2>1. Topic!MergeQuestions = Mapped(L)
    BY Zenon DEF Topic!MergeQuestions, Topic!Listed, Groups
  <2>2. t = L
    BY <1>0
  <2> HIDE DEF L, Mapped
  <2>3. Topic!MergeQuestions = Mapped(t)
    BY <2>1, <2>2, Zenon
  <2> QED
    BY <2>3 DEF Mapped
<1> HIDE DEF a, F, T
<1>7. Sorts(LexOn(T, a, a, a, a), t, T)
  BY <1>1, <1>2, <1>3, <1>4, PlacesSort
<1>8. /\ t \in Seq(T) /\ Ordered(LexOn(T, a, a, a, a), t, Len(t))
      /\ \A x \in T : \E i \in 1 .. Len(t) : t[i] = x
  BY <1>7, Zenon DEF Sorts
<1>9. \A i, j \in 1 .. Len(t) : i < j => Topic!Min(t[i]) < Topic!Min(t[j])
  BY <1>5, <1>8, Zenon DEF Ordered
<1>10. DOMAIN t = 1 .. Len(t)
  BY <1>8, LenProperties
<1> QED
  BY <1>6, <1>8, <1>9, <1>10, Zenon DEF T

LEMMA QuestionsBanked ==
    ASSUME Topic!TopicType(topic)
    PROVE  Banked(Topic!MergeQuestions)
<1>1. PICK t : /\ t \in Seq(Groups)
               /\ Topic!MergeQuestions = [i \in 1 .. Len(t) |-> Topic!MergeComponent(t[i])]
  BY QuestionsMerged
<1>2. PICK b : b = Topic!MergeQuestions
  OBVIOUS
<1>3. Len(t) \in Nat /\ \A i \in 1 .. Len(t) : t[i] \in Groups
  BY <1>1, LenProperties, ElementOfSeq
<1>4. Range(b) = {b[i] : i \in 1 .. Len(t)}
  BY <1>1, <1>2 DEF Range
<1>5. IsFiniteSet(Range(b))
  <2>1. IsFiniteSet(1 .. Len(t))
    BY <1>3, PartFinite
  <2> QED
    BY <1>4, <2>1, ImageFinite
<1>6. ASSUME NEW i \in 1 .. Len(t) PROVE b[i].id \in Topic!Ids /\ Typed(b[i])
  <2>1. PICK g \in Groups : g = t[i]
    BY <1>3
  <2>2. b[i] = Topic!MergeComponent(g)
    BY <1>1, <1>2, <2>1
  <2>3. g \in SUBSET Topic!Ids /\ g # {}
    BY GroupsAre
  <2> QED
    BY <2>2, <2>3, ComponentTyped
<1> QED
  BY <1>2, <1>4, <1>5, <1>6 DEF Banked

-----------------------------------------------------------------------------
(* Projection: duplicate answers.                                             *)

\* An answer has the documents of another, with no worse a score.
Covers(b, a) == \A d \in DOMAIN a.refs : d \in DOMAIN b.refs /\ b.refs[d] >= a.refs[d]

\* The better score of each document of two answers.
BetterOf(mine, away) ==
    [d \in DOMAIN mine.refs \cup DOMAIN away.refs |->
        Topic!Max({f[d] : f \in {x \in {mine.refs, away.refs} : d \in DOMAIN x}})]

LEMMA BestCovers ==
    ASSUME NEW V, NEW P, NEW b \in TypedAnswers(V, P), NEW a \in TypedAnswers(V, P),
           NEW r, r = BetterOf(b, a)
    PROVE  /\ r \in UNION {[D -> Int] : D \in SUBSET Int} /\ IsFiniteSet(DOMAIN r)
           /\ \A d \in DOMAIN b.refs : d \in DOMAIN r /\ r[d] >= b.refs[d]
           /\ \A d \in DOMAIN a.refs : d \in DOMAIN r /\ r[d] >= a.refs[d]
<1>1. PICK f, g : f = b.refs /\ g = a.refs
  OBVIOUS
<1>2. /\ IsFiniteSet(DOMAIN f) /\ IsFiniteSet(DOMAIN g)
      /\ DOMAIN f \subseteq Int /\ DOMAIN g \subseteq Int
      /\ (\A d \in DOMAIN f : f[d] \in Int) /\ \A d \in DOMAIN g : g[d] \in Int
  <2>1. ASSUME NEW z \in TypedAnswers(V, P)
        PROVE  IsFiniteSet(DOMAIN z.refs) /\ \E E \in SUBSET Int : z.refs \in [E -> Int]
    BY DEF TypedAnswers
  <2>2. PICK E \in SUBSET Int : f \in [E -> Int]
    BY <1>1, <2>1
  <2>3. PICK E0 \in SUBSET Int : g \in [E0 -> Int]
    BY <1>1, <2>1
  <2> QED
    BY <1>1, <2>1, <2>2, <2>3
<1>3. PICK D : D = DOMAIN f \cup DOMAIN g
  OBVIOUS
<1>4. IsFiniteSet(D) /\ D \in SUBSET Int
  <2>1. IsFiniteSet(DOMAIN f \cup DOMAIN g)
    BY <1>2, FS_Union
  <2> QED
    BY <1>2, <1>3, <2>1
<1> DEFINE H(d) == {h[d] : h \in {x \in {f, g} : d \in DOMAIN x}}
<1>5. r = [d \in D |-> Topic!Max(H(d))]
  BY <1>1, <1>3, Zenon DEF BetterOf
<1>6. ASSUME NEW d \in D
      PROVE  /\ Topic!Max(H(d)) \in Int
             /\ d \in DOMAIN f => Topic!Max(H(d)) >= f[d]
             /\ d \in DOMAIN g => Topic!Max(H(d)) >= g[d]
  <2>1. PICK T : T = H(d)
    OBVIOUS
  <2>2. T \subseteq {f[d], g[d]} /\ (d \in DOMAIN f => f[d] \in T) /\ (d \in DOMAIN g => g[d] \in T)
    BY <2>1
  <2>3. T \subseteq Int /\ T # {}
    BY <1>2, <1>3, <2>1, <2>2
  <2>4. IsFiniteSet(T)
    <3>1. IsFiniteSet({f[d]} \cup {g[d]})
      BY FS_Singleton, FS_Union
    <3>2. T \subseteq {f[d]} \cup {g[d]}
      BY <2>2
    <3> QED
      BY <3>1, <3>2, FS_Subset
  <2>5. Topic!Max(T) \in T /\ \A y \in T : y <= Topic!Max(T)
    BY <2>3, <2>4, GreatestIs
  <2>6. PICK m \in Int : m = Topic!Max(T)
    BY <2>3, <2>5
  <2> HIDE DEF H
  <2> QED
    BY <1>2, <2>1, <2>2, <2>3, <2>5, <2>6
<1> HIDE DEF H
<1>7. r \in [D -> Int]
  BY <1>5, <1>6
<1>8. \A d \in D : r[d] = Topic!Max(H(d))
  BY <1>5
<1> QED
  BY <1>1, <1>3, <1>4, <1>6, <1>7, <1>8

LEMMA Absorbs ==
    ASSUME NEW V, NEW P, NEW b \in TypedAnswers(V, P), NEW a \in TypedAnswers(V, P),
           NEW e, e = Topic!Absorb(b, a)
    PROVE  e \in TypedAnswers(V, P) /\ Covers(e, b) /\ Covers(e, a)
<1>1. PICK r : r = BetterOf(b, a)
  OBVIOUS
<1>2. e = [b EXCEPT !.refs = r]
  BY <1>1, Zenon DEF Topic!Absorb, BetterOf
<1>3. b \in [value : V, span : P, sentence : DOMAIN topic.long, refs : UNION {[D -> Int] : D \in SUBSET Int}]
  BY DEF TypedAnswers
<1>4. /\ r \in UNION {[D -> Int] : D \in SUBSET Int} /\ IsFiniteSet(DOMAIN r)
      /\ \A d \in DOMAIN b.refs : d \in DOMAIN r /\ r[d] >= b.refs[d]
      /\ \A d \in DOMAIN a.refs : d \in DOMAIN r /\ r[d] >= a.refs[d]
  BY <1>1, BestCovers
<1>5. PICK R : R = UNION {[D -> Int] : D \in SUBSET Int}
  OBVIOUS
<1>6. e \in [value : V, span : P, sentence : DOMAIN topic.long, refs : R] /\ e.refs = r
  BY ONLY <1>2, <1>3, <1>4, <1>5
<1> QED
  BY <1>4, <1>5, <1>6 DEF TypedAnswers, Covers

\* What a step of the merge keeps.
LEMMA TakenKeeps ==
    ASSUME NEW V, NEW P, NEW took \in Seq(TypedAnswers(V, P)), NEW a \in TypedAnswers(V, P),
           NEW r, r = Topic!TakeAnswer(took, a)
    PROVE  /\ r \in Seq(TypedAnswers(V, P))
           /\ \A i \in 1 .. Len(took) : \E j \in 1 .. Len(r) : Covers(r[j], took[i])
           /\ \E j \in 1 .. Len(r) : Covers(r[j], a)
<1> DEFINE X == TypedAnswers(V, P)
<1>1. Len(took) \in Nat /\ DOMAIN took = 1 .. Len(took) /\ \A i \in 1 .. Len(took) : took[i] \in X
  BY LenProperties, ElementOfSeq
<1>2. \A x \in X : Covers(x, x)
  BY DEF Covers, TypedAnswers
<1>3. PICK T : T = {i \in DOMAIN took : Topic!Near(topic.close, took[i].value, a.value)
                                        /\ Topic!Near(topic.agreed, took[i].value, a.value)}
  OBVIOUS
<1>4. r = IF T = {} THEN Append(took, a) ELSE [took EXCEPT ![Topic!Min(T)] = Topic!Absorb(@, a)]
  BY <1>3, Zenon DEF Topic!TakeAnswer
<1> HIDE DEF X
<1>5. CASE T = {}
  <2>1. r = Append(took, a)
    BY <1>4, <1>5
  <2>2. r \in Seq(X) /\ Len(r) = Len(took) + 1 /\ r[Len(took) + 1] = a /\ \A i \in 1 .. Len(took) : r[i] = took[i]
    BY <2>1 DEF X
  <2>3. \A i \in 1 .. Len(took) : i \in 1 .. Len(r) /\ Covers(r[i], took[i])
    BY <1>1, <1>2, <2>2
  <2>4. Len(took) + 1 \in 1 .. Len(r) /\ Covers(r[Len(took) + 1], a)
    BY <1>1, <1>2, <2>2 DEF X
  <2> QED
    BY <2>2, <2>3, <2>4 DEF X
<1>6. CASE T # {}
  <2>1. T \subseteq 1 .. Len(took)
    BY <1>1, <1>3
  <2>2. IsFiniteSet(T) /\ T \subseteq Int
    BY <1>1, <2>1, PartFinite
  <2>3. PICK m \in 1 .. Len(took) : m = Topic!Min(T)
    <3>1. Topic!Min(T) \in T
      BY <1>6, <2>2, LeastIs
    <3> QED
      BY <2>1, <3>1
  <2>4. PICK e : e = Topic!Absorb(took[m], a)
    OBVIOUS
  <2>5. e \in X /\ Covers(e, took[m]) /\ Covers(e, a)
    <3>1. PICK b \in X : b = took[m]
      BY <1>1
    <3> QED
      BY <2>4, <3>1, Absorbs DEF X
  <2>6. r = [took EXCEPT ![m] = e]
    BY <1>4, <1>6, <2>3, <2>4
  <2>7. r \in [1 .. Len(took) -> X] /\ r[m] = e /\ \A i \in 1 .. Len(took) : i # m => r[i] = took[i]
    BY <1>1, <2>3, <2>5, <2>6, LenProperties
  <2>8. r \in Seq(X) /\ Len(r) = Len(took)
    BY <1>1, <2>7, FunIsSeq
  <2>9. ASSUME NEW i \in 1 .. Len(took) PROVE Covers(r[i], took[i])
    <3>1. CASE i = m
      BY <2>5, <2>7, <3>1
    <3>2. CASE i # m
      BY <1>1, <1>2, <2>7, <3>2
    <3> QED
      BY <3>1, <3>2
  <2> QED
    BY <2>5, <2>7, <2>8, <2>9 DEF X
<1> QED
  BY <1>5, <1>6

\* A fold takes a place after those before it.
LEMMA UpTo ==
    ASSUME NEW n \in Nat, NEW i \in 1 .. n
    PROVE  /\ 1 .. i \in SUBSET (1 .. n) /\ 1 .. i # {} /\ Top(1 .. i) = i /\ (1 .. i) \ {i} = 1 .. i - 1
           /\ 1 .. i - 1 \in SUBSET (1 .. n) /\ 1 .. 0 = {} /\ 1 .. 0 \in SUBSET (1 .. n)
<1> DEFINE s == 1 .. i
<1>1. s \in SUBSET (1 .. n) /\ s # {} /\ i \in s /\ \A y \in s : y <= i /\ y \in Nat
  OBVIOUS
<1>2. s \ {i} = 1 .. i - 1 /\ 1 .. i - 1 \in SUBSET (1 .. n) /\ 1 .. 0 = {} /\ 1 .. 0 \in SUBSET (1 .. n)
  OBVIOUS
<1> HIDE DEF s
<1>3. PICK t : t = Top(s)
  OBVIOUS
<1>4. t \in s /\ t >= i
  BY <1>1, <1>3, TopIn
<1>5. t \in Nat /\ t <= i /\ i \in Nat
  BY <1>1, <1>4
<1> QED
  BY <1>1, <1>2, <1>3, <1>4, <1>5 DEF s

\* The answers of a nugget, folded.
Absorbed(as) == Topic!FoldLeft(Topic!TakeAnswer, <<>>, as)
AbsorbedBy(h, as) ==
    /\ h[1 .. 0] = <<>>
    /\ \A i \in 1 .. Len(as) : h[1 .. i] = Topic!TakeAnswer(h[1 .. i - 1], as[i])
    /\ Absorbed(as) = h[1 .. Len(as)]

LEMMA AbsorbedIs ==
    ASSUME NEW V, NEW P, NEW as \in Seq(TypedAnswers(V, P))
    PROVE  \E h : AbsorbedBy(h, as)
<1> DEFINE n == Len(as)
           J == DOMAIN as
           Z == Seq(TypedAnswers(V, P))
           f == [x \in Z \X (1 .. n) |-> Topic!TakeAnswer(x[1], as[x[2]])]
           Body(h) == h = [s \in SUBSET J |-> IF s = {} THEN <<>>
                              ELSE Topic!TakeAnswer(h[s \ {Top(s)}], as[Top(s)])]
<1>1. J = 1 .. n /\ n \in Nat /\ \A i \in 1 .. n : as[i] \in TypedAnswers(V, P)
  BY LenProperties, ElementOfSeq
<1>2. \A x \in Z : \A i \in 1 .. n : f[<<x, i>>] = Topic!TakeAnswer(x, as[i])
  OBVIOUS
<1> HIDE DEF f, n, J
<1>3. \A x \in Z : \A i \in 1 .. n : f[<<x, i>>] \in Z
  <2> SUFFICES ASSUME NEW x \in Z, NEW i \in 1 .. n PROVE f[<<x, i>>] \in Z
    OBVIOUS
  <2>1. PICK y : y = Topic!TakeAnswer(x, as[i])
    OBVIOUS
  <2>2. PICK a \in TypedAnswers(V, P) : a = as[i]
    BY <1>1
  <2>3. y \in Z
    BY <2>1, <2>2, TakenKeeps
  <2> QED
    BY <1>2, <2>1, <2>3
<1>4. <<>> \in Z
  OBVIOUS
<1> HIDE DEF Z
<1>5. PICK e : FoldDown(e, f, <<>>, n)
  BY <1>1, FoldExists
<1>6. \A s \in SUBSET (1 .. n) : e[s] \in Z
  BY <1>1, <1>3, <1>4, <1>5, FoldType
<1>7. \A s \in SUBSET J : s # {} => Top(s) \in s
  BY <1>1, TopIn
<1>8. Body(e)
  <2>1. \A s \in SUBSET J : s # {} =>
          f[<<e[s \ {Top(s)}], Top(s)>>] = Topic!TakeAnswer(e[s \ {Top(s)}], as[Top(s)])
    <3> SUFFICES ASSUME NEW s \in SUBSET J, s # {}
                 PROVE  f[<<e[s \ {Top(s)}], Top(s)>>] = Topic!TakeAnswer(e[s \ {Top(s)}], as[Top(s)])
      OBVIOUS
    <3>1. PICK i \in 1 .. n : i = Top(s)
      BY <1>1, <1>7
    <3>2. PICK x \in Z : x = e[s \ {Top(s)}]
      BY <1>1, <1>6
    <3> QED
      BY <1>2, <3>1, <3>2, Zenon
  <2>2. [s \in SUBSET J |-> IF s = {} THEN <<>> ELSE f[<<e[s \ {Top(s)}], Top(s)>>]]
        = [s \in SUBSET J |-> IF s = {} THEN <<>>
              ELSE Topic!TakeAnswer(e[s \ {Top(s)}], as[Top(s)])]
    BY <2>1
  <2> QED
    BY <1>1, <1>5, <2>2, Zenon DEF FoldDown
<1> DEFINE g == CHOOSE h : Body(h)
<1>9. Body(g)
  <2> HIDE DEF Body
  <2> QED
    BY <1>8
<1>10. Absorbed(as) = g[J]
  BY DEF Absorbed, Topic!FoldLeft, Topic!MapThenFoldSet, Topic!Max, Top, J
<1> HIDE DEF g
<1>11. \A s \in SUBSET J : g[s] = IF s = {} THEN <<>> ELSE Topic!TakeAnswer(g[s \ {Top(s)}], as[Top(s)])
  <2> DEFINE U == SUBSET J
  <2>1. g = [s \in U |-> IF s = {} THEN <<>> ELSE Topic!TakeAnswer(g[s \ {Top(s)}], as[Top(s)])]
    BY <1>9, Zenon
  <2> HIDE DEF U
  <2>2. \A s \in U : g[s] = IF s = {} THEN <<>> ELSE Topic!TakeAnswer(g[s \ {Top(s)}], as[Top(s)])
    BY <2>1
  <2> QED
    BY <2>2 DEF U
<1> HIDE DEF Body
<1>12. g[1 .. 0] = <<>>
  <2>1. 1 .. 0 = {} /\ 1 .. 0 \in SUBSET J
    BY <1>1
  <2> QED
    BY <1>11, <2>1
<1>13. ASSUME NEW i \in 1 .. n PROVE g[1 .. i] = Topic!TakeAnswer(g[1 .. i - 1], as[i])
  <2> DEFINE s == 1 .. i
  <2>1. s \in SUBSET J /\ s # {} /\ Top(s) = i /\ s \ {i} = 1 .. i - 1
    BY <1>1, UpTo
  <2> HIDE DEF s
  <2>2. g[s] = Topic!TakeAnswer(g[s \ {i}], as[i])
    BY <1>11, <2>1
  <2> QED
    BY <2>1, <2>2 DEF s
<1>14. AbsorbedBy(g, as)
  BY <1>1, <1>10, <1>12, <1>13 DEF AbsorbedBy, n
<1> QED
  BY <1>14

LEMMA CoversOn ==
    ASSUME NEW V, NEW P, NEW a \in TypedAnswers(V, P), NEW b \in TypedAnswers(V, P),
           NEW e \in TypedAnswers(V, P), Covers(b, a), Covers(e, b)
    PROVE  Covers(e, a)
<1>1. ASSUME NEW x \in TypedAnswers(V, P), NEW d \in DOMAIN x.refs PROVE x.refs[d] \in Int
  <2>1. PICK D \in SUBSET Int : x.refs \in [D -> Int]
    BY DEF TypedAnswers
  <2> QED
    BY <2>1
<1> SUFFICES ASSUME NEW d \in DOMAIN a.refs PROVE d \in DOMAIN e.refs /\ e.refs[d] >= a.refs[d]
  BY DEF Covers
<1>2. d \in DOMAIN b.refs /\ b.refs[d] >= a.refs[d]
  BY DEF Covers
<1>3. d \in DOMAIN e.refs /\ e.refs[d] >= b.refs[d]
  BY <1>2 DEF Covers
<1>4. PICK x \in Int, y \in Int, z \in Int : x = a.refs[d] /\ y = b.refs[d] /\ z = e.refs[d]
  BY <1>1, <1>2, <1>3
<1> QED
  BY <1>2, <1>3, <1>4

\* Every answer that came is covered by one that is left.
CoveredUpTo(u, as, m) == \A i \in 1 .. m : \E j \in 1 .. Len(u) : Covers(u[j], as[i])

LEMMA AbsorbedKeeps ==
    ASSUME NEW V, NEW P, NEW as \in Seq(TypedAnswers(V, P))
    PROVE  Absorbed(as) \in Seq(TypedAnswers(V, P)) /\ CoveredUpTo(Absorbed(as), as, Len(as))
<1> DEFINE X == TypedAnswers(V, P)
<1>1. PICK h : AbsorbedBy(h, as)
  BY AbsorbedIs
<1>0. Len(as) \in Nat /\ \A i \in 1 .. Len(as) : as[i] \in X
  BY LenProperties, ElementOfSeq
<1>2. PICK n \in Nat : n = Len(as)
  BY <1>0
<1>8. \A i \in 1 .. n : as[i] \in X
  BY <1>0, <1>2
<1> HIDE DEF X
<1> DEFINE Good(m) == h[1 .. m] \in Seq(X) /\ CoveredUpTo(h[1 .. m], as, m)
           N == {m \in Nat : m <= n => Good(m)}
<1>3. 0 \in N
  <2>1. h[1 .. 0] = <<>>
    BY <1>1 DEF AbsorbedBy
  <2>2. h[1 .. 0] \in Seq(X)
    BY <2>1
  <2>3. CoveredUpTo(h[1 .. 0], as, 0)
    BY DEF CoveredUpTo
  <2>4. Good(0)
    BY <2>2, <2>3
  <2> HIDE DEF Good
  <2> QED
    BY <2>4
<1> HIDE DEF Good
<1>4. ASSUME NEW m \in Nat, m \in N PROVE m + 1 \in N
  <2> SUFFICES ASSUME m + 1 <= n PROVE Good(m + 1)
    OBVIOUS
  <2>1. m <= n
    OBVIOUS
  <2>2. h[1 .. m] \in Seq(X) /\ CoveredUpTo(h[1 .. m], as, m)
    BY <1>4, <2>1 DEF Good
  <2>3. PICK c \in 1 .. n : c = m + 1
    OBVIOUS
  <2>4. c - 1 = m /\ \A i \in 1 .. c : i = c \/ i \in 1 .. m
    BY <2>3
  <2>5. PICK u, w, a : u = h[1 .. m] /\ w = h[1 .. c] /\ a = as[c]
    OBVIOUS
  <2>6. w = Topic!TakeAnswer(u, a)
    <3>1. h[1 .. c] = Topic!TakeAnswer(h[1 .. c - 1], as[c])
      BY <1>1, <1>2 DEF AbsorbedBy
    <3> QED
      BY <2>4, <2>5, <3>1
  <2>7. u \in Seq(X) /\ a \in X
    BY <1>8, <2>2, <2>5
  <2>8. /\ w \in Seq(X)
        /\ \A i \in 1 .. Len(u) : \E j \in 1 .. Len(w) : Covers(w[j], u[i])
        /\ \E j \in 1 .. Len(w) : Covers(w[j], a)
    BY <2>6, <2>7, TakenKeeps DEF X
  <2>9. ASSUME NEW i \in 1 .. c PROVE \E j \in 1 .. Len(w) : Covers(w[j], as[i])
    <3>1. CASE i = c
      BY <2>5, <2>8, <3>1
    <3>2. CASE i \in 1 .. m
      <4>1. PICK j \in 1 .. Len(u) : Covers(u[j], as[i])
        BY <2>2, <2>5, <3>2 DEF CoveredUpTo
      <4>2. PICK p \in 1 .. Len(w) : Covers(w[p], u[j])
        BY <2>8
      <4>3. as[i] \in X /\ u[j] \in X /\ w[p] \in X
        <5>1. i \in 1 .. n
          BY <2>4, <3>2
        <5> QED
          BY <1>8, <2>7, <2>8, <5>1, ElementOfSeq
      <4>4. PICK x, y, z : x = as[i] /\ y = u[j] /\ z = w[p]
        OBVIOUS
      <4>5. Covers(z, x)
        BY <4>1, <4>2, <4>3, <4>4, CoversOn DEF X
      <4> QED
        BY <4>4, <4>5
    <3> QED
      BY <2>4, <3>1, <3>2
  <2>10. CoveredUpTo(w, as, c)
    BY <2>9 DEF CoveredUpTo
  <2> QED
    BY <2>3, <2>5, <2>8, <2>10 DEF Good
<1> HIDE DEF N
<1>5. n \in N
  BY <1>3, <1>4, NatInd
<1>6. h[1 .. n] \in Seq(X) /\ CoveredUpTo(h[1 .. n], as, n)
  <2>1. Good(n)
    BY <1>5 DEF N
  <2> QED
    BY <2>1 DEF Good
<1>7. Absorbed(as) = h[1 .. n]
  BY <1>1, <1>2 DEF AbsorbedBy
<1> QED
  BY <1>2, <1>6, <1>7 DEF X

LEMMA SeqGrows ==
    ASSUME NEW Y, NEW Z, Y \subseteq Z, NEW s \in Seq(Y)
    PROVE  s \in Seq(Z)
OBVIOUS

\* merge_answers: a nugget that covers what it did.
LEMMA AnswersMerged ==
    ASSUME NEW n, Typed(n), NEW e, e = Topic!MergeAnswers(n)
    PROVE  /\ Typed(e) /\ e.id = n.id
           /\ \A i \in DOMAIN n.answers : \E j \in DOMAIN e.answers : Covers(e.answers[j], n.answers[i])
<1> DEFINE V == {a.value : a \in Range(n.answers)}
           P == {a.span : a \in Range(n.answers)}
           X == TypedAnswers(V, P)
<1>1. PICK as : as = n.answers
  OBVIOUS
<1>2. as \in Seq(X)
  <2>1. as \in Seq(Range(as)) /\ \A a \in Range(as) : Topic!AnswerType(a, DOMAIN topic.long)
    BY <1>1, NuggetIs
  <2>2. \A a \in Range(as) : a.value \in V /\ a.span \in P
    BY <1>1
  <2> HIDE DEF V, P
  <2>3. Range(as) \subseteq X
    BY <2>1, <2>2, AnswersTyped
  <2>4. PICK Y, Z : Y = Range(as) /\ Z = X
    OBVIOUS
  <2> HIDE DEF X
  <2>5. as \in Seq(Y) /\ Y \subseteq Z
    BY <2>1, <2>3, <2>4, Zenon
  <2>6. as \in Seq(Z)
    BY <2>5, SeqGrows
  <2> QED
    BY <2>4, <2>6
<1> HIDE DEF V, P
<1>3. /\ \A a \in X : Topic!AnswerType(a, DOMAIN topic.long)
      /\ \A a \in X : Covers(a, a)
  <2>1. \A a \in X : Topic!AnswerType(a, DOMAIN topic.long)
    BY AnswersTyped
  <2>2. \A a \in X : \A d \in DOMAIN a.refs : a.refs[d] \in Int
    BY <2>1 DEF Topic!AnswerType
  <2>3. \A x \in Int : x >= x
    OBVIOUS
  <2> HIDE DEF X
  <2> QED
    BY <2>1, <2>2, <2>3 DEF Covers
<1>4. /\ Len(as) \in Nat /\ DOMAIN as = 1 .. Len(as) /\ \A i \in 1 .. Len(as) : as[i] \in X
  BY <1>2, LenProperties, ElementOfSeq
<1>5. CASE n.and
  <2>1. e = n
    BY <1>5, Zenon DEF Topic!MergeAnswers
  <2> HIDE DEF X
  <2> QED
    BY <1>1, <1>3, <1>4, <2>1
<1>6. CASE ~n.and
  <2>1. PICK r : r = Absorbed(as)
    OBVIOUS
  <2>2. r \in Seq(X) /\ CoveredUpTo(r, as, Len(as))
    BY <1>2, <2>1, AbsorbedKeeps
  <2>3. e = [n EXCEPT !.answers = r]
    BY <1>1, <1>6, <2>1, Zenon DEF Topic!MergeAnswers, Absorbed
  <2>4. PICK w : w = n.weight
    OBVIOUS
  <2>5. w \in Int
    BY <2>4, NuggetIs
  <2> HIDE DEF X
  <2>7. Rewrites(e, n, w, r, X)
    BY <1>3, <2>2, <2>3, <2>4, <2>5, Zenon DEF Rewrites
  <2>8. Typed(e) /\ e.id = n.id /\ e.answers = r
    BY <2>7, Rewritten
  <2>9. DOMAIN r = 1 .. Len(r)
    BY <2>2, LenProperties
  <2> QED
    BY <1>1, <1>4, <2>2, <2>8, <2>9 DEF CoveredUpTo
<1> QED
  BY <1>5, <1>6

LEMMA AnswersBanked ==
    ASSUME NEW b, Banked(b), NEW c, c = [i \in DOMAIN b |-> Topic!MergeAnswers(b[i])], IsFiniteSet(DOMAIN b)
    PROVE  Banked(c)
<1>1. PICK D : D = DOMAIN b
  OBVIOUS
<1>2. Range(c) = {c[i] : i \in D} /\ \A i \in D : c[i] = Topic!MergeAnswers(b[i]) /\ b[i] \in Range(b)
  BY <1>1 DEF Range
<1>3. IsFiniteSet(Range(c))
  BY <1>1, <1>2, ImageFinite
<1>4. ASSUME NEW i \in D PROVE c[i].id \in Topic!Ids /\ Typed(c[i])
  <2>1. PICK n, e : n = b[i] /\ e = c[i]
    OBVIOUS
  <2>2. e = Topic!MergeAnswers(n) /\ n.id \in Topic!Ids /\ Typed(n)
    BY <1>2, <2>1 DEF Banked
  <2> QED
    BY <2>1, <2>2, AnswersMerged
<1> QED
  BY <1>2, <1>3, <1>4 DEF Banked

-----------------------------------------------------------------------------
(* Projection: what a document is worth.                                      *)

LEMMA UnionOf ==
    ASSUME NEW T, IsFiniteSet(T), NEW F, \A x \in T : IsFiniteSet(F[x])
    PROVE  IsFiniteSet(UNION {F[x] : x \in T})
<1> DEFINE R == {F[x] : x \in T}
<1>1. IsFiniteSet(R)
  BY ImageFinite
<1>2. \A Y \in R : IsFiniteSet(Y)
  OBVIOUS
<1> HIDE DEF R
<1>3. IsFiniteSet(UNION R)
  BY <1>1, <1>2, FS_UNION
<1> QED
  BY <1>3 DEF R

PlusOver(f) == Topic!FoldFunction(+, 0, f)

LEMMA PlusOverIs ==
    ASSUME NEW f, IsFiniteSet(DOMAIN f)
    PROVE  \E g : SumOver(g, f, DOMAIN f) /\ PlusOver(f) = g[DOMAIN f]
<1>1. PICK g : SumOver(g, f, DOMAIN f)
  BY SumExists
<1>2. \A h : SumOver(h, f, DOMAIN f) => h = g
  BY <1>1, SumUnique
<1>3. PlusOver(f) = g[DOMAIN f]
  BY <1>1, <1>2 DEF PlusOver, Topic!FoldFunction, Topic!FoldFunctionOnSet, Topic!MapThenFoldSet, SumOver, Taken
<1> QED
  BY <1>1, <1>3

LEMMA PlusOverInt ==
    ASSUME NEW f, NEW T, IsFiniteSet(T), DOMAIN f = T, \A x \in T : f[x] \in Int
    PROVE  PlusOver(f) \in Int
<1>1. PICK g : SumOver(g, f, T) /\ PlusOver(f) = g[T]
  BY PlusOverIs
<1>2. g[T] \in Int
  BY <1>1, SumInt
<1> QED
  BY <1>1, <1>2

LEMMA ClaimsAre ==
    ASSUME Banked(tbank)
    PROVE  /\ IsFiniteSet(Topic!Claims)
           /\ \A p \in Topic!Claims :
                 p[1] \in Range(tbank) /\ Topic!AnswerType(Topic!Claim(p), DOMAIN topic.long)
           /\ \A n \in Range(tbank) : \A i \in DOMAIN n.answers : <<n, i>> \in Topic!Claims
<1>1. PICK R : R = Range(tbank)
  OBVIOUS
<1>2. IsFiniteSet(R) /\ \A n \in R : Typed(n)
  BY <1>1 DEF Banked
<1>3. \A n \in R : /\ n.answers \in Seq(Range(n.answers))
                   /\ \A a \in Range(n.answers) : Topic!AnswerType(a, DOMAIN topic.long)
  BY <1>2, NuggetIs
<1> DEFINE F == [n \in R |-> {<<n, i>> : i \in DOMAIN n.answers}]
<1>4. Topic!Claims = UNION {F[n] : n \in R}
  BY <1>1, RangeAlike DEF Topic!Claims
<1>5. ASSUME NEW n \in R PROVE IsFiniteSet(F[n])
  <2>1. DOMAIN n.answers = 1 .. Len(n.answers) /\ Len(n.answers) \in Nat
    BY <1>3, LenProperties
  <2>2. IsFiniteSet(DOMAIN n.answers)
    BY <2>1, PartFinite
  <2> DEFINE D == DOMAIN n.answers
             f == [i \in D |-> <<n, i>>]
  <2>3. F[n] = {f[i] : i \in D}
    OBVIOUS
  <2> HIDE DEF D, f, F
  <2> QED
    BY <2>2, <2>3, ImageFinite DEF D
<1>6. ASSUME NEW p \in Topic!Claims
      PROVE  p[1] \in R /\ Topic!AnswerType(Topic!Claim(p), DOMAIN topic.long)
  <2>1. PICK n \in R : \E i \in DOMAIN n.answers : p = <<n, i>>
    BY <1>4
  <2>2. PICK i \in DOMAIN n.answers : p = <<n, i>>
    BY <2>1
  <2>3. Topic!Claim(p) = n.answers[i] /\ n.answers[i] \in Range(n.answers)
    BY <2>2 DEF Topic!Claim, Range
  <2> QED
    BY <1>3, <2>2, <2>3
<1>7. \A n \in R : \A i \in DOMAIN n.answers : <<n, i>> \in Topic!Claims
  BY <1>4
<1> HIDE DEF F
<1>8. IsFiniteSet(Topic!Claims)
  BY <1>2, <1>4, <1>5, UnionOf
<1> QED
  BY <1>1, <1>6, <1>7, <1>8

LEMMA CitedAre ==
    ASSUME Banked(tbank)
    PROVE  IsFiniteSet(Topic!Cited) /\ Topic!Cited \subseteq Int
<1> DEFINE F == [p \in Topic!Claims |-> DOMAIN Topic!Claim(p).refs]
<1>1. Topic!Cited = UNION {F[p] : p \in Topic!Claims}
  BY DEF Topic!Cited
<1>2. ASSUME NEW p \in Topic!Claims PROVE IsFiniteSet(F[p]) /\ F[p] \subseteq Int
  <2>1. Topic!AnswerType(Topic!Claim(p), DOMAIN topic.long)
    BY ClaimsAre
  <2> QED
    BY <2>1, FiniteAlike DEF Topic!AnswerType
<1>3. IsFiniteSet(Topic!Claims)
  BY ClaimsAre
<1> HIDE DEF F
<1> QED
  BY <1>1, <1>2, <1>3, UnionOf

LEMMA TotalInt ==
    ASSUME Topic!TopicType(topic), Banked(tbank), NEW d
    PROVE  Topic!Total(d) \in Int
<1> DEFINE T == {p \in Topic!Claims : d \in DOMAIN Topic!Claim(p).refs}
           f == [p \in T |-> Topic!Worth(p, d)]
<1>1. Topic!Total(d) = PlusOver(f)
  BY Zenon DEF Topic!Total, PlusOver
<1>2. IsFiniteSet(T)
  BY ClaimsAre, FS_Subset
<1>3. ASSUME NEW p \in T PROVE f[p] \in Int
  <2>1. p[1] \in Range(tbank)
    BY ClaimsAre
  <2>2. p[1].weight \in Int
    BY <2>1, NuggetIs DEF Banked
  <2>3. PICK w \in Int : w = p[1].weight
    BY <2>2
  <2>4. w * Resolution \in Int
    BY PiecesAssumption
  <2>5. \A x \in DOMAIN topic.scores : topic.scores[x] \in Int
    BY DEF Topic!TopicType
  <2>6. Topic!Worth(p, d) \in Int
    BY <2>3, <2>4, <2>5 DEF Topic!Worth
  <2> QED
    BY <2>6
<1> HIDE DEF T
<1>4. DOMAIN f = T
  OBVIOUS
<1> HIDE DEF f
<1> QED
  BY <1>1, <1>2, <1>3, <1>4, PlusOverInt

\* The rounds that the audit saw of a nugget, and what they pooled.
LEMMA SeenAre ==
    ASSUME Topic!TopicType(topic), NEW id \in Topic!Ids
    PROVE  /\ IsFiniteSet(Topic!Pool(id))
           /\ \A x \in Topic!Pool(id) : Topic!PoolOf(id, x) \in Int
<1>1. PICK b : b = topic.bank
  OBVIOUS
<1>2. PICK n \in Range(b) : n.id = id
  BY <1>1, Named
<1>3. PICK loop : loop = topic.loops[id]
  OBVIOUS
<1>4. /\ loop \in Seq(Range(loop))
      /\ \A r \in Range(loop) : IsFiniteSet(DOMAIN r.pool) /\ \A x \in DOMAIN r.pool : r.pool[x] \in Int
  BY <1>1, <1>2, <1>3, RangeAlike, FiniteAlike DEF Topic!TopicType
<1>5. IsFiniteSet(Range(loop))
  <2>1. DOMAIN loop = 1 .. Len(loop) /\ Len(loop) \in Nat
    BY <1>4, LenProperties
  <2>2. IsFiniteSet(DOMAIN loop)
    BY <2>1, PartFinite
  <2>3. Range(loop) = {loop[i] : i \in DOMAIN loop}
    BY DEF Range
  <2> QED
    BY <2>2, <2>3, ImageFinite
<1>6. PICK T : T = Topic!Seen(id)
  OBVIOUS
<1>7. IsFiniteSet(T) /\ T \subseteq Range(loop)
  <2>1. T \subseteq Range(loop)
    BY <1>3, <1>6, RangeAlike DEF Topic!Seen
  <2> QED
    BY <1>5, <2>1, FS_Subset
<1>8. \A r \in T : IsFiniteSet(DOMAIN r.pool) /\ \A x \in DOMAIN r.pool : r.pool[x] \in Int
  BY <1>4, <1>7
<1>9. IsFiniteSet(Topic!Pool(id))
  <2> DEFINE F == [r \in T |-> DOMAIN r.pool]
  <2>1. Topic!Pool(id) = UNION {F[r] : r \in T}
    BY <1>6 DEF Topic!Pool
  <2>2. \A r \in T : IsFiniteSet(F[r])
    BY <1>8
  <2> HIDE DEF F
  <2> QED
    BY <1>7, <2>1, <2>2, UnionOf
<1>10. ASSUME NEW x \in Topic!Pool(id) PROVE Topic!PoolOf(id, x) \in Int
  <2> DEFINE U == {r \in T : x \in DOMAIN r.pool}
             F == [r \in U |-> r.pool[x]]
  <2>1. Topic!PoolOf(id, x) = Topic!Max({F[r] : r \in U})
    <3>1. {F[r] : r \in U} = {r.pool[x] : r \in {y \in T : x \in DOMAIN y.pool}}
      OBVIOUS
    <3>2. Topic!PoolOf(id, x) = Topic!Max({r.pool[x] : r \in {y \in T : x \in DOMAIN y.pool}})
      BY <1>6, Zenon DEF Topic!PoolOf
    <3> QED
      BY <3>1, <3>2, Zenon
  <2>2. U # {}
    BY <1>6 DEF Topic!Pool
  <2>3. \A r \in U : F[r] \in Int
    BY <1>8
  <2>4. IsFiniteSet(U)
    BY <1>7, FS_Subset
  <2> HIDE DEF U, F
  <2> DEFINE R == {F[r] : r \in U}
  <2>5. IsFiniteSet(R)
    BY <2>4, ImageFinite
  <2>6. R \subseteq Int /\ R # {}
    BY <2>2, <2>3
  <2> HIDE DEF R
  <2>7. Topic!Max(R) \in R
    BY <2>5, <2>6, GreatestIs
  <2> QED
    BY <2>1, <2>6, <2>7 DEF R
<1> QED
  BY <1>9, <1>10

LEMMA KinAre ==
    ASSUME Topic!TopicType(topic), Banked(tbank), NEW d, NEW cited
    PROVE  /\ IsFiniteSet(Topic!Kin(d, cited))
           /\ \A x \in Topic!Kin(d, cited) : Topic!PoolOf(x[1], x[2]) \in Int
<1>1. PICK A, B : A = {n.id : n \in Topic!Range(tbank)} /\ B = UNION {Topic!Pool(id) : id \in Topic!Ids}
  OBVIOUS
<1>2. IsFiniteSet(A) /\ A \subseteq Topic!Ids
  <2> DEFINE f == [n \in Range(tbank) |-> n.id]
  <2>1. A = {f[n] : n \in Range(tbank)}
    BY <1>1, RangeAlike
  <2>2. IsFiniteSet(Range(tbank)) /\ \A n \in Range(tbank) : n.id \in Topic!Ids
    BY DEF Banked
  <2>3. A \subseteq Topic!Ids
    BY <2>1, <2>2
  <2> HIDE DEF f
  <2> QED
    BY <2>1, <2>2, <2>3, ImageFinite
<1>3. IsFiniteSet(B)
  <2> DEFINE F == [id \in Topic!Ids |-> Topic!Pool(id)]
  <2>1. B = UNION {F[id] : id \in Topic!Ids}
    BY <1>1
  <2>2. IsFiniteSet(Topic!Ids)
    BY Named
  <2>3. \A id \in Topic!Ids : IsFiniteSet(F[id])
    BY SeenAre
  <2> HIDE DEF F
  <2> QED
    BY <2>1, <2>2, <2>3, UnionOf
<1>4. PICK T : T = Topic!Kin(d, cited)
  OBVIOUS
<1>5. T \subseteq A \X B /\ \A x \in T : x[2] \in Topic!Pool(x[1])
  BY <1>1, <1>4 DEF Topic!Kin
<1>6. IsFiniteSet(A \X B)
  BY <1>2, <1>3, FS_Product
<1>7. IsFiniteSet(T)
  BY <1>5, <1>6, FS_Subset
<1>8. \A x \in T : Topic!PoolOf(x[1], x[2]) \in Int
  <2> SUFFICES ASSUME NEW x \in T PROVE Topic!PoolOf(x[1], x[2]) \in Int
    OBVIOUS
  <2>1. PICK id, y : id = x[1] /\ y = x[2] /\ id \in Topic!Ids
    BY <1>2, <1>5
  <2>2. y \in Topic!Pool(id)
    BY <1>5, <2>1
  <2>3. Topic!PoolOf(id, y) \in Int
    BY <2>1, <2>2, SeenAre
  <2> QED
    BY <2>1, <2>3
<1> QED
  BY <1>4, <1>7, <1>8

LEMMA MeanInt ==
    ASSUME NEW T, IsFiniteSet(T), T # {}, \A x \in T : Topic!PoolOf(x[1], x[2]) \in Int
    PROVE  Topic!Mean(T) \in Int
<1> DEFINE f == [x \in T |-> Topic!PoolOf(x[1], x[2])]
<1>1. Topic!Mean(T) = (6 * PlusOver(f)) \div Topic!Cardinality(T)
  BY Zenon DEF Topic!Mean, PlusOver
<1>2. DOMAIN f = T /\ \A x \in T : f[x] \in Int
  OBVIOUS
<1> HIDE DEF f
<1>3. PICK s \in Int : s = PlusOver(f)
  BY <1>2, PlusOverInt
<1>4. PICK c \in Nat \ {0} : c = Topic!Cardinality(T)
  BY CountsAlike, FS_CardinalityType, FS_EmptySet
<1>5. (6 * s) \div c \in Int
  <2>1. 6 * s \in Int
    OBVIOUS
  <2> QED
    BY <2>1, DivInt
<1> QED
  BY <1>1, <1>3, <1>4, <1>5

LEMMA OpinionIs ==
    ASSUME Topic!TopicType(topic), Banked(tbank), NEW d
    PROVE  Topic!Opinion(d) = {} \/ \E v \in Int : Topic!Opinion(d) = {v} /\ Topic!Max(Topic!Opinion(d)) = v
<1>1. ASSUME NEW cited, Topic!Kin(d, cited) # {} PROVE Topic!Mean(Topic!Kin(d, cited)) \in Int
  <2>1. PICK T : T = Topic!Kin(d, cited)
    OBVIOUS
  <2>2. IsFiniteSet(T) /\ \A x \in T : Topic!PoolOf(x[1], x[2]) \in Int
    BY <2>1, KinAre
  <2> QED
    BY <1>1, <2>1, <2>2, MeanInt
<1>2. Topic!Opinion(d) = {} \/ \E v \in Int : Topic!Opinion(d) = {v}
  BY <1>1 DEF Topic!Opinion
<1>3. ASSUME NEW v \in Int PROVE Topic!Max({v}) = v
  BY FS_Singleton, GreatestIs
<1> QED
  BY <1>2, <1>3

-----------------------------------------------------------------------------
(* Projection: the ranked documents.                                          *)

RowsOf(t) ==
    [i \in 1 .. Topic!Min({TopDocs, Len(t)}) |-> [doc |-> t[i], score |-> Topic!Total(t[i])]]

LEMMA DocsRanked ==
    ASSUME Topic!TopicType(topic), Banked(tbank)
    PROVE  \E t : /\ t \in Seq(Topic!Cited)
                  /\ \A i, j \in 1 .. Len(t) : i < j => Topic!Total(t[j]) <= Topic!Total(t[i])
                  /\ Topic!ClaimRows = Topic!Separate(RowsOf(t))
<1> DEFINE T == Topic!Cited
           a == [d \in T |-> -Topic!Total(d)]
           b == [d \in T |-> IF Topic!Opinion(d) = {} THEN 1 ELSE 0]
           c == [d \in T |-> IF Topic!Opinion(d) = {} THEN 0 ELSE -Topic!Max(Topic!Opinion(d))]
           e == [d \in T |-> d]
           F == [x \in T |-> {y \in T : Topic!Before(y, x)}]
           L == [n \in 1 .. Topic!Cardinality(T) |->
                    CHOOSE x \in T : Topic!Cardinality({y \in T : Topic!Before(y, x)}) = n - 1]
<1>0. PICK t : t = L
  OBVIOUS
<1>1. PlacedBy(t, T, F)
  <2>1. t = [n \in 1 .. Topic!Cardinality(T) |-> t[n]]
    <3> DEFINE G(n) == CHOOSE x \in T : Topic!Cardinality({y \in T : Topic!Before(y, x)}) = n - 1
    <3>1. t = [n \in 1 .. Topic!Cardinality(T) |-> G(n)]
      BY <1>0
    <3> HIDE DEF G
    <3> QED
      BY <3>1
  <2>2. ASSUME NEW n \in 1 .. Topic!Cardinality(T), NEW x \in T, Topic!Cardinality(F[x]) = n - 1
        PROVE  t[n] \in T /\ Topic!Cardinality(F[t[n]]) = n - 1
    <3>1. Topic!Cardinality({y \in T : Topic!Before(y, x)}) = n - 1
      BY <2>2
    <3>2. t[n] \in T /\ Topic!Cardinality({y \in T : Topic!Before(y, t[n])}) = n - 1
      BY <1>0, <3>1
    <3> QED
      BY <3>2
  <2> HIDE DEF F
  <2> QED
    BY <2>1, <2>2 DEF PlacedBy
<1>2. IsFiniteSet(T) /\ T \subseteq Int
  BY CitedAre
<1>3. ASSUME NEW x \in T
      PROVE  a[x] \in Int /\ b[x] \in Int /\ c[x] \in Int /\ e[x] \in Int /\ a[x] = -Topic!Total(x)
  <2>1. PICK v \in Int : v = Topic!Total(x)
    BY TotalInt
  <2>2. Topic!Opinion(x) = {} \/ Topic!Max(Topic!Opinion(x)) \in Int
    BY OpinionIs
  <2>3. PICK u : u = Topic!Max(Topic!Opinion(x)) /\ (Topic!Opinion(x) = {} \/ u \in Int)
    BY <2>2
  <2>4. c[x] \in Int
    BY <2>3
  <2> QED
    BY <1>2, <2>1, <2>4
<1>4. Keyed(T, a, b, c, e)
  <2>1. \A x, y \in T : e[x] = e[y] => x = y
    OBVIOUS
  <2> HIDE DEF a, b, c, e
  <2> QED
    BY <1>3, <2>1 DEF Keyed
<1>5. ASSUME NEW x \in T, NEW y \in T
      PROVE  Topic!Before(y, x) <=> <<y, x>> \in LexOn(T, a, b, c, e)
  <2>1. <<y, x>> \in LexOn(T, a, b, c, e) <=>
          \/ a[y] < a[x]
          \/ a[y] = a[x] /\ b[y] < b[x]
          \/ a[y] = a[x] /\ b[y] = b[x] /\ c[y] < c[x]
          \/ a[y] = a[x] /\ b[y] = b[x] /\ c[y] = c[x] /\ e[y] < e[x]
    <3> HIDE DEF a, b, c, e
    <3> QED
      BY DEF LexOn
  <2>2. PICK sx \in Int, sy \in Int : sx = Topic!Total(x) /\ sy = Topic!Total(y)
    BY TotalInt
  <2>3. PICK ox, oy, mx, my : ox = Topic!Opinion(x) /\ oy = Topic!Opinion(y) /\ mx = Topic!Max(ox) /\ my = Topic!Max(oy)
    OBVIOUS
  <2>4. (ox = {} \/ (mx \in Int /\ ox = {mx})) /\ (oy = {} \/ (my \in Int /\ oy = {my}))
    BY <2>3, OpinionIs
  <2>5. Topic!Before(y, x) <=>
          \/ sy > sx
          \/ sy = sx /\ oy # {} /\ (ox = {} \/ my > mx)
          \/ sy = sx /\ oy = ox /\ y < x
    BY <2>2, <2>3, Zenon DEF Topic!Before
  <2>6. /\ a[x] = -sx /\ a[y] = -sy /\ e[x] = x /\ e[y] = y
        /\ b[x] = (IF ox = {} THEN 1 ELSE 0) /\ b[y] = (IF oy = {} THEN 1 ELSE 0)
        /\ c[x] = (IF ox = {} THEN 0 ELSE -mx) /\ c[y] = (IF oy = {} THEN 0 ELSE -my)
    BY <2>2, <2>3
  <2>7. x \in Int /\ y \in Int
    BY <1>2
  <2>8. PICK ax, ay, bx, by, cx, cy :
          /\ ax = a[x] /\ ay = a[y] /\ bx = b[x] /\ by = b[y] /\ cx = c[x] /\ cy = c[y]
    OBVIOUS
  <2> HIDE DEF a, b, c, e, T
  <2>9. /\ ax = -sx /\ ay = -sy
        /\ bx = (IF ox = {} THEN 1 ELSE 0) /\ by = (IF oy = {} THEN 1 ELSE 0)
        /\ cx = (IF ox = {} THEN 0 ELSE -mx) /\ cy = (IF oy = {} THEN 0 ELSE -my)
    BY <2>6, <2>8
  <2>10. ox = oy <=> bx = by /\ cx = cy
    <3>1. CASE ox = {} \/ oy = {}
      BY ONLY <2>4, <2>9, <3>1
    <3>2. CASE ox # {} /\ oy # {}
      <4>1. ox = {mx} /\ oy = {my} /\ mx \in Int /\ my \in Int
        BY <2>4, <3>2
      <4>2. bx = by /\ cx = -mx /\ cy = -my
        BY <2>9, <3>2
      <4>3. mx = my <=> cx = cy
        BY ONLY <4>1, <4>2
      <4> QED
        BY <4>1, <4>2, <4>3
    <3> QED
      BY <3>1, <3>2
  <2>11. (oy # {} /\ (ox = {} \/ my > mx)) <=> (by < bx \/ (bx = by /\ cy < cx))
    <3>1. CASE ox = {} \/ oy = {}
      BY <2>4, <2>9, <3>1
    <3>2. CASE ox # {} /\ oy # {}
      BY <2>4, <2>9, <3>2
    <3> QED
      BY <3>1, <3>2
  <2>12. (sy > sx <=> ay < ax) /\ (sy = sx <=> ay = ax)
    BY <2>9
  <2> QED
    BY <2>1, <2>5, <2>6, <2>8, <2>10, <2>11, <2>12, Zenon
<1>6. \A x \in T : F[x] = {y \in T : <<y, x>> \in LexOn(T, a, b, c, e)}
  <2> HIDE DEF a, b, c, e, T
  <2> QED
    BY <1>5
<1>7. Topic!ClaimRows = Topic!Separate(RowsOf(t))
  <2> DEFINE Printed(u) == Topic!Separate(RowsOf(u))
  <2>1. Topic!ClaimRows = Printed(L)
    BY Zenon DEF Topic!ClaimRows, Topic!Listed, RowsOf
  <2> HIDE DEF L, Printed
  <2>2. Topic!ClaimRows = Printed(t)
    BY <1>0, <2>1, Zenon
  <2> QED
    BY <2>2 DEF Printed
<1> HIDE DEF a, b, c, e, F, T, L
<1>8. Sorts(LexOn(T, a, b, c, e), t, T)
  BY <1>1, <1>2, <1>4, <1>6, PlacesSort
<1>9. t \in Seq(T) /\ Ordered(LexOn(T, a, b, c, e), t, Len(t))
  BY <1>8, Zenon DEF Sorts
<1>10. ASSUME NEW i \in 1 .. Len(t), NEW j \in 1 .. Len(t), i < j PROVE Topic!Total(t[j]) <= Topic!Total(t[i])
  <2>1. <<t[i], t[j]>> \in LexOn(T, a, b, c, e)
    BY <1>9, <1>10 DEF Ordered
  <2>2. t[i] \in T /\ t[j] \in T /\ a[t[i]] <= a[t[j]]
    <3>1. PICK x, y : x = t[i] /\ y = t[j]
      OBVIOUS
    <3>2. x \in T /\ y \in T /\ (a[x] < a[y] \/ a[x] = a[y])
      BY <2>1, <3>1 DEF LexOn
    <3>3. PICK u \in Int, v \in Int : u = a[x] /\ v = a[y]
      BY <1>3, <3>2
    <3> QED
      BY <3>1, <3>2, <3>3
  <2>3. PICK u \in Int, v \in Int : u = Topic!Total(t[i]) /\ v = Topic!Total(t[j])
    BY TotalInt
  <2>4. a[t[i]] = -u /\ a[t[j]] = -v
    BY <1>3, <2>2, <2>3
  <2> QED
    BY <2>2, <2>3, <2>4
<1> QED
  BY <1>7, <1>9, <1>10 DEF T

\* Rows that fall as printed, each between its own total and the next lower one.
RowsFine(list) ==
    /\ DOMAIN list = 1 .. Len(list) /\ Len(list) \in Nat /\ Len(list) <= TopDocs
    /\ list = <<>> <=> Len(list) = 0
    /\ \A j, m \in DOMAIN list : j < m =>
          /\ Topic!Printed(list[j].score) > Topic!Printed(list[m].score)
          /\ Topic!Total(list[j].doc) >= Topic!Total(list[m].doc)
          /\ Topic!Printed(Topic!Total(list[j].doc)) > Topic!Printed(Topic!Total(list[m].doc))
                => list[j].score > Topic!Total(list[m].doc)

LEMMA RankedFine ==
    ASSUME Topic!TopicType(topic), Banked(tbank), NEW r, r = Topic!ClaimRows, r # Topic!Tied
    PROVE  RowsFine(r)
<1>1. PICK t : /\ t \in Seq(Topic!Cited)
               /\ \A i, j \in 1 .. Len(t) : i < j => Topic!Total(t[j]) <= Topic!Total(t[i])
               /\ Topic!ClaimRows = Topic!Separate(RowsOf(t))
  BY DocsRanked
<1>2. Len(t) \in Nat /\ TopDocs \in Nat
  BY <1>1, LenProperties, TopicsAssumption
<1>3. PICK n \in Nat : n = Topic!Min({TopDocs, Len(t)}) /\ n <= TopDocs /\ n <= Len(t)
  <2>1. PICK T : T = {TopDocs, Len(t)}
    OBVIOUS
  <2>2. IsFiniteSet(T)
    <3>1. IsFiniteSet({TopDocs} \cup {Len(t)})
      BY FS_Singleton, FS_Union
    <3>2. T = {TopDocs} \cup {Len(t)}
      BY <2>1
    <3> QED
      BY <3>1, <3>2
  <2>3. T \subseteq Int /\ T # {}
    BY <1>2, <2>1
  <2>4. Topic!Min(T) \in T /\ \A y \in T : Topic!Min(T) <= y
    BY <2>2, <2>3, LeastIs
  <2> QED
    BY <1>2, <2>1, <2>4
<1>4. PICK list : list = RowsOf(t)
  OBVIOUS
<1>5. list = [i \in 1 .. n |-> [doc |-> t[i], score |-> Topic!Total(t[i])]]
  BY <1>3, <1>4, Zenon DEF RowsOf
<1>6. \A i \in 1 .. n : Topic!Total(t[i]) \in Int
  BY TotalInt
<1> DEFINE X == {list[i] : i \in 1 .. n}
<1>7. Len(list) = n /\ DOMAIN list = 1 .. n
  <2>1. list \in [1 .. n -> X]
    BY <1>5
  <2> HIDE DEF X
  <2> QED
    BY <2>1, FunIsSeq
<1>8. \A i \in 1 .. n : list[i].doc = t[i] /\ list[i].score = Topic!Total(t[i])
                        /\ list[i] = [doc |-> list[i].doc, score |-> list[i].score]
  BY <1>5
<1>9. \A i, j \in 1 .. n : i <= j => Topic!Total(t[j]) <= Topic!Total(t[i])
  <2> SUFFICES ASSUME NEW i \in 1 .. n, NEW j \in 1 .. n, i <= j PROVE Topic!Total(t[j]) <= Topic!Total(t[i])
    OBVIOUS
  <2>1. PICK x \in Int, y \in Int : x = Topic!Total(t[i]) /\ y = Topic!Total(t[j])
    BY <1>6
  <2>2. CASE i = j
    BY <2>1, <2>2
  <2>3. CASE i < j
    BY <1>1, <1>2, <1>3, <2>3
  <2> QED
    BY <2>2, <2>3
<1>10. Falling(list)
  BY <1>6, <1>7, <1>8, <1>9 DEF Falling
<1>11. r = Topic!Separate(list)
  BY <1>1, <1>4
<1>12. /\ DOMAIN r = DOMAIN list
       /\ \A i, m \in DOMAIN list : i < m =>
             /\ Topic!Printed(r[m].score) < Topic!Printed(r[i].score)
             /\ Topic!Printed(list[m].score) < Topic!Printed(list[i].score)
                   => list[m].score < r[i].score
       /\ \A m \in DOMAIN list : r[m].doc = list[m].doc
  BY <1>10, <1>11, TiesAreSeparated
<1>13. Len(r) = n /\ DOMAIN r = 1 .. n /\ (r = <<>> <=> n = 0)
  <2>1. r = [i \in DOMAIN r |-> r[i]]
    <3>1. r = Spread(list)
      BY <1>11, SeparateIs
    <3> QED
      BY <3>1 DEF Spread
  <2>2. PICK Y : Y = {r[i] : i \in 1 .. n}
    OBVIOUS
  <2>3. r \in [1 .. n -> Y]
    BY <1>7, <1>12, <2>1, <2>2
  <2>4. r \in Seq(Y) /\ Len(r) = n /\ DOMAIN r = 1 .. n
    BY <2>3, FunIsSeq
  <2> QED
    BY <2>4
<1>14. ASSUME NEW j \in 1 .. n, NEW m \in 1 .. n, j < m
       PROVE  /\ Topic!Printed(r[j].score) > Topic!Printed(r[m].score)
              /\ Topic!Total(r[j].doc) >= Topic!Total(r[m].doc)
              /\ Topic!Printed(Topic!Total(r[j].doc)) > Topic!Printed(Topic!Total(r[m].doc))
                    => r[j].score > Topic!Total(r[m].doc)
  <2>1. r[j].doc = t[j] /\ r[m].doc = t[m] /\ list[j].score = Topic!Total(t[j]) /\ list[m].score = Topic!Total(t[m])
    BY <1>7, <1>8, <1>12
  <2>2. PICK x \in Int, y \in Int : x = Topic!Total(t[j]) /\ y = Topic!Total(t[m])
    BY <1>6
  <2>3. y <= x
    BY <1>9, <1>14, <2>2
  <2>4. /\ Topic!Printed(r[m].score) < Topic!Printed(r[j].score)
        /\ Topic!Printed(y) < Topic!Printed(x) => y < r[j].score
    BY <1>7, <1>12, <1>14, <2>1, <2>2
  <2> QED
    BY <2>1, <2>2, <2>3, <2>4
<1> QED
  BY <1>3, <1>13, <1>14 DEF RowsFine

\* What each claim adds to a document.
Earned(d) == [p \in {x \in Topic!Claims : d \in DOMAIN Topic!Claim(x).refs} |-> Topic!Worth(p, d)]

LEMMA TotalIs == \A d : Topic!Total(d) = PlusOver(Earned(d))
BY Zenon DEF Topic!Total, PlusOver, Earned

LEMMA TopicStays ==
    ASSUME topic' = topic, tbank' = tbank
    PROVE  \A d : Topic!Total(d)' = Topic!Total(d)
<1>1. Topic!Claims' = Topic!Claims /\ \A p : Topic!Claim(p)' = Topic!Claim(p)
  BY DEF Topic!Claims, Topic!Claim
<1>2. \A p, d : Topic!Worth(p, d)' = Topic!Worth(p, d)
  BY <1>1 DEF Topic!Worth
<1>3. \A d : Earned(d)' = Earned(d)
  BY <1>1, <1>2 DEF Earned
<1>4. (\A d : Topic!Total(d) = PlusOver(Earned(d)))'
  BY TotalIs, PTL
<1> QED
  BY <1>3, <1>4, TotalIs

-----------------------------------------------------------------------------
(* Projection: the evidence that merging keeps.                               *)

\* Of the first members, what the fold has and what it has left out.
GatheredUpTo(t, g, c) ==
    /\ \A y \in 1 .. c : \A i \in 1 .. Len(Topic!Nugget(t[y]).answers) :
          \/ Topic!Repeated(Topic!Nugget(t[y]), i)
          \/ \E j \in 1 .. Len(g) : g[j] = Topic!Nugget(t[y]).answers[i]
    /\ \A j \in 1 .. Len(g) : \E y \in 1 .. c : \E i \in 1 .. Len(Topic!Nugget(t[y]).answers) :
          g[j] = Topic!Nugget(t[y]).answers[i]

LEMMA GatherNext ==
    ASSUME Topic!TopicType(topic), NEW ms \in Groups, NEW t \in Seq(ms),
           \A i, j \in 1 .. Len(t) : i < j => t[i] < t[j],
           NEW c \in 1 .. Len(t), NEW g \in Seq(Raw), GatheredUpTo(t, g, c - 1),
           NEW w, w = Topic!NewAnswers(g, Topic!Nugget(t[c]))
    PROVE  GatheredUpTo(t, w, c)
<1>1. Len(t) \in Nat /\ \A y \in 1 .. Len(t) : t[y] \in ms
  BY LenProperties, ElementOfSeq
<1>2. ms \in SUBSET Topic!Ids
  BY GroupsAre
<1>3. \A y \in 1 .. Len(t) : /\ Topic!Nugget(t[y]) \in Range(topic.bank) /\ Topic!Nugget(t[y]).id = t[y]
                             /\ Topic!Nugget(t[y]).answers \in Seq(Raw) /\ Topic!Component(t[y]) = ms /\ t[y] \in Int
  <2> SUFFICES ASSUME NEW y \in 1 .. Len(t)
               PROVE  /\ Topic!Nugget(t[y]) \in Range(topic.bank) /\ Topic!Nugget(t[y]).id = t[y]
                      /\ Topic!Nugget(t[y]).answers \in Seq(Raw) /\ Topic!Component(t[y]) = ms /\ t[y] \in Int
    OBVIOUS
  <2>1. PICK x \in Topic!Ids : x = t[y] /\ x \in ms
    BY <1>1, <1>2
  <2>2. PICK id \in Topic!Ids : ms = Topic!Component(id)
    BY DEF Groups
  <2>3. Topic!Component(x) = ms
    BY <2>1, <2>2, ComponentsApart
  <2> QED
    BY <2>1, <2>3, Named, RawTyped
<1>4. PICK n : n = Topic!Nugget(t[c])
  OBVIOUS
<1>5. n \in Range(topic.bank) /\ n.id = t[c] /\ n.answers \in Seq(Raw) /\ Topic!Component(n.id) = ms
  BY <1>3, <1>4
<1>6. PICK as : as = n.answers
  OBVIOUS
<1>7. /\ Len(as) \in Nat /\ DOMAIN as = 1 .. Len(as) /\ as \in Seq(Range(as))
      /\ Len(g) \in Nat /\ DOMAIN g = 1 .. Len(g) /\ g \in Seq(Range(g))
      /\ (\A i \in 1 .. Len(as) : as[i] \in Raw) /\ (\A i \in 1 .. Len(g) : g[i] \in Raw)
  <2>1. as \in Seq(Raw)
    BY <1>5, <1>6
  <2>2. \A s \in Seq(Raw) : s \in Seq(Range(s)) /\ Len(s) \in Nat /\ DOMAIN s = 1 .. Len(s)
                            /\ \A i \in 1 .. Len(s) : s[i] \in Raw
    <3> SUFFICES ASSUME NEW s \in Seq(Raw) PROVE s \in Seq(Range(s))
      BY LenProperties, ElementOfSeq
    <3>1. Len(s) \in Nat /\ DOMAIN s = 1 .. Len(s) /\ s = [i \in 1 .. Len(s) |-> s[i]]
      BY LenProperties
    <3>2. s \in [1 .. Len(s) -> Range(s)]
      BY <3>1 DEF Range
    <3> QED
      BY <3>1, <3>2, FunIsSeq
  <2> QED
    BY <2>1, <2>2
<1>8. PICK A, B : A = Range(g) /\ B = Range(as)
  OBVIOUS
<1>9. g \in Seq(A) /\ n.answers \in Seq(B)
  BY <1>6, <1>7, <1>8
<1>10. /\ w \in Seq(A \cup B)
       /\ \A i \in 1 .. Len(g) : i \in 1 .. Len(w) /\ w[i] = g[i]
       /\ \A i \in 1 .. Len(as) :
             \/ \E j \in 1 .. Len(g) : Topic!Says(g[j], as[i])
             \/ \E j \in 1 .. i - 1 : Topic!Says(as[j], as[i])
             \/ \E j \in 1 .. Len(w) : w[j] = as[i]
  <2>1. Adds(w, g, n, A, B)
    BY <1>4, <1>9, Zenon DEF Adds
  <2>2. Added(w, g, n, A, B)
    BY <2>1, NewAnswersIs
  <2> QED
    BY <1>6, <2>2, Zenon DEF Added
<1>11. PICK z : z = c - 1
  OBVIOUS
<1>12. /\ \A y \in 1 .. c : y = c \/ y \in 1 .. z
       /\ \A y \in 1 .. z : y \in 1 .. Len(t) /\ y < c /\ y \in 1 .. c
       /\ c \in 1 .. c
  BY <1>1, <1>11
<1>13. GatheredUpTo(t, g, z)
  BY <1>11
<1>14. ASSUME NEW i \in 1 .. Len(as), NEW j \in 1 .. Len(g), Topic!Says(g[j], as[i])
       PROVE  Topic!Repeated(n, i)
  <2>1. PICK y \in 1 .. z : \E x \in 1 .. Len(Topic!Nugget(t[y]).answers) : g[j] = Topic!Nugget(t[y]).answers[x]
    BY <1>13 DEF GatheredUpTo
  <2>2. PICK m : m = Topic!Nugget(t[y])
    OBVIOUS
  <2>3. m \in Range(topic.bank) /\ m.id = t[y] /\ m.answers \in Seq(Raw) /\ y < c /\ t[y] \in ms
    BY <1>1, <1>3, <1>12, <2>2
  <2>4. PICK x \in 1 .. Len(m.answers) : g[j] = m.answers[x]
    BY <2>1, <2>2
  <2>5. x \in DOMAIN m.answers
    BY <2>3, <2>4, LenProperties
  <2>6. m.id < n.id
    BY <1>5, <1>12, <2>3
  <2>7. m \in Topic!Range(topic.bank) /\ m.id \in Topic!Component(n.id)
    BY <1>5, <2>3, RangeAlike
  <2> QED
    BY <1>6, <1>14, <2>4, <2>5, <2>6, <2>7 DEF Topic!Repeated
<1>15. ASSUME NEW i \in 1 .. Len(as), NEW j \in 1 .. i - 1, Topic!Says(as[j], as[i])
       PROVE  Topic!Repeated(n, i)
  <2>1. n \in Topic!Range(topic.bank) /\ n.id \in Topic!Component(n.id)
    BY <1>1, <1>5, RangeAlike
  <2>2. j \in DOMAIN n.answers /\ j < i
    BY <1>6, <1>7
  <2> QED
    BY <1>6, <1>15, <2>1, <2>2 DEF Topic!Repeated
<1>16. ASSUME NEW y \in 1 .. c, NEW i \in 1 .. Len(Topic!Nugget(t[y]).answers)
       PROVE  \/ Topic!Repeated(Topic!Nugget(t[y]), i)
              \/ \E j \in 1 .. Len(w) : w[j] = Topic!Nugget(t[y]).answers[i]
  <2>1. CASE y = c
    BY <1>4, <1>6, <1>10, <1>14, <1>15, <2>1
  <2>2. CASE y \in 1 .. z
    <3>1. \/ Topic!Repeated(Topic!Nugget(t[y]), i)
          \/ \E j \in 1 .. Len(g) : g[j] = Topic!Nugget(t[y]).answers[i]
      BY <1>13, <2>2 DEF GatheredUpTo
    <3> QED
      BY <1>10, <3>1
  <2> QED
    BY <1>12, <2>1, <2>2
<1>17. ASSUME NEW j \in 1 .. Len(w)
       PROVE  \E y \in 1 .. c : \E i \in 1 .. Len(Topic!Nugget(t[y]).answers) :
                 w[j] = Topic!Nugget(t[y]).answers[i]
  <2>1. w[j] \in A \/ w[j] \in B
    BY <1>10, ElementOfSeq
  <2>2. CASE w[j] \in A
    <3>1. PICK i \in 1 .. Len(g) : g[i] = w[j]
      BY <1>7, <1>8, <2>2 DEF Range
    <3> QED
      BY <1>12, <1>13, <3>1 DEF GatheredUpTo
  <2>3. CASE w[j] \in B
    <3>1. PICK i \in 1 .. Len(as) : as[i] = w[j]
      BY <1>7, <1>8, <2>3 DEF Range
    <3> QED
      BY <1>4, <1>6, <1>12, <3>1
  <2> QED
    BY <2>1, <2>2, <2>3
<1> QED
  BY <1>16, <1>17 DEF GatheredUpTo

\* What a component is merged to has every answer that none before it repeats.
LEMMA ComponentKeeps ==
    ASSUME Topic!TopicType(topic), NEW ms \in Groups, NEW x \in ms, NEW i \in 1 .. Len(Topic!Nugget(x).answers)
    PROVE  \/ Topic!Repeated(Topic!Nugget(x), i)
           \/ \E j \in DOMAIN Topic!MergeComponent(ms).answers :
                 Topic!MergeComponent(ms).answers[j] = Topic!Nugget(x).answers[i]
<1>1. ms \in SUBSET Topic!Ids /\ ms # {}
  BY GroupsAre
<1>2. PICK t : /\ t \in Seq(ms) /\ Len(t) \in Nat \ {0} /\ t[1] \in ms
               /\ \A u, v \in 1 .. Len(t) : u < v => t[u] < t[v]
               /\ \A u \in ms : \E v \in 1 .. Len(t) : t[v] = u
               /\ Topic!MergeComponent(ms) = MergedOf(ms, t)
  BY <1>1, MembersListed
<1>3. PICK y \in 1 .. Len(t) : t[y] = x
  BY <1>2
<1>4. Topic!Nugget(x).answers \in Seq(Raw)
  BY <1>1, RawTyped
<1>5. CASE Len(t) = 1
  <2>1. y = 1
    BY <1>3, <1>5
  <2>2. Topic!MergeComponent(ms) = Topic!Nugget(x)
    BY <1>2, <1>3, <1>5, <2>1 DEF MergedOf
  <2>3. i \in DOMAIN Topic!Nugget(x).answers
    BY <1>4, LenProperties
  <2> QED
    BY <2>2, <2>3
<1>6. CASE Len(t) # 1
  <2>1. PICK h : GatheredBy(h, t) /\ \A m \in 0 .. Len(t) : h[1 .. m] \in Seq(Raw)
    <3>1. \A m \in ms : Topic!Nugget(m).answers \in Seq(Raw)
      BY <1>1, RawTyped
    <3> QED
      BY <1>2, <3>1, GatheredIs
  <2>2. PICK n \in Nat : n = Len(t)
    BY <1>2
  <2> DEFINE Good(m) == GatheredUpTo(t, h[1 .. m], m)
             N == {m \in Nat : m <= n => Good(m)}
  <2>3. 0 \in N
    <3>1. h[1 .. 0] = <<>>
      BY <2>1 DEF GatheredBy
    <3>2. Good(0)
      BY <3>1 DEF GatheredUpTo
    <3> HIDE DEF Good
    <3> QED
      BY <3>2
  <2> HIDE DEF Good
  <2>4. ASSUME NEW m \in Nat, m \in N PROVE m + 1 \in N
    <3> SUFFICES ASSUME m + 1 <= n PROVE Good(m + 1)
      OBVIOUS
    <3>1. Good(m) /\ m \in 0 .. n
      BY <2>4
    <3>2. PICK c \in 1 .. n : c = m + 1 /\ c - 1 = m
      OBVIOUS
    <3>3. PICK g, w : g = h[1 .. m] /\ w = h[1 .. c]
      OBVIOUS
    <3>4. g \in Seq(Raw) /\ GatheredUpTo(t, g, c - 1)
      BY <2>1, <2>2, <3>1, <3>2, <3>3 DEF Good
    <3>5. w = Topic!NewAnswers(g, Topic!Nugget(t[c]))
      <4>1. h[1 .. c] = Topic!NewAnswers(h[1 .. c - 1], Topic!Nugget(t[c]))
        BY <2>1, <2>2 DEF GatheredBy
      <4> QED
        BY <3>2, <3>3, <4>1
    <3>6. GatheredUpTo(t, w, c)
      BY <1>2, <2>2, <3>4, <3>5, GatherNext
    <3> QED
      BY <3>2, <3>3, <3>6 DEF Good
  <2> HIDE DEF N
  <2>5. n \in N
    BY <2>3, <2>4, NatInd
  <2>6. GatheredUpTo(t, h[1 .. n], n)
    <3>1. Good(n)
      BY <2>5 DEF N
    <3> QED
      BY <3>1 DEF Good
  <2>7. PICK e : e = Topic!MergeComponent(ms)
    OBVIOUS
  <2>8. e.answers = h[1 .. n] /\ h[1 .. n] \in Seq(Raw)
    <3>1. e.answers = AllAnswers(t)
      BY <1>1, <1>2, <1>6, <2>7, SeveralMerged
    <3> QED
      BY <2>1, <2>2, <3>1 DEF GatheredBy
  <2>9. DOMAIN e.answers = 1 .. Len(h[1 .. n])
    BY <2>8, LenProperties
  <2>10. \/ Topic!Repeated(Topic!Nugget(x), i)
         \/ \E j \in 1 .. Len(h[1 .. n]) : h[1 .. n][j] = Topic!Nugget(x).answers[i]
    BY <1>3, <2>2, <2>6 DEF GatheredUpTo
  <2> QED
    BY <2>7, <2>8, <2>9, <2>10
<1> QED
  BY <1>5, <1>6

\* Every answer of the bank as read, unless one before it repeats it, is covered
\* by an answer of the nugget that stands for its component.
Stands(b, n, i) ==
    \E m \in Range(b) : m.id = Topic!Min(Topic!Component(n.id))
                        /\ \E j \in DOMAIN m.answers : Covers(m.answers[j], n.answers[i])
Evident(b) ==
    \A n \in Range(topic.bank) : \A i \in 1 .. Len(n.answers) : Topic!Repeated(n, i) \/ Stands(b, n, i)

LEMMA QuestionsEvident ==
    ASSUME Topic!TopicType(topic), NEW b, b = Topic!MergeQuestions
    PROVE  Evident(b)
<1> SUFFICES ASSUME NEW n \in Range(topic.bank), NEW i \in 1 .. Len(n.answers), ~Topic!Repeated(n, i)
             PROVE  Stands(b, n, i)
  BY DEF Evident
<1>1. PICK x \in Topic!Ids : x = n.id /\ Topic!Nugget(x) = n
  BY Named
<1>2. PICK g \in Groups : g = Topic!Component(x)
  BY DEF Groups
<1>3. x \in g
  BY <1>2, ComponentIs
<1>4. PICK e : e = Topic!MergeComponent(g)
  OBVIOUS
<1>5. PICK j \in DOMAIN e.answers : e.answers[j] = n.answers[i]
  BY <1>1, <1>3, <1>4, ComponentKeeps
<1>6. e.id = Topic!Min(g)
  <2>1. g \in SUBSET Topic!Ids /\ g # {} /\ Topic!Min(g) \in g /\ \A y \in g : Topic!Min(g) <= y
    BY GroupsAre
  <2>2. e.id \in g /\ \A y \in g : e.id <= y
    BY <1>4, <2>1, ComponentTyped
  <2>3. g \subseteq Int
    BY <2>1, Named
  <2>4. PICK u \in Int, v \in Int : u = e.id /\ v = Topic!Min(g)
    BY <2>1, <2>2, <2>3
  <2>5. u <= v /\ v <= u
    BY <2>1, <2>2, <2>4
  <2> QED
    BY <2>4, <2>5
<1>7. e \in Range(b)
  <2>1. PICK t : /\ t \in Seq(Groups) /\ \A h \in Groups : \E k0 \in 1 .. Len(t) : t[k0] = h
                 /\ Topic!MergeQuestions = [k0 \in 1 .. Len(t) |-> Topic!MergeComponent(t[k0])]
    BY QuestionsMerged
  <2>2. PICK k0 \in 1 .. Len(t) : t[k0] = g
    BY <2>1
  <2>3. b[k0] = e /\ k0 \in DOMAIN b
    BY <1>4, <2>1, <2>2
  <2> QED
    BY <2>3 DEF Range
<1>8. Covers(e.answers[j], n.answers[i])
  <2>1. n.answers \in Seq(Raw)
    BY <1>1, RawTyped
  <2>2. PICK a \in Raw : a = n.answers[i]
    BY <2>1, ElementOfSeq
  <2>3. \A d \in DOMAIN a.refs : a.refs[d] \in Int
    BY RawTyped DEF Topic!AnswerType
  <2>4. \A z \in Int : z >= z
    OBVIOUS
  <2> QED
    BY <1>5, <2>2, <2>3, <2>4 DEF Covers
<1> QED
  BY <1>1, <1>2, <1>5, <1>6, <1>7, <1>8 DEF Stands

LEMMA AnswersEvident ==
    ASSUME Topic!TopicType(topic), NEW b, Banked(b), Evident(b), NEW c, c = [i \in DOMAIN b |-> Topic!MergeAnswers(b[i])]
    PROVE  Evident(c)
<1> SUFFICES ASSUME NEW n \in Range(topic.bank), NEW i \in 1 .. Len(n.answers), ~Topic!Repeated(n, i)
             PROVE  Stands(c, n, i)
  BY DEF Evident
<1>1. PICK m \in Range(b) : m.id = Topic!Min(Topic!Component(n.id))
                            /\ \E j \in DOMAIN m.answers : Covers(m.answers[j], n.answers[i])
  BY DEF Evident, Stands
<1>2. PICK j \in DOMAIN m.answers : Covers(m.answers[j], n.answers[i])
  BY <1>1
<1>3. PICK y \in DOMAIN b : b[y] = m
  BY DEF Range
<1>4. PICK e : e = Topic!MergeAnswers(m)
  OBVIOUS
<1>5. Typed(m)
  BY DEF Banked
<1>6. /\ Typed(e) /\ e.id = m.id
      /\ \A u \in DOMAIN m.answers : \E v \in DOMAIN e.answers : Covers(e.answers[v], m.answers[u])
  BY <1>4, <1>5, AnswersMerged
<1>7. PICK v \in DOMAIN e.answers : Covers(e.answers[v], m.answers[j])
  BY <1>6
<1>8. e \in Range(c)
  BY <1>3, <1>4 DEF Range
<1>9. PICK x, z, w : x = n.answers[i] /\ z = m.answers[j] /\ w = e.answers[v]
  OBVIOUS
<1>10. Topic!AnswerType(x, DOMAIN topic.long) /\ Topic!AnswerType(z, DOMAIN topic.long) /\ Topic!AnswerType(w, DOMAIN topic.long)
  <2>1. \A o : Typed(o) => \A u \in DOMAIN o.answers : Topic!AnswerType(o.answers[u], DOMAIN topic.long)
    BY NuggetIs DEF Range
  <2>2. Typed(n)
    BY Named DEF Typed
  <2>3. i \in DOMAIN n.answers
    BY <2>2, NuggetIs, LenProperties
  <2> QED
    BY <1>5, <1>6, <1>9, <2>1, <2>2, <2>3
<1>11. Covers(w, x)
  <2> SUFFICES ASSUME NEW d \in DOMAIN x.refs PROVE d \in DOMAIN w.refs /\ w.refs[d] >= x.refs[d]
    BY DEF Covers
  <2>1. d \in DOMAIN z.refs /\ z.refs[d] >= x.refs[d]
    BY <1>2, <1>9 DEF Covers
  <2>2. d \in DOMAIN w.refs /\ w.refs[d] >= z.refs[d]
    BY <1>7, <1>9, <2>1 DEF Covers
  <2>3. PICK p \in Int, q0 \in Int, r \in Int : p = x.refs[d] /\ q0 = z.refs[d] /\ r = w.refs[d]
    BY <1>10, <2>1, <2>2 DEF Topic!AnswerType
  <2> QED
    BY <2>1, <2>2, <2>3
<1> QED
  BY <1>1, <1>6, <1>8, <1>9, <1>11 DEF Stands

\* No evidence is lost, document by document.
LEMMA EvidentKept ==
    ASSUME Topic!TopicType(topic), Evident(tbank)
    PROVE  Topic!EvidenceKept
<1>1. PICK b, c : b = topic.bank /\ c = tbank
  OBVIOUS
<1>2. Topic!Range(b) = Range(b) /\ Topic!Range(c) = Range(c) /\ \A m : Topic!Range(m.answers) = Range(m.answers)
  BY RangeAlike
<1> SUFFICES ASSUME NEW n \in Range(b), NEW i \in DOMAIN n.answers, NEW d \in DOMAIN n.answers[i].refs,
                    ~Topic!Repeated(n, i)
             PROVE  \E m \in Range(c) : m.id = Topic!Min(Topic!Component(n.id))
                       /\ \E a \in Range(m.answers) : d \in DOMAIN a.refs /\ a.refs[d] >= n.answers[i].refs[d]
  BY <1>1, <1>2 DEF Topic!EvidenceKept
<1>3. i \in 1 .. Len(n.answers)
  <2>1. Typed(n)
    BY <1>1, Named DEF Typed
  <2> QED
    BY <2>1, NuggetIs, LenProperties
<1>4. PICK m \in Range(c) : m.id = Topic!Min(Topic!Component(n.id))
                            /\ \E j \in DOMAIN m.answers : Covers(m.answers[j], n.answers[i])
  BY <1>1, <1>3 DEF Evident, Stands
<1>5. PICK j \in DOMAIN m.answers : Covers(m.answers[j], n.answers[i])
  BY <1>4
<1>6. m.answers[j] \in Range(m.answers)
  BY DEF Range
<1> QED
  BY <1>4, <1>5, <1>6 DEF Covers

-----------------------------------------------------------------------------
(* Projection: what holds of a topic on its way.                              *)

\* The bank is typed and has its evidence; what is ranked is fit to publish.
Standing ==
    /\ Topic!TopicType(topic) /\ Banked(tbank) /\ IsFiniteSet(DOMAIN tbank)
    /\ tstage # "read" => Evident(tbank)
Publishing ==
    /\ tstage \in {"projected", "published", "refused"} => rows = Topic!Tied \/ RowsFine(rows)
    /\ tstage \in {"published", "refused"} => rows # Topic!Tied /\ (tstage = "refused" <=> rows = <<>>)
TopicInv == machine = "topic" => Standing /\ Publishing

\* The same topic has the same components and the same documents.
LEMMA EvidentStays ==
    ASSUME topic' = topic
    PROVE  /\ Topic!TopicType(topic)' = Topic!TopicType(topic)
           /\ Topic!Ids' = Topic!Ids
           /\ \A b : Banked(b)' = Banked(b) /\ Evident(b)' = Evident(b)
<1>1. Topic!Ids' = Topic!Ids
  BY DEF Topic!Ids
<1>2. \A x : Topic!Closed(x)' = Topic!Closed(x)
  BY <1>1 DEF Topic!Closed
<1>3. \A id : Topic!Component(id)' = Topic!Component(id)
  BY <1>1, <1>2 DEF Topic!Component
<1>4. \A n, i : Topic!Repeated(n, i)' = Topic!Repeated(n, i)
  BY <1>3 DEF Topic!Repeated
<1>5. \A b, n, i : Stands(b, n, i)' = Stands(b, n, i)
  BY <1>3 DEF Stands
<1>6. \A b : Evident(b)' = Evident(b)
  BY <1>4, <1>5 DEF Evident
<1>7. \A n : Typed(n)' = Typed(n)
  BY DEF Typed
<1>8. \A b : Banked(b)' = Banked(b)
  BY <1>1, <1>7 DEF Banked
<1>9. Topic!TopicType(topic)' = Topic!TopicType(topic)
  OBVIOUS
<1> QED
  BY <1>1, <1>6, <1>8, <1>9

LEMMA RowsStay ==
    ASSUME topic' = topic, tbank' = tbank
    PROVE  \A list : RowsFine(list)' = RowsFine(list)
BY TopicStays DEF RowsFine, Topic!Printed

LEMMA BankRead ==
    ASSUME Topic!TopicType(topic)
    PROVE  Banked(topic.bank) /\ IsFiniteSet(DOMAIN topic.bank)
<1>1. PICK b : b = topic.bank
  OBVIOUS
<1>2. b \in Seq(Range(b))
  BY <1>1, RangeAlike DEF Topic!TopicType, Topic!BankType
<1>3. DOMAIN b = 1 .. Len(b) /\ Len(b) \in Nat
  BY <1>2, LenProperties
<1>4. IsFiniteSet(DOMAIN b)
  BY <1>3, PartFinite
<1>5. IsFiniteSet(Range(b))
  <2>1. Range(b) = {b[i] : i \in DOMAIN b}
    BY DEF Range
  <2> QED
    BY <1>4, <2>1, ImageFinite
<1>6. \A n \in Range(b) : n.id \in Topic!Ids /\ Typed(n)
  BY <1>1, Named DEF Typed
<1> QED
  BY <1>1, <1>4, <1>5, <1>6 DEF Banked

LEMMA QuestionsStep == ASSUME Standing, Topic!Questions PROVE (Standing /\ Publishing)'
<1>1. topic' = topic /\ tstage' = "questions"
  BY DEF Topic!Questions
<1>2. PICK b : b = tbank' /\ b = Topic!MergeQuestions
  BY DEF Topic!Questions
<1>3. Topic!TopicType(topic)
  BY DEF Standing
<1>4. Banked(b) /\ Evident(b)
  BY <1>2, <1>3, QuestionsBanked, QuestionsEvident
<1>5. IsFiniteSet(DOMAIN b)
  <2>1. PICK t : t \in Seq(Groups) /\ b = [i \in 1 .. Len(t) |-> Topic!MergeComponent(t[i])]
    BY <1>2, <1>3, QuestionsMerged
  <2>2. DOMAIN b = 1 .. Len(t) /\ Len(t) \in Nat
    BY <2>1, LenProperties
  <2> QED
    BY <2>2, PartFinite
<1>6. Topic!TopicType(topic)' /\ Banked(b)' /\ Evident(b)'
  BY <1>1, <1>3, <1>4, EvidentStays
<1>7. Banked(tbank)' /\ Evident(tbank)'
  BY <1>2, <1>6 DEF Banked, Evident, Stands
<1> QED
  BY <1>1, <1>2, <1>5, <1>6, <1>7 DEF Standing, Publishing

LEMMA AnswersStep == ASSUME Standing, Topic!Answers PROVE (Standing /\ Publishing)'
<1>1. topic' = topic /\ tstage = "questions" /\ tstage' = "answers"
  BY DEF Topic!Answers
<1>2. PICK b, c : b = tbank /\ c = tbank' /\ c = [i \in DOMAIN b |-> Topic!MergeAnswers(b[i])]
  BY Zenon DEF Topic!Answers
<1>3. Topic!TopicType(topic) /\ Banked(b) /\ IsFiniteSet(DOMAIN b) /\ Evident(b)
  BY <1>1, <1>2 DEF Standing
<1>4. Banked(c) /\ Evident(c)
  BY <1>2, <1>3, AnswersBanked, AnswersEvident
<1>5. IsFiniteSet(DOMAIN c)
  BY <1>2, <1>3
<1>6. Topic!TopicType(topic)' /\ Banked(c)' /\ Evident(c)'
  BY <1>1, <1>3, <1>4, EvidentStays
<1>7. Banked(tbank)' /\ Evident(tbank)'
  BY <1>2, <1>6 DEF Banked, Evident, Stands
<1> QED
  BY <1>1, <1>2, <1>5, <1>6, <1>7 DEF Standing, Publishing

\* Once merged, the bank stays.
LEMMA StandingStays ==
    ASSUME Standing, topic' = topic, tbank' = tbank, tstage' # "read" => tstage # "read" PROVE Standing'
<1>1. PICK b : b = tbank /\ b = tbank'
  OBVIOUS
<1>2. Topic!TopicType(topic) /\ Banked(b) /\ IsFiniteSet(DOMAIN b) /\ (tstage' # "read" => Evident(b))
  BY <1>1 DEF Standing
<1>3. Topic!TopicType(topic)' /\ Banked(b)' /\ (tstage' # "read" => Evident(b)')
  BY <1>2, EvidentStays
<1>4. Banked(tbank)' /\ (tstage' # "read" => Evident(tbank)')
  BY <1>1, <1>3 DEF Banked, Evident, Stands
<1> QED
  BY <1>1, <1>2, <1>3, <1>4 DEF Standing

LEMMA ProjectStep == ASSUME Standing, Topic!Project PROVE (Standing /\ Publishing)'
<1>1. topic' = topic /\ tbank' = tbank /\ tstage = "caps" /\ tstage' = "projected"
  BY DEF Topic!Project
<1>2. PICK r : r = rows' /\ r = Topic!ClaimRows
  BY DEF Topic!Project
<1>3. r = Topic!Tied \/ RowsFine(r)
  BY <1>2, RankedFine DEF Standing
<1>4. r = Topic!Tied \/ RowsFine(r)'
  BY <1>1, <1>3, RowsStay
<1>5. rows' = Topic!Tied \/ RowsFine(rows)'
  BY <1>2, <1>4 DEF RowsFine
<1>6. Publishing'
  BY <1>1, <1>5 DEF Publishing, Topic!Tied
<1> QED
  BY <1>1, <1>6, StandingStays

LEMMA SelfCheckStep == ASSUME Standing, Publishing, Topic!SelfCheck PROVE (Standing /\ Publishing)'
<1>1. /\ topic' = topic /\ tbank' = tbank /\ rows' = rows /\ tstage = "projected"
      /\ rows # Topic!Tied /\ tstage' \in {"published", "refused"}
  BY DEF Topic!SelfCheck
<1>2. PICK r : r = rows
  OBVIOUS
<1>3. RowsFine(r)
  BY <1>1, <1>2 DEF Publishing
<1>4. tstage' = IF /\ r # <<>> /\ Len(r) <= TopDocs
                   /\ \A i \in 1 .. Len(r) - 1 : Topic!Printed(r[i + 1].score) < Topic!Printed(r[i].score)
                THEN "published" ELSE "refused"
  BY <1>2, Zenon DEF Topic!SelfCheck
<1>5. ASSUME NEW i \in 1 .. Len(r) - 1 PROVE Topic!Printed(r[i + 1].score) < Topic!Printed(r[i].score)
  <2>1. PICK n \in Nat : n = Len(r) /\ DOMAIN r = 1 .. n
    BY <1>3 DEF RowsFine
  <2>2. PICK j : j = i + 1
    OBVIOUS
  <2>3. i \in 1 .. n /\ j \in 1 .. n /\ i < j
    BY <2>1, <2>2
  <2>4. Topic!Printed(r[i].score) > Topic!Printed(r[j].score)
    BY <1>3, <2>1, <2>3 DEF RowsFine
  <2>5. \A x, y : x > y => y < x
    OBVIOUS
  <2> QED
    BY <2>2, <2>4, <2>5
<1>6. Len(r) <= TopDocs
  BY <1>3 DEF RowsFine
<1>7. tstage' = "refused" <=> r = <<>>
  BY <1>4, <1>5, <1>6
<1>8. RowsFine(r)'
  BY <1>1, <1>3, RowsStay
<1>9. RowsFine(rows)'
  BY <1>1, <1>2, <1>8 DEF RowsFine
<1>10. Publishing'
  BY <1>1, <1>2, <1>7, <1>9 DEF Publishing, Topic!Tied
<1> QED
  BY <1>1, <1>10, StandingStays

LEMMA TopicInitial == MCInit => TopicInv
<1> SUFFICES ASSUME MCInit, machine = "topic" PROVE Standing /\ Publishing
  BY DEF TopicInv
<1>1. topic \in TopicInputs /\ tstage = "read" /\ tbank = topic.bank
  BY DEF MCInit, Topic!Init
<1>2. Topic!TopicType(topic)
  BY <1>1, TopicsAssumption
<1> QED
  BY <1>1, <1>2, BankRead DEF Standing, Publishing

LEMMA TopicInductive == TopicInv /\ [machine' = machine /\ Topic!Next]_<<machine, topicVars>> => TopicInv'
<1> SUFFICES ASSUME TopicInv, [machine' = machine /\ Topic!Next]_<<machine, topicVars>>, machine' = "topic"
             PROVE  (Standing /\ Publishing)'
  BY DEF TopicInv
<1>1. Standing /\ Publishing
  BY DEF TopicInv, topicVars
<1>2. CASE UNCHANGED <<machine, topicVars>>
  <2>1. topic' = topic /\ tstage' = tstage /\ tbank' = tbank /\ rows' = rows
    BY <1>2 DEF topicVars
  <2>2. PICK r : r = rows
    OBVIOUS
  <2>3. RowsFine(r)' = RowsFine(r)
    BY <2>1, RowsStay
  <2>4. RowsFine(rows)' = RowsFine(rows)
    BY <2>1, <2>2, <2>3 DEF RowsFine
  <2>5. Publishing'
    BY <1>1, <2>1, <2>4 DEF Publishing, Topic!Tied
  <2> QED
    BY <1>1, <2>1, <2>5, StandingStays
<1>3. CASE Topic!Caps
  <2>1. /\ topic' = topic /\ tbank' = tbank /\ tstage = "answers" /\ tstage' = "caps"
    BY <1>3 DEF Topic!Caps
  <2> QED
    BY <1>1, <2>1, StandingStays DEF Publishing
<1>4. CASE Topic!Next /\ ~Topic!Caps
  BY <1>1, <1>4, QuestionsStep, AnswersStep, ProjectStep, SelfCheckStep DEF Topic!Next
<1> QED
  BY <1>2, <1>3, <1>4

LEMMA TopicAlone == [MCNext]_allVars => [machine' = machine /\ Topic!Next]_<<machine, topicVars>>
BY DEF MCNext, BankRuns, QueueRuns, LaneRuns, FanRuns, StackRuns, RankRuns, TopicRuns, LoopRuns,
       SubmitRuns, allVars, topicVars

\* Merging duplicate questions and duplicate answers loses no evidence, for every
\* bank and whatever the embeddings and the judge hold to be alike: under the nugget
\* that stands for its question, a document that an answer cited is cited with no
\* worse a score, unless an answer before it said the same word for word
\* (merge_questions_embedding, merge_answers).
THEOREM MergingKeepsEvidence == MCSpec => []EvidenceKept
<1>1. TopicInv => EvidenceKept
  BY EvidentKept DEF TopicInv, Standing, EvidenceKept, Topic!EvidenceKept
<1> QED
  BY TopicInitial, TopicInductive, TopicAlone, <1>1, PTL DEF MCSpec, allVars

\* A ranking that does not raise is one the organizers read as it was meant, for
\* every bank, every map of scores and every resolution: no two printed scores are
\* equal, none is out of order, every document keeps its place between the totals,
\* and the self-check refuses only a run without rows (claim_support_rows,
\* _separate_tied_groups, check_run_file).
THEOREM RankedRunsArePublishable == MCSpec => []RunPublishable
<1>1. TopicInv => RunPublishable
  <2> SUFFICES ASSUME Publishing PROVE Topic!RunPublishable
    BY DEF TopicInv, RunPublishable
  <2> SUFFICES ASSUME tstage \in {"published", "refused"}
               PROVE  /\ tstage = "refused" <=> rows = <<>>
                      /\ RowsFine(rows)
    BY DEF Topic!RunPublishable, RowsFine
  <2> QED
    BY DEF Publishing
<1> QED
  BY TopicInitial, TopicInductive, TopicAlone, <1>1, PTL DEF MCSpec, allVars
=============================================================================
