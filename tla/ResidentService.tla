--------------------------- MODULE ResidentService ---------------------------
(* The resident retrieval service (devkit/rsvc.py) over a fleet of replicas:  *)
(* ReplicaPool hands single queries to forked stacks, Service                 *)
(* ._serve_multiplexed shares the fleet between the requests it has accepted, *)
(* and a request that names its fleet width runs alone.                       *)
EXTENDS Integers, Sequences, SequencesExt

CONSTANTS
    Requests,    \* requests, one file each
    N,           \* replicas
    Jobs,        \* queries of each request (times its repeat)
    Width,       \* replicas an exclusive request may use, as it asked
    Batch,       \* marks the keys of run_batch, which are bare indices
    Scenarios    \* what may happen: see Scenario

\* refused: requests that do not parse into jobs; excl: requests naming
\* use_replicas; raising: requests with queries that may raise in a replica;
\* mortal: replicas may die.
Scenario == [refused : SUBSET Requests, excl : SUBSET Requests,
             raising : SUBSET Requests, mortal : BOOLEAN]

Replicas == 1 .. N
JobsOf(r) == 1 .. Jobs[r]

VARIABLES
    scen,        \* the scenario, fixed
    stage,       \* "unsent", "queued" in <queue>/in, "taken"
    reply,       \* <queue>/out: "none", "error", "answered"
    pc, scan,    \* place in the serve loop; rest of the directory listing
    live,        \* accepted requests, in turn order
    head,        \* the request run_batch works for
    nxt,         \* _Live.nxt: jobs dispatched
    results,     \* _Live.results: the job each position's result was made for
    failed,      \* requests with _Live.error
    inflight,    \* run_batch's local count
    idle, busy,  \* ReplicaPool._idle and ._busy (replica -> key)
    poisoned,    \* ReplicaPool._dead
    job, card,   \* each replica: the job in hand, "waiting"/"working"/"done"/"raised"
    alive,       \* processes
    passed       \* history: who was served since a request last was

client == <<scen>>
queue  == <<stage, reply>>
loop   == <<pc, scan, live, head, inflight>>
work   == <<nxt, results, failed>>
pool   == <<idle, busy, poisoned>>
procs  == <<job, card, alive>>
vars   == <<client, queue, loop, work, pool, procs, passed>>

NoKey == <<>>
NoJob == <<>>
Keys  == (Requests \cup {Batch}) \X Nat
Work  == Requests \X Nat

Owning == {"batch", "send", "wait", "take"}
Places == {"admit", "scan", "dispatch", "harvest", "settle", "fail", "down"} \cup Owning

TypeOK ==
    /\ scen \in Scenarios
    /\ stage \in [Requests -> {"unsent", "queued", "taken"}]
    /\ reply \in [Requests -> {"none", "error", "answered"}]
    /\ pc \in Places
    /\ scan \subseteq Requests
    /\ live \in Seq(Requests)
    /\ head \in Requests \cup {Batch}
    /\ nxt \in [Requests -> Nat]
    /\ DOMAIN results = Requests
    /\ \A r \in Requests : results[r] \in [JobsOf(r) -> Work \cup {NoJob}]
    /\ failed \subseteq Requests
    /\ inflight \in Int
    /\ idle \in Seq(Replicas)
    /\ busy \in [Replicas -> Keys \cup {NoKey}]
    /\ poisoned \in BOOLEAN
    /\ job \in [Replicas -> Work \cup {NoJob}]
    /\ card \in [Replicas -> {"waiting", "working", "done", "raised"}]
    /\ alive \subseteq Replicas
    /\ passed \in [Requests -> SUBSET Requests]

Init ==
    /\ scen \in Scenarios
    /\ stage = [r \in Requests |-> "unsent"]
    /\ reply = [r \in Requests |-> "none"]
    /\ pc = "admit" /\ scan = {} /\ live = <<>> /\ head = Batch /\ inflight = 0
    /\ nxt = [r \in Requests |-> 0]
    /\ results = [r \in Requests |-> [i \in JobsOf(r) |-> NoJob]]
    /\ failed = {}
    /\ idle = [i \in Replicas |-> i]
    /\ busy = [w \in Replicas |-> NoKey]
    /\ poisoned = FALSE
    /\ job = [w \in Replicas |-> NoJob]
    /\ card = [w \in Replicas |-> "waiting"]
    /\ alive = Replicas
    /\ passed = [r \in Requests |-> {}]

Excl(r)     == r \in scen.excl
LiveSet     == {live[k] : k \in DOMAIN live}
Flight(r)   == {w \in Replicas : busy[w] # NoKey /\ busy[w][1] = r}
Wants(r)    == ~Excl(r) /\ r \notin failed /\ nxt[r] < Jobs[r]
Bug_FinishedCounts(r) == Flight(r) = {} /\ nxt[r] = Jobs[r]

Finished(r) == Flight(r) = {} /\ (r \in failed \/ nxt[r] = Jobs[r])
Own(r)      == [i \in JobsOf(r) |-> <<r, i>>]

\* A connection wait() reports: a result in the pipe, or its end closed.
Ready(w) == busy[w] # NoKey /\ (card[w] \in {"done", "raised"} \/ w \notin alive)

-----------------------------------------------------------------------------
(* A client renames its request into <queue>/in (retrieval/endpoints.py ask). *)

Ask(r) ==
    /\ stage[r] = "unsent"
    /\ stage' = [stage EXCEPT ![r] = "queued"]
    /\ UNCHANGED <<client, reply, loop, work, pool, procs, passed>>

-----------------------------------------------------------------------------
(* Service._serve_multiplexed, Service._accept, Service._reply.               *)

\* One listing of <queue>/in, unless an exclusive request is held.
List ==
    /\ pc = "admit"
    /\ pc' = "scan"
    /\ scan' = IF \E r \in LiveSet : Excl(r) THEN {}
               ELSE {r \in Requests : stage[r] = "queued"}
    /\ UNCHANGED <<client, queue, live, head, inflight, work, pool, procs, passed>>

\* The request that is off the queue and waits for its refusal.
Consumed == {r \in scan : stage[r] = "taken"}

\* A request that does not parse into jobs is consumed, then answered at once.
Refuse(r) ==
    /\ pc = "scan" /\ r \in scan /\ r \in scen.refused
    /\ Consumed \subseteq {r}
    /\ failed' = failed \cup {r}
    /\ \/ /\ stage[r] = "queued"
          /\ stage' = [stage EXCEPT ![r] = "taken"] /\ UNCHANGED <<reply, scan>>
       \/ /\ stage[r] = "taken"
          /\ reply' = [reply EXCEPT ![r] = "error"]
          /\ scan' = scan \ {r} /\ UNCHANGED stage
    /\ UNCHANGED <<client, pc, live, head, inflight, nxt, results, pool, procs, passed>>

Bug_AcceptKeeps(r) ==
    /\ pc = "scan" /\ r \in scan /\ r \notin scen.refused /\ Consumed = {}
    /\ live' = Append(live, r)
    /\ scan' = IF Excl(r) THEN {} ELSE scan \ {r}
    /\ UNCHANGED <<client, queue, pc, head, inflight, work, pool, procs, passed>>

\* The file is unlinked before anything is answered. An exclusive request ends
\* the admission.
Accept(r) ==
    /\ pc = "scan" /\ r \in scan /\ r \notin scen.refused /\ Consumed = {}
    /\ stage' = [stage EXCEPT ![r] = "taken"]
    /\ live' = Append(live, r)
    /\ scan' = IF Excl(r) THEN {} ELSE scan \ {r}
    /\ UNCHANGED <<client, reply, pc, head, inflight, work, pool, procs, passed>>

\* Nothing live: sleep and list again. An exclusive request that is alone runs.
Admitted ==
    /\ pc = "scan" /\ scan = {}
    /\ UNCHANGED <<client, queue, scan, inflight, work, pool, procs, passed>>
    /\ \/ /\ live = <<>>
          /\ pc' = "admit" /\ UNCHANGED <<live, head>>
       \/ /\ Len(live) = 1 /\ Excl(live[1])
          /\ pc' = "batch" /\ head' = live[1] /\ live' = <<>>
       \/ /\ live # <<>> /\ ~(Len(live) = 1 /\ Excl(live[1]))
          /\ pc' = "dispatch" /\ UNCHANGED <<live, head>>

\* --idle-exit: the listing was empty for long enough.
IdleExit ==
    /\ pc = "scan" /\ scan = {} /\ live = <<>>
    /\ pc' = "down"
    /\ UNCHANGED <<client, queue, scan, live, head, inflight, work, pool, procs, passed>>

-----------------------------------------------------------------------------
(* ReplicaPool.dispatch: the first idle replica below the width, FIFO.        *)

Serviceable(width) == {k \in DOMAIN idle : idle[k] <= width}
FirstOf(S) == CHOOSE k \in S : \A j \in S : k <= j

\* The connection leaves _idle before the send, which raises when the peer died.
Send(k, key, what) ==
    LET w == idle[k] IN
    /\ idle' = RemoveAt(idle, k)
    /\ busy' = [busy EXCEPT ![w] = key]
    /\ job' = [job EXCEPT ![w] = what]
    /\ card' = [card EXCEPT ![w] = "working"]

Turns == {k \in DOMAIN live : Wants(live[k])}

\* The request at the head of the turn order gets a replica and moves back.
Dispatch ==
    /\ pc = "dispatch" /\ Turns # {} /\ idle # <<>> /\ idle[1] \in alive
    /\ LET t == FirstOf(Turns)
           r == live[t]
       IN /\ Send(1, <<r, nxt[r] + 1>>, <<r, nxt[r] + 1>>)
          /\ nxt' = [nxt EXCEPT ![r] = @ + 1]
          /\ live' = Append(RemoveAt(live, t), r)
          /\ passed' = [s \in Requests |-> IF s = r THEN {}
                                           ELSE IF s \in LiveSet THEN passed[s] \cup {r}
                                           ELSE passed[s]]
    /\ UNCHANGED <<client, queue, pc, scan, head, inflight, results, failed, poisoned, alive>>

\* A poisoned pool refuses and a broken pipe raises: nobody catches either.
DispatchRaises ==
    /\ pc = "dispatch" /\ Turns # {}
    /\ poisoned \/ (idle # <<>> /\ idle[1] \notin alive)
    /\ pc' = "down"
    /\ UNCHANGED <<client, queue, scan, live, head, inflight, work, pool, procs, passed>>

Dispatched ==
    /\ pc = "dispatch" /\ (Turns = {} \/ idle = <<>>) /\ ~(Turns # {} /\ poisoned)
    /\ pc' = "harvest"
    /\ UNCHANGED <<client, queue, scan, live, head, inflight, work, pool, procs, passed>>

-----------------------------------------------------------------------------
(* ReplicaPool.harvest and the placing of results.                            *)

\* Frees the replica; its key and its result travel to the caller.
Free(w) ==
    /\ idle' = Append(idle, w)
    /\ busy' = [busy EXCEPT ![w] = NoKey]
    /\ card' = [card EXCEPT ![w] = "waiting"]
    /\ UNCHANGED <<poisoned, job, alive>>

Bug_CollectInOrder(w) ==
    /\ pc = "harvest" /\ Ready(w) /\ card[w] \in {"done", "raised"}
    /\ busy[w][1] # Batch
    /\ LET r == busy[w][1]
           i == FirstOf({j \in JobsOf(r) : results[r][j] = NoJob})
       IN /\ results' = [results EXCEPT ![r][i] = job[w]]
          /\ failed' = IF card[w] = "raised" THEN failed \cup {r} ELSE failed
    /\ Free(w)
    /\ UNCHANGED <<client, queue, loop, nxt, passed>>

\* A result is placed by the index in its key; an error fails its request only.
Collect(w) ==
    /\ pc = "harvest" /\ Ready(w) /\ card[w] \in {"done", "raised"}
    /\ busy[w][1] # Batch
    /\ LET r == busy[w][1]
           i == busy[w][2]
       IN /\ results' = [results EXCEPT ![r][i] = job[w]]
          /\ failed' = IF card[w] = "raised" THEN failed \cup {r} ELSE failed
    /\ Free(w)
    /\ UNCHANGED <<client, queue, loop, nxt, passed>>

\* A key of run_batch does not unpack: the loop ends on the TypeError.
CollectStray(w) ==
    /\ pc = "harvest" /\ Ready(w) /\ card[w] \in {"done", "raised"}
    /\ busy[w][1] = Batch
    /\ pc' = "down"
    /\ Free(w)
    /\ UNCHANGED <<client, queue, scan, live, head, inflight, work, passed>>

\* ReplicaDied: the pool is poisoned and every live request fails.
Bury(w) ==
    /\ pc = "harvest" /\ Ready(w) /\ card[w] = "working"
    /\ busy' = [busy EXCEPT ![w] = NoKey]
    /\ poisoned' = TRUE
    /\ failed' = failed \cup LiveSet
    /\ pc' = "fail"
    /\ UNCHANGED <<client, queue, scan, live, head, inflight, nxt, results, idle, procs, passed>>

FailLive ==
    /\ pc = "fail" /\ live # <<>>
    /\ reply' = [reply EXCEPT ![live[1]] = "error"]
    /\ live' = Tail(live)
    /\ UNCHANGED <<client, stage, pc, scan, head, inflight, work, pool, procs, passed>>

FailDone ==
    /\ pc = "fail" /\ live = <<>>
    /\ pc' = "down"
    /\ UNCHANGED <<client, queue, scan, live, head, inflight, work, pool, procs, passed>>

Harvested ==
    /\ pc = "harvest" /\ \A w \in Replicas : ~Ready(w)
    /\ pc' = "settle"
    /\ UNCHANGED <<client, queue, scan, live, head, inflight, work, pool, procs, passed>>

Outcome(r) == IF r \in failed THEN "error" ELSE "answered"

Settle(k) ==
    /\ pc = "settle" /\ k \in DOMAIN live /\ ~Excl(live[k]) /\ Finished(live[k])
    /\ reply' = [reply EXCEPT ![live[k]] = Outcome(live[k])]
    /\ live' = RemoveAt(live, k)
    /\ UNCHANGED <<client, stage, pc, scan, head, inflight, work, pool, procs, passed>>

Settled ==
    /\ pc = "settle"
    /\ \A k \in DOMAIN live : Excl(live[k]) \/ ~Finished(live[k])
    /\ pc' = "admit"
    /\ UNCHANGED <<client, queue, scan, live, head, inflight, work, pool, procs, passed>>

-----------------------------------------------------------------------------
(* Service._run_exclusive around ReplicaPool.run_batch; then the reply.       *)

\* An exception inside run_batch fails the request and leaves the pool as it is.
BatchFails ==
    /\ failed' = failed \cup {head}
    /\ reply' = [reply EXCEPT ![head] = "error"]
    /\ pc' = "admit" /\ head' = Batch /\ inflight' = 0

Unsent == nxt[head] < Jobs[head]

\* run_batch: the width first, then the loop.
BatchLoop ==
    /\ pc = "batch"
    /\ Width[head] \in Replicas /\ (Unsent \/ inflight # 0)
    /\ pc' = "send"
    /\ UNCHANGED <<client, queue, scan, live, head, inflight, work, pool, procs, passed>>

BatchRefuses ==
    /\ \/ pc = "batch" /\ Width[head] \notin Replicas
       \/ pc = "send" /\ Unsent /\ poisoned
    /\ BatchFails
    /\ UNCHANGED <<client, stage, scan, live, nxt, results, pool, procs, passed>>

BatchSend ==
    /\ pc = "send" /\ Unsent /\ ~poisoned
    /\ Serviceable(Width[head]) # {}
    /\ LET k == FirstOf(Serviceable(Width[head]))
       IN /\ idle[k] \in alive
          /\ Send(k, <<Batch, nxt[head] + 1>>, <<head, nxt[head] + 1>>)
    /\ nxt' = [nxt EXCEPT ![head] = @ + 1]
    /\ inflight' = inflight + 1
    /\ UNCHANGED <<client, queue, pc, scan, live, head, results, failed, poisoned, alive, passed>>

\* A broken pipe: the connection has left _idle and comes back to nobody.
BatchSendRaises ==
    /\ pc = "send" /\ Unsent /\ ~poisoned
    /\ Serviceable(Width[head]) # {}
    /\ LET k == FirstOf(Serviceable(Width[head]))
       IN idle[k] \notin alive /\ idle' = RemoveAt(idle, k)
    /\ BatchFails
    /\ UNCHANGED <<client, stage, scan, live, nxt, results, busy, poisoned, procs, passed>>

BatchSent ==
    /\ pc = "send" /\ (Unsent => Serviceable(Width[head]) = {} /\ ~poisoned)
    /\ pc' = "wait"
    /\ UNCHANGED <<client, queue, scan, live, head, inflight, work, pool, procs, passed>>

\* harvest waits for a result, or for nothing when nothing is busy, and brings
\* everything that is ready.
BatchCollect(w) ==
    /\ pc \in {"wait", "take"} /\ Ready(w)
    /\ card[w] = "done" /\ busy[w][2] \in JobsOf(head)
    /\ results' = [results EXCEPT ![head][busy[w][2]] = job[w]]
    /\ inflight' = inflight - 1
    /\ pc' = "take"
    /\ Free(w)
    /\ UNCHANGED <<client, queue, scan, live, head, nxt, failed, passed>>

\* An error result, or an index past the list. Whatever else harvest brought is
\* freed and its results are lost.
Returned == {w \in Replicas : Ready(w) /\ card[w] \in {"done", "raised"}}
BatchCollectRaises(w) ==
    /\ pc \in {"wait", "take"} /\ w \in Returned
    /\ card[w] = "raised" \/ busy[w][2] \notin JobsOf(head)
    /\ BatchFails
    /\ \E S \in SUBSET Returned :
          /\ w \in S
          /\ \E order \in SetToSeqs(S) : idle' = idle \o order
          /\ busy' = [v \in Replicas |-> IF v \in S THEN NoKey ELSE busy[v]]
          /\ card' = [v \in Replicas |-> IF v \in S THEN "waiting" ELSE card[v]]
    /\ UNCHANGED <<client, stage, scan, live, nxt, results, poisoned, job, alive, passed>>

BatchBury(w) ==
    /\ pc \in {"wait", "take"} /\ Ready(w) /\ card[w] = "working"
    /\ busy' = [busy EXCEPT ![w] = NoKey]
    /\ poisoned' = TRUE
    /\ BatchFails
    /\ UNCHANGED <<client, stage, scan, live, nxt, results, idle, procs, passed>>

BatchTaken ==
    /\ pc \in {"wait", "take"} /\ \A w \in Replicas : ~Ready(w)
    /\ pc = "take" \/ \A w \in Replicas : busy[w] = NoKey
    /\ pc' = "batch"
    /\ UNCHANGED <<client, queue, scan, live, head, inflight, work, pool, procs, passed>>

\* A position nothing was placed at breaks the reply, and with it the loop.
BatchDone ==
    /\ pc = "batch" /\ Width[head] \in Replicas /\ ~Unsent /\ inflight = 0
    /\ IF \E i \in JobsOf(head) : results[head][i] = NoJob
       THEN pc' = "down" /\ UNCHANGED <<reply, head>>
       ELSE /\ reply' = [reply EXCEPT ![head] = "answered"]
            /\ pc' = "admit" /\ head' = Batch
    /\ UNCHANGED <<client, stage, scan, live, inflight, work, pool, procs, passed>>

-----------------------------------------------------------------------------
(* Service._replica_body: a query raises or not, and the process may die.     *)

Finish(w) ==
    /\ w \in alive /\ card[w] = "working"
    /\ \E got \in {"done"} \cup (IF job[w][1] \in scen.raising THEN {"raised"} ELSE {}) :
          card' = [card EXCEPT ![w] = got]
    /\ UNCHANGED <<client, queue, loop, work, pool, job, alive, passed>>

Die(w) ==
    /\ scen.mortal /\ w \in alive
    /\ alive' = alive \ {w}
    /\ UNCHANGED <<client, queue, loop, work, pool, job, card, passed>>

-----------------------------------------------------------------------------
Serve ==
    \/ List \/ Admitted \/ Dispatch \/ DispatchRaises \/ Dispatched
    \/ FailLive \/ FailDone \/ Harvested \/ Settled
    \/ BatchLoop \/ BatchRefuses \/ BatchSend \/ BatchSendRaises \/ BatchSent
    \/ BatchTaken \/ BatchDone
    \/ \E r \in Requests : Refuse(r) \/ Accept(r)
    \/ \E k \in DOMAIN live : Settle(k)
    \/ \E w \in Replicas : \/ Collect(w) \/ CollectStray(w) \/ Bury(w)
                           \/ BatchCollect(w) \/ BatchCollectRaises(w) \/ BatchBury(w)

Next ==
    \/ Serve \/ IdleExit
    \/ \E r \in Requests : Ask(r)
    \/ \E w \in Replicas : Finish(w) \/ Die(w)

Spec == Init /\ [][Next]_vars

\* The serve loop runs, and a replica that lives comes back with a result.
FairSpec == Spec /\ WF_vars(Serve) /\ \A w \in Replicas : WF_vars(Finish(w))

-----------------------------------------------------------------------------
(* Properties.                                                                *)

\* A request that is answered gets, at each position, the result of its own
\* query: neither another request's nor an earlier batch's (_Live.took,
\* run_batch), whatever order the replicas finish in.
OwnAnswers == \A r \in Requests : reply[r] = "answered" => results[r] = Own(r)

\* A request that names its fleet width has the fleet to itself, although the
\* loop never looks at the pool before it starts it (live == [head]).
Alone ==
    pc \in Owning => \A w \in Replicas : busy[w] # NoKey => job[w][1] = head

\* Fair queueing at job granularity: while a request waits for a replica no
\* other request is handed a second job.
FairTurn ==
    [][\A r, s \in Requests :
          (r \in LiveSet /\ Wants(r) /\ s # r /\ nxt'[s] = nxt[s] + 1)
              => s \notin passed[r]]_vars

\* Every request the service finds is answered, or the service has stopped.
Answered ==
    \A r \in Requests : stage[r] = "queued" ~> (reply[r] # "none" \/ pc = "down")

\* The service implements AnswerService.
Promise == INSTANCE AnswerService WITH
    reply <- [r \in Requests |-> IF reply[r] # "answered" THEN reply[r]
                                 ELSE IF results[r] = Own(r) THEN "own" ELSE "other"]
PromiseSpec == Promise!Spec
=============================================================================
