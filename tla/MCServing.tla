----------------------------- MODULE MCServing -----------------------------
(* What a run leans on, side by side: the registry of vLLM pairs, the resident *)
(* retrieval service, and a vLLM server with the process that starts and stops *)
(* it. They share no state; a behaviour runs the one its first state picks     *)
(* while the others stand still.                                               *)
EXTENDS EndpointRegistry, Sequences, TLC

CONSTANTS e1, w1, w2, none, q1, q2, q3, batch

VARIABLE machine   \* "registry", "fleet" or "node"

-----------------------------------------------------------------------------
(* EndpointRegistry: one pair, two workers.                                   *)

OneEndpoint == {e1}
TwoWorkers == {w1, w2}

\* Both workers accept the pair, or w2 wants another lane; the other assignments
\* differ by a renaming or leave nothing to share.
SomeLanes == {{}, {<<w2, e1>>}}

-----------------------------------------------------------------------------
(* ResidentService: a batch and two short requests over two replicas, and the *)
(* widths asked by the requests that name one.                                *)

Three == {q1, q2, q3}
ThreeJobs  == q1 :> 3 @@ q2 :> 1 @@ q3 :> 1
ThreeWidth == q1 :> 2 @@ q2 :> 2 @@ q3 :> 5

Plain == [refused |-> {}, excl |-> {}, raising |-> {}, mortal |-> FALSE]

\* A request that owns the fleet meets a query that raises or a death only when
\* no other request owns it.
Benign == {[Plain EXCEPT !.refused = {q3}, !.raising = {q1}],
           [Plain EXCEPT !.mortal = TRUE, !.refused = {q3}],
           [Plain EXCEPT !.excl = {q2, q3}, !.raising = {q1}],
           [Plain EXCEPT !.excl = {q1}, !.raising = {q1}],
           [Plain EXCEPT !.excl = {q1}, !.mortal = TRUE],
           Plain}

CONSTANTS Requests, N, Jobs, Width, Batch, Scenarios   \* see ResidentService

VARIABLES scen, stage, reply, place, scan, live, head, nxt, results, failed, inflight, idle, busy,
          poisoned, hand, card, alive, passed

Fleet == INSTANCE ResidentService WITH pc <- place, job <- hand

ASSUME ServiceAssumption ==
    /\ N \in Nat \ {0}
    /\ Jobs \in [Requests -> Nat \ {0}]
    /\ Width \in [Requests -> Nat]
    /\ Batch \notin Requests
    /\ Scenarios \subseteq Fleet!Scenario

fleetVars == <<scen, stage, reply, place, scan, live, head, nxt, results, failed, inflight, idle, busy,
               poisoned, hand, card, alive, passed>>

-----------------------------------------------------------------------------
(* NodeLifecycle: two servers, one after the other, and a signal; a server *)
(* that may exit by itself, or ignore a SIGTERM, or neither, and a caller that *)
(* is not the main thread.                                                     *)

VARIABLES weather, at, n, active, trapped, frames, leader, engine, told, stopped, signals

CONSTANTS MaxBringups, MaxSignals, Weathers   \* bounds, see NodeLifecycle

Calm == [mortal |-> FALSE, deaf |-> FALSE, trap |-> TRUE]
SomeWeathers == {Calm, [Calm EXCEPT !.mortal = TRUE], [Calm EXCEPT !.deaf = TRUE],
                 [Calm EXCEPT !.deaf = TRUE, !.trap = FALSE]}

Node == INSTANCE NodeLifecycle WITH pc <- at

ASSUME NodeAssumption == MaxBringups \in Nat /\ MaxSignals \in Nat /\ Weathers \subseteq Node!Weather

nodeVars == <<weather, at, n, active, trapped, frames, leader, engine, told, stopped, signals>>

-----------------------------------------------------------------------------
MCInit ==
    /\ machine \in {"registry", "fleet", "node"}
    /\ Init /\ Fleet!Init /\ Node!Init
    /\ machine = "registry" \/ wrongLane = {}
    /\ machine = "fleet" \/ scen = Plain
    /\ machine = "node" \/ weather = Calm

RegistryRuns == machine = "registry" /\ Next /\ UNCHANGED <<machine, fleetVars, nodeVars>>
FleetRuns    == machine = "fleet" /\ Fleet!Next /\ UNCHANGED <<machine, vars, nodeVars>>
NodeRuns     == machine = "node" /\ Node!Next /\ UNCHANGED <<machine, vars, fleetVars>>

\* The fairness of the FairSpec of each.
RegistryFair ==
    /\ \A w \in Workers : WF_vars(machine = "registry" /\ (Launch(w) \/ Scan(w)) /\ UNCHANGED wrongLane)
    /\ \A e \in Endpoints : WF_vars(machine = "registry" /\ Supervise(e) /\ UNCHANGED wrongLane)
    /\ WF_vars(machine = "registry" /\ Tick /\ UNCHANGED wrongLane)

FleetFair ==
    /\ WF_fleetVars(machine = "fleet" /\ Fleet!Serve)
    /\ \A w \in Fleet!Replicas : WF_fleetVars(machine = "fleet" /\ Fleet!Finish(w))

NodeFair ==
    /\ WF_nodeVars(machine = "node" /\ Node!Caller)
    /\ WF_nodeVars(machine = "node" /\ \E b \in Node!Handles : Node!Obeys(b))

MCSpec ==
    /\ MCInit
    /\ [][RegistryRuns \/ FleetRuns \/ NodeRuns]_<<machine, vars, fleetVars, nodeVars>>
    /\ RegistryFair /\ FleetFair /\ NodeFair

-----------------------------------------------------------------------------
(* Properties: BookedOnce and ScanEnds are EndpointRegistry's.                *)

\* An answered request holds the results of its own queries.
OwnAnswers == Fleet!OwnAnswers

\* Every request the service finds is answered, or the service has stopped, and
\* while one waits no other is handed two queries.
Served == Fleet!FairTurn /\ (machine = "fleet" => Fleet!Answered)

\* Whoever interrupts whom, teardown reaches every process of the server.
TornDown == Node!TornDown

\* A bringup and a teardown end, and the card is free in the end.
NodeEnds == Node!NodeEnds

\* The resident service implements AnswerService.
PromiseSpec == Fleet!PromiseSpec
=============================================================================
