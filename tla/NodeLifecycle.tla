--------------------------- MODULE NodeLifecycle ---------------------------
(* Bring-up and teardown of a vLLM server, serving/node/vllm_server.py: the   *)
(* process that calls bringup and teardown, its SIGUSR1 handler, which runs   *)
(* between any two of its steps, and the server's process group: an API       *)
(* server, whom the caller waits for, and the engines it has forked.  Flags,  *)
(* knobs, ports and the diagnosis of a failure are left out.                  *)
EXTENDS Naturals, Sequences

CONSTANTS
    MaxBringups,  \* bound: calls of bringup
    MaxSignals,   \* bound: SIGUSR1 delivered
    Weathers      \* what servers may do, see weather

VARIABLES
    weather,   \* mortal: an API server may exit by itself; deaf: a process may
               \* ignore SIGTERM; trap: the caller is its process's main thread
    pc,        \* the caller: where it is in bringup, or what it does between calls
    n,         \* bringups so far, the number of the latest handle
    active,    \* _ACTIVE, 0 for None
    trapped,   \* the handler is installed
    frames,    \* the calls of teardown under way, the innermost last
    leader,    \* handle -> the API server: a process, one to be waited for, or none
    engine,    \* handle -> engines are alive
    told,      \* handles whose process group was sent a signal
    stopped,   \* handles some teardown has returned from
    signals

caller == <<pc, n, active, trapped>>
group  == <<leader, engine, told>>
vars   == <<weather, caller, frames, group, stopped, signals>>

Weather == [mortal : BOOLEAN, deaf : BOOLEAN, trap : BOOLEAN]
Handles == 1 .. MaxBringups
Alive   == {"starting", "serving"}

TypeOK ==
    /\ weather \in Weather
    /\ pc \in {"out", "opened", "held", "poll", "failed", "raised", "ready", "over", "killed"}
    /\ n \in 0 .. MaxBringups /\ active \in 0 .. n
    /\ trapped \in BOOLEAN
    /\ \A i \in DOMAIN frames :
          frames[i].pc \in {"enter", "term", "wait", "kill", "close"} /\ frames[i].h \in 0 .. n
    /\ leader \in [Handles -> Alive \cup {"none", "exited", "reaped"}]
    /\ engine \in [Handles -> BOOLEAN]
    /\ told \subseteq Handles /\ stopped \subseteq Handles
    /\ signals \in 0 .. MaxSignals

Init ==
    /\ weather \in Weathers
    /\ pc = "out" /\ n = 0 /\ active = 0 /\ trapped = FALSE
    /\ frames = <<>>
    /\ leader = [b \in Handles |-> "none"] /\ engine = [b \in Handles |-> FALSE] /\ told = {}
    /\ stopped = {}
    /\ signals = 0

-----------------------------------------------------------------------------
(* bringup, while no teardown is under way on top of it.                      *)

Runs == frames = <<>>

\* Popen with start_new_session.
Spawn ==
    /\ Runs /\ pc \in {"out", "raised", "over"}
    /\ n < MaxBringups
    /\ n' = n + 1
    /\ leader' = [leader EXCEPT ![n'] = "starting"]
    /\ pc' = "opened"
    /\ UNCHANGED <<weather, active, trapped, frames, engine, told, stopped, signals>>

\* The handle goes into _ACTIVE before the handler that reads it is installed.
Hold ==
    /\ Runs /\ pc = "opened"
    /\ active' = n
    /\ pc' = "held"
    /\ UNCHANGED <<weather, n, trapped, frames, group, stopped, signals>>

\* _install_teardown_trap: outside the main thread there is no handler.
Trap ==
    /\ Runs /\ pc = "held"
    /\ trapped' = (trapped \/ weather.trap)
    /\ pc' = "poll"
    /\ UNCHANGED <<weather, n, active, frames, group, stopped, signals>>

\* _poll_ready: the server answers, or its process has exited, which proc.poll
\* finds out by reaping it, or the time is over, whatever happened since the last
\* look.
Answered ==
    /\ Runs /\ pc = "poll" /\ leader[n] = "serving"
    /\ pc' = "ready"
    /\ UNCHANGED <<weather, n, active, trapped, frames, group, stopped, signals>>

Reap(b) == leader' = [leader EXCEPT ![b] = "reaped"]

Exited ==
    /\ Runs /\ pc = "poll" /\ leader[n] \in {"exited", "reaped"}
    /\ Reap(n)
    /\ pc' = "failed"
    /\ UNCHANGED <<weather, n, active, trapped, frames, engine, told, stopped, signals>>

TimedOut ==
    /\ Runs /\ pc = "poll"
    /\ pc' = "failed"
    /\ UNCHANGED <<weather, n, active, trapped, frames, group, stopped, signals>>

Call(h) == frames' = Append(frames, [pc |-> "enter", h |-> h])

\* A failed bringup tears down what is active, and raises.
Fail ==
    /\ Runs /\ pc = "failed"
    /\ Call(0)
    /\ pc' = "raised"
    /\ UNCHANGED <<weather, n, active, trapped, group, stopped, signals>>

\* The caller is done with its server, and names its handle or not.
Finish ==
    /\ Runs /\ pc = "ready"
    /\ \E h \in {0, n} : Call(h)
    /\ pc' = "over"
    /\ UNCHANGED <<weather, n, active, trapped, group, stopped, signals>>

-----------------------------------------------------------------------------
(* teardown, the call on top.                                                 *)

Top == frames[Len(frames)]
Goto(place) == frames' = [frames EXCEPT ![Len(frames)].pc = place]
Return == frames' = SubSeq(frames, 1, Len(frames) - 1)
At(place) == frames # <<>> /\ Top.pc = place

Enter ==
    /\ At("enter")
    /\ LET h == IF Top.h # 0 THEN Top.h ELSE active IN
          IF h = 0 THEN Return ELSE frames' = [frames EXCEPT ![Len(frames)] = [pc |-> "term", h |-> h]]
    /\ UNCHANGED <<weather, caller, group, stopped, signals>>

\* _signal_group: a process that was waited for has no group to look up any more,
\* and the terminate or kill that is tried instead does nothing either.
Reachable(b) == leader[b] \notin {"none", "reaped"}

\* Mutant: the API server alone is terminated.
Bug_TermParent ==
    /\ At("term")
    /\ leader' = [leader EXCEPT ![Top.h] = IF Reachable(Top.h) THEN "exited" ELSE @]
    /\ Goto("wait")
    /\ UNCHANGED <<weather, caller, engine, told, stopped, signals>>

\* SIGTERM to the group.
Term ==
    /\ At("term")
    /\ told' = IF Reachable(Top.h) THEN told \cup {Top.h} ELSE told
    /\ Goto("wait")
    /\ UNCHANGED <<weather, caller, leader, engine, stopped, signals>>

\* wait(30) ends with the API server, whatever its engines do.
Waited ==
    /\ At("wait") /\ leader[Top.h] \in {"exited", "reaped"}
    /\ Reap(Top.h)
    /\ Goto("close")
    /\ UNCHANGED <<weather, caller, engine, told, stopped, signals>>

\* Mutant: the wait has no limit.
Bug_WaitAgain ==
    /\ At("wait") /\ leader[Top.h] \in Alive
    /\ Goto("wait")
    /\ UNCHANGED <<weather, caller, group, stopped, signals>>

WaitedInVain ==
    /\ At("wait") /\ leader[Top.h] \in Alive
    /\ Goto("kill")
    /\ UNCHANGED <<weather, caller, group, stopped, signals>>

\* Nobody survives a SIGKILL of the group.
Kill ==
    /\ At("kill")
    /\ IF Reachable(Top.h)
       THEN /\ leader' = [leader EXCEPT ![Top.h] = "exited"]
            /\ engine' = [engine EXCEPT ![Top.h] = FALSE]
            /\ told' = told \cup {Top.h}
       ELSE UNCHANGED group
    /\ Goto("close")
    /\ UNCHANGED <<weather, caller, stopped, signals>>

Close ==
    /\ At("close")
    /\ active' = IF active = Top.h THEN 0 ELSE active
    /\ stopped' = stopped \cup {Top.h}
    /\ Return
    /\ UNCHANGED <<weather, pc, n, trapped, group, signals>>

Teardown == Enter \/ Term \/ Waited \/ WaitedInVain \/ Kill \/ Close

\* SIGUSR1: the handler calls teardown on top of whatever the process does; a
\* process that has none ends there.
Signal ==
    /\ signals < MaxSignals /\ pc # "killed"
    /\ signals' = signals + 1
    /\ IF trapped
       THEN Call(0) /\ UNCHANGED pc
       ELSE pc' = "killed" /\ frames' = <<>>
    /\ UNCHANGED <<weather, n, active, trapped, group, stopped>>

Polling == Hold \/ Trap \/ Answered \/ Exited \/ TimedOut
Giving  == Fail \/ Finish

-----------------------------------------------------------------------------
(* The server.                                                                *)

\* Engines need the card for themselves; the API server serves once it has them.
Fork(b) ==
    /\ leader[b] = "starting" /\ \A c \in Handles : ~engine[c]
    /\ engine' = [engine EXCEPT ![b] = TRUE]
    /\ UNCHANGED <<weather, caller, frames, leader, told, stopped, signals>>

Serve(b) ==
    /\ leader[b] = "starting" /\ engine[b]
    /\ leader' = [leader EXCEPT ![b] = "serving"]
    /\ UNCHANGED <<weather, caller, frames, engine, told, stopped, signals>>

\* An API server goes when it was told to, when the engines of another leave no
\* room for its own, or by itself.
Go(b) ==
    /\ leader[b] \in Alive
    /\ b \in told \/ weather.mortal \/ \E c \in Handles \ {b} : engine[c]
    /\ leader' = [leader EXCEPT ![b] = "exited"]
    /\ UNCHANGED <<weather, caller, frames, engine, told, stopped, signals>>

EngineGoes(b) ==
    /\ engine[b]
    /\ b \in told \/ weather.mortal
    /\ engine' = [engine EXCEPT ![b] = FALSE]
    /\ UNCHANGED <<weather, caller, frames, leader, told, stopped, signals>>

Server(b) == Fork(b) \/ Serve(b) \/ Go(b) \/ EngineGoes(b)

Next == Spawn \/ Polling \/ Giving \/ Teardown \/ Signal \/ \E b \in Handles : Server(b)

Spec == Init /\ [][Next]_vars

Obeys(b) == ~weather.deaf /\ b \in told /\ (Go(b) \/ EngineGoes(b))

\* The calling process runs on, in bringup or in the teardown on top of it; a
\* server that was told to go does, unless it is deaf.
Caller == Polling \/ Giving \/ Teardown

Fairness == WF_vars(Caller) /\ WF_vars(\E b \in Handles : Obeys(b))

FairSpec == Spec /\ Fairness

-----------------------------------------------------------------------------
(* Properties.                                                                *)

\* teardown signals the whole process group: what still runs of a server that
\* was torn down has at least been told to go.
TreeSignalled == \A b \in stopped : engine[b] => b \in told

\* So it is unless an API server exited by itself.  And whoever interrupts whom,
\* a bringup that raised, or whose server is given up, leaves no server behind
\* that nobody tore down.
TornDown ==
    /\ ~weather.mortal => TreeSignalled
    /\ pc \in {"raised", "over"} /\ frames = <<>> => n \in stopped /\ active = 0

\* Nothing is under way: no bringup, no teardown; and the card is free of every
\* server torn down, unless one is deaf or exited by itself.
Quiet ==
    /\ pc \notin {"opened", "held", "poll", "failed"}
    /\ frames = <<>>
    /\ ~weather.mortal /\ ~weather.deaf => \A b \in stopped : ~engine[b]

\* Every bringup returns or raises and every teardown returns, deaf servers or
\* not, and the card is given back.
NodeEnds == []<>Quiet
=============================================================================
