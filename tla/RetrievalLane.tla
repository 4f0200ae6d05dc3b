---------------------------- MODULE RetrievalLane ----------------------------
(* Clients of the resident retrieval services: discovery through a registry   *)
(* of heartbeating descriptors, one request file and one reply file each      *)
(* (retrieval/endpoints.py, devkit/rsvc_registry.py), and services that come  *)
(* up over an index, answer, stop or are killed, and come up again on the     *)
(* queue directory they left (devkit/rsvc.py Service.serve). How a service    *)
(* runs what it took is ResidentService and QueryStack.                       *)
EXTENDS Naturals

CONSTANTS
    Clients,      \* requests, one uuid each
    S,            \* services, numbered in name order
    Lanes,        \* indexes, as [rendering, build] (retrieval.index, index_hash)
    Want,         \* the lane each client's run is configured for
    Absent,       \* no descriptor, no file
    MaxLaunches   \* bound: launches of a service

VARIABLES
    at, place,    \* client: the service it asks; "start", "drop", "look", "beat", "end"
    fate,         \* client: "none", "hits", "error", "stale", "timeout"
    source,       \* client: the lane its hits come from
    up, lane,     \* service: running; the lane it serves
    beat,         \* service: its heartbeat thread is writing the descriptor
    launches,
    desc, fresh,  \* registry: the lane a descriptor names, or Absent; age
    inbox, taken, outbox   \* queue directory: requests; accepted; replies

clients  == <<at, place, fate, source>>
services == <<up, lane, beat, launches>>
registry == <<desc, fresh>>
queues   == <<inbox, taken, outbox>>
vars     == <<clients, services, registry, queues>>

Services == 1 .. S
Reply    == [of : Lanes, ok : BOOLEAN]

TypeOK ==
    /\ at \in [Clients -> Services]
    /\ place \in [Clients -> {"start", "drop", "look", "beat", "end"}]
    /\ fate \in [Clients -> {"none", "hits", "error", "stale", "timeout"}]
    /\ source \in [Clients -> Lanes]
    /\ up \in [Services -> BOOLEAN]
    /\ lane \in [Services -> Lanes]
    /\ beat \in [Services -> BOOLEAN]
    /\ launches \in [Services -> 0 .. MaxLaunches]
    /\ desc \in [Services -> Lanes \cup {Absent}]
    /\ fresh \in [Services -> BOOLEAN]
    /\ inbox \in [Services -> SUBSET Clients]
    /\ taken \in [Services -> SUBSET Clients]
    /\ outbox \in [Services -> [Clients -> Reply \cup {Absent}]]

Init ==
    /\ source = Want
    /\ at = [c \in Clients |-> 1]
    /\ place = [c \in Clients |-> "start"]
    /\ fate = [c \in Clients |-> "none"]
    /\ up = [s \in Services |-> FALSE]
    /\ lane = [s \in Services |-> CHOOSE l \in Lanes : TRUE]
    /\ beat = [s \in Services |-> FALSE]
    /\ launches = [s \in Services |-> 0]
    /\ desc = [s \in Services |-> Absent]
    /\ fresh = [s \in Services |-> FALSE]
    /\ inbox = [s \in Services |-> {}]
    /\ taken = [s \in Services |-> {}]
    /\ outbox = [s \in Services |-> [c \in Clients |-> Absent]]

-----------------------------------------------------------------------------
(* Service.serve, and the heartbeat thread.                                   *)

\* bring_up and the first, synchronous publication. The queue directory is the
\* one the last incarnation left.
Launch(s) ==
    /\ ~up[s] /\ ~beat[s] /\ launches[s] < MaxLaunches
    /\ launches' = [launches EXCEPT ![s] = @ + 1]
    /\ up' = [up EXCEPT ![s] = TRUE]
    /\ \E l \in Lanes : /\ lane' = [lane EXCEPT ![s] = l]
                        /\ desc' = [desc EXCEPT ![s] = l]
    /\ fresh' = [fresh EXCEPT ![s] = TRUE]
    /\ UNCHANGED <<clients, beat, queues>>

BeatBegins(s) ==
    /\ up[s] /\ ~beat[s]
    /\ beat' = [beat EXCEPT ![s] = TRUE]
    /\ UNCHANGED <<clients, up, lane, launches, registry, queues>>

\* The rename, which may come after the descriptor was unpublished: stop sets a
\* flag that the thread reads between two publications.
BeatEnds(s) ==
    /\ beat[s]
    /\ beat' = [beat EXCEPT ![s] = FALSE]
    /\ desc' = [desc EXCEPT ![s] = lane[s]]
    /\ fresh' = [fresh EXCEPT ![s] = TRUE]
    /\ UNCHANGED <<clients, up, lane, launches, queues>>

\* The serve loop ends: finally, beat.stop and unpublish.
Stop(s) ==
    /\ up[s]
    /\ up' = [up EXCEPT ![s] = FALSE]
    /\ desc' = [desc EXCEPT ![s] = Absent]
    /\ taken' = [taken EXCEPT ![s] = {}]
    /\ UNCHANGED <<clients, lane, beat, launches, fresh, inbox, outbox>>

Kill(s) ==
    /\ up[s]
    /\ up' = [up EXCEPT ![s] = FALSE]
    /\ beat' = [beat EXCEPT ![s] = FALSE]
    /\ taken' = [taken EXCEPT ![s] = {}]
    /\ UNCHANGED <<clients, lane, launches, registry, inbox, outbox>>

\* The heartbeat of a descriptor nobody writes passes max_age_s.
Expire(s) ==
    /\ ~up[s] /\ ~beat[s] /\ desc[s] # Absent /\ fresh[s]
    /\ fresh' = [fresh EXCEPT ![s] = FALSE]
    /\ UNCHANGED <<clients, services, desc, queues>>

\* _accept consumes the file before anything is answered.
Take(s, c) ==
    /\ up[s] /\ c \in inbox[s]
    /\ inbox' = [inbox EXCEPT ![s] = @ \ {c}]
    /\ taken' = [taken EXCEPT ![s] = @ \cup {c}]
    /\ UNCHANGED <<clients, services, registry, outbox>>

\* _reply: a request that names another rendering is refused, a query may
\* raise; every reply says which index it comes from.
Answer(s, c) ==
    /\ up[s] /\ c \in taken[s]
    /\ taken' = [taken EXCEPT ![s] = @ \ {c}]
    /\ \E ok \in BOOLEAN :
          /\ Want[c].rendering # lane[s].rendering => ~ok
          /\ outbox' = [outbox EXCEPT ![s][c] = [of |-> lane[s], ok |-> ok]]
    /\ UNCHANGED <<clients, services, registry, inbox>>

-----------------------------------------------------------------------------
(* ServiceBackend.rank, ask_service and ask.                                  *)

Live(s, l) == desc[s] = l /\ fresh[s]

End(c, how) ==
    /\ place' = [place EXCEPT ![c] = "end"]
    /\ fate' = [fate EXCEPT ![c] = how]

\* live_services: the first by name of the lane that beats.
Discover(c) ==
    /\ place[c] = "start"
    /\ \/ /\ \A s \in Services : ~Live(s, Want[c])
          /\ End(c, "stale") /\ UNCHANGED at
       \/ \E s \in Services :
             /\ Live(s, Want[c]) /\ \A t \in 1 .. s - 1 : ~Live(t, Want[c])
             /\ at' = [at EXCEPT ![c] = s]
             /\ place' = [place EXCEPT ![c] = "drop"]
             /\ UNCHANGED fate
    /\ UNCHANGED <<source, services, registry, queues>>

Drop(c) ==
    /\ place[c] = "drop"
    /\ inbox' = [inbox EXCEPT ![at[c]] = @ \cup {c}]
    /\ place' = [place EXCEPT ![c] = "look"]
    /\ UNCHANGED <<at, fate, source, services, registry, taken, outbox>>

Bug_CollectRendering(c) ==
    LET got == outbox[at[c]][c] IN
    /\ place[c] = "look" /\ got # Absent
    /\ outbox' = [outbox EXCEPT ![at[c]][c] = Absent]
    /\ End(c, IF got.of.rendering = Want[c].rendering /\ got.ok THEN "hits" ELSE "error")
    /\ source' = [source EXCEPT ![c] = got.of]
    /\ UNCHANGED <<at, services, registry, inbox, taken>>

\* _hits_of checks the lane of the reply before its verdict.
Collect(c) ==
    LET got == outbox[at[c]][c] IN
    /\ place[c] = "look" /\ got # Absent
    /\ outbox' = [outbox EXCEPT ![at[c]][c] = Absent]
    /\ End(c, IF got.of = Want[c] /\ got.ok THEN "hits" ELSE "error")
    /\ source' = [source EXCEPT ![c] = got.of]
    /\ UNCHANGED <<at, services, registry, inbox, taken>>

NoReply(c) ==
    /\ place[c] = "look" /\ outbox[at[c]][c] = Absent
    /\ place' = [place EXCEPT ![c] = "beat"]
    /\ UNCHANGED <<at, fate, source, services, registry, queues>>

\* _still_beating looks at the heartbeat only, not at whose it is.
StillBeating(c) ==
    /\ place[c] = "beat"
    /\ IF desc[at[c]] # Absent /\ fresh[at[c]]
       THEN place' = [place EXCEPT ![c] = "look"] /\ UNCHANGED fate
       ELSE End(c, "stale")
    /\ UNCHANGED <<at, source, services, registry, queues>>

\* The deadline, tested at the top of the loop.
Timeout(c) ==
    /\ place[c] = "look"
    /\ End(c, "timeout")
    /\ UNCHANGED <<at, source, services, registry, queues>>

-----------------------------------------------------------------------------
ClientStep(c) == Discover(c) \/ Drop(c) \/ Collect(c) \/ NoReply(c) \/ StillBeating(c)

Next ==
    \/ \E s \in Services :
          \/ Launch(s) \/ BeatBegins(s) \/ BeatEnds(s) \/ Stop(s) \/ Kill(s) \/ Expire(s)
          \/ \E c \in Clients : Take(s, c) \/ Answer(s, c)
    \/ \E c \in Clients : ClientStep(c) \/ Timeout(c)

Spec == Init /\ [][Next]_vars

\* Clients run, a running service answers, a write ends and time passes; no
\* fairness for the deadline.
FairSpec ==
    /\ Spec
    /\ \A c \in Clients : WF_vars(ClientStep(c))
    /\ \A s \in Services :
          /\ WF_vars(BeatEnds(s)) /\ WF_vars(Expire(s))
          /\ \A c \in Clients : WF_vars(Take(s, c)) /\ WF_vars(Answer(s, c))

-----------------------------------------------------------------------------
(* Properties.                                                                *)

\* The lane a client's hits come from is the one its run declares, whichever
\* incarnation answered: rendering and build (ServiceBackend).
RightLane == \A c \in Clients : fate[c] = "hits" => source[c] = Want[c]

\* A client whose service is gone learns it from the heartbeat and does not
\* need its deadline, unless the service came back without its request.
Detected ==
    \A c \in Clients :
        place[c] = "look" ~> (place[c] = "end" \/ launches[at[c]] > 1)
=============================================================================
