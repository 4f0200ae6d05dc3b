-------------------------- MODULE EndpointRegistry --------------------------
(* The registry of vLLM pairs (serving/vllm_registry.py) on top of the file   *)
(* queue: pending is free/, running is leased/.  Its publishers are the       *)
(* supervise loops of slurm/vllm_service.sbatch, its claimers the workers of  *)
(* pipeline/topic_fleet.py, which hold a lease for their whole life.          *)
EXTENDS FileQueue

CONSTANTS
    Endpoints,   \* descriptor names, one per vLLM job
    Workers,     \* fleet workers with no RAGTIME_VLLM_URL of their own
    None,        \* no descriptor
    Lanes,       \* the lane assignments considered, each a set of pairs <<w, e>> such
                 \* that e serves another model or GPU architecture than w wants
    MaxPublish,  \* bound: announcements per job
    MaxCrashes   \* bound: workers and jobs killed without a chance to clean up

ASSUME RegistryAssumption ==
    /\ Lanes \subseteq SUBSET (Workers \X Endpoints)
    /\ MaxAge \in Nat
    /\ MaxPublish \in Nat
    /\ MaxCrashes \in Nat

Descriptors == Endpoints \cup {Temp(e) : e \in Endpoints}

ASSUME DescriptorsAssumption ==
    /\ None \notin Descriptors
    /\ \A e \in Endpoints : Temp(e) \notin Endpoints

VARIABLES
    wrongLane, \* the lane assignment of this behaviour, never changed
    job,       \* per endpoint: place of its supervise loop
    published, \* announcements made, counted up to MaxPublish
    pc, cur,   \* per worker: place, descriptor just claimed or about to be reaped
    held,      \* per worker: wrong-lane and unreadable descriptors of this scan
    lease,     \* per worker: the descriptor it leased
    raced,     \* history: endpoints one of the races named below has happened to
    crashes

files == <<pending, running, sidecar, age>>
jvars == <<job, published>>
wvars == <<pc, cur, held, lease>>
vars  == <<files, wrongLane, jvars, wvars, raced, crashes>>

Scanning == {"scan", "reap", "claim", "claimed", "return"}
JobPlaces == {"down", "announce", "beat", "up", "rfree", "look", "rleased", "rest", "unpub", "dead"}

TypeOK ==
    /\ wrongLane \in Lanes
    /\ pending \subseteq Descriptors /\ running \subseteq Descriptors
    /\ sidecar \subseteq Descriptors
    /\ age \in [Descriptors -> 0 .. MaxAge + 1]
    /\ job \in [Endpoints -> JobPlaces]
    /\ published \in [Endpoints -> 0 .. MaxPublish]
    /\ pc \in [Workers -> {"off", "own", "rest", "dead"} \cup Scanning]
    /\ cur \in [Workers -> Descriptors \cup {None}]
    /\ held \in [Workers -> SUBSET Descriptors]
    /\ lease \in [Workers -> Descriptors \cup {None}]
    /\ \A w \in Workers :
        /\ pc[w] \in {"reap", "claimed"} <=> cur[w] # None
        /\ pc[w] = "own" => lease[w] # None /\ held[w] = {}
        /\ lease[w] # None => pc[w] \in {"return", "own"}
    /\ raced \subseteq Endpoints
    /\ crashes \in 0 .. MaxCrashes

Init ==
    /\ wrongLane \in Lanes
    /\ pending = {} /\ running = {}
    /\ sidecar = {}
    /\ age = [d \in Descriptors |-> 0]
    /\ job = [e \in Endpoints |-> "down"]
    /\ published = [e \in Endpoints |-> 0]
    /\ pc = [w \in Workers |-> "off"]
    /\ cur = [w \in Workers |-> None]
    /\ held = [w \in Workers |-> {}]
    /\ lease = [w \in Workers |-> None]
    /\ raced = {}
    /\ crashes = 0

-----------------------------------------------------------------------------

\* The pair a descriptor names: a temp file carries the whole document.
Pair(d) == IF d \in Endpoints THEN d ELSE CHOOSE e \in Endpoints : d = Temp(e)

\* What a worker will hand back or is using; a reaper's cur is not its own.
Mine(w) == (held[w] \cup {lease[w]} \cup (IF pc[w] = "claimed" THEN {cur[w]} ELSE {})) \ {None}

Taken(d) == \E w \in Workers : d \in Mine(w)

Race(e, happens) == raced' = IF happens THEN raced \cup {e} ELSE raced

JobGoto(e, from, to) == job[e] = from /\ job' = [job EXCEPT ![e] = to]

Goto(w, place) == pc' = [pc EXCEPT ![w] = place]

-----------------------------------------------------------------------------
(* The vLLM job: publish_endpoint once the engine answers, beat every cycle,  *)
(* unpublish_endpoint before a restart and on exit.                           *)

\* _atomic_write_doc's first half: the temp file beside the descriptor, in a
\* directory that claim and reap_stale list.
TempFree(e) ==
    /\ pending' = pending \cup {Temp(e)}
    /\ Renamed(Temp(e))
    /\ UNCHANGED <<running, sidecar>>

\* A name in leased/ is beaten instead of announced; otherwise write the
\* document to free/.
Publish(e) ==
    /\ published[e] < MaxPublish
    /\ published' = [published EXCEPT ![e] = @ + 1]
    /\ IF e \in running
       THEN JobGoto(e, "down", "beat") /\ UNCHANGED files
       ELSE JobGoto(e, "down", "announce") /\ TempFree(e)
    /\ UNCHANGED <<wvars, raced, crashes>>

\* The replace that makes the descriptor claimable.  It raises when a claim has
\* taken the temp file; the shell goes on to its supervise loop regardless.
\* Race: the pair is in somebody's hands, whose lease was withdrawn earlier.
Announce(e) ==
    /\ JobGoto(e, "announce", "rest")
    /\ IF Temp(e) \in pending
       THEN /\ pending' = (pending \ {Temp(e)}) \cup {e}
            /\ Renamed(e)
            /\ Race(e, Taken(e))
       ELSE UNCHANGED <<pending, age, raced>>
    /\ UNCHANGED <<running, sidecar, published, wvars, crashes>>

\* beat reads the descriptor where it finds it, free/ first ...
BeatFree(e) ==
    /\ job[e] \in {"beat", "up"}
    /\ IF e \in pending
       THEN JobGoto(e, job[e], "rfree") /\ TempFree(e)
       ELSE JobGoto(e, job[e], "look") /\ UNCHANGED files
    /\ UNCHANGED <<published, wvars, raced, crashes>>

\* ... then leased/; a descriptor in neither is GONE, which the loop ignores.
BeatLeased(e) ==
    /\ IF e \in running
       THEN /\ JobGoto(e, "look", "rleased")
            /\ running' = running \cup {Temp(e)}
            /\ Renamed(Temp(e))
       ELSE JobGoto(e, "look", "rest") /\ UNCHANGED <<running, age>>
    /\ UNCHANGED <<pending, sidecar, published, wvars, raced, crashes>>

\* The replace and the stamp, in the directory the descriptor was read from.
\* Race: the descriptor has been claimed, so this is a second, free copy of it.
ReplaceFree(e) ==
    /\ JobGoto(e, "rfree", "rest")
    /\ IF Temp(e) \in pending
       THEN /\ pending' = (pending \ {Temp(e)}) \cup {e}
            /\ Heartbeat(e)
            /\ Race(e, e \notin pending)
       ELSE UNCHANGED <<pending, sidecar, age, raced>>
    /\ UNCHANGED <<running, published, wvars, crashes>>

\* Race: the descriptor has been released or withdrawn, so this is a lease
\* nobody holds.
ReplaceLeased(e) ==
    /\ JobGoto(e, "rleased", "rest")
    /\ IF Temp(e) \in running
       THEN /\ running' = (running \ {Temp(e)}) \cup {e}
            /\ Heartbeat(e)
            /\ Race(e, e \notin running)
       ELSE UNCHANGED <<running, sidecar, age, raced>>
    /\ UNCHANGED <<pending, published, wvars, crashes>>

\* unpublish_endpoint: two unlinks, free/ before leased/.
UnpublishFree(e) ==
    /\ JobGoto(e, "up", "unpub")
    /\ pending' = pending \ {e}
    /\ UNCHANGED <<running, sidecar, age, published, wvars, raced, crashes>>

UnpublishLeased(e) ==
    /\ JobGoto(e, "unpub", "down")
    /\ running' = running \ {e}
    /\ UNCHANGED <<pending, sidecar, age, published, wvars, raced, crashes>>

\* Node failure or SIGKILL: the descriptor outlives its job.
JobKilled(e) ==
    /\ job[e] # "dead"
    /\ crashes < MaxCrashes
    /\ crashes' = crashes + 1
    /\ job' = [job EXCEPT ![e] = "dead"]
    /\ UNCHANGED <<files, published, wvars, raced>>

Supervise(e) ==
    \/ Publish(e) \/ Announce(e)
    \/ BeatFree(e) \/ BeatLeased(e) \/ ReplaceFree(e) \/ ReplaceLeased(e)
    \/ UnpublishLeased(e)

-----------------------------------------------------------------------------
(* The fleet worker: claim_endpoint at bring-up, release_endpoint at exit.    *)

Launch(w) ==
    /\ pc[w] = "off"
    /\ Goto(w, "scan")
    /\ UNCHANGED <<files, jvars, cur, held, lease, raced, crashes>>

\* reap_stale on leased/, as in the shard queue: decide, then move by name.
ReapCheck(w, d) ==
    /\ pc[w] = "scan"
    /\ d \in running
    /\ Stale(d)
    /\ Goto(w, "reap")
    /\ cur' = [cur EXCEPT ![w] = d]
    /\ UNCHANGED <<files, jvars, held, lease, raced, crashes>>

\* Race: the lease is a live worker's.
ReapMove(w) ==
    /\ pc[w] = "reap"
    /\ Requeue(cur[w])
    /\ Race(Pair(cur[w]), Taken(cur[w]))
    /\ Goto(w, "scan")
    /\ cur' = [cur EXCEPT ![w] = None]
    /\ UNCHANGED <<sidecar, jvars, held, lease, crashes>>

ReapEnd(w) ==
    /\ pc[w] = "scan"
    /\ \A d \in running : ~Stale(d)
    /\ Goto(w, "claim")
    /\ UNCHANGED <<files, jvars, cur, held, lease, raced, crashes>>

\* Race: the file claimed is a writer's temp file.
Claim(w, d) ==
    /\ pc[w] = "claim"
    /\ ClaimMove(d)
    /\ Race(Pair(d), d \notin Endpoints)
    /\ Goto(w, "claimed")
    /\ cur' = [cur EXCEPT ![w] = d]
    /\ UNCHANGED <<sidecar, jvars, held, lease, crashes>>

\* Mutant: a descriptor of another lane goes back at once instead of being held.
Bug_HoldRequeues(w) ==
    /\ pc[w] = "claimed"
    /\ cur[w] \notin running \/ cur[w] \notin Endpoints \/ <<w, Pair(cur[w])>> \in wrongLane
    /\ Requeue(cur[w])
    /\ Goto(w, "claim")
    /\ cur' = [cur EXCEPT ![w] = None]
    /\ UNCHANGED <<sidecar, jvars, held, lease, raced, crashes>>

\* claim's stamp, then the read: a descriptor that is gone, still being written,
\* or of another lane is kept out of the way until the scan is over.
Hold(w) ==
    /\ pc[w] = "claimed"
    /\ cur[w] \notin running \/ cur[w] \notin Endpoints \/ <<w, Pair(cur[w])>> \in wrongLane
    /\ Heartbeat(cur[w])
    /\ held' = [held EXCEPT ![w] = @ \cup {cur[w]}]
    /\ Goto(w, "claim")
    /\ cur' = [cur EXCEPT ![w] = None]
    /\ UNCHANGED <<pending, running, jvars, lease, raced, crashes>>

Take(w) ==
    /\ pc[w] = "claimed"
    /\ cur[w] \in running
    /\ <<w, Pair(cur[w])>> \notin wrongLane
    /\ Heartbeat(cur[w])
    /\ lease' = [lease EXCEPT ![w] = cur[w]]
    /\ Goto(w, "return")
    /\ cur' = [cur EXCEPT ![w] = None]
    /\ UNCHANGED <<pending, running, jvars, held, raced, crashes>>

ClaimNone(w) ==
    /\ pc[w] = "claim"
    /\ pending = {}
    /\ Goto(w, "return")
    /\ UNCHANGED <<files, jvars, cur, held, lease, raced, crashes>>

\* The finally block gives back what was held, one rename at a time, by name.
ReturnHeld(w, d) ==
    /\ pc[w] = "return"
    /\ d \in held[w]
    /\ Requeue(d)
    /\ held' = [held EXCEPT ![w] = @ \ {d}]
    /\ UNCHANGED <<sidecar, jvars, pc, cur, lease, raced, crashes>>

\* With a lease the worker starts its heartbeat child and works; without one
\* bringup raises, and the supervisor starts the worker again a minute later.
Return(w) ==
    /\ pc[w] = "return"
    /\ held[w] = {}
    /\ Goto(w, IF lease[w] = None THEN "rest" ELSE "own")
    /\ UNCHANGED <<files, jvars, cur, held, lease, raced, crashes>>

\* The atexit release: whatever sits under the lease's name goes back to free/.
Release(w) ==
    /\ pc[w] = "own"
    /\ Requeue(lease[w])
    /\ lease' = [lease EXCEPT ![w] = None]
    /\ Goto(w, "rest")
    /\ UNCHANGED <<sidecar, jvars, cur, held, raced, crashes>>

\* Killed outright: the heartbeat child sees EOF, nothing is released.
Crash(w) ==
    /\ pc[w] \in {"own"} \cup Scanning
    /\ crashes < MaxCrashes
    /\ crashes' = crashes + 1
    /\ Goto(w, "dead")
    /\ cur' = [cur EXCEPT ![w] = None]
    /\ held' = [held EXCEPT ![w] = {}]
    /\ lease' = [lease EXCEPT ![w] = None]
    /\ UNCHANGED <<files, jvars, raced>>

\* claim_endpoint, from its reaper to its finally.
Scan(w) ==
    \/ (\E d \in Descriptors : ReapCheck(w, d)) \/ ReapMove(w) \/ ReapEnd(w)
    \/ (\E d \in Descriptors : Claim(w, d)) \/ ClaimNone(w) \/ Hold(w) \/ Take(w)
    \/ (\E d \in Descriptors : ReturnHeld(w, d)) \/ Return(w)

-----------------------------------------------------------------------------
(* Time.  A tick is one cycle of the supervise loops, a fraction of the four  *)
(* minutes of DEFAULT_MAX_AGE_S: every job that is up has beaten its          *)
(* descriptor once, the child of every lease holder has stamped its lease,    *)
(* and no live process spends a tick in the middle of an operation.           *)

Tick ==
    /\ \A w \in Workers : pc[w] \in {"rest", "own", "dead"}
    /\ \A e \in Endpoints : job[e] \in {"down", "rest", "dead"}
    /\ Aging({lease[w] : w \in {v \in Workers : pc[v] = "own"}})
    /\ job' = [e \in Endpoints |-> IF job[e] = "rest" THEN "up" ELSE job[e]]
    /\ pc' = [w \in Workers |-> IF pc[w] = "rest" THEN "off" ELSE pc[w]]
    /\ UNCHANGED <<pending, running, published, cur, held, lease, raced, crashes>>

Next ==
    /\ \/ \E e \in Endpoints : Supervise(e) \/ UnpublishFree(e) \/ JobKilled(e)
       \/ \E w \in Workers : Launch(w) \/ Scan(w) \/ Release(w) \/ Crash(w)
       \/ Tick
    /\ UNCHANGED wrongLane

Spec == Init /\ [][Next]_vars

\* Workers and jobs go on while they are not killed and time passes; nothing
\* obliges a worker to finish with its pair or an engine to stop.
Fairness ==
    /\ \A w \in Workers : WF_vars((Launch(w) \/ Scan(w)) /\ UNCHANGED wrongLane)
    /\ \A e \in Endpoints : WF_vars(Supervise(e) /\ UNCHANGED wrongLane)
    /\ WF_vars(Tick /\ UNCHANGED wrongLane)

FairSpec == Spec /\ Fairness

-----------------------------------------------------------------------------
(* Properties.                                                                *)

\* A vLLM pair is exclusive to one worker.
Exclusive ==
    \A w, v \in Workers : pc[w] = "own" /\ pc[v] = "own" /\ Pair(lease[w]) = Pair(lease[v]) => w = v

\* The races are the only way to book a pair twice: without one, a pair in a
\* worker's hands is neither free nor in another worker's hands.
BookedOnce ==
    \A e \in Endpoints \ raced :
        /\ Taken(e) => e \notin pending
        /\ \A w, v \in Workers : e \in Mine(w) \cap Mine(v) => w = v

\* A lane filter never takes a pair out of the fleet: without a race or a kill, a
\* descriptor in leased/ is one a worker will hand back.
LeasedAccounted ==
    crashes = 0 => \A e \in running \cap (Endpoints \ raced) : Taken(e)

\* While its job is up and no race touched it, a pair is advertised or leased,
\* whatever claims, reaps, scans and kills have happened.
Advertised ==
    \A e \in Endpoints \ raced : job[e] \in {"up", "rest"} => e \in pending \cup running

\* Every scan ends, with descriptors of other lanes in the way as well.
ScanEnds ==
    (\A w \in Workers : pc[w] \in Scanning ~> pc[w] \notin Scanning) \/ <>(raced # {})

\* A worker that dies without releasing is reclaimed by reap_stale, whether or
\* not the vLLM job behind the lease is still up.
AbandonedReclaimed ==
    \A e \in Endpoints :
        (e \in running /\ ~Taken(e)) ~> (e \notin running \/ Taken(e) \/ e \in raced)
=============================================================================
