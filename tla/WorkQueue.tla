----------------------------- MODULE WorkQueue -----------------------------
(* The file-based work queue of orchestration/slurm/workqueue.py and the      *)
(* three roles orchestration/saturate.py builds on it: seed, run_worker and   *)
(* drive.  A directory is the set of file names in it, a rename is one step,  *)
(* and everything between two file-system calls of one process may be         *)
(* interleaved with every other process.                                      *)
EXTENDS FileQueue, FiniteSets

CONSTANTS
    Shards,      \* the names adapter.shards(cfg) yields
    Workers,     \* the processes of the worker array
    None,        \* no shard
    KMax,        \* _K_MAX: failures before a shard is poison
    Chained,     \* TRUE: drive is submitted afterany the worker array (corpus);
                 \* FALSE: drive polls beside live workers (pipeline fleet)
    Stalls,      \* TRUE: a live process may stall for a whole reaper window
    Restarts,    \* TRUE: every killed worker is started again (supervisor); else it may be
    MaxCrashes,  \* bound: processes killed in a behaviour
    MaxSeeds     \* bound: launches of the seed role

ASSUME QueueAssumption ==
    /\ KMax \in Nat \ {0}
    /\ MaxAge \in Nat
    /\ Chained \in BOOLEAN
    /\ Stalls \in BOOLEAN
    /\ Restarts \in BOOLEAN
    /\ MaxCrashes \in Nat
    /\ MaxSeeds \in Nat \ {0}

Files == Shards \cup {Temp(s) : s \in Shards}

ASSUME NamesAssumption ==
    /\ None \notin Files
    /\ \A s \in Shards : Temp(s) \notin Shards

VARIABLES
    done, failed,  \* the two final directories
    out,       \* names whose output artifact passes adapter.validate
    attempts,  \* the counter in meta/, read only against KMax: kept up to KMax
    fails,     \* history: calls of fail() per name, counted up to KMax
    sentinel,  \* _DONE
    pc, shard, n,          \* run_worker: place, claimed (or yanked) name, count read by fail
    spc, todo, writing, launches,  \* seed: place, shards not yet written, the one
                                   \* whose temp file exists, launches so far
    dpc,                   \* drive: place
    crashes

dirs  == <<pending, running, done, failed>>
meta  == <<sidecar, age, attempts, fails>>
wvars == <<pc, shard, n>>
svars == <<spc, todo, writing, launches>>
vars  == <<dirs, out, meta, sentinel, wvars, svars, dpc, crashes>>

Placed == pending \cup running \cup done \cup failed

AtWork == {"claimed", "work", "mark", "fail", "failw", "failm"}
WorkerPlaces == {"off", "loop", "scan", "reap", "claim", "recheck",
                 "exit", "dead"} \cup AtWork
SeedPlaces == {"off", "seed", "replace", "end", "raised", "dead"}
DrivePlaces == {"off", "poll1", "poll2", "inloop", "guard", "rescan1",
                "rescan2", "merge", "done", "raised"}

TypeOK ==
    /\ pending \subseteq Files /\ running \subseteq Files
    /\ done \subseteq Files /\ failed \subseteq Files /\ out \subseteq Files
    /\ sidecar \subseteq Files
    /\ age \in [Files -> 0 .. MaxAge + 1]
    /\ attempts \in [Files -> 0 .. KMax]
    /\ fails \in [Files -> 0 .. KMax]
    /\ sentinel \in BOOLEAN
    /\ pc \in [Workers -> WorkerPlaces]
    /\ shard \in [Workers -> Files \cup {None}]
    /\ n \in [Workers -> 0 .. KMax]
    /\ \A w \in Workers : pc[w] \in AtWork \cup {"reap"} => shard[w] \in Files
    /\ spc \in SeedPlaces
    /\ todo \subseteq Shards
    /\ writing \in Shards \cup {None}
    /\ spc = "replace" => writing \in todo
    /\ launches \in 0 .. MaxSeeds
    /\ dpc \in DrivePlaces
    /\ crashes \in 0 .. MaxCrashes

Init ==
    /\ pending = {} /\ running = {} /\ done = {} /\ failed = {}
    /\ out = {}
    /\ sidecar = {}
    /\ age = [f \in Files |-> 0]
    /\ attempts = [f \in Files |-> 0]
    /\ fails = [f \in Files |-> 0]
    /\ sentinel = FALSE
    /\ pc = [w \in Workers |-> "off"]
    /\ shard = [w \in Workers |-> None]
    /\ n = [w \in Workers |-> 0]
    /\ spc = "off" /\ todo = {} /\ writing = None /\ launches = 0
    /\ dpc = "off"
    /\ crashes = 0

-----------------------------------------------------------------------------
(* Primitives of workqueue.py beyond FileQueue.                               *)

\* The tolerant move into failed/.
ToFailed(f) ==
    /\ running' = running \ {f}
    /\ failed' = IF f \in running THEN failed \cup {f} ELSE failed
    /\ IF f \in running THEN Renamed(f) ELSE UNCHANGED age
    /\ UNCHANGED pending

Capped(k) == IF k > KMax THEN KMax ELSE k

Goto(w, place) == pc' = [pc EXCEPT ![w] = place]

-----------------------------------------------------------------------------
(* run_worker.                                                                *)

\* The array is submitted afterok the seed job; a fleet worker starts at any time,
\* and refuses a queue with no file in it anywhere.  One that finds the queue
\* finalized does not even load the model.
Launch(w) ==
    /\ pc[w] = "off"
    /\ IF Chained THEN spc = "end" ELSE Placed # {}
    /\ IF sentinel /\ pending = {} /\ running = {}
       THEN Goto(w, "exit") ELSE Goto(w, "loop")
    /\ UNCHANGED <<dirs, out, meta, sentinel, shard, n, svars, dpc, crashes>>

LoopTop(w) ==
    /\ pc[w] = "loop"
    /\ Goto(w, IF sentinel THEN "exit" ELSE "scan")
    /\ UNCHANGED <<dirs, out, meta, sentinel, shard, n, svars, dpc, crashes>>

\* reap_stale decides from the age it reads now ...
ReapCheck(w, f) ==
    /\ pc[w] = "scan"
    /\ f \in running
    /\ Stale(f)
    /\ Goto(w, "reap")
    /\ shard' = [shard EXCEPT ![w] = f]
    /\ UNCHANGED <<dirs, out, meta, sentinel, n, svars, dpc, crashes>>

\* ... and renames later, whoever holds the name by then.
ReapMove(w) ==
    /\ pc[w] = "reap"
    /\ Requeue(shard[w])
    /\ Goto(w, "scan")
    /\ shard' = [shard EXCEPT ![w] = None]
    /\ UNCHANGED <<done, failed, out, sidecar, attempts, fails, sentinel, n, svars, dpc, crashes>>

ReapEnd(w) ==
    /\ pc[w] = "scan"
    /\ \A f \in running : ~Stale(f)
    /\ Goto(w, "claim")
    /\ UNCHANGED <<dirs, out, meta, sentinel, shard, n, svars, dpc, crashes>>

\* claim's first successful rename; a lost race moves on to another candidate.
Claim(w, f) ==
    /\ pc[w] = "claim"
    /\ ClaimMove(f)
    /\ Goto(w, "claimed")
    /\ shard' = [shard EXCEPT ![w] = f]
    /\ UNCHANGED <<done, failed, out, sidecar, attempts, fails, sentinel, n, svars, dpc, crashes>>

\* Nothing claimable; _has_work reads pending/ now and running/ afterwards.
ClaimNone(w) ==
    /\ pc[w] = "claim"
    /\ pending = {}
    /\ Goto(w, "recheck")
    /\ UNCHANGED <<dirs, out, meta, sentinel, shard, n, svars, dpc, crashes>>

Recheck(w) ==
    /\ pc[w] = "recheck"
    /\ Goto(w, IF running = {} THEN "exit" ELSE "loop")
    /\ UNCHANGED <<dirs, out, meta, sentinel, shard, n, svars, dpc, crashes>>

\* claim's stamp, run_worker's own stamp and the fork of the child; work then
\* opens the shard file, which raises when the file is gone.
StartWork(w) ==
    /\ pc[w] = "claimed"
    /\ Heartbeat(shard[w])
    /\ Goto(w, IF shard[w] \in running THEN "work" ELSE "fail")
    /\ UNCHANGED <<dirs, out, attempts, fails, sentinel, shard, n, svars, dpc, crashes>>

\* The stamp inside the try block raises OSError: the shard is failed unworked.
StampError(w) ==
    /\ pc[w] = "claimed"
    /\ Goto(w, "fail")
    /\ UNCHANGED <<dirs, out, meta, sentinel, shard, n, svars, dpc, crashes>>

WorkOk(w) ==
    /\ pc[w] = "work"
    /\ out' = out \cup {shard[w]}
    /\ Goto(w, "mark")
    /\ UNCHANGED <<dirs, meta, sentinel, shard, n, svars, dpc, crashes>>

\* work raised, or its output does not validate.
WorkBad(w) ==
    /\ pc[w] = "work"
    /\ Goto(w, "fail")
    /\ UNCHANGED <<dirs, out, meta, sentinel, shard, n, svars, dpc, crashes>>

\* Mutant: the shard is copied to done/ and stays in running/.
Bug_MarkDoneCopies(w) ==
    /\ pc[w] = "mark"
    /\ done' = done \cup {shard[w]}
    /\ Goto(w, "loop")
    /\ shard' = [shard EXCEPT ![w] = None]
    /\ UNCHANGED <<pending, running, failed, out, meta, sentinel, n, svars, dpc, crashes>>

\* mark_done renames by name; a name that is gone, or a result row that cannot be
\* written after the rename, raises into the fail path.
MarkDone(w) ==
    /\ pc[w] = "mark"
    /\ IF shard[w] \in running
       THEN /\ running' = running \ {shard[w]}
            /\ done' = done \cup {shard[w]}
            /\ Renamed(shard[w])
            /\ \/ Goto(w, "loop") /\ shard' = [shard EXCEPT ![w] = None]
               \/ Goto(w, "fail") /\ UNCHANGED shard
       ELSE /\ Goto(w, "fail")
            /\ UNCHANGED <<running, done, age, shard>>
    /\ UNCHANGED <<pending, failed, out, sidecar, attempts, fails, sentinel, n, svars, dpc, crashes>>

\* fail: read the counter, write it, then move.
FailRead(w) ==
    /\ pc[w] = "fail"
    /\ n' = [n EXCEPT ![w] = Capped(attempts[shard[w]] + 1)]
    /\ fails' = [fails EXCEPT ![shard[w]] = Capped(@ + 1)]
    /\ Goto(w, "failw")
    /\ UNCHANGED <<dirs, out, sidecar, age, attempts, sentinel, shard, svars, dpc, crashes>>

FailWrite(w) ==
    /\ pc[w] = "failw"
    /\ attempts' = [attempts EXCEPT ![shard[w]] = n[w]]
    /\ Goto(w, "failm")
    /\ UNCHANGED <<dirs, out, sidecar, age, fails, sentinel, shard, n, svars, dpc, crashes>>

FailMove(w) ==
    /\ pc[w] = "failm"
    /\ IF n[w] >= KMax THEN ToFailed(shard[w]) ELSE Requeue(shard[w]) /\ UNCHANGED failed
    /\ Goto(w, "loop")
    /\ shard' = [shard EXCEPT ![w] = None]
    /\ n' = [n EXCEPT ![w] = 0]
    /\ UNCHANGED <<done, out, sidecar, attempts, fails, sentinel, svars, dpc, crashes>>

\* SIGKILL, walltime or OOM: the child sees EOF, nothing else is cleaned up.
Crash(w) ==
    /\ pc[w] \notin {"off", "exit", "dead"}
    /\ crashes < MaxCrashes
    /\ crashes' = crashes + 1
    /\ Goto(w, "dead")
    /\ shard' = [shard EXCEPT ![w] = None]
    /\ n' = [n EXCEPT ![w] = 0]
    /\ UNCHANGED <<dirs, out, meta, sentinel, svars, dpc>>

\* A worker that died may be started again, one that exited 0 never; a task of
\* an array that has ended for good no more.
Restart(w) ==
    /\ pc[w] = "dead"
    /\ Chained => dpc = "off"
    /\ Goto(w, "off")
    /\ UNCHANGED <<dirs, out, meta, sentinel, shard, n, svars, dpc, crashes>>

Worker(w) ==
    \/ Launch(w) \/ LoopTop(w)
    \/ (\E f \in Files : ReapCheck(w, f)) \/ ReapMove(w) \/ ReapEnd(w)
    \/ (\E f \in Files : Claim(w, f)) \/ ClaimNone(w) \/ Recheck(w)
    \/ StartWork(w) \/ StampError(w) \/ WorkOk(w) \/ WorkBad(w)
    \/ MarkDone(w) \/ FailRead(w) \/ FailWrite(w) \/ FailMove(w)

-----------------------------------------------------------------------------
(* seed.                                                                      *)

\* A launch of the role.  In a chain it is repeated only while it has not
\* succeeded, since the array waits for it; beside a fleet an operator may
\* relaunch it at any time.
SeedLaunch ==
    /\ spc \in {"off", "end", "raised", "dead"}
    /\ launches < MaxSeeds
    /\ Chained => spc # "end"
    /\ launches' = launches + 1
    /\ spc' = IF sentinel THEN "end" ELSE "seed"
    /\ todo' = IF sentinel THEN {} ELSE Shards
    /\ UNCHANGED <<dirs, out, meta, sentinel, wvars, writing, dpc, crashes>>

\* Mutant: a temp file left by a killed seed counts as a seeded shard.
Bug_SeedSkipTemp(s) ==
    /\ spc = "seed"
    /\ s \in todo
    /\ {s, Temp(s)} \cap pending # {}
    /\ todo' = todo \ {s}
    /\ UNCHANGED <<dirs, out, meta, sentinel, wvars, spc, writing, launches, dpc, crashes>>

\* Only pending/ is consulted, never running/, done/ or failed/.
SeedSkip(s) ==
    /\ spc = "seed"
    /\ s \in todo \cap pending
    /\ todo' = todo \ {s}
    /\ UNCHANGED <<dirs, out, meta, sentinel, wvars, spc, writing, launches, dpc, crashes>>

\* The temp file is created, and possibly still empty, in pending/ itself.
SeedTemp(s) ==
    /\ spc = "seed"
    /\ s \in todo \ pending
    /\ pending' = pending \cup {Temp(s)}
    /\ Renamed(Temp(s))
    /\ writing' = s
    /\ spc' = "replace"
    /\ UNCHANGED <<running, done, failed, out, sidecar, attempts, fails, sentinel, wvars, todo, launches, dpc, crashes>>

\* os.replace publishes the shard, or raises because a claim took the temp file.
SeedReplace ==
    /\ spc = "replace"
    /\ IF Temp(writing) \in pending
       THEN /\ pending' = (pending \ {Temp(writing)}) \cup {writing}
            /\ Renamed(writing)
            /\ todo' = todo \ {writing}
            /\ spc' = "seed"
       ELSE /\ spc' = "raised"
            /\ UNCHANGED <<pending, age, todo>>
    /\ writing' = None
    /\ UNCHANGED <<running, done, failed, out, sidecar, attempts, fails, sentinel, wvars, launches, dpc, crashes>>

SeedEnd ==
    /\ spc = "seed"
    /\ todo = {}
    /\ spc' = "end"
    /\ UNCHANGED <<dirs, out, meta, sentinel, wvars, todo, writing, launches, dpc, crashes>>

SeedCrash ==
    /\ spc \in {"seed", "replace"}
    /\ crashes < MaxCrashes
    /\ crashes' = crashes + 1
    /\ spc' = "dead"
    /\ writing' = None
    /\ UNCHANGED <<dirs, out, meta, sentinel, wvars, todo, launches, dpc>>

Seeder ==
    \/ \E s \in Shards : SeedSkip(s) \/ SeedTemp(s)
    \/ SeedReplace \/ SeedEnd

-----------------------------------------------------------------------------
(* drive.                                                                     *)

DriveGoto(from, to) ==
    /\ dpc = from
    /\ dpc' = to
    /\ UNCHANGED <<dirs, out, meta, sentinel, wvars, svars, crashes>>

\* afterany: every task of the array has ended for good, in whatever state.
DriveStart ==
    /\ spc = "end"
    /\ Chained => \A w \in Workers : pc[w] = "exit" \/ (pc[w] = "dead" /\ ~Restarts)
    /\ DriveGoto("off", IF sentinel THEN "done" ELSE "poll1")

\* while _has_work(wq): two listings, pending/ before running/, and a break on
\* a non-empty failed/.
DrivePoll ==
    \/ DriveGoto("poll1", IF pending = {} THEN "poll2" ELSE "inloop")
    \/ DriveGoto("poll2", IF running = {} THEN "guard" ELSE "inloop")
    \/ DriveGoto("inloop", IF failed = {} THEN "poll1" ELSE "guard")

\* Mutant: failed/ is consulted in the polling loop only.
Bug_DriveGuardBlind ==
    \/ DriveGoto("guard", "rescan1")
    \/ DriveGoto("rescan1", IF pending = {} THEN "rescan2" ELSE "raised")
    \/ DriveGoto("rescan2", IF running = {} THEN "merge" ELSE "raised")

\* The two refusals after the loop, the second with a fresh pair of listings.
DriveGuard ==
    \/ DriveGoto("guard", IF failed = {} THEN "rescan1" ELSE "raised")
    \/ DriveGoto("rescan1", IF pending = {} THEN "rescan2" ELSE "raised")
    \/ DriveGoto("rescan2", IF running = {} THEN "merge" ELSE "raised")

\* merge over out/, then the sentinel.
DriveMerge ==
    /\ dpc = "merge"
    /\ sentinel' = TRUE
    /\ dpc' = "done"
    /\ UNCHANGED <<dirs, out, meta, wvars, svars, crashes>>

Driver == DriveStart \/ DrivePoll \/ DriveGuard \/ DriveMerge

-----------------------------------------------------------------------------
(* Time.  A tick is a fraction of the reaper window, many heartbeat intervals *)
(* long: the forked child of a worker inside work() has re-stamped within it. *)
(* Without Stalls no live process spends one between two file-system calls.   *)

Beating == {shard[w] : w \in {v \in Workers : pc[v] = "work"}}
Brisk == {"off", "loop", "scan", "claim", "recheck", "work", "exit", "dead"}

Tick ==
    /\ Stalls \/ \A w \in Workers : pc[w] \in Brisk
    /\ \E alive \in SUBSET Beating :
        /\ Stalls \/ alive = Beating
        /\ Aging(alive)
    /\ UNCHANGED <<dirs, out, attempts, fails, sentinel, wvars, svars, dpc, crashes>>

Next ==
    \/ \E w \in Workers : Worker(w) \/ Crash(w) \/ Restart(w)
    \/ SeedLaunch \/ Seeder \/ SeedCrash
    \/ Driver
    \/ Tick

Spec == Init /\ [][Next]_vars

\* A process that is not killed takes its next step; the supervisor restarts a
\* dead worker, a dead or refused seed is launched again, and time passes.
Fairness ==
    /\ \A w \in Workers : WF_vars(Worker(w)) /\ WF_vars(Restart(w))
    /\ WF_vars(SeedLaunch /\ spc # "end")
    /\ WF_vars(Seeder)
    /\ WF_vars(Driver)
    /\ WF_vars(Tick)

FairSpec == Spec /\ Fairness

-----------------------------------------------------------------------------
(* Properties.                                                                *)

\* No sequence of claims, reaps, failures, kills and restarts loses a shard:
\* once seed has returned, every shard is in one of the four directories.
NoShardLost == spc = "end" => Shards \subseteq Placed

\* Moving by name never duplicates a shard: within one submission of the chain
\* a name is in at most one directory, although two workers may hold it.
OneDirectory ==
    Chained => \A f \in Files :
        /\ f \in pending => f \notin running \cup done \cup failed
        /\ f \in running => f \notin done \cup failed
        /\ f \in done => f \notin failed

\* Validate before done: a file reaches done/ only behind an output that
\* validates, also when the worker that moves it lost its claim meanwhile.
DoneValidated == done \subseteq out

\* done/ and failed/ are final: no late fail, reap or mark_done of a worker whose
\* claim was taken away brings a settled shard back out.
SettledStays == [][done \subseteq done' /\ failed \subseteq failed']_vars

\* A shard is poisoned only after KMax recorded failures, although two holders
\* of one shard may lose each other's counter update.
PoisonEarned == \A f \in failed : fails[f] = KMax

\* drive refuses to merge a partial corpus: behind the sentinel every shard is
\* done with a validated output, and failed/ is empty.
MergeComplete == sentinel => Shards \subseteq done /\ failed = {}

\* The sequencer is never left polling: the queue drains or poisons, and drive
\* merges or raises.  The one escape is a reaper that takes a live claim again
\* and again: a reap counts no attempt, so nothing ever poisons.
Yank ==
    \E w, v \in Workers :
        /\ pc[w] = "reap" /\ pc'[w] = "scan"
        /\ pc[v] \in AtWork /\ shard[v] = shard[w]
DriveEnds == []<><<Yank>>_vars \/ <>(dpc \in {"done", "raised"})

\* The queue keeps the promise of the abstract pool.
Pool == INSTANCE WorkPool WITH
            todo <- Shards \cap (pending \cup running),
            completed <- Shards \cap done,
            poisoned <- Shards \cap failed,
            published <- sentinel

PoolSpec == Pool!Spec
=============================================================================
