------------------------------ MODULE StageDag ------------------------------
(* The corpus chain as SLURM jobs (orchestration/cli.py _submit_corpus,       *)
(* _run_preprocess, slurm/launcher.py and the templates): for each substage a *)
(* seed job, an array of workers after it succeeded and a drive after they    *)
(* ended however they ended; the next substage and, at the end, the online    *)
(* half wait for the drive to succeed. The whole chain may be submitted again *)
(* while jobs of an earlier submission are still there. The queue of a        *)
(* substage is WorkQueue's, without its files and clocks.                     *)
EXTENDS Integers, FiniteSets

CONSTANTS
    Stages,        \* the substages are 1 .. Stages
    Tasks,         \* tasks of a worker array
    Shards,        \* shards a whole input of a substage is cut into
    MaxSubmits,    \* bound: times the chain is submitted
    Plans          \* what is submitted: see Plan

Sub   == 1 .. Stages
Chain == 1 .. MaxSubmits

\* How much can go wrong: worker tasks killed, seed jobs that raise part way,
\* failures that return a shard to pending/, shards that exhaust their attempts.
Budget == [kills : Nat, raises : Nat, retries : Nat, poison : Nat]

\* The substages that are on, the width of their arrays, the shards of an input,
\* and the bounds of a behaviour.
Plan == [stages : Sub, tasks : (SUBSET Tasks) \ {{}}, shards : SUBSET Shards,
         submits : 0 .. MaxSubmits, budget : Budget]

ASSUME DagAssumption == Stages \in Nat /\ MaxSubmits \in Nat /\ Plans \subseteq Plan

VARIABLES
    plan,       \* fixed
    submitted,  \* submissions so far
    seedJob,    \* submission, substage -> "held", "run", "ok" or "bad"
    taskJob,    \* submission, substage, task -> the same, or "look"
    driveJob,   \* submission, substage -> the same, or a place of DrivePlaces
    online,     \* submission -> the online node: "held" or "run"
    left,       \* submission, substage -> shards the seed job has still to write
    todo,       \* substage -> pending/
    held,       \* substage -> shard -> the job that has it in running/, or NoJob
    done, failed,
    sentinel,   \* substages whose _DONE exists
    artifact,   \* substage -> "none", "short" or "whole"
    budget,     \* kills, raises, retries and poisonings left
    late,       \* history: seed jobs that raised and were taken to have succeeded
    misled,     \* history: drives past whose listings a shard has gone back
    stray       \* history: tasks past whose listings one has

jobs  == <<submitted, seedJob, taskJob, driveJob, online>>
queue == <<todo, held, done, failed>>
history == <<late, misled, stray>>
vars  == <<plan, jobs, left, queue, sentinel, artifact, budget, history>>

NoJob  == <<>>
Jobs   == Chain \X Sub \X Tasks
States == {"held", "run", "ok", "bad"}
DrivePlaces == {"look", "busy", "guard", "again", "check", "merge"}
Over(state) == state \in {"ok", "bad"}
Running(k) == {s \in Shards : held[k][s] # NoJob}

Init ==
    /\ plan \in Plans
    /\ submitted = 0
    /\ seedJob = [n \in Chain |-> [k \in Sub |-> "held"]]
    /\ taskJob = [n \in Chain |-> [k \in Sub |-> [t \in Tasks |-> "held"]]]
    /\ driveJob = [n \in Chain |-> [k \in Sub |-> "held"]]
    /\ online = [n \in Chain |-> "held"]
    /\ left = [n \in Chain |-> [k \in Sub |-> {}]]
    /\ todo = [k \in Sub |-> {}]
    /\ held = [k \in Sub |-> [s \in Shards |-> NoJob]]
    /\ done = [k \in Sub |-> {}] /\ failed = [k \in Sub |-> {}]
    /\ sentinel = {}
    /\ artifact = [k \in Sub |-> "none"]
    /\ budget = plan.budget
    /\ late = {} /\ misled = {} /\ stray = {}

\* _submit_dag: every job is in SLURM's hands at once.
Submit ==
    /\ submitted < plan.submits
    /\ submitted' = submitted + 1
    /\ UNCHANGED <<plan, seedJob, taskJob, driveJob, online, left, queue, sentinel, artifact, budget, history>>

-----------------------------------------------------------------------------
(* The seed job: afterok the previous drive.                                  *)

Seedable(n, k) == n <= submitted /\ k <= plan.stages /\ (k > 1 => driveJob[n][k - 1] = "ok")

\* A finished substage seeds nothing, and an input that is not there raises.
SeedStart(n, k) ==
    /\ seedJob[n][k] = "held" /\ Seedable(n, k)
    /\ LET missing == k > 1 /\ k \notin sentinel /\ artifact[k - 1] = "none"
       IN seedJob' = [seedJob EXCEPT ![n][k] = IF missing THEN "bad" ELSE "run"]
    /\ left' = [left EXCEPT ![n][k] = IF k \in sentinel THEN {} ELSE plan.shards]
    /\ UNCHANGED <<plan, submitted, taskJob, driveJob, online, queue, sentinel, artifact, budget, history>>

\* Only a name that is in pending/ already is skipped.
SeedWrite(n, k) ==
    /\ seedJob[n][k] = "run"
    /\ \E s \in left[n][k] :
          /\ left' = [left EXCEPT ![n][k] = @ \ {s}]
          /\ todo' = [todo EXCEPT ![k] = @ \cup {s}]
    /\ UNCHANGED <<plan, jobs, held, done, failed, sentinel, artifact, budget, history>>

SeedEnd(n, k) ==
    /\ seedJob[n][k] = "run" /\ left[n][k] = {}
    /\ seedJob' = [seedJob EXCEPT ![n][k] = "ok"]
    /\ UNCHANGED <<plan, submitted, taskJob, driveJob, online, left, queue, sentinel, artifact, budget, history>>

\* The template's trap on the walltime warning exits 0 once the command in the
\* foreground has ended, whatever its status: a raise after it is not seen.
SeedRaise(n, k) ==
    /\ seedJob[n][k] = "run" /\ budget.raises > 0
    /\ budget' = [budget EXCEPT !.raises = @ - 1]
    /\ \/ seedJob' = [seedJob EXCEPT ![n][k] = "bad"] /\ UNCHANGED late
       \/ seedJob' = [seedJob EXCEPT ![n][k] = "ok"] /\ late' = late \cup {<<n, k>>}
    /\ left' = [left EXCEPT ![n][k] = {}]
    /\ UNCHANGED <<plan, submitted, taskJob, driveJob, online, queue, sentinel, artifact, misled, stray>>

-----------------------------------------------------------------------------
(* The worker array: afterok the seed.                                        *)

Job(n, k, t) == <<n, k, t>>
Mine(n, k, t) == {s \in Shards : held[k][s] = Job(n, k, t)}

\* At the top of its loop.
Ready(n, k, t) == taskJob[n][k][t] = "run" /\ Mine(n, k, t) = {}

TaskTo(n, k, t, state) ==
    /\ taskJob' = [taskJob EXCEPT ![n][k][t] = state]
    /\ UNCHANGED <<plan, submitted, seedJob, driveJob, online, left, queue, sentinel, artifact, budget, late, misled>>

TaskStart(n, k, t) ==
    /\ n <= submitted /\ t \in plan.tasks /\ taskJob[n][k][t] = "held" /\ seedJob[n][k] = "ok"
    /\ TaskTo(n, k, t, "run") /\ UNCHANGED stray

\* A shard written again while a job had it changes hands.
TaskClaim(n, k, t) ==
    /\ Ready(n, k, t) /\ k \notin sentinel
    /\ \E s \in todo[k] :
          /\ todo' = [todo EXCEPT ![k] = @ \ {s}]
          /\ held' = [held EXCEPT ![k][s] = Job(n, k, t)]
    /\ UNCHANGED <<plan, jobs, left, done, failed, sentinel, artifact, budget, history>>

\* A task sees shard s from running/ to pending/, past those that have listed
\* pending/ and are about to list running/.
Return(n, k, t, s) ==
    /\ held' = [held EXCEPT ![k][s] = NoJob]
    /\ todo' = [todo EXCEPT ![k] = @ \cup {s}]
    /\ misled' = misled \cup {d \in Chain \X {k} : driveJob[d[1]][k] = "look"}
    /\ stray' = (stray \ {Job(n, k, t)})
          \cup {j \in Chain \X {k} \X Tasks : taskJob'[j[1]][k][j[3]] = "look"}

\* mark_done, or fail: back to pending/ while attempts are left, else to failed/.
TaskDone(n, k, t) ==
    /\ taskJob[n][k][t] = "run"
    /\ \E s \in Mine(n, k, t) :
          /\ held' = [held EXCEPT ![k][s] = NoJob]
          /\ \/ done' = [done EXCEPT ![k] = @ \cup {s}] /\ UNCHANGED <<failed, budget>>
             \/ /\ budget.poison > 0 /\ budget' = [budget EXCEPT !.poison = @ - 1]
                /\ failed' = [failed EXCEPT ![k] = @ \cup {s}] /\ UNCHANGED done
    /\ UNCHANGED <<plan, jobs, left, todo, sentinel, artifact, history>>

TaskRetry(n, k, t) ==
    /\ taskJob[n][k][t] = "run" /\ budget.retries > 0
    /\ budget' = [budget EXCEPT !.retries = @ - 1]
    /\ UNCHANGED <<plan, jobs, left, done, failed, sentinel, artifact, late>>
    /\ \E s \in Mine(n, k, t) : Return(n, k, t, s)

\* A shard whose job is gone goes stale, and the next pass of a worker returns it:
\* of one that was about to list running/ too, for it finds the shard there.
TaskReap(n, k, t) ==
    /\ taskJob[n][k][t] \in {"run", "look"} /\ Mine(n, k, t) = {} /\ k \notin sentinel
    /\ taskJob' = [taskJob EXCEPT ![n][k][t] = "run"]
    /\ UNCHANGED <<plan, submitted, seedJob, driveJob, online, left, done, failed, sentinel, artifact, budget, late>>
    /\ \E s \in Running(k) :
          /\ LET j == held[k][s] IN Over(taskJob[j[1]][j[2]][j[3]])
          /\ Return(n, k, t, s)

\* The substage is finished.
TaskStop(n, k, t) ==
    /\ Ready(n, k, t) /\ k \in sentinel
    /\ TaskTo(n, k, t, "ok") /\ UNCHANGED stray

\* Nothing to claim: _has_work lists pending/, then running/. The worker leaves when
\* both are empty.
TaskLook(n, k, t) ==
    /\ Ready(n, k, t) /\ k \notin sentinel /\ todo[k] = {}
    /\ TaskTo(n, k, t, "look") /\ UNCHANGED stray

TaskLeave(n, k, t) ==
    /\ taskJob[n][k][t] = "look"
    /\ \/ Running(k) = {} /\ TaskTo(n, k, t, "ok") /\ UNCHANGED stray
       \/ Running(k) # {} /\ TaskTo(n, k, t, "run") /\ stray' = stray \ {Job(n, k, t)}

TaskKill(n, k, t) ==
    /\ taskJob[n][k][t] \in {"run", "look"} /\ budget.kills > 0
    /\ budget' = [budget EXCEPT !.kills = @ - 1]
    /\ taskJob' = [taskJob EXCEPT ![n][k][t] = "bad"]
    /\ UNCHANGED <<plan, submitted, seedJob, driveJob, online, left, queue, sentinel, artifact, history>>

-----------------------------------------------------------------------------
(* The drive: afterany the worker array.                                      *)

Bug_DriveReady(n, k) ==
    n <= submitted /\ driveJob[n][k] = "held" /\ \A t \in plan.tasks : taskJob[n][k][t] = "ok"
DriveReady(n, k) ==
    n <= submitted /\ driveJob[n][k] = "held" /\ \A t \in plan.tasks : Over(taskJob[n][k][t])

DriveTo(n, k, place) ==
    /\ driveJob' = [driveJob EXCEPT ![n][k] = place]
    /\ misled' = IF place = "busy" THEN misled \ {<<n, k>>} ELSE misled
    /\ UNCHANGED <<plan, submitted, seedJob, taskJob, online, left, queue, budget, late, stray>>

DriveGoto(n, k, from, to) ==
    /\ driveJob[n][k] = from
    /\ DriveTo(n, k, to)
    /\ UNCHANGED <<sentinel, artifact>>

DriveStart(n, k) ==
    /\ DriveReady(n, k)
    /\ DriveGoto(n, k, "held", IF k \in sentinel THEN "ok" ELSE "run")

\* while _has_work(wq), with a break on a non-empty failed/.
DrivePoll(n, k) ==
    \/ DriveGoto(n, k, "run", IF todo[k] = {} THEN "look" ELSE "busy")
    \/ DriveGoto(n, k, "look", IF Running(k) = {} THEN "guard" ELSE "busy")
    \/ DriveGoto(n, k, "busy", IF failed[k] = {} THEN "run" ELSE "guard")

Bug_DriveGuardBlind(n, k) ==
    \/ DriveGoto(n, k, "guard", "again")
    \/ DriveGoto(n, k, "again", IF todo[k] = {} THEN "check" ELSE "bad")
    \/ DriveGoto(n, k, "check", IF Running(k) = {} THEN "merge" ELSE "bad")

\* The two refusals after the loop, the second over a fresh pair of listings.
DriveGuard(n, k) ==
    \/ DriveGoto(n, k, "guard", IF failed[k] = {} THEN "again" ELSE "bad")
    \/ DriveGoto(n, k, "again", IF todo[k] = {} THEN "check" ELSE "bad")
    \/ DriveGoto(n, k, "check", IF Running(k) = {} THEN "merge" ELSE "bad")

\* What is in out/ is merged, and the substage is finished; an artifact that is
\* there already is kept.
DriveMerge(n, k) ==
    /\ driveJob[n][k] = "merge"
    /\ artifact' = [artifact EXCEPT ![k] =
          IF @ # "none" THEN @ ELSE IF plan.shards \subseteq done[k] THEN "whole" ELSE "short"]
    /\ sentinel' = sentinel \cup {k}
    /\ DriveTo(n, k, "ok")

\* The online half: afterok the last drive.
OnlineStart(n) ==
    /\ n <= submitted /\ online[n] = "held" /\ driveJob[n][plan.stages] = "ok"
    /\ online' = [online EXCEPT ![n] = "run"]
    /\ UNCHANGED <<plan, submitted, seedJob, taskJob, driveJob, left, queue, sentinel, artifact, budget, history>>

Seed(n, k)    == SeedStart(n, k) \/ SeedWrite(n, k) \/ SeedEnd(n, k)
Task(n, k, t) ==
    \/ TaskStart(n, k, t) \/ TaskClaim(n, k, t) \/ TaskDone(n, k, t) \/ TaskRetry(n, k, t)
    \/ TaskStop(n, k, t) \/ TaskLook(n, k, t) \/ TaskLeave(n, k, t)
Drive(n, k)   == DriveStart(n, k) \/ DrivePoll(n, k) \/ DriveGuard(n, k) \/ DriveMerge(n, k)

Progress(n, k) ==
    \/ Seed(n, k) \/ Drive(n, k)
    \/ \E t \in Tasks : Task(n, k, t) \/ TaskReap(n, k, t)

Harm(n, k) == SeedRaise(n, k) \/ \E t \in Tasks : TaskKill(n, k, t)

Next ==
    \/ Submit
    \/ \E n \in Chain : OnlineStart(n) \/ \E k \in Sub : Progress(n, k) \/ Harm(n, k)

Spec == Init /\ [][Next]_vars

\* SLURM starts what may start, what runs runs on, and the heartbeat of a job that
\* is gone ages. Of a submission one job outside the arrays is there at a time, and
\* one substage.
Line(n) == OnlineStart(n) \/ \E k \in Sub : Seed(n, k) \/ Drive(n, k)

FairSpec ==
    /\ Spec
    /\ WF_vars(Submit)
    /\ \A n \in Chain :
          /\ WF_vars(Line(n))
          /\ \A t \in Tasks : /\ WF_vars(\E k \in Sub : Task(n, k, t))
                              /\ WF_vars(\E k \in Sub : TaskReap(n, k, t))

-----------------------------------------------------------------------------
(* Properties.                                                                *)

TypeOK ==
    /\ plan \in Plan
    /\ submitted \in 0 .. MaxSubmits
    /\ seedJob \in [Chain -> [Sub -> States]]
    /\ taskJob \in [Chain -> [Sub -> [Tasks -> States \cup {"look"}]]]
    /\ driveJob \in [Chain -> [Sub -> States \cup DrivePlaces]]
    /\ online \in [Chain -> {"held", "run"}]
    /\ left \in [Chain -> [Sub -> SUBSET Shards]]
    /\ todo \in [Sub -> SUBSET Shards]
    /\ held \in [Sub -> [Shards -> Jobs \cup {NoJob}]]
    /\ done \in [Sub -> SUBSET Shards] /\ failed \in [Sub -> SUBSET Shards]
    /\ sentinel \subseteq Sub
    /\ artifact \in [Sub -> {"none", "short", "whole"}]
    /\ budget \in [kills : Int, raises : Int, retries : Int, poison : Int]
    /\ late \subseteq Chain \X Sub
    /\ misled \subseteq Chain \X Sub
    /\ stray \subseteq Jobs

\* The pipeline starts only once the whole chain is merged: over every shard of
\* every substage, whoever was killed, retried or poisoned and whatever was
\* submitted twice (_submit_dag, _submit_corpus, drive). Two things escape the
\* jobs: a seed job that raised and was taken to have succeeded, and, when the chain
\* was submitted again, a shard returned between two listings of a drive.
Gated ==
    \A n \in Chain : online[n] = "run" =>
        \A k \in 1 .. plan.stages :
            \/ artifact[k] = "whole"
            \/ \E m \in Chain : <<m, k>> \in late \/ (submitted > 1 /\ <<m, k>> \in misled)

\* One bad array task does not strand the merge: every submission ends, with the
\* online half or at a drive that refuses, while no seed job fails and every array
\* keeps a task that is not killed and did not leave because a shard went back
\* between its two listings.
Intact ==
    \A n \in Chain, k \in Sub :
        /\ seedJob[n][k] # "bad"
        /\ \E t \in plan.tasks : taskJob[n][k][t] # "bad" /\ Job(n, k, t) \notin stray
ChainEnds ==
    \A n \in Chain :
        <>(~Intact \/ n > plan.submits \/ online[n] = "run" \/ \E k \in Sub : driveJob[n][k] = "bad")

-----------------------------------------------------------------------------
(* Plans for TLC.                                                             *)

Luck(kills, raises, retries, poison) ==
    [kills |-> kills, raises |-> raises, retries |-> retries, poison |-> poison]

\* Two substages submitted once; again over arrays of one task; one substage
\* submitted again over arrays of two.
Once   == [stages |-> 2, tasks |-> {1, 2}, shards |-> {1, 2}, submits |-> 1, budget |-> Luck(2, 1, 2, 1)]
Longer == [stages |-> 2, tasks |-> {1}, shards |-> {1}, submits |-> 2, budget |-> Luck(1, 0, 1, 1)]
Wider  == [stages |-> 1, tasks |-> {1, 2}, shards |-> {1}, submits |-> 2, budget |-> Luck(1, 1, 1, 0)]
SomePlans == {Once, Longer, Wider}
=============================================================================
