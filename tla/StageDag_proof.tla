--------------------------- MODULE StageDag_proof ---------------------------
(* For any number of substages, tasks, shards and submissions of the chain:   *)
(* the online half starts only over whole artifacts, unless a seed job that   *)
(* raised was taken to have succeeded or a drive beside a resubmission was    *)
(* misled.                                                                    *)
EXTENDS StageDag, TLAPS

\* Nothing is submitted and no queue has a shard.
LEMMA DagTypeInitial == Init => TypeOK
<1> SUFFICES ASSUME Init PROVE TypeOK
  OBVIOUS
<1> USE DagAssumption DEF Init, TypeOK, States
<1>1. held \in [Sub -> [Shards -> Jobs \cup {NoJob}]]
  OBVIOUS
<1>2. taskJob \in [Chain -> [Sub -> [Tasks -> States \cup {"look"}]]]
  OBVIOUS
<1>3. left \in [Chain -> [Sub -> SUBSET Shards]]
  OBVIOUS
<1>4. plan \in Plan /\ plan.budget \in Budget
  BY DEF Plan
<1>5. budget \in [kills : Int, raises : Int, retries : Int, poison : Int]
  <2>1. budget \in Budget
    BY <1>4
  <2> QED
    BY <2>1 DEF Budget
<1>6. submitted \in 0 .. MaxSubmits
  OBVIOUS
<1> QED
  BY <1>1, <1>2, <1>3, <1>4, <1>5, <1>6

Money == [kills : Int, raises : Int, retries : Int, poison : Int]

\* A budget that is spent stays one.
LEMMA BudgetSpent ==
    ASSUME NEW b \in Money
    PROVE  /\ [b EXCEPT !.kills = @ - 1] \in Money /\ [b EXCEPT !.raises = @ - 1] \in Money
           /\ [b EXCEPT !.retries = @ - 1] \in Money /\ [b EXCEPT !.poison = @ - 1] \in Money
<1>1. b.kills - 1 \in Int /\ b.raises - 1 \in Int /\ b.retries - 1 \in Int /\ b.poison - 1 \in Int
  BY DEF Money
<1> QED
  BY <1>1 DEF Money

\* What a step can be, one action at a time.
LEMMA StepCases ==
    ASSUME Next, NEW Goal \in BOOLEAN,
           Submit => Goal,
           \A n \in Chain : OnlineStart(n) => Goal,
           \A n \in Chain, k \in Sub :
              /\ SeedStart(n, k) => Goal
              /\ SeedWrite(n, k) => Goal
              /\ SeedEnd(n, k) => Goal
              /\ SeedRaise(n, k) => Goal
              /\ DriveMerge(n, k) => Goal
              /\ DriveStart(n, k) \/ DrivePoll(n, k) \/ DriveGuard(n, k) => Goal,
           \A n \in Chain, k \in Sub, t \in Tasks :
              /\ TaskStart(n, k, t) \/ TaskStop(n, k, t) \/ TaskLook(n, k, t)
                 \/ TaskLeave(n, k, t) \/ TaskKill(n, k, t) => Goal
              /\ TaskClaim(n, k, t) => Goal
              /\ TaskDone(n, k, t) => Goal
              /\ TaskRetry(n, k, t) \/ TaskReap(n, k, t) => Goal
    PROVE  Goal
<1>1. ASSUME NEW n \in Chain, NEW k \in Sub, Progress(n, k) PROVE Goal
  BY <1>1 DEF Progress, Seed, Drive, Task
<1>2. ASSUME NEW n \in Chain, NEW k \in Sub, Harm(n, k) PROVE Goal
  BY <1>2 DEF Harm
<1> QED
  BY <1>1, <1>2 DEF Next

\* A task that says something moves between its states and touches no queue.
TaskSays(n, k, t) ==
    TaskStart(n, k, t) \/ TaskStop(n, k, t) \/ TaskLook(n, k, t) \/ TaskLeave(n, k, t) \/ TaskKill(n, k, t)
LEMMA TaskSaysOnly ==
    ASSUME TypeOK, NEW n \in Chain, NEW k \in Sub, NEW t \in Tasks, TaskSays(n, k, t)
    PROVE  /\ \E st \in States \cup {"look"} : taskJob' = [taskJob EXCEPT ![n][k][t] = st] /\ st # "held"
           /\ taskJob[n][k][t] = "held" => n <= submitted /\ t \in plan.tasks /\ seedJob[n][k] = "ok"
           /\ ~Over(taskJob[n][k][t])
           /\ stray' \subseteq stray /\ budget' \in Money
           /\ UNCHANGED <<plan, submitted, seedJob, driveJob, online, left, todo, held, done, failed,
                          sentinel, artifact, late, misled>>
<1> USE DEF queue, history, TaskTo, Over
<1>1. budget \in Money
  BY DEF TypeOK, Money
<1>2. CASE TaskKill(n, k, t)
  <2>1. budget' \in Money
    BY <1>1, <1>2, BudgetSpent DEF TaskKill
  <2> QED
    BY <1>2, <2>1 DEF TaskKill, States
<1>3. CASE TaskStart(n, k, t)
  BY <1>1, <1>3 DEF TaskStart, States
<1>4. CASE TaskStop(n, k, t) \/ TaskLook(n, k, t)
  BY <1>1, <1>4 DEF TaskStop, TaskLook, Ready, States
<1>5. CASE TaskLeave(n, k, t)
  BY <1>1, <1>5 DEF TaskLeave, States
<1> QED
  BY <1>2, <1>3, <1>4, <1>5 DEF TaskSays

\* A drive that goes on moves between its places and merges nothing.
DriveGoes(n, k) == DriveStart(n, k) \/ DrivePoll(n, k) \/ DriveGuard(n, k)
DriveMoves(n, k, place) ==
    /\ driveJob' = [driveJob EXCEPT ![n][k] = place] /\ place # "held"
    /\ misled' = IF place = "busy" THEN misled \ {<<n, k>>} ELSE misled
    /\ place = "ok" => k \in sentinel
LEMMA DriveGoesOnly ==
    ASSUME NEW n \in Chain, NEW k \in Sub, DriveGoes(n, k)
    PROVE  /\ \E place \in States \cup DrivePlaces : DriveMoves(n, k, place)
           /\ driveJob[n][k] # "ok"
           /\ driveJob[n][k] = "held" => DriveReady(n, k)
           /\ UNCHANGED <<plan, submitted, seedJob, taskJob, online, left, todo, held, done, failed,
                          sentinel, artifact, budget, late, stray>>
<1>1. \E from, to \in States \cup DrivePlaces :
         /\ DriveGoto(n, k, from, to) /\ from # "ok" /\ to # "held"
         /\ to = "ok" => k \in sentinel
         /\ from = "held" => DriveReady(n, k)
  <2>1. CASE DriveStart(n, k)
    <3>1. DriveReady(n, k) /\ DriveGoto(n, k, "held", IF k \in sentinel THEN "ok" ELSE "run")
      BY <2>1 DEF DriveStart
    <3>2. CASE k \in sentinel
      BY <3>1, <3>2 DEF States
    <3>3. CASE k \notin sentinel
      BY <3>1, <3>3 DEF States
    <3> QED
      BY <3>2, <3>3
  <2>2. ASSUME NEW from, NEW to, NEW other, NEW p, DriveGoto(n, k, from, IF p THEN to ELSE other)
        PROVE  DriveGoto(n, k, from, to) \/ DriveGoto(n, k, from, other)
    BY <2>2
  <2>3. CASE DrivePoll(n, k)
    <3>1. \/ DriveGoto(n, k, "run", "look") \/ DriveGoto(n, k, "run", "busy")
          \/ DriveGoto(n, k, "look", "guard") \/ DriveGoto(n, k, "look", "busy")
          \/ DriveGoto(n, k, "busy", "run") \/ DriveGoto(n, k, "busy", "guard")
      BY <2>2, <2>3, Zenon DEF DrivePoll
    <3> QED
      BY <3>1 DEF States, DrivePlaces
  <2>4. CASE DriveGuard(n, k)
    <3>1. \/ DriveGoto(n, k, "guard", "again") \/ DriveGoto(n, k, "guard", "bad")
          \/ DriveGoto(n, k, "again", "check") \/ DriveGoto(n, k, "again", "bad")
          \/ DriveGoto(n, k, "check", "merge") \/ DriveGoto(n, k, "check", "bad")
      BY <2>2, <2>4, Zenon DEF DriveGuard
    <3> QED
      BY <3>1 DEF States, DrivePlaces
  <2> QED
    BY <2>1, <2>3, <2>4 DEF DriveGoes
<1>2. PICK from, to \in States \cup DrivePlaces :
         /\ DriveGoto(n, k, from, to) /\ from # "ok" /\ to # "held"
         /\ to = "ok" => k \in sentinel
         /\ from = "held" => DriveReady(n, k)
  BY <1>1
<1>3. /\ driveJob' = [driveJob EXCEPT ![n][k] = to]
      /\ misled' = IF to = "busy" THEN misled \ {<<n, k>>} ELSE misled
      /\ driveJob[n][k] = from
      /\ UNCHANGED <<plan, submitted, seedJob, taskJob, online, left, todo, held, done, failed,
                     sentinel, artifact, budget, late, stray>>
  BY <1>2, Zenon DEF DriveGoto, DriveTo, queue
<1>4. DriveMoves(n, k, to)
  BY <1>2, <1>3 DEF DriveMoves
<1> QED
  BY <1>2, <1>3, <1>4

\* A shard that goes back.
Returns(n, k, t) == TaskRetry(n, k, t) \/ TaskReap(n, k, t)
LEMMA ReturnsOnly ==
    ASSUME TypeOK, NEW n \in Chain, NEW k \in Sub, NEW t \in Tasks, Returns(n, k, t)
    PROVE  /\ \E s \in Shards : Return(n, k, t, s)
           /\ taskJob' = [taskJob EXCEPT ![n][k][t] = "run"] /\ taskJob[n][k][t] \in {"run", "look"}
           /\ budget' \in Money
           /\ UNCHANGED <<plan, submitted, seedJob, driveJob, online, left, done, failed,
                          sentinel, artifact, late>>
<1>1. budget \in Money
  BY DEF TypeOK, Money
<1>2. CASE TaskRetry(n, k, t)
  <2>1. budget' \in Money
    BY <1>1, <1>2, BudgetSpent DEF TaskRetry
  <2>2. taskJob' = taskJob /\ taskJob[n][k][t] = "run"
    BY <1>2 DEF TaskRetry, jobs
  <2>3. taskJob = [taskJob EXCEPT ![n][k][t] = "run"]
    BY <2>2 DEF TypeOK
  <2> QED
    BY <1>2, <2>1, <2>2, <2>3 DEF TaskRetry, jobs, Mine
<1>3. CASE TaskReap(n, k, t)
  BY <1>1, <1>3 DEF TaskReap, Running
<1> QED
  BY <1>2, <1>3 DEF Returns

\* Every job keeps to its states, and shards stay shards.
LEMMA DagTypeInductive == TypeOK /\ [Next]_vars => TypeOK'
<1> SUFFICES ASSUME TypeOK, [Next]_vars PROVE TypeOK'
  OBVIOUS
<1> USE DagAssumption DEF queue, jobs, history
<1>0. budget \in Money
  BY DEF TypeOK, Money
<1>1. CASE UNCHANGED vars
  BY <1>1 DEF vars, TypeOK
<1>2. CASE Next
  <2>1. Submit => TypeOK'
    BY DEF Submit, TypeOK, Plan
  <2>2. ASSUME NEW n \in Chain, OnlineStart(n) PROVE TypeOK'
    BY <2>2 DEF OnlineStart, TypeOK
  <2>3. ASSUME NEW n \in Chain, NEW k \in Sub, SeedStart(n, k) PROVE TypeOK'
    BY <2>3 DEF SeedStart, TypeOK, States, Plan
  <2>4. ASSUME NEW n \in Chain, NEW k \in Sub, SeedWrite(n, k) PROVE TypeOK'
    BY <2>4 DEF SeedWrite, TypeOK
  <2>5. ASSUME NEW n \in Chain, NEW k \in Sub, SeedEnd(n, k) PROVE TypeOK'
    BY <2>5 DEF SeedEnd, TypeOK, States
  <2>6. ASSUME NEW n \in Chain, NEW k \in Sub, SeedRaise(n, k) PROVE TypeOK'
    <3>1. budget' \in Money
      BY <1>0, <2>6, BudgetSpent DEF SeedRaise
    <3>2. left' = [left EXCEPT ![n][k] = {}] /\ late' \subseteq late \cup {<<n, k>>}
      BY <2>6 DEF SeedRaise
    <3>3. \E st \in States : seedJob' = [seedJob EXCEPT ![n][k] = st]
      BY <2>6 DEF SeedRaise, States
    <3>4. late' \subseteq Chain \X Sub
      BY <3>2 DEF TypeOK
    <3> QED
      BY <2>6, <3>1, <3>2, <3>3, <3>4 DEF SeedRaise, TypeOK, Money
  <2>7. ASSUME NEW n \in Chain, NEW k \in Sub, DriveMerge(n, k) PROVE TypeOK'
    BY <2>7 DEF DriveMerge, DriveTo, TypeOK, States
  <2>8. ASSUME NEW n \in Chain, NEW k \in Sub, DriveGoes(n, k) PROVE TypeOK'
    <3>1. PICK place \in States \cup DrivePlaces : DriveMoves(n, k, place)
      BY <2>8, DriveGoesOnly
    <3>2. UNCHANGED <<plan, submitted, seedJob, taskJob, online, left, todo, held, done, failed,
                      sentinel, artifact, budget, late, stray>>
      BY <2>8, DriveGoesOnly
    <3>3. misled' \subseteq misled /\ driveJob' = [driveJob EXCEPT ![n][k] = place]
      BY <3>1 DEF DriveMoves
    <3> QED
      BY <3>2, <3>3 DEF TypeOK
  <2>9. ASSUME NEW n \in Chain, NEW k \in Sub, NEW t \in Tasks, TaskSays(n, k, t) PROVE TypeOK'
    <3>1. PICK st \in States \cup {"look"} : taskJob' = [taskJob EXCEPT ![n][k][t] = st]
      BY <2>9, TaskSaysOnly
    <3>2. /\ stray' \subseteq stray /\ budget' \in Money
          /\ UNCHANGED <<plan, submitted, seedJob, driveJob, online, left, todo, held, done, failed,
                         sentinel, artifact, late, misled>>
      BY <2>9, TaskSaysOnly
    <3> QED
      BY <3>1, <3>2 DEF TypeOK, Money
  <2>10. ASSUME NEW n \in Chain, NEW k \in Sub, NEW t \in Tasks, TaskClaim(n, k, t) PROVE TypeOK'
    BY <2>10 DEF TaskClaim, Job, Jobs, TypeOK
  <2>11. ASSUME NEW n \in Chain, NEW k \in Sub, NEW t \in Tasks, TaskDone(n, k, t) PROVE TypeOK'
    <3>1. PICK s \in Shards :
            /\ held' = [held EXCEPT ![k][s] = NoJob]
            /\ \/ done' = [done EXCEPT ![k] = @ \cup {s}] /\ UNCHANGED <<failed, budget>>
               \/ /\ budget' = [budget EXCEPT !.poison = @ - 1]
                  /\ failed' = [failed EXCEPT ![k] = @ \cup {s}] /\ UNCHANGED done
      BY <2>11 DEF TaskDone, Mine
    <3>2. budget' \in Money
      BY <1>0, <3>1, BudgetSpent
    <3>3. done' \in [Sub -> SUBSET Shards] /\ failed' \in [Sub -> SUBSET Shards]
      <4>1. done \in [Sub -> SUBSET Shards] /\ failed \in [Sub -> SUBSET Shards]
        BY DEF TypeOK
      <4>2. CASE done' = [done EXCEPT ![k] = @ \cup {s}] /\ failed' = failed
        BY <4>1, <4>2
      <4>3. CASE failed' = [failed EXCEPT ![k] = @ \cup {s}] /\ done' = done
        BY <4>1, <4>3
      <4> QED
        BY <3>1, <4>2, <4>3
    <3>4. held' \in [Sub -> [Shards -> Jobs \cup {NoJob}]]
      BY <3>1 DEF TypeOK
    <3> QED
      BY <2>11, <3>2, <3>3, <3>4 DEF TaskDone, TypeOK, Money
  <2>12. ASSUME NEW n \in Chain, NEW k \in Sub, NEW t \in Tasks, Returns(n, k, t) PROVE TypeOK'
    <3>1. PICK s \in Shards : Return(n, k, t, s)
      BY <2>12, ReturnsOnly
    <3>2. /\ taskJob' = [taskJob EXCEPT ![n][k][t] = "run"] /\ budget' \in Money
          /\ UNCHANGED <<plan, submitted, seedJob, driveJob, online, left, done, failed,
                         sentinel, artifact, late>>
      BY <2>12, ReturnsOnly
    <3>3. misled' \subseteq Chain \X Sub /\ stray' \subseteq Jobs
      BY <3>1 DEF Return, TypeOK, Jobs
    <3> QED
      BY <3>1, <3>2, <3>3 DEF Return, TypeOK, Money, States
  <2> HIDE DEF TypeOK
  <2> QED
    BY <1>2, <2>1, <2>2, <2>3, <2>4, <2>5, <2>6, <2>7, <2>8, <2>9, <2>10, <2>11, <2>12, StepCases
       DEF DriveGoes, TaskSays, Returns
<1> QED
  BY <1>1, <1>2

\* Every variable of the chain stays in its range, for every number of substages,
\* tasks, shards and submissions.
THEOREM DagTypeCorrect == Spec => []TypeOK
<1> QED
  BY DagTypeInitial, DagTypeInductive, PTL DEF Spec

-----------------------------------------------------------------------------

\* What is never taken back.
Lasting ==
    /\ plan' = plan /\ sentinel \subseteq sentinel' /\ late \subseteq late' /\ submitted' \in {submitted, submitted + 1}
    /\ \A k \in Sub : done[k] \subseteq done'[k] /\ failed[k] \subseteq failed'[k]
LEMMA StepLasts == TypeOK /\ Next => Lasting
<1> SUFFICES ASSUME TypeOK, Next PROVE Lasting
  OBVIOUS
<1> USE DEF queue, jobs, history
<1>0. ASSUME plan' = plan, sentinel \subseteq sentinel', late \subseteq late', submitted' = submitted,
             done' = done, failed' = failed
      PROVE  Lasting
  BY <1>0 DEF Lasting
<1>1. Submit => Lasting
  BY DEF Submit, Lasting
<1>2. ASSUME NEW n \in Chain, OnlineStart(n) PROVE Lasting
  BY <1>0, <1>2 DEF OnlineStart
<1>3. ASSUME NEW n \in Chain, NEW k \in Sub, SeedStart(n, k) \/ SeedWrite(n, k) \/ SeedEnd(n, k) \/ SeedRaise(n, k)
      PROVE  Lasting
  BY <1>0, <1>3 DEF SeedStart, SeedWrite, SeedEnd, SeedRaise
<1>4. ASSUME NEW n \in Chain, NEW k \in Sub, DriveMerge(n, k) PROVE Lasting
  BY <1>0, <1>4 DEF DriveMerge, DriveTo
<1>5. ASSUME NEW n \in Chain, NEW k \in Sub, DriveGoes(n, k) PROVE Lasting
  BY <1>0, <1>5, DriveGoesOnly
<1>6. ASSUME NEW n \in Chain, NEW k \in Sub, NEW t \in Tasks, TaskSays(n, k, t) PROVE Lasting
  BY <1>0, <1>6, TaskSaysOnly
<1>7. ASSUME NEW n \in Chain, NEW k \in Sub, NEW t \in Tasks, TaskClaim(n, k, t) PROVE Lasting
  BY <1>0, <1>7 DEF TaskClaim
<1>8. ASSUME NEW n \in Chain, NEW k \in Sub, NEW t \in Tasks, TaskDone(n, k, t) PROVE Lasting
  <2>1. PICK s \in Shards :
          \/ done' = [done EXCEPT ![k] = @ \cup {s}] /\ failed' = failed
          \/ failed' = [failed EXCEPT ![k] = @ \cup {s}] /\ done' = done
    BY <1>8 DEF TaskDone, Mine
  <2>2. done \in [Sub -> SUBSET Shards] /\ failed \in [Sub -> SUBSET Shards]
    BY DEF TypeOK
  <2>3. \A j \in Sub : done[j] \subseteq done'[j] /\ failed[j] \subseteq failed'[j]
    BY <2>1, <2>2
  <2> QED
    BY <1>8, <2>3 DEF TaskDone, Lasting
<1>9. ASSUME NEW n \in Chain, NEW k \in Sub, NEW t \in Tasks, Returns(n, k, t) PROVE Lasting
  BY <1>0, <1>9, ReturnsOnly
<1> HIDE DEF Lasting
<1> QED
  BY <1>1, <1>2, <1>3, <1>4, <1>5, <1>6, <1>7, <1>8, <1>9, StepCases DEF DriveGoes, TaskSays, Returns

\* What a drive has just seen when it goes on.
LEMMA DriveKnows ==
    ASSUME TypeOK, NEW n \in Chain, NEW k \in Sub, DriveGoes(n, k)
    PROVE  /\ driveJob'[n][k] = "look" => driveJob[n][k] = "run" /\ todo[k] = {}
           /\ driveJob'[n][k] = "guard" => (driveJob[n][k] = "look" /\ Running(k) = {}) \/ failed[k] # {}
           /\ driveJob'[n][k] = "again" => driveJob[n][k] = "guard" /\ failed[k] = {}
           /\ driveJob'[n][k] \in {"check", "merge"} => driveJob[n][k] \in {"again", "check"}
           /\ driveJob'[n][k] # "busy" => misled' = misled
<1> DEFINE Known == /\ driveJob'[n][k] = "look" => driveJob[n][k] = "run" /\ todo[k] = {}
                    /\ driveJob'[n][k] = "guard" => (driveJob[n][k] = "look" /\ Running(k) = {}) \/ failed[k] # {}
                    /\ driveJob'[n][k] = "again" => driveJob[n][k] = "guard" /\ failed[k] = {}
                    /\ driveJob'[n][k] \in {"check", "merge"} => driveJob[n][k] \in {"again", "check"}
                    /\ driveJob'[n][k] # "busy" => misled' = misled
<1>1. ASSUME NEW from, NEW to, DriveGoto(n, k, from, to)
      PROVE  driveJob[n][k] = from /\ driveJob'[n][k] = to /\ (to # "busy" => misled' = misled)
  BY <1>1 DEF DriveGoto, DriveTo, TypeOK
<1>2. ASSUME NEW p \in BOOLEAN, NEW to, NEW other, NEW from, DriveGoto(n, k, from, IF p THEN to ELSE other)
      PROVE  (p /\ DriveGoto(n, k, from, to)) \/ (~p /\ DriveGoto(n, k, from, other))
  <2>1. CASE p
    <3>1. (IF p THEN to ELSE other) = to
      BY <2>1
    <3> QED
      BY <1>2, <2>1, <3>1, Zenon
  <2>2. CASE ~p
    <3>1. (IF p THEN to ELSE other) = other
      BY <2>2
    <3> QED
      BY <1>2, <2>2, <3>1, Zenon
  <2> QED
    BY <2>1, <2>2
<1>3. CASE DriveStart(n, k)
  <2>1. \E to \in {"ok", "run"} : DriveGoto(n, k, "held", to)
    BY <1>2, <1>3 DEF DriveStart
  <2> QED
    BY <1>1, <2>1
<1>4. CASE DrivePoll(n, k)
  <2>1. CASE DriveGoto(n, k, "run", IF todo[k] = {} THEN "look" ELSE "busy")
    <3>1. (todo[k] = {} /\ DriveGoto(n, k, "run", "look")) \/ DriveGoto(n, k, "run", "busy")
      BY <1>2, <2>1
    <3> QED
      BY <1>1, <3>1
  <2>2. CASE DriveGoto(n, k, "look", IF Running(k) = {} THEN "guard" ELSE "busy")
    <3>1. (Running(k) = {} /\ DriveGoto(n, k, "look", "guard")) \/ DriveGoto(n, k, "look", "busy")
      BY <1>2, <2>2
    <3> QED
      BY <1>1, <3>1
  <2>3. CASE DriveGoto(n, k, "busy", IF failed[k] = {} THEN "run" ELSE "guard")
    <3>1. DriveGoto(n, k, "busy", "run") \/ (failed[k] # {} /\ DriveGoto(n, k, "busy", "guard"))
      BY <1>2, <2>3
    <3> QED
      BY <1>1, <3>1
  <2> QED
    BY <1>4, <2>1, <2>2, <2>3 DEF DrivePoll
<1>5. CASE DriveGuard(n, k)
  <2>1. CASE DriveGoto(n, k, "guard", IF failed[k] = {} THEN "again" ELSE "bad")
    <3>1. (failed[k] = {} /\ DriveGoto(n, k, "guard", "again")) \/ DriveGoto(n, k, "guard", "bad")
      BY <1>2, <2>1
    <3> QED
      BY <1>1, <3>1
  <2>2. CASE DriveGoto(n, k, "again", IF todo[k] = {} THEN "check" ELSE "bad")
    <3>1. DriveGoto(n, k, "again", "check") \/ DriveGoto(n, k, "again", "bad")
      BY <1>2, <2>2
    <3> QED
      BY <1>1, <3>1
  <2>3. CASE DriveGoto(n, k, "check", IF Running(k) = {} THEN "merge" ELSE "bad")
    <3>1. DriveGoto(n, k, "check", "merge") \/ DriveGoto(n, k, "check", "bad")
      BY <1>2, <2>3
    <3> QED
      BY <1>1, <3>1
  <2> QED
    BY <1>5, <2>1, <2>2, <2>3 DEF DriveGuard
<1> QED
  BY <1>3, <1>4, <1>5 DEF DriveGoes

\* Of a substage not finished, what a seed job has written is in the queue, but for
\* one that was taken to have succeeded.
Out(k) == Running(k) \cup done[k] \cup failed[k]
Placed(k) == todo[k] \cup Out(k)
FedBy(n, k) ==
    /\ seedJob[n][k] \in {"run", "ok"} /\ k \notin sentinel /\ <<n, k>> \notin late
          => plan.shards \ left[n][k] \subseteq Placed(k)
    /\ seedJob[n][k] = "ok" => left[n][k] = {}
Fed == \A n \in Chain, k \in Sub : FedBy(n, k)

\* What a job that has started knows of the jobs and the substages before it.
Ordered ==
    \A n \in Chain, k \in Sub :
        /\ seedJob[n][k] \in {"run", "ok"} => \A j \in Sub : j < k => j \in sentinel
        /\ \A t \in Tasks : taskJob[n][k][t] # "held" => n <= submitted /\ t \in plan.tasks /\ seedJob[n][k] = "ok"
        /\ driveJob[n][k] # "held" =>
              n <= submitted /\ seedJob[n][k] = "ok" /\ \A t \in plan.tasks : Over(taskJob[n][k][t])
        /\ driveJob[n][k] = "ok" => k \in sentinel
        /\ online[n] = "run" => driveJob[n][plan.stages] = "ok"

\* What the listings of a drive have shown, unless its substage is finished.
Seen(n, k) ==
    /\ driveJob[n][k] = "look" => plan.shards \subseteq Out(k)
    /\ driveJob[n][k] = "guard" => plan.shards \subseteq done[k] \/ failed[k] # {}
    /\ driveJob[n][k] \in {"again", "check", "merge"} => plan.shards \subseteq done[k]
Settled ==
    \A n \in Chain, k \in Sub :
        k \notin sentinel /\ <<n, k>> \notin late /\ <<n, k>> \notin misled => Seen(n, k)

\* A sentinel stands for a whole artifact, or for a late seed or a misled drive.
Excused(k) ==
    \E n \in Chain :
        <<n, k>> \in late \/ (submitted > 1 /\ <<n, k>> \in misled /\ driveJob[n][k] = "ok")
Merged ==
    \A k \in Sub :
        /\ k \notin sentinel => artifact[k] = "none"
        /\ k \in sentinel => artifact[k] = "whole" \/ Excused(k)

\* A submission on its own misleads none of its drives.
Alone == submitted > 1 \/ misled = {}

DagInv == TypeOK /\ Fed /\ Ordered /\ Settled /\ Merged /\ Alone

\* No job has started, so none has seen anything.
LEMMA DagInvInitial == Init => DagInv
<1> SUFFICES ASSUME Init PROVE DagInv
  OBVIOUS
<1>1. TypeOK
  BY DagTypeInitial
<1>2. plan.stages \in Sub
  BY <1>1 DEF TypeOK, Plan
<1>3. Fed /\ Ordered /\ Merged /\ Alone
  BY <1>2, DagAssumption DEF Init, Fed, FedBy, Ordered, Merged, Alone
<1>4. Settled
  BY DEF Init, Settled, Seen
<1> QED
  BY <1>1, <1>3, <1>4 DEF DagInv

\* No step takes a shard out of the queue, and it leaves running/ for pending/ past
\* no drive that is about to list running/ and is not misled by it.
LEMMA PlacedKept ==
    ASSUME TypeOK, Next, NEW k \in Sub, NEW x \in Shards
    PROVE  /\ x \in Placed(k) => x \in Placed(k)'
           /\ \A m \in Chain : x \in Out(k) /\ driveJob[m][k] = "look" /\ <<m, k>> \notin misled' => x \in Out(k)'
<1> DEFINE Goal == /\ x \in Placed(k) => x \in Placed(k)'
                   /\ \A m \in Chain : x \in Out(k) /\ driveJob[m][k] = "look" /\ <<m, k>> \notin misled' => x \in Out(k)'
<1> USE DEF queue, jobs, history
<1>0. ASSUME todo' = todo, held' = held, done' = done, failed' = failed PROVE Goal
  BY <1>0 DEF Placed, Out, Running
<1>1. Submit => Goal
  BY <1>0 DEF Submit
<1>2. ASSUME NEW n \in Chain, OnlineStart(n) PROVE Goal
  BY <1>0, <1>2 DEF OnlineStart
<1>3. ASSUME NEW n \in Chain, NEW m \in Sub, SeedStart(n, m) \/ SeedEnd(n, m) \/ SeedRaise(n, m) PROVE Goal
  BY <1>0, <1>3 DEF SeedStart, SeedEnd, SeedRaise
<1>4. ASSUME NEW n \in Chain, NEW m \in Sub, SeedWrite(n, m) PROVE Goal
  BY <1>4 DEF SeedWrite, Placed, Out, Running, TypeOK
<1>5. ASSUME NEW n \in Chain, NEW m \in Sub, DriveMerge(n, m) PROVE Goal
  BY <1>0, <1>5 DEF DriveMerge, DriveTo
<1>6. ASSUME NEW n \in Chain, NEW m \in Sub, DriveGoes(n, m) PROVE Goal
  BY <1>0, <1>6, DriveGoesOnly
<1>7. ASSUME NEW n \in Chain, NEW m \in Sub, NEW t \in Tasks, TaskSays(n, m, t) PROVE Goal
  BY <1>0, <1>7, TaskSaysOnly
<1>8. ASSUME NEW n \in Chain, NEW m \in Sub, NEW t \in Tasks, TaskClaim(n, m, t) PROVE Goal
  BY <1>8 DEF TaskClaim, Job, NoJob, Placed, Out, Running, TypeOK
<1>9. ASSUME NEW n \in Chain, NEW m \in Sub, NEW t \in Tasks, TaskDone(n, m, t) PROVE Goal
  BY <1>9 DEF TaskDone, Mine, Placed, Out, Running, TypeOK
<1>10. ASSUME NEW n \in Chain, NEW m \in Sub, NEW t \in Tasks, Returns(n, m, t) PROVE Goal
  <2>1. PICK s \in Shards : Return(n, m, t, s)
    BY <1>10, ReturnsOnly
  <2>2. done' = done /\ failed' = failed
    BY <1>10, ReturnsOnly
  <2>3. /\ held' = [held EXCEPT ![m][s] = NoJob]
        /\ todo' = [todo EXCEPT ![m] = @ \cup {s}]
        /\ \A c \in Chain : driveJob[c][m] = "look" => <<c, m>> \in misled'
    BY <2>1 DEF Return
  <2> QED
    BY <2>2, <2>3 DEF Placed, Out, Running, TypeOK
<1> HIDE DEF Goal
<1>11. Goal
  BY <1>1, <1>2, <1>3, <1>4, <1>5, <1>6, <1>7, <1>8, <1>9, <1>10, StepCases DEF DriveGoes, TaskSays, Returns
<1> QED
  BY <1>11 DEF Goal

\* A seed job writes all it has to before it succeeds, or is late; nothing else
\* disturbs Fed.
LEMMA FedInductive ==
    ASSUME DagInv, Next
    PROVE  Fed'
<1>1. TypeOK /\ Fed /\ Lasting
  BY StepLasts DEF DagInv
<1>2. ASSUME NEW k \in Sub PROVE Shards \cap Placed(k) \subseteq Placed(k)'
  BY <1>1, PlacedKept
<1>3. plan' = plan /\ plan.shards \subseteq Shards /\ sentinel \subseteq sentinel' /\ late \subseteq late'
  BY <1>1 DEF TypeOK, Plan, Lasting
<1>0. ASSUME NEW m \in Chain, NEW j \in Sub, seedJob'[m][j] = seedJob[m][j], left'[m][j] = left[m][j]
      PROVE  FedBy(m, j)'
  <2>1. FedBy(m, j)
    BY <1>1 DEF Fed
  <2> QED
    BY <1>2, <1>3, <1>0, <2>1 DEF FedBy
<1>4. ASSUME UNCHANGED <<seedJob, left>> PROVE Fed'
  BY <1>0, <1>4 DEF Fed
<1> USE DEF queue, jobs
<1>5. ASSUME NEW n \in Chain, NEW k \in Sub, SeedStart(n, k) PROVE Fed'
  <2>1. ASSUME NEW m \in Chain, NEW j \in Sub, m # n \/ j # k
        PROVE  seedJob'[m][j] = seedJob[m][j] /\ left'[m][j] = left[m][j]
    BY <1>1, <1>5, <2>1 DEF SeedStart, TypeOK
  <2>2. k \in sentinel \/ left'[n][k] = plan.shards
    BY <1>1, <1>5 DEF SeedStart, TypeOK
  <2>3. seedJob'[n][k] # "ok"
    BY <1>1, <1>5 DEF SeedStart, TypeOK
  <2>4. FedBy(n, k)'
    BY <1>3, <2>2, <2>3 DEF FedBy
  <2> QED
    BY <1>0, <2>1, <2>4 DEF Fed
<1>6. ASSUME NEW n \in Chain, NEW k \in Sub, SeedWrite(n, k) PROVE Fed'
  <2>1. PICK s \in left[n][k] :
           /\ left' = [left EXCEPT ![n][k] = @ \ {s}]
           /\ todo' = [todo EXCEPT ![k] = @ \cup {s}]
    BY <1>6 DEF SeedWrite
  <2>2. s \in Placed(k)'
    BY <1>1, <2>1 DEF TypeOK, Placed
  <2>3. seedJob' = seedJob /\ seedJob[n][k] = "run"
    BY <1>6 DEF SeedWrite
  <2>4. ASSUME NEW m \in Chain, NEW j \in Sub
        PROVE  IF m = n /\ j = k THEN left'[m][j] = left[m][j] \ {s} ELSE left'[m][j] = left[m][j]
    BY <1>1, <2>1 DEF TypeOK
  <2>5. FedBy(n, k)
    BY <1>1 DEF Fed
  <2>6. FedBy(n, k)'
    BY <1>2, <1>3, <2>2, <2>3, <2>4, <2>5 DEF FedBy
  <2>7. ASSUME NEW m \in Chain, NEW j \in Sub, m # n \/ j # k PROVE FedBy(m, j)'
    BY <1>0, <2>3, <2>4, <2>7
  <2> QED
    BY <2>6, <2>7 DEF Fed
<1>7. ASSUME NEW n \in Chain, NEW k \in Sub, SeedEnd(n, k) PROVE Fed'
  <2>1. FedBy(n, k) /\ seedJob[n][k] = "run" /\ left[n][k] = {} /\ left' = left
    BY <1>1, <1>7 DEF SeedEnd, Fed
  <2>2. FedBy(n, k)'
    BY <1>2, <1>3, <2>1 DEF FedBy
  <2>3. ASSUME NEW m \in Chain, NEW j \in Sub, m # n \/ j # k PROVE FedBy(m, j)'
    BY <1>1, <1>7, <1>0, <2>1, <2>3 DEF SeedEnd, TypeOK
  <2> QED
    BY <2>2, <2>3 DEF Fed
<1>8. ASSUME NEW n \in Chain, NEW k \in Sub, SeedRaise(n, k) PROVE Fed'
  <2>1. ASSUME NEW m \in Chain, NEW j \in Sub, m # n \/ j # k
        PROVE  seedJob'[m][j] = seedJob[m][j] /\ left'[m][j] = left[m][j]
    BY <1>1, <1>8, <2>1 DEF SeedRaise, TypeOK
  <2>2. left'[n][k] = {}
    BY <1>1, <1>8 DEF SeedRaise, TypeOK
  <2>3. seedJob'[n][k] = "bad" \/ <<n, k>> \in late'
    BY <1>1, <1>8 DEF SeedRaise, TypeOK
  <2>4. FedBy(n, k)'
    BY <2>2, <2>3 DEF FedBy
  <2> QED
    BY <1>0, <2>1, <2>4 DEF Fed
<1>9. ASSUME NEW n \in Chain, NEW k \in Sub, NEW t \in Tasks, TaskSays(n, k, t) PROVE Fed'
  BY <1>1, <1>4, <1>9, TaskSaysOnly
<1>10. ASSUME NEW n \in Chain, NEW k \in Sub, DriveGoes(n, k) PROVE Fed'
  BY <1>4, <1>10, DriveGoesOnly
<1>11. ASSUME NEW n \in Chain, NEW k \in Sub, NEW t \in Tasks, Returns(n, k, t) PROVE Fed'
  BY <1>1, <1>4, <1>11, ReturnsOnly
<1>12. ASSUME NEW n \in Chain, NEW k \in Sub, NEW t \in Tasks, TaskClaim(n, k, t) \/ TaskDone(n, k, t) PROVE Fed'
  BY <1>4, <1>12 DEF TaskClaim, TaskDone
<1>13. ASSUME NEW n \in Chain, NEW k \in Sub, DriveMerge(n, k) PROVE Fed'
  BY <1>4, <1>13 DEF DriveMerge, DriveTo
<1>14. (Submit => Fed') /\ \A n \in Chain : OnlineStart(n) => Fed'
  BY <1>4 DEF Submit, OnlineStart
<1> HIDE DEF Fed
<1> QED
  BY <1>5, <1>6, <1>7, <1>8, <1>9, <1>10, <1>11, <1>12, <1>13, <1>14, StepCases DEF DriveGoes, TaskSays, Returns

\* A seed starts behind the drive before it, a task behind its seed, a drive
\* behind its tasks, of which there is at least one.
LEMMA OrderedInductive ==
    ASSUME DagInv, Next
    PROVE  Ordered'
<1>1. TypeOK /\ Ordered /\ Lasting
  BY StepLasts DEF DagInv
<1>2. /\ plan' = plan /\ sentinel \subseteq sentinel' /\ plan.stages \in Sub /\ plan.tasks # {} /\ plan.tasks \subseteq Tasks
      /\ \A n \in Chain : n <= submitted => n <= submitted'
  <2>1. /\ plan' = plan /\ sentinel \subseteq sentinel'
        /\ plan.stages \in Sub /\ plan.tasks # {} /\ plan.tasks \subseteq Tasks
    BY <1>1 DEF TypeOK, Plan, Lasting
  <2>2. submitted \in Nat /\ submitted' \in {submitted, submitted + 1}
    BY <1>1, DagAssumption DEF TypeOK, Lasting
  <2>3. \A n \in Chain : n <= submitted => n <= submitted'
    BY <2>2, DagAssumption DEF Chain
  <2> QED
    BY <2>1, <2>3
<1>3. ASSUME UNCHANGED <<seedJob, taskJob, driveJob, online>> PROVE Ordered'
  BY <1>1, <1>2, <1>3 DEF Ordered
<1> USE DEF queue, jobs
<1>4. Submit => Ordered'
  BY <1>3 DEF Submit
<1>5. ASSUME NEW n \in Chain, OnlineStart(n) PROVE Ordered'
  BY <1>1, <1>2, <1>5 DEF OnlineStart, Ordered, TypeOK
<1>6. ASSUME NEW n \in Chain, NEW k \in Sub, SeedStart(n, k) PROVE Ordered'
  <2>1. \A j \in Sub : j < k => j \in sentinel
    <3>1. CASE k > 1
      <4>1. k - 1 \in Sub /\ driveJob[n][k - 1] = "ok"
        BY <1>6, <3>1, DagAssumption DEF SeedStart, Seedable, Sub
      <4>2. k - 1 \in sentinel /\ seedJob[n][k - 1] = "ok"
        BY <1>1, <4>1 DEF Ordered
      <4>3. \A j \in Sub : j < k - 1 => j \in sentinel
        BY <1>1, <4>1, <4>2 DEF Ordered
      <4> QED
        BY <4>2, <4>3, DagAssumption DEF Sub
    <3> QED
      BY <3>1, DagAssumption DEF Sub
  <2>2. (\A t \in Tasks : taskJob[n][k][t] = "held") /\ driveJob[n][k] = "held"
    BY <1>1, <1>6 DEF SeedStart, Ordered
  <2>3. ASSUME NEW m \in Chain, NEW j \in Sub, m # n \/ j # k PROVE seedJob'[m][j] = seedJob[m][j]
    BY <1>1, <1>6, <2>3 DEF SeedStart, TypeOK
  <2>4. UNCHANGED <<submitted, taskJob, driveJob, online, sentinel>>
    BY <1>6 DEF SeedStart
  <2> QED
    BY <1>1, <1>2, <2>1, <2>2, <2>3, <2>4 DEF Ordered
<1>7. ASSUME NEW n \in Chain, NEW k \in Sub, SeedWrite(n, k) PROVE Ordered'
  BY <1>3, <1>7 DEF SeedWrite
<1>8. ASSUME NEW n \in Chain, NEW k \in Sub, SeedEnd(n, k) \/ SeedRaise(n, k) PROVE Ordered'
  <2>1. seedJob[n][k] = "run" /\ seedJob'[n][k] \in {"ok", "bad"}
    BY <1>1, <1>8 DEF SeedEnd, SeedRaise, TypeOK
  <2>2. (\A t \in Tasks : taskJob[n][k][t] = "held") /\ driveJob[n][k] = "held"
    BY <1>1, <2>1 DEF Ordered
  <2>3. ASSUME NEW m \in Chain, NEW j \in Sub, m # n \/ j # k PROVE seedJob'[m][j] = seedJob[m][j]
    BY <1>1, <1>8, <2>3 DEF SeedEnd, SeedRaise, TypeOK
  <2>4. UNCHANGED <<submitted, taskJob, driveJob, online, sentinel>>
    BY <1>8 DEF SeedEnd, SeedRaise
  <2> QED
    BY <1>1, <1>2, <2>1, <2>2, <2>3, <2>4 DEF Ordered
<1>9. ASSUME NEW n \in Chain, NEW k \in Sub, NEW t \in Tasks, TaskSays(n, k, t) PROVE Ordered'
  <2>1. PICK st \in States \cup {"look"} : taskJob' = [taskJob EXCEPT ![n][k][t] = st] /\ st # "held"
    BY <1>1, <1>9, TaskSaysOnly
  <2>2. /\ taskJob[n][k][t] = "held" => n <= submitted /\ t \in plan.tasks /\ seedJob[n][k] = "ok"
        /\ ~Over(taskJob[n][k][t])
        /\ UNCHANGED <<submitted, seedJob, driveJob, online, sentinel>>
    BY <1>1, <1>9, TaskSaysOnly
  <2>3. n <= submitted /\ t \in plan.tasks /\ seedJob[n][k] = "ok"
    BY <1>1, <2>2 DEF Ordered
  <2>4. driveJob[n][k] = "held"
    BY <1>1, <2>2, <2>3 DEF Ordered
  <2>5. ASSUME NEW m \in Chain, NEW j \in Sub, NEW u \in Tasks, m # n \/ j # k \/ u # t
        PROVE  taskJob'[m][j][u] = taskJob[m][j][u]
    BY <1>1, <2>1, <2>5 DEF TypeOK
  <2> QED
    BY <1>1, <1>2, <2>2, <2>3, <2>4, <2>5 DEF Ordered
<1>10. ASSUME NEW n \in Chain, NEW k \in Sub, DriveGoes(n, k) PROVE Ordered'
  <2>1. PICK place \in States \cup DrivePlaces : DriveMoves(n, k, place)
    BY <1>10, DriveGoesOnly
  <2>2. /\ driveJob[n][k] # "ok" /\ (driveJob[n][k] = "held" => DriveReady(n, k))
        /\ UNCHANGED <<submitted, seedJob, taskJob, online, sentinel>>
    BY <1>10, DriveGoesOnly
  <2>3. n <= submitted /\ \A t \in plan.tasks : Over(taskJob[n][k][t])
    BY <1>1, <2>2 DEF DriveReady, Ordered
  <2>4. PICK t \in plan.tasks : Over(taskJob[n][k][t])
    BY <1>2, <2>3
  <2>5. seedJob[n][k] = "ok"
    BY <1>1, <1>2, <2>4 DEF Over, Ordered
  <2>6. ASSUME NEW m \in Chain, NEW j \in Sub, m # n \/ j # k PROVE driveJob'[m][j] = driveJob[m][j]
    BY <1>1, <2>1, <2>6 DEF DriveMoves, TypeOK
  <2>7. driveJob'[n][k] = "ok" => k \in sentinel
    BY <1>1, <2>1 DEF DriveMoves, TypeOK
  <2> QED
    BY <1>1, <1>2, <2>2, <2>3, <2>5, <2>6, <2>7 DEF Ordered
<1>11. ASSUME NEW n \in Chain, NEW k \in Sub, DriveMerge(n, k) PROVE Ordered'
  <2>1. driveJob[n][k] = "merge" /\ driveJob' = [driveJob EXCEPT ![n][k] = "ok"] /\ sentinel' = sentinel \cup {k}
    BY <1>11 DEF DriveMerge, DriveTo
  <2>2. UNCHANGED <<submitted, seedJob, taskJob, online>>
    BY <1>11 DEF DriveMerge, DriveTo
  <2>3. ASSUME NEW m \in Chain, NEW j \in Sub, m # n \/ j # k PROVE driveJob'[m][j] = driveJob[m][j]
    BY <1>1, <2>1, <2>3 DEF TypeOK
  <2> QED
    BY <1>1, <1>2, <2>1, <2>2, <2>3 DEF Ordered
<1>12. ASSUME NEW n \in Chain, NEW k \in Sub, NEW t \in Tasks, TaskClaim(n, k, t) PROVE Ordered'
  BY <1>3, <1>12 DEF TaskClaim
<1>13. ASSUME NEW n \in Chain, NEW k \in Sub, NEW t \in Tasks, TaskDone(n, k, t) PROVE Ordered'
  BY <1>3, <1>13 DEF TaskDone
<1>14. ASSUME NEW n \in Chain, NEW k \in Sub, NEW t \in Tasks, Returns(n, k, t) PROVE Ordered'
  <2>1. /\ taskJob' = [taskJob EXCEPT ![n][k][t] = "run"] /\ taskJob[n][k][t] \in {"run", "look"}
        /\ UNCHANGED <<submitted, seedJob, driveJob, online, sentinel>>
    BY <1>1, <1>14, ReturnsOnly
  <2>2. n <= submitted /\ t \in plan.tasks /\ seedJob[n][k] = "ok"
    BY <1>1, <2>1 DEF Ordered
  <2>3. driveJob[n][k] = "held"
    BY <1>1, <2>1, <2>2 DEF Ordered, Over
  <2>4. ASSUME NEW m \in Chain, NEW j \in Sub, NEW u \in Tasks, m # n \/ j # k \/ u # t
        PROVE  taskJob'[m][j][u] = taskJob[m][j][u]
    BY <1>1, <2>1, <2>4 DEF TypeOK
  <2> QED
    BY <1>1, <1>2, <2>1, <2>2, <2>3, <2>4 DEF Ordered
<1> HIDE DEF Ordered
<1> QED
  BY <1>4, <1>5, <1>6, <1>7, <1>8, <1>9, <1>10, <1>11, <1>12, <1>13, <1>14, StepCases
     DEF DriveGoes, TaskSays, Returns

\* Only a drive moves a drive, and only one that goes on is misled no longer.
LEMMA DriveStill ==
    ASSUME TypeOK, Next
    PROVE  \/ \E n \in Chain, k \in Sub : DriveGoes(n, k)
           \/ \E n \in Chain, k \in Sub : DriveMerge(n, k)
           \/ driveJob' = driveJob /\ sentinel' = sentinel /\ artifact' = artifact /\ misled \subseteq misled'
<1> DEFINE Still == driveJob' = driveJob /\ sentinel' = sentinel /\ artifact' = artifact /\ misled \subseteq misled'
           Goal  == \/ \E n \in Chain, k \in Sub : DriveGoes(n, k)
                    \/ \E n \in Chain, k \in Sub : DriveMerge(n, k)
                    \/ Still
<1> USE DEF queue, jobs, history
<1>1. (Submit => Still) /\ \A n \in Chain : OnlineStart(n) => Still
  BY DEF Submit, OnlineStart
<1>2. ASSUME NEW n \in Chain, NEW k \in Sub, SeedStart(n, k) \/ SeedWrite(n, k) \/ SeedEnd(n, k) \/ SeedRaise(n, k)
      PROVE  Still
  BY <1>2 DEF SeedStart, SeedWrite, SeedEnd, SeedRaise
<1>3. ASSUME NEW n \in Chain, NEW k \in Sub, NEW t \in Tasks, TaskSays(n, k, t) PROVE Still
  BY <1>3, TaskSaysOnly
<1>4. ASSUME NEW n \in Chain, NEW k \in Sub, NEW t \in Tasks, TaskClaim(n, k, t) \/ TaskDone(n, k, t) PROVE Still
  BY <1>4 DEF TaskClaim, TaskDone
<1>5. ASSUME NEW n \in Chain, NEW k \in Sub, NEW t \in Tasks, Returns(n, k, t) PROVE Still
  <2>1. PICK s \in Shards : Return(n, k, t, s)
    BY <1>5, ReturnsOnly
  <2>2. UNCHANGED <<driveJob, sentinel, artifact>>
    BY <1>5, ReturnsOnly
  <2> QED
    BY <2>1, <2>2 DEF Return
<1> HIDE DEF Still
<1>6. Goal
  <2> HIDE DEF Goal
  <2>1. Still => Goal
    BY DEF Goal
  <2>2. \A n \in Chain, k \in Sub : (DriveGoes(n, k) => Goal) /\ (DriveMerge(n, k) => Goal)
    BY DEF Goal
  <2> QED
    BY <1>1, <1>2, <1>3, <1>4, <1>5, <2>1, <2>2, StepCases DEF DriveGoes, TaskSays, Returns
<1> QED
  BY <1>6 DEF Still

\* What the listings of a drive have shown stays true, and each says what the next
\* place of the drive rests on.
LEMMA SettledInductive ==
    ASSUME DagInv, Next
    PROVE  Settled'
<1>1. TypeOK /\ Fed /\ Ordered /\ Settled /\ Lasting
  BY StepLasts DEF DagInv
<1>2. /\ plan' = plan /\ plan.shards \subseteq Shards /\ sentinel \subseteq sentinel' /\ late \subseteq late'
      /\ \A k \in Sub : done[k] \subseteq done'[k] /\ failed[k] \subseteq failed'[k]
  BY <1>1 DEF TypeOK, Plan, Lasting
<1> SUFFICES ASSUME NEW m \in Chain, NEW j \in Sub, j \notin sentinel', <<m, j>> \notin late', <<m, j>> \notin misled'
             PROVE  Seen(m, j)'
  BY DEF Settled
<1>3. j \notin sentinel /\ <<m, j>> \notin late
  BY <1>2
<1>4. ASSUME driveJob'[m][j] = driveJob[m][j], <<m, j>> \notin misled PROVE Seen(m, j)'
  <2>1. Seen(m, j)
    BY <1>1, <1>3, <1>4 DEF Settled
  <2>2. driveJob[m][j] = "look" => \A x \in Shards : x \in Out(j) => x \in Out(j)'
    BY <1>1, PlacedKept
  <2> QED
    BY <1>2, <1>4, <2>1, <2>2 DEF Seen
<1>5. ASSUME NEW n \in Chain, NEW k \in Sub, DriveGoes(n, k) PROVE Seen(m, j)'
  <2>1. PICK place \in States \cup DrivePlaces : DriveMoves(n, k, place)
    BY <1>5, DriveGoesOnly
  <2>2. UNCHANGED <<plan, seedJob, todo, held, done, failed>>
    BY <1>5, DriveGoesOnly
  <2>3. CASE m # n \/ j # k
    BY <1>1, <1>4, <2>1, <2>3 DEF DriveMoves, TypeOK
  <2>4. CASE m = n /\ j = k
    <3>1. /\ driveJob'[m][j] = "look" => driveJob[m][j] = "run" /\ todo[j] = {}
          /\ driveJob'[m][j] = "guard" => (driveJob[m][j] = "look" /\ Running(j) = {}) \/ failed[j] # {}
          /\ driveJob'[m][j] = "again" => driveJob[m][j] = "guard" /\ failed[j] = {}
          /\ driveJob'[m][j] \in {"check", "merge"} => driveJob[m][j] \in {"again", "check"}
          /\ driveJob'[m][j] # "busy" => misled' = misled
      BY <1>1, <1>5, <2>4, DriveKnows
    <3>2. driveJob'[m][j] # "busy" => Seen(m, j)
      BY <1>1, <1>3, <3>1 DEF Settled
    <3>3. Out(j)' = Out(j)
      BY <2>2 DEF Out, Running
    <3>4. CASE driveJob'[m][j] = "look"
      <4>1. seedJob[m][j] = "ok"
        BY <1>1, <3>1, <3>4 DEF Ordered
      <4>2. plan.shards \subseteq Placed(j)
        BY <1>1, <1>3, <4>1 DEF Fed, FedBy
      <4> QED
        BY <2>2, <3>1, <3>3, <3>4, <4>2 DEF Seen, Placed
    <3>5. CASE driveJob'[m][j] = "guard"
      BY <2>2, <3>1, <3>2, <3>5 DEF Seen, Out
    <3>6. CASE driveJob'[m][j] = "again"
      BY <2>2, <3>1, <3>2, <3>6 DEF Seen
    <3>7. CASE driveJob'[m][j] \in {"check", "merge"}
      BY <2>2, <3>1, <3>2, <3>7 DEF Seen
    <3> QED
      BY <3>4, <3>5, <3>6, <3>7 DEF Seen
  <2> QED
    BY <2>3, <2>4
<1>6. ASSUME NEW n \in Chain, NEW k \in Sub, DriveMerge(n, k) PROVE Seen(m, j)'
  <2>1. k \in sentinel' /\ misled' = misled /\ driveJob' = [driveJob EXCEPT ![n][k] = "ok"]
    BY <1>6 DEF DriveMerge, DriveTo
  <2>2. driveJob'[m][j] = driveJob[m][j]
    BY <1>1, <2>1 DEF TypeOK
  <2> QED
    BY <1>4, <2>1, <2>2
<1> QED
  BY <1>1, <1>4, <1>5, <1>6, DriveStill

\* The shards of a submission go back from its tasks, and its drive waits for them.
LEMMA AloneInductive ==
    ASSUME DagInv, Next
    PROVE  Alone'
<1>1. TypeOK /\ Ordered /\ Alone /\ Lasting
  BY StepLasts DEF DagInv
<1>2. submitted \in Nat /\ submitted' \in {submitted, submitted + 1}
  BY <1>1, DagAssumption DEF TypeOK, Lasting
<1>3. submitted > 1 => Alone'
  BY <1>2 DEF Alone
<1> SUFFICES ASSUME ~(submitted > 1), misled = {} PROVE Alone'
  BY <1>1, <1>3 DEF Alone
<1> USE DEF queue, jobs, history
<1>4. ASSUME misled' = {} PROVE Alone'
  BY <1>4 DEF Alone
<1>5. (Submit => Alone') /\ \A n \in Chain : OnlineStart(n) => Alone'
  BY <1>4 DEF Submit, OnlineStart
<1>6. ASSUME NEW n \in Chain, NEW k \in Sub, SeedStart(n, k) \/ SeedWrite(n, k) \/ SeedEnd(n, k) \/ SeedRaise(n, k)
      PROVE  Alone'
  BY <1>4, <1>6 DEF SeedStart, SeedWrite, SeedEnd, SeedRaise
<1>7. ASSUME NEW n \in Chain, NEW k \in Sub, DriveGoes(n, k) PROVE Alone'
  <2>1. PICK place \in States \cup DrivePlaces : DriveMoves(n, k, place)
    BY <1>7, DriveGoesOnly
  <2> QED
    BY <1>4, <2>1 DEF DriveMoves
<1>8. ASSUME NEW n \in Chain, NEW k \in Sub, DriveMerge(n, k) PROVE Alone'
  BY <1>4, <1>8 DEF DriveMerge, DriveTo
<1>9. ASSUME NEW n \in Chain, NEW k \in Sub, NEW t \in Tasks, TaskSays(n, k, t) PROVE Alone'
  BY <1>1, <1>4, <1>9, TaskSaysOnly
<1>10. ASSUME NEW n \in Chain, NEW k \in Sub, NEW t \in Tasks, TaskClaim(n, k, t) \/ TaskDone(n, k, t) PROVE Alone'
  BY <1>4, <1>10 DEF TaskClaim, TaskDone
<1>11. ASSUME NEW n \in Chain, NEW k \in Sub, NEW t \in Tasks, Returns(n, k, t) PROVE Alone'
  <2>1. PICK s \in Shards : Return(n, k, t, s)
    BY <1>1, <1>11, ReturnsOnly
  <2>2. taskJob[n][k][t] \in {"run", "look"}
    BY <1>1, <1>11, ReturnsOnly
  <2>3. n <= submitted /\ t \in plan.tasks
    BY <1>1, <2>2 DEF Ordered
  <2>4. ASSUME NEW c \in Chain, driveJob[c][k] = "look" PROVE FALSE
    <3>1. c <= submitted
      BY <1>1, <2>4 DEF Ordered
    <3>2. c = n
      BY <1>2, <2>3, <3>1, DagAssumption DEF Chain
    <3>3. Over(taskJob[n][k][t])
      BY <1>1, <2>3, <2>4, <3>2 DEF Ordered
    <3> QED
      BY <2>2, <3>3 DEF Over
  <2>5. misled' = {}
    BY <2>1, <2>4 DEF Return
  <2> QED
    BY <1>4, <2>5
<1> HIDE DEF Alone
<1> QED
  BY <1>1, <1>5, <1>6, <1>7, <1>8, <1>9, <1>10, <1>11, StepCases DEF DriveGoes, TaskSays, Returns

\* drive merges what its listings have shown to be whole, or is excused; an excuse
\* lasts.
LEMMA MergedInductive ==
    ASSUME DagInv, Next
    PROVE  Merged'
<1>1. TypeOK /\ Ordered /\ Settled /\ Merged /\ Alone /\ Lasting
  BY StepLasts DEF DagInv
<1>2. late \subseteq late' /\ submitted \in Nat /\ submitted' \in {submitted, submitted + 1} /\ plan' = plan
  BY <1>1, DagAssumption DEF TypeOK, Lasting
<1>3. ASSUME NEW j \in Sub, Excused(j),
             \A m \in Chain : driveJob[m][j] = "ok" /\ <<m, j>> \in misled
                => driveJob'[m][j] = "ok" /\ <<m, j>> \in misled'
      PROVE  Excused(j)'
  BY <1>2, <1>3 DEF Excused
<1>4. ASSUME NEW n \in Chain, NEW k \in Sub, DriveGoes(n, k) PROVE Merged'
  <2>1. PICK place \in States \cup DrivePlaces : DriveMoves(n, k, place)
    BY <1>4, DriveGoesOnly
  <2>2. driveJob[n][k] # "ok" /\ UNCHANGED <<sentinel, artifact>>
    BY <1>4, DriveGoesOnly
  <2>3. ASSUME NEW j \in Sub, Excused(j) PROVE Excused(j)'
    <3>1. ASSUME NEW m \in Chain, driveJob[m][j] = "ok", <<m, j>> \in misled
          PROVE  driveJob'[m][j] = "ok" /\ <<m, j>> \in misled'
      BY <1>1, <2>1, <2>2, <3>1 DEF DriveMoves, TypeOK
    <3> QED
      BY <1>3, <2>3, <3>1
  <2> QED
    BY <1>1, <2>2, <2>3 DEF Merged
<1>5. ASSUME NEW n \in Chain, NEW k \in Sub, DriveMerge(n, k) PROVE Merged'
  <2>1. /\ driveJob[n][k] = "merge" /\ driveJob' = [driveJob EXCEPT ![n][k] = "ok"] /\ misled' = misled
        /\ sentinel' = sentinel \cup {k}
    BY <1>5 DEF DriveMerge, DriveTo
  <2>2. /\ artifact' = [artifact EXCEPT ![k] =
              IF @ # "none" THEN @ ELSE IF plan.shards \subseteq done[k] THEN "whole" ELSE "short"]
        /\ artifact \in [Sub -> {"none", "short", "whole"}]
    BY <1>1, <1>5 DEF DriveMerge, TypeOK
  <2>3. driveJob'[n][k] = "ok" /\ \A m \in Chain, j \in Sub : driveJob[m][j] = "ok" => driveJob'[m][j] = "ok"
    BY <1>1, <2>1 DEF TypeOK
  <2>4. ASSUME NEW j \in Sub, Excused(j) PROVE Excused(j)'
    BY <1>3, <2>1, <2>3, <2>4
  <2>5. ASSUME NEW j \in Sub, j # k
        PROVE  (j \notin sentinel' => artifact'[j] = "none") /\ (j \in sentinel' => artifact'[j] = "whole" \/ Excused(j)')
    BY <1>1, <2>1, <2>2, <2>4, <2>5 DEF Merged
  <2>6. artifact'[k] = "whole" \/ Excused(k)'
    <3>1. CASE k \in sentinel
      <4>1. artifact[k] = "whole" \/ Excused(k)
        BY <1>1, <3>1 DEF Merged
      <4>2. artifact[k] = "whole" => artifact'[k] = "whole"
        BY <2>2
      <4> QED
        BY <2>4, <4>1, <4>2
    <3>2. CASE k \notin sentinel
      <4>1. artifact[k] = "none"
        BY <1>1, <3>2 DEF Merged
      <4>2. CASE <<n, k>> \in late
        BY <1>2, <4>2 DEF Excused
      <4>3. CASE <<n, k>> \in misled
        <5>1. submitted > 1
          BY <1>1, <4>3 DEF Alone
        <5>2. submitted' > 1
          BY <1>2, <5>1
        <5>3. <<n, k>> \in misled' /\ driveJob'[n][k] = "ok"
          BY <2>1, <2>3, <4>3
        <5> QED
          BY <5>2, <5>3 DEF Excused
      <4>4. CASE <<n, k>> \notin late /\ <<n, k>> \notin misled
        <5>1. plan.shards \subseteq done[k]
          BY <1>1, <2>1, <3>2, <4>4 DEF Settled, Seen
        <5> QED
          BY <2>2, <4>1, <5>1
      <4> QED
        BY <4>2, <4>3, <4>4
    <3> QED
      BY <3>1, <3>2
  <2> QED
    BY <2>1, <2>5, <2>6 DEF Merged
<1>6. ASSUME driveJob' = driveJob, sentinel' = sentinel, artifact' = artifact, misled \subseteq misled' PROVE Merged'
  <2>1. ASSUME NEW j \in Sub, Excused(j) PROVE Excused(j)'
    BY <1>3, <1>6, <2>1
  <2> QED
    BY <1>1, <1>6, <2>1 DEF Merged
<1> QED
  BY <1>1, <1>4, <1>5, <1>6, DriveStill

\* The parts together, under a step or a stutter.
LEMMA DagInvInductive ==
    ASSUME DagInv, [Next]_vars
    PROVE  DagInv'
<1>1. CASE UNCHANGED vars
  <2> USE <1>1 DEF vars, jobs, queue, history
  <2>1. TypeOK'
    BY DagTypeInductive DEF DagInv
  <2>2. Fed'
    BY DEF DagInv, Fed, FedBy, Placed, Out, Running
  <2>3. Ordered'
    BY DEF DagInv, Ordered
  <2>4. Settled'
    BY DEF DagInv, Settled, Seen, Out, Running
  <2>5. Merged' /\ Alone'
    BY DEF DagInv, Merged, Excused, Alone
  <2> QED
    BY <2>1, <2>2, <2>3, <2>4, <2>5 DEF DagInv
<1>2. CASE Next
  <2>1. TypeOK'
    BY <1>2, DagTypeInductive DEF DagInv
  <2> QED
    BY <1>2, <2>1, FedInductive, OrderedInductive, SettledInductive, AloneInductive, MergedInductive DEF DagInv
<1> QED
  BY <1>1, <1>2

\* The online half starts only over whole artifacts of every substage, whoever is
\* killed, retried or poisoned and however often the chain is submitted, unless a
\* seed job that raised was taken to have succeeded or, beside a resubmission, a
\* shard went back between two listings of a drive. A chain submitted once has only
\* the first excuse.
THEOREM DagGated == Spec => []Gated
<1>1. DagInv => Gated
  <2> SUFFICES ASSUME DagInv, NEW n \in Chain, online[n] = "run", NEW k \in 1 .. plan.stages
               PROVE  artifact[k] = "whole"
                      \/ \E m \in Chain : <<m, k>> \in late \/ (submitted > 1 /\ <<m, k>> \in misled)
    BY DEF Gated
  <2>1. plan.stages \in Sub /\ Ordered /\ Merged
    BY DEF DagInv, TypeOK, Plan
  <2>2. k \in Sub
    BY <2>1, DagAssumption DEF Sub
  <2>3. driveJob[n][plan.stages] = "ok"
    BY <2>1 DEF Ordered
  <2>4. plan.stages \in sentinel /\ seedJob[n][plan.stages] = "ok"
    BY <2>1, <2>3 DEF Ordered
  <2>5. k \in sentinel
    <3>1. k = plan.stages \/ k < plan.stages
      BY <2>1, DagAssumption DEF Sub
    <3> QED
      BY <2>1, <2>2, <2>4, <3>1 DEF Ordered
  <2> QED
    BY <2>1, <2>2, <2>5 DEF Merged, Excused
<1>2. DagInv /\ [Next]_vars => DagInv'
  BY DagInvInductive
<1> QED
  BY <1>1, <1>2, DagInvInitial, PTL DEF Spec
=============================================================================
