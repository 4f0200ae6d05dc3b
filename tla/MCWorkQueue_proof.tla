--------------------------- MODULE MCWorkQueue_proof ---------------------------
(* The machines of MCWorkQueue, for every value of the constants it leaves     *)
(* open: what the queue guarantees for any shards and workers, with kills,     *)
(* restarts, stalls and relaunched seeds; what a handle of the store reads and *)
(* when its environment is closed; what the files of a topic agree on after    *)
(* any kills; what a chunked corpus holds, for any files, widths, batches and  *)
(* pool. Only one machine moves, so a step of the whole is a step or a stutter *)
(* of each.                                                                    *)
EXTENDS MCWorkQueue, DataLemmas

-----------------------------------------------------------------------------
(* The queue: its types                                                       *)

\* The variables and their types hold in every reachable state.
THEOREM QueueTypeCorrect == Spec => []TypeOK
<1> USE QueueAssumption, NamesAssumption DEF QueueAssumption, NamesAssumption
<1>1. Init => TypeOK
  <2> SUFFICES ASSUME Init PROVE TypeOK
    OBVIOUS
  <2>1. /\ age \in [Files -> 0 .. MaxAge + 1]
        /\ attempts \in [Files -> 0 .. KMax]
        /\ fails \in [Files -> 0 .. KMax]
        /\ launches \in 0 .. MaxSeeds /\ crashes \in 0 .. MaxCrashes
    BY DEF Init
  <2>2. /\ pc \in [Workers -> WorkerPlaces]
        /\ shard \in [Workers -> Files \cup {None}]
        /\ n \in [Workers -> 0 .. KMax]
        /\ \A w \in Workers : pc[w] \notin AtWork \cup {"reap"}
    BY DEF Init, WorkerPlaces, AtWork
  <2> QED
    BY <2>1, <2>2 DEF Init, TypeOK, SeedPlaces, DrivePlaces
<1>2. TypeOK /\ [Next]_vars => TypeOK'
  <2> SUFFICES ASSUME TypeOK, [Next]_vars PROVE TypeOK'
    OBVIOUS
  <2> USE DEF TypeOK, WorkerPlaces, AtWork, SeedPlaces, DrivePlaces, dirs, meta, wvars,
          svars, Goto, Capped, Renamed
  <2>1. ASSUME NEW w \in Workers, Worker(w) PROVE TypeOK'
    <3>1. CASE Launch(w)
      BY <3>1 DEF Launch
    <3>2. CASE LoopTop(w)
      BY <3>2 DEF LoopTop
    <3>3. ASSUME NEW f \in Files, ReapCheck(w, f) PROVE TypeOK'
      BY <3>3 DEF ReapCheck
    <3>4. CASE ReapMove(w)
      BY <3>4 DEF ReapMove, Requeue
    <3>5. CASE ReapEnd(w)
      BY <3>5 DEF ReapEnd
    <3>6. ASSUME NEW f \in Files, Claim(w, f) PROVE TypeOK'
      BY <3>6 DEF Claim, ClaimMove
    <3>7. CASE ClaimNone(w)
      BY <3>7 DEF ClaimNone
    <3>8. CASE Recheck(w)
      BY <3>8 DEF Recheck
    <3>9. CASE StartWork(w)
      BY <3>9 DEF StartWork, Heartbeat
    <3>10. CASE StampError(w)
      BY <3>10 DEF StampError
    <3>11. CASE WorkOk(w)
      BY <3>11 DEF WorkOk
    <3>12. CASE WorkBad(w)
      BY <3>12 DEF WorkBad
    <3>13. CASE MarkDone(w)
      BY <3>13 DEF MarkDone
    <3>14. CASE FailRead(w)
      BY <3>14 DEF FailRead
    <3>15. CASE FailWrite(w)
      BY <3>15 DEF FailWrite
    <3>16. CASE FailMove(w)
      BY <3>16 DEF FailMove, Requeue, ToFailed
    <3> QED
      BY <2>1, <3>1, <3>2, <3>3, <3>4, <3>5, <3>6, <3>7, <3>8, <3>9, <3>10, <3>11, <3>12,
         <3>13, <3>14, <3>15, <3>16 DEF Worker
  <2>2. ASSUME NEW w \in Workers, Crash(w) \/ Restart(w) PROVE TypeOK'
    BY <2>2 DEF Crash, Restart
  <2>3. CASE SeedLaunch \/ SeedCrash
    BY <2>3 DEF SeedLaunch, SeedCrash
  <2>4. CASE Seeder
    <3>1. ASSUME NEW s \in Shards, SeedSkip(s) PROVE TypeOK'
      BY <3>1 DEF SeedSkip
    <3>2. ASSUME NEW s \in Shards, SeedTemp(s) PROVE TypeOK'
      BY <3>2 DEF SeedTemp, Files
    <3>3. CASE SeedReplace
      BY <3>3 DEF SeedReplace, Files
    <3>4. CASE SeedEnd
      BY <3>4 DEF SeedEnd
    <3> QED
      BY <2>4, <3>1, <3>2, <3>3, <3>4 DEF Seeder
  <2>5. CASE Driver
    BY <2>5 DEF Driver, DriveStart, DrivePoll, DriveGuard, DriveMerge, DriveGoto
  <2>6. CASE Tick
    BY <2>6 DEF Tick, Aging, Stale, Beating
  <2>7. CASE UNCHANGED vars
    BY <2>7 DEF vars
  <2> QED
    BY <2>1, <2>2, <2>3, <2>4, <2>5, <2>6, <2>7 DEF Next
<1> QED
  BY <1>1, <1>2, PTL DEF Spec

-----------------------------------------------------------------------------
(* Nothing is lost.                                                           *)

\* A shard that is in some directory stays in some directory: every step of every
\* process is a rename inside the queue, and only a temp file is ever replaced.
LEMMA PlacedGrows ==
    ASSUME TypeOK, [Next]_vars PROVE Shards \cap Placed \subseteq Placed'
<1> USE NamesAssumption DEF NamesAssumption, Placed, dirs
<1>1. ASSUME NEW w \in Workers, Worker(w) PROVE Placed \subseteq Placed'
  <2>1. CASE ReapMove(w) \/ FailMove(w)
    BY <2>1 DEF ReapMove, FailMove, Requeue, ToFailed
  <2>2. CASE MarkDone(w)
    BY <2>2 DEF MarkDone
  <2>3. ASSUME NEW f \in Files, Claim(w, f) PROVE Placed \subseteq Placed'
    BY <2>3 DEF Claim, ClaimMove
  <2>4. CASE UNCHANGED dirs
    BY <2>4
  <2> QED
    BY <1>1, <2>1, <2>2, <2>3, <2>4 DEF Worker, Launch, LoopTop, ReapCheck, ReapEnd,
       ClaimNone, Recheck, StartWork, StampError, WorkOk, WorkBad, FailRead, FailWrite
<1>2. CASE Seeder
  <2>1. CASE SeedReplace
    BY <2>1 DEF SeedReplace, TypeOK
  <2> QED
    BY <1>2, <2>1 DEF Seeder, SeedSkip, SeedTemp, SeedEnd
<1>3. CASE UNCHANGED dirs
  BY <1>3
<1> QED
  BY <1>1, <1>2, <1>3 DEF Next, Crash, Restart, SeedLaunch, SeedCrash, Driver, DriveStart,
     DrivePoll, DriveGuard, DriveMerge, DriveGoto, Tick, vars

\* What seed has written so far is placed, and whoever relies on a finished seed
\* (a relaunch that meets the sentinel, drive) finds every shard placed.
Kept ==
    /\ spc \in {"seed", "replace", "end"} => Shards \ todo \subseteq Placed
    /\ spc = "end" => todo = {}
    /\ sentinel \/ dpc # "off" => Shards \subseteq Placed

\* Every step keeps the shards seed has dealt with in the four directories.
LEMMA KeptInductive == ASSUME TypeOK, Kept, [Next]_vars PROVE Kept'
<1> USE DEF Kept
<1>1. Shards \cap Placed \subseteq Placed'
  BY PlacedGrows
<1>2. CASE UNCHANGED <<spc, todo, sentinel, dpc>>
  BY <1>1, <1>2
<1>3. CASE SeedLaunch \/ SeedCrash
  BY <1>1, <1>3 DEF SeedLaunch, SeedCrash
<1>4. CASE Seeder
  <2>1. ASSUME NEW s \in Shards, SeedSkip(s) PROVE Kept'
    BY <1>1, <2>1 DEF SeedSkip, Placed, dirs
  <2>2. ASSUME NEW s \in Shards, SeedTemp(s) PROVE Kept'
    BY <1>1, <2>2 DEF SeedTemp
  <2>3. CASE SeedReplace
    BY <1>1, <2>3 DEF SeedReplace, Placed, TypeOK
  <2>4. CASE SeedEnd
    BY <1>1, <2>4 DEF SeedEnd
  <2> QED
    BY <1>4, <2>1, <2>2, <2>3, <2>4 DEF Seeder
<1>5. CASE Driver
  BY <1>1, <1>5 DEF Driver, DriveStart, DrivePoll, DriveGuard, DriveMerge, DriveGoto, svars
<1> QED
  BY <1>2, <1>3, <1>4, <1>5 DEF Next, Worker, Launch, LoopTop, ReapCheck, ReapMove, ReapEnd,
     Claim, ClaimMove, ClaimNone, Recheck, StartWork, StampError, WorkOk, WorkBad, MarkDone, FailRead,
     FailWrite, FailMove, Crash, Restart, Tick, svars, vars

\* Once seed has returned, no interleaving of claims, reaps, failures, kills and
\* relaunches loses a shard.
THEOREM QueueLosesNoShard == Spec => []NoShardLost
<1>1. Init => Kept
  BY DEF Init, Kept
<1>2. TypeOK /\ Kept /\ [Next]_vars => Kept'
  BY KeptInductive
<1>3. Kept => NoShardLost
  BY DEF Kept, NoShardLost
<1> QED
  BY <1>1, <1>2, <1>3, QueueTypeCorrect, PTL DEF Spec

-----------------------------------------------------------------------------
(* Settled shards.                                                            *)

\* A worker about to rename into done/ holds a name whose output validates, even
\* when it no longer holds the file.
Validated ==
    /\ DoneValidated
    /\ \A w \in Workers : pc[w] = "mark" => shard[w] \in out

\* Every file in done/ has an output that validates.
THEOREM QueueDoneValidated == Spec => []DoneValidated
<1>1. Init => Validated
  BY DEF Init, Validated, DoneValidated
<1>2. TypeOK /\ Validated /\ [Next]_vars => Validated'
  <2> SUFFICES ASSUME TypeOK, Validated, [Next]_vars PROVE Validated'
    OBVIOUS
  <2> USE DEF Validated, DoneValidated, TypeOK, Goto, dirs, meta, wvars
  <2>1. ASSUME NEW w \in Workers, Worker(w) PROVE Validated'
    <3>1. CASE WorkOk(w)
      BY <3>1 DEF WorkOk
    <3>2. CASE MarkDone(w)
      BY <3>2 DEF MarkDone
    <3>3. CASE UNCHANGED <<done, out>> /\ pc'[w] # "mark"
               /\ \A v \in Workers \ {w} : pc'[v] = pc[v] /\ shard'[v] = shard[v]
      BY <3>3
    <3> QED
      BY <2>1, <3>1, <3>2, <3>3 DEF Worker, Launch, LoopTop, ReapCheck, ReapMove, ReapEnd,
         Claim, ClaimMove, ClaimNone, Recheck, StartWork, StampError, WorkBad, FailRead, FailWrite, FailMove
  <2>2. ASSUME NEW w \in Workers, Crash(w) \/ Restart(w) PROVE Validated'
    BY <2>2 DEF Crash, Restart
  <2>3. CASE UNCHANGED <<done, out, pc, shard>>
    BY <2>3
  <2> QED
    BY <2>1, <2>2, <2>3 DEF Next, SeedLaunch, Seeder, SeedSkip, SeedTemp, SeedReplace, SeedEnd,
       SeedCrash, Driver, DriveStart, DrivePoll, DriveGuard, DriveMerge, DriveGoto, Tick, vars
<1>3. Validated => DoneValidated
  BY DEF Validated
<1> QED
  BY <1>1, <1>2, <1>3, QueueTypeCorrect, PTL DEF Spec

\* done/ and failed/ only grow.
THEOREM QueueSettledStays == Spec => SettledStays
<1>1. [Next]_vars => [done \subseteq done' /\ failed \subseteq failed']_vars
  BY DEF Next, Worker, Launch, LoopTop, ReapCheck, ReapMove, ReapEnd, Claim, ClaimMove, ClaimNone, Recheck,
     StartWork, StampError, WorkOk, WorkBad, MarkDone, FailRead, FailWrite, FailMove, Requeue,
     ToFailed, Crash, Restart, SeedLaunch, Seeder, SeedSkip, SeedTemp, SeedReplace, SeedEnd,
     SeedCrash, Driver, DriveStart, DrivePoll, DriveGuard, DriveMerge, DriveGoto, Tick, vars, dirs
<1> QED
  BY <1>1, PTL DEF Spec, SettledStays

\* No counter ever claims more failures than there were: neither the persisted one
\* nor the copy a worker is about to write over somebody else's update.
Tallied ==
    /\ PoisonEarned
    /\ \A f \in Files : attempts[f] <= fails[f]
    /\ \A w \in Workers : pc[w] \in {"failw", "failm"} => n[w] <= fails[shard[w]]

\* A shard in failed/ has failed KMax times.
THEOREM QueuePoisonEarned == Spec => []PoisonEarned
<1> USE QueueAssumption DEF QueueAssumption
<1>1. Init => Tallied
  BY DEF Init, Tallied, PoisonEarned
<1>2. TypeOK /\ Tallied /\ [Next]_vars => Tallied'
  <2> SUFFICES ASSUME TypeOK, Tallied, [Next]_vars PROVE Tallied'
    OBVIOUS
  <2> USE DEF Tallied, PoisonEarned, TypeOK, Goto, dirs, meta, wvars
  <2>1. ASSUME NEW w \in Workers, Worker(w) PROVE Tallied'
    <3>1. CASE FailRead(w)
      <4>1. shard[w] \in Files
        BY <3>1 DEF FailRead, AtWork
      <4>2. \A f \in Files : fails'[f] \in 0 .. KMax /\ fails[f] <= fails'[f]
        BY <3>1 DEF FailRead, Capped
      <4>3. n'[w] <= fails'[shard[w]]
        BY <3>1, <4>1 DEF FailRead, Capped
      <4>4. \A v \in Workers \ {w} :
              pc[v] \in {"failw", "failm"} => n[v] <= fails'[shard[v]]
        <5> SUFFICES ASSUME NEW v \in Workers \ {w}, pc[v] \in {"failw", "failm"}
                     PROVE n[v] <= fails'[shard[v]]
          OBVIOUS
        <5>1. shard[v] \in Files
          BY DEF AtWork
        <5> QED
          BY <4>2, <5>1
      <4>5. \A f \in failed : fails'[f] = KMax
        BY <4>2
      <4>6. \A f \in Files : attempts[f] <= fails'[f]
        BY <4>2
      <4> QED
        BY <3>1, <4>3, <4>4, <4>5, <4>6 DEF FailRead
    <3>2. CASE FailWrite(w)
      <4>1. shard[w] \in Files
        BY <3>2 DEF FailWrite, AtWork
      <4> QED
        BY <3>2, <4>1 DEF FailWrite
    <3>3. CASE FailMove(w)
      <4>1. shard[w] \in Files /\ n[w] <= fails[shard[w]]
        BY <3>3 DEF FailMove, AtWork
      <4>2. n[w] >= KMax => fails[shard[w]] = KMax
        BY <4>1
      <4> QED
        BY <3>3, <4>1, <4>2 DEF FailMove, ToFailed, Requeue
    <3>4. CASE /\ UNCHANGED <<failed, attempts, fails, n>>
               /\ pc'[w] \notin {"failw", "failm"}
               /\ \A v \in Workers \ {w} : pc'[v] = pc[v] /\ shard'[v] = shard[v]
      BY <3>4
    <3> QED
      BY <2>1, <3>1, <3>2, <3>3, <3>4 DEF Worker, Launch, LoopTop, ReapCheck, ReapMove, ReapEnd,
         Claim, ClaimMove, ClaimNone, Recheck, StartWork, StampError, WorkOk, WorkBad, MarkDone, Requeue
  <2>2. ASSUME NEW w \in Workers, Crash(w) \/ Restart(w) PROVE Tallied'
    BY <2>2 DEF Crash, Restart
  <2>3. CASE UNCHANGED <<failed, attempts, fails, wvars>>
    BY <2>3
  <2> QED
    BY <2>1, <2>2, <2>3 DEF Next, SeedLaunch, Seeder, SeedSkip, SeedTemp, SeedReplace, SeedEnd,
       SeedCrash, Driver, DriveStart, DrivePoll, DriveGuard, DriveMerge, DriveGoto, Tick, vars
<1>3. Tallied => PoisonEarned
  BY DEF Tallied
<1> QED
  BY <1>1, <1>2, <1>3, QueueTypeCorrect, PTL DEF Spec

-----------------------------------------------------------------------------
(* One submission of the chain: seed, then the array, then drive afterany.    *)

\* Nothing but seed moves before seed has returned; nothing but drive and the
\* clock moves once drive has started, so what drive read stays true.
Phases ==
    /\ spc # "end" =>
          /\ running = {} /\ done = {} /\ failed = {}
          /\ dpc = "off" /\ \A w \in Workers : pc[w] = "off"
    /\ dpc # "off" =>
          \A w \in Workers : pc[w] = "exit" \/ (pc[w] = "dead" /\ ~Restarts)
    /\ dpc \in {"rescan1", "rescan2", "merge", "done"} => failed = {}
    /\ dpc \in {"rescan2", "merge", "done"} => pending = {}
    /\ dpc \in {"merge", "done"} => running = {}
    /\ sentinel => dpc = "done"

OneAtATime == Phases /\ OneDirectory

\* In a chain the roles run one after the other, so no step puts a name into a
\* second directory.
LEMMA ChainInductive ==
    ASSUME Chained, TypeOK, OneAtATime, [Next]_vars PROVE OneAtATime'
<1> USE DEF OneAtATime, Phases, OneDirectory, TypeOK, Goto, dirs, meta, wvars, svars
<1>1. ASSUME NEW w \in Workers, Worker(w) PROVE OneAtATime'
  <2>1. spc = "end" /\ spc' = "end" /\ UNCHANGED <<dpc, sentinel>>
    BY <1>1 DEF Worker, Launch, LoopTop, ReapCheck, ReapMove, ReapEnd, Claim, ClaimMove, ClaimNone, Recheck,
       StartWork, StampError, WorkOk, WorkBad, MarkDone, FailRead, FailWrite, FailMove
  <2>2. dpc = "off"
    BY <1>1 DEF Worker, Launch, LoopTop, ReapCheck, ReapMove, ReapEnd, Claim, ClaimMove, ClaimNone, Recheck,
       StartWork, StampError, WorkOk, WorkBad, MarkDone, FailRead, FailWrite, FailMove
  <2>3. OneDirectory'
    <3>1. CASE ReapMove(w) \/ FailMove(w)
      BY <3>1 DEF ReapMove, FailMove, Requeue, ToFailed
    <3>2. CASE MarkDone(w)
      BY <3>2 DEF MarkDone
    <3>3. ASSUME NEW f \in Files, Claim(w, f) PROVE OneDirectory'
      BY <3>3 DEF Claim, ClaimMove
    <3>4. CASE UNCHANGED dirs
      BY <3>4
    <3> QED
      BY <1>1, <3>1, <3>2, <3>3, <3>4 DEF Worker, Launch, LoopTop, ReapCheck, ReapEnd,
         ClaimNone, Recheck, StartWork, StampError, WorkOk, WorkBad, FailRead, FailWrite
  <2> QED
    BY <2>1, <2>2, <2>3
<1>2. ASSUME NEW w \in Workers, Crash(w) \/ Restart(w) PROVE OneAtATime'
  BY <1>2 DEF Crash, Restart
<1>3. CASE SeedLaunch \/ SeedCrash
  BY <1>3 DEF SeedLaunch, SeedCrash
<1>4. CASE Seeder
  BY <1>4 DEF Seeder, SeedSkip, SeedTemp, SeedReplace, SeedEnd
<1>5. CASE Driver
  <2>1. CASE DriveStart
    BY <2>1 DEF DriveStart, DriveGoto
  <2>2. CASE DrivePoll
    BY <2>2 DEF DrivePoll, DriveGoto
  <2>3. CASE DriveGuard
    BY <2>3 DEF DriveGuard, DriveGoto
  <2>4. CASE DriveMerge
    BY <2>4 DEF DriveMerge
  <2> QED
    BY <1>5, <2>1, <2>2, <2>3, <2>4 DEF Driver
<1>6. CASE UNCHANGED <<dirs, pc, spc, dpc, sentinel>>
  BY <1>6
<1> QED
  BY <1>1, <1>2, <1>3, <1>4, <1>5, <1>6 DEF Next, Tick, vars

\* A name is in at most one directory, although two workers may hold it.
THEOREM QueueOneDirectory == Chained => (Spec => []OneDirectory)
<1> SUFFICES ASSUME Chained PROVE Spec => []OneDirectory
  OBVIOUS
<1>1. Init => OneAtATime
  BY DEF Init, OneAtATime, Phases, OneDirectory
<1>2. TypeOK /\ OneAtATime /\ [Next]_vars => OneAtATime'
  BY ChainInductive
<1>3. OneAtATime => OneDirectory
  BY DEF OneAtATime
<1> QED
  BY <1>1, <1>2, <1>3, QueueTypeCorrect, PTL DEF Spec

\* drive, started afterany the array, merges only a complete corpus.
THEOREM QueueMergeComplete == Chained => (Spec => []MergeComplete)
<1> SUFFICES ASSUME Chained PROVE Spec => []MergeComplete
  OBVIOUS
<1>1. Init => OneAtATime /\ Kept
  BY DEF Init, OneAtATime, Phases, OneDirectory, Kept
<1>2. TypeOK /\ OneAtATime /\ Kept /\ [Next]_vars => OneAtATime' /\ Kept'
  BY ChainInductive, KeptInductive
<1>3. OneAtATime /\ Kept => MergeComplete
  BY DEF OneAtATime, Phases, Kept, MergeComplete, Placed
<1> QED
  BY <1>1, <1>2, <1>3, QueueTypeCorrect, PTL DEF Spec

-----------------------------------------------------------------------------
(* The queue implements the abstract pool.                                    *)

\* Seeding offers, the rename into done/ completes, the rename into failed/
\* poisons, drive publishes; claims, reaps, stamps, kills and polls stutter.
THEOREM QueueImplementsPool == Chained => (Spec => PoolSpec)
<1> SUFFICES ASSUME Chained PROVE Spec => PoolSpec
  OBVIOUS
<1>1. Init => Pool!Init
  BY DEF Init, Pool!Init
<1>2. Init => OneAtATime /\ Kept
  BY DEF Init, OneAtATime, Phases, OneDirectory, Kept
<1>3. TypeOK /\ OneAtATime /\ Kept /\ [Next]_vars => OneAtATime' /\ Kept'
  BY ChainInductive, KeptInductive
<1>4. TypeOK /\ OneAtATime /\ Kept /\ [Next]_vars => [Pool!Next]_(Pool!poolVars)
  <2> SUFFICES ASSUME TypeOK, OneAtATime, Kept, [Next]_vars
               PROVE Pool!Next \/ UNCHANGED Pool!poolVars
    OBVIOUS
  <2> USE DEF Pool!Next, Pool!poolVars, dirs
  <2>1. ASSUME NEW w \in Workers, Worker(w) PROVE Pool!Next \/ UNCHANGED Pool!poolVars
    <3>1. CASE ReapMove(w)
      BY <3>1 DEF ReapMove, Requeue
    <3>2. ASSUME NEW f \in Files, Claim(w, f) PROVE UNCHANGED Pool!poolVars
      BY <3>2 DEF Claim, ClaimMove
    <3>3. CASE MarkDone(w)
      <4>1. CASE shard[w] \in Shards \cap running
        <5>1. Pool!Complete(shard[w])
          BY <3>3, <4>1 DEF MarkDone, Pool!Complete, OneAtATime, OneDirectory, Files
        <5> QED
          BY <4>1, <5>1
      <4>2. CASE shard[w] \notin Shards \cap running
        BY <3>3, <4>2 DEF MarkDone
      <4> QED
        BY <4>1, <4>2
    <3>4. CASE FailMove(w)
      <4>1. CASE n[w] >= KMax /\ shard[w] \in Shards \cap running
        <5>1. Pool!Poison(shard[w])
          BY <3>4, <4>1 DEF FailMove, ToFailed, Pool!Poison, OneAtATime, OneDirectory, Files
        <5> QED
          BY <4>1, <5>1
      <4>2. CASE ~(n[w] >= KMax /\ shard[w] \in Shards \cap running)
        BY <3>4, <4>2 DEF FailMove, ToFailed, Requeue
      <4> QED
        BY <4>1, <4>2
    <3>5. CASE UNCHANGED <<dirs, sentinel>>
      BY <3>5
    <3> QED
      BY <2>1, <3>1, <3>2, <3>3, <3>4, <3>5 DEF Worker, Launch, LoopTop, ReapCheck, ReapEnd,
         ClaimNone, Recheck, StartWork, StampError, WorkOk, WorkBad, FailRead, FailWrite
  <2>2. CASE SeedReplace
    <3>1. CASE Temp(writing) \in pending /\ writing \notin pending
      <4>1. Pool!Offer(writing)
        BY <2>2, <3>1, NamesAssumption
        DEF SeedReplace, Pool!Offer, OneAtATime, Phases, TypeOK, NamesAssumption
      <4> QED
        BY <2>2, <4>1 DEF SeedReplace, TypeOK
    <3>2. CASE ~(Temp(writing) \in pending /\ writing \notin pending)
      BY <2>2, <3>2, NamesAssumption DEF SeedReplace, TypeOK, NamesAssumption
    <3> QED
      BY <3>1, <3>2
  <2>3. ASSUME NEW s \in Shards, SeedTemp(s) PROVE UNCHANGED Pool!poolVars
    BY <2>3, NamesAssumption DEF SeedTemp, NamesAssumption
  <2>4. CASE DriveMerge
    <3>1. Shards \subseteq done /\ pending = {} /\ running = {} /\ failed = {} /\ ~sentinel
      BY <2>4 DEF DriveMerge, OneAtATime, Phases, Kept, Placed
    <3>2. Pool!Publish
      BY <2>4, <3>1 DEF DriveMerge, Pool!Publish
    <3> QED
      BY <3>2
  <2>5. CASE UNCHANGED <<dirs, sentinel>>
    BY <2>5
  <2> QED
    BY <2>1, <2>2, <2>3, <2>4, <2>5 DEF Next, Crash, Restart, SeedLaunch, Seeder, SeedSkip, SeedEnd,
       SeedCrash, Driver, DriveStart, DrivePoll, DriveGuard, DriveGoto, Tick, vars
<1> QED
  BY <1>1, <1>2, <1>3, <1>4, QueueTypeCorrect, PTL DEF Spec, PoolSpec, Pool!Spec

-----------------------------------------------------------------------------
(* The store                                                                  *)

Paths  == {Store!Origin, Store!Mirror}
Asked  == {"acquire", "found", "held"}   \* places of a thread that has a key
Unpublished == {"work", "exists", "marker", "clear", "rmdir", "replace"}

\* Builders that cannot put a directory in place any more: each does so once.
Spent == {b \in Builders : place[b] \notin Unpublished}
Named == Spent \cup {Store!Absent, Store!Copied}

Environment == [key : Paths \X Int, path : Paths, inode : Int, open : BOOLEAN, refs : Int, dropped : Nat]

DiskShaped ==
    /\ disk \in [{Store!Origin} -> {"absent", "torn", "whole"}]
    /\ place \in [Builders -> Unpublished \cup {"mark", "next", "failed", "accepted"}]
    /\ DOMAIN left = Builders
    /\ \A b \in Builders : place[b] \in Unpublished \cup {"mark"} => left[b] = <<Store!Origin>>

TableShaped ==
    /\ envs \in Seq(Environment)
    /\ shared \subseteq DOMAIN envs
    /\ closing \subseteq DOMAIN envs
    /\ lock \in Threads \cup {0}

ThreadShaped ==
    /\ at \in [Threads -> Asked \cup {"idle", "check", "stat", "barred"}]
    /\ loc \in [Threads -> Paths]
    /\ DOMAIN key = Threads
    /\ env \in [Threads -> Nat]
    /\ since \in [Threads -> SUBSET Int]
    /\ \A t \in Threads : at[t] \in Asked => key[t] \in {loc[t]} \X Named
    /\ \A t \in Threads : at[t] \in {"found", "held"} => env[t] \in DOMAIN envs

\* An inode was put under the path by a builder that will not do it again.
Numbered ==
    /\ inode \in Spent \cup {Store!Absent}
    /\ \A e \in DOMAIN envs :
        /\ envs[e].key \in {envs[e].path} \X Named
        /\ envs[e].path = Store!Mirror => envs[e].inode = Store!Copied
        \* Whoever finds the current directory's key finds that directory.
        /\ envs[e].key = <<Store!Origin, inode>> /\ inode # Store!Absent => envs[e].inode = inode

\* What a waiting thread would open, or find open, it has seen since it asked.
Seen ==
    \A t \in Threads : Store!Absent \notin since[t] =>
        /\ at[t] = "acquire" =>
            /\ Store!Found(loc[t]) \in since[t] \cup {Store!Absent}
            /\ \A e \in DOMAIN envs : envs[e].key = key[t] => envs[e].inode \in since[t]
        /\ at[t] \in {"found", "held"} => envs[env[t]].inode \in since[t]

Holders(e) == {t \in Threads : at[t] = "held" /\ env[t] = e}

\* The lock is held for one lookup; what is in the table is open and counts its
\* handles, and what has left it is being closed.
Locked == \A t \in Threads : at[t] = "found" <=> lock = t
Counted ==
    \A e \in DOMAIN envs :
        IF e \in shared
        THEN /\ envs[e].open /\ e \notin closing
             /\ envs[e].refs = Cardinality(Holders(e)) + envs[e].dropped
             /\ envs[e].refs > 0
        ELSE envs[e].open => e \in closing

StoreInv == DiskShaped /\ TableShaped /\ ThreadShaped /\ Numbered /\ Seen /\ Locked /\ Counted

LEMMA StoreInitial == MCInit => StoreInv
<1> SUFFICES ASSUME Store!Init PROVE StoreInv
  BY DEF MCInit
<1> USE OpenersAssumption DEF Store!Init
<1>1. disk = [d \in {Store!Origin} |-> "absent"]
  BY DEF Store!Origin
<1>2. DiskShaped
  BY <1>1 DEF DiskShaped, Unpublished, Store!Origin
<1>3. envs = <<>> /\ DOMAIN envs = {}
  OBVIOUS
<1>4. TableShaped
  BY <1>3 DEF TableShaped
<1>5. ThreadShaped
  BY DEF ThreadShaped, Asked, Paths
<1>6. Numbered /\ Seen /\ Locked /\ Counted
  BY <1>3 DEF Numbered, Seen, Locked, Counted, Store!Absent
<1> QED
  BY <1>2, <1>4, <1>5, <1>6 DEF StoreInv

\* What a builder's step is to the threads: it fills the path with a directory of
\* its own number, for the only time, and then every thread that waits sees it;
\* or the inode stays.
LEMMA BuildSteps ==
    ASSUME DiskShaped, NEW b \in Builders, Store!Build(b)
    PROVE  /\ DiskShaped'
           /\ Spent \subseteq Spent'
           /\ \/ inode' = inode /\ (disk'[Store!Origin] = "whole" => disk[Store!Origin] = "whole")
              \/ inode' = b /\ b \notin Spent /\ b \in Spent'
           /\ since' = [t \in Threads |-> IF at[t] = "acquire" /\ disk'[Store!Origin] = "whole"
                                         THEN since[t] \cup {inode'} ELSE since[t]]
           /\ UNCHANGED <<envs, shared, lock, closing, at, loc, key, env>>
<1> USE DEF DiskShaped, Unpublished, Spent, Store!At, Store!Goto, Store!Target, Store!IsDone
<1>1. UNCHANGED <<envs, shared, lock, closing, at, loc, key, env>>
  BY DEF Store!Build, Store!table
<1>2. since' = [t \in Threads |-> IF at[t] = "acquire" /\ disk'[Store!Origin] = "whole"
                                 THEN since[t] \cup {inode'} ELSE since[t]]
  BY DEF Store!Build
<1>3. CASE Store!Work(b) \/ Store!Receipt(b)
  <2>1. UNCHANGED <<disk, left, inode>>
    BY <1>3 DEF Store!Work, Store!Receipt
  <2>2. \E to \in {"next", "exists", "accepted", "failed"} :
           place' = [place EXCEPT ![b] = to] /\ (to = "exists" => place[b] = "work")
    BY <1>3 DEF Store!Work, Store!Receipt
  <2>3. place[b] \in {"work", "next"}
    BY <1>3 DEF Store!Work, Store!Receipt
  <2> QED
    BY <1>1, <1>2, <2>1, <2>2, <2>3
<1>4. ASSUME Store!Publish(b), inode' = IF Store!At(b, "replace") /\ place'[b] = "mark" THEN b ELSE inode
      PROVE  /\ DiskShaped'
             /\ Spent \subseteq Spent'
             /\ \/ inode' = inode /\ (disk'[Store!Origin] = "whole" => disk[Store!Origin] = "whole")
                \/ inode' = b /\ b \notin Spent /\ b \in Spent'
  <2>1. place[b] \in Unpublished \cup {"mark"} /\ left[b] = <<Store!Origin>> /\ Head(left[b]) = Store!Origin
    BY <1>4 DEF Store!Publish, Store!Exists, Store!ReadMarker, Store!Clear, Store!Rmdir, Store!Replace, Store!Mark
  <2>2. CASE Store!Exists(b)
    BY <1>4, <2>1, <2>2 DEF Store!Exists
  <2>3. CASE Store!ReadMarker(b)
    BY <1>4, <2>1, <2>3 DEF Store!ReadMarker, Store!Published
  <2>4. CASE Store!Clear(b)
    BY <1>4, <2>1, <2>4 DEF Store!Clear
  <2>5. CASE Store!Rmdir(b)
    BY <1>4, <2>1, <2>5 DEF Store!Rmdir
  <2>6. CASE Store!Replace(b)
    <3>1. CASE place'[b] = "mark"
      BY <1>4, <2>1, <2>6, <3>1 DEF Store!Replace
    <3>2. CASE place'[b] # "mark"
      BY <1>4, <2>1, <2>6, <3>2 DEF Store!Replace
    <3> QED
      BY <3>1, <3>2
  <2>7. CASE Store!Mark(b)
    BY <1>4, <2>1, <2>7 DEF Store!Mark, Store!Published
  <2> QED
    BY <1>4, <2>2, <2>3, <2>4, <2>5, <2>6, <2>7 DEF Store!Publish
<1> QED
  BY <1>1, <1>2, <1>3, <1>4 DEF Store!Build

LEMMA BuildKeeps ==
    ASSUME StoreInv, NEW b \in Builders, Store!Build(b)
    PROVE  StoreInv'
<1> USE OpenersAssumption DEF StoreInv
<1>1. /\ DiskShaped'
      /\ Spent \subseteq Spent'
      /\ \/ inode' = inode /\ (disk'[Store!Origin] = "whole" => disk[Store!Origin] = "whole")
         \/ inode' = b /\ b \notin Spent /\ b \in Spent'
      /\ since' = [t \in Threads |-> IF at[t] = "acquire" /\ disk'[Store!Origin] = "whole"
                                    THEN since[t] \cup {inode'} ELSE since[t]]
      /\ UNCHANGED <<envs, shared, lock, closing, at, loc, key, env>>
  BY BuildSteps
<1>2. inode' \in Int /\ Named \subseteq Named'
  BY <1>1 DEF Numbered, Named, Spent, Store!Absent
<1>3. TableShaped'
  BY <1>1 DEF TableShaped
<1>4. ThreadShaped'
  <2>1. \A t \in Threads : since'[t] \in SUBSET Int
    BY <1>1, <1>2 DEF ThreadShaped
  <2> QED
    BY <1>1, <1>2, <2>1 DEF ThreadShaped, Asked
<1>5. Numbered'
  <2>1. inode' \in Spent' \cup {Store!Absent}
    BY <1>1 DEF Numbered
  <2>2. ASSUME NEW e \in DOMAIN envs, envs[e].key = <<Store!Origin, inode'>>, inode' # Store!Absent
        PROVE  envs[e].inode = inode'
    <3>1. inode' \in Named
      BY <2>2 DEF Numbered
    <3>2. inode' = inode
      BY <1>1, <3>1 DEF Named, Store!Absent, Store!Copied
    <3> QED
      BY <2>2, <3>2 DEF Numbered
  <2> QED
    BY <1>1, <1>2, <2>1, <2>2 DEF Numbered
<1>6. Seen'
  <2>1. ASSUME NEW t \in Threads, Store!Absent \notin since'[t]
        PROVE  /\ at[t] = "acquire" =>
                    /\ Store!Found(loc[t])' \in since'[t] \cup {Store!Absent}
                    /\ \A e \in DOMAIN envs : envs[e].key = key[t] => envs[e].inode \in since'[t]
               /\ at[t] \in {"found", "held"} => envs[env[t]].inode \in since'[t]
    <3>1. Store!Absent \notin since[t] /\ since[t] \subseteq since'[t]
      BY <1>1, <2>1
    <3>2. at[t] = "acquire" => Store!Found(loc[t])' \in since'[t] \cup {Store!Absent}
      <4>1. CASE loc[t] = Store!Mirror
        BY <1>1, <3>1, <4>1 DEF Seen, Store!Found
      <4>2. CASE loc[t] # Store!Mirror /\ disk'[Store!Origin] = "whole"
        BY <1>1, <4>2 DEF Store!Found, Store!Ino, Store!Gone
      <4>3. CASE loc[t] # Store!Mirror /\ disk'[Store!Origin] # "whole"
        BY <1>1, <4>3 DEF Store!Found, Store!Ino, Store!Gone
      <4> QED
        BY <4>1, <4>2, <4>3
    <3> QED
      BY <3>1, <3>2 DEF Seen
  <2> QED
    BY <1>1, <2>1 DEF Seen
<1>7. Locked' /\ Counted'
  BY <1>1 DEF Locked, Counted, Holders
<1> QED
  BY <1>1, <1>3, <1>4, <1>5, <1>6, <1>7

LEMMA NamedInts == Named \subseteq Int
<1>1. ASSUME NEW b \in Spent PROVE b \in Int
  <2>1. b \in Nat
    BY OpenersAssumption DEF Spent
  <2> QED
    BY <2>1
<1>2. Store!Absent \in Int /\ Store!Copied \in Int
  BY DEF Store!Absent, Store!Copied
<1> QED
  BY <1>1, <1>2 DEF Named

LEMMA HoldersFinite == \A e : IsFiniteSet(Holders(e)) /\ Cardinality(Holders(e)) \in Nat
<1>1. \A e : Holders(e) \subseteq Threads
  BY DEF Holders
<1> QED
  BY <1>1, OpenersAssumption, FS_Subset, FS_CardinalityType

\* A step of a thread that has no key, before and after.
LEMMA QuietKeeps ==
    ASSUME StoreInv, NEW t \in Threads, NEW to \in {"idle", "check", "stat", "barred"},
           at[t] \notin {"found", "held"}, at' = [at EXCEPT ![t] = to],
           loc' \in [Threads -> Paths], DOMAIN key' = Threads, env' \in [Threads -> Nat],
           since' \in [Threads -> SUBSET Int],
           \A x \in Threads \ {t} : loc'[x] = loc[x] /\ key'[x] = key[x] /\ env'[x] = env[x] /\ since'[x] = since[x],
           UNCHANGED <<disk, marks, place, left, inode, envs, shared, lock, closing>>
    PROVE  StoreInv'
<1> USE DEF StoreInv, ThreadShaped
<1>1. \A x \in Threads : at'[x] \in Asked => x # t /\ at[x] = at'[x]
  BY DEF Asked
<1>2. DiskShaped' /\ TableShaped' /\ Numbered'
  BY DEF DiskShaped, TableShaped, Numbered, Named, Spent
<1>3. ThreadShaped'
  BY <1>1 DEF Asked, Named, Spent
<1>4. Seen'
  BY <1>1 DEF Seen, Asked, Store!Found, Store!Ino, Store!Gone
<1>5. Locked'
  BY <1>1 DEF Locked, Asked
<1>6. \A e : Holders(e)' = Holders(e)
  BY <1>1 DEF Holders, Asked
<1>7. Counted'
  BY <1>6 DEF Counted
<1> QED
  BY <1>2, <1>3, <1>4, <1>5, <1>7

LEMMA AsksKeep ==
    ASSUME StoreInv, NEW t \in Threads,
           Store!Resolve(t) \/ Store!Check(t) \/ Store!Refused(t)
    PROVE  StoreInv'
<1> USE DEF StoreInv, ThreadShaped, Store!Is, Store!Move, Store!Leave, Store!disks, Store!table
<1>1. CASE Store!Resolve(t)
  <2>1. loc' \in [Threads -> Paths]
    BY <1>1 DEF Store!Resolve, Paths
  <2> QED
    BY <1>1, <2>1, QuietKeeps DEF Store!Resolve
<1>2. ASSUME Store!Leave(t), UNCHANGED <<Store!disks, staged, Store!table>>, at[t] \notin {"found", "held"}
      PROVE  StoreInv'
  <2>1. /\ loc' \in [Threads -> Paths] /\ DOMAIN key' = Threads
        /\ env' \in [Threads -> Nat] /\ since' \in [Threads -> SUBSET Int]
    BY <1>2 DEF Paths
  <2> QED
    BY <1>2, <2>1, QuietKeeps
<1>3. CASE Store!Check(t)
  <2>1. CASE disk[Store!Origin] # "absent" /\ Store!IsDone(Store!Origin)
    BY <1>3, <2>1, QuietKeeps DEF Store!Check
  <2> QED
    BY <1>2, <1>3, <2>1 DEF Store!Check
<1>4. CASE Store!Refused(t)
  <2>1. CASE Store!Leave(t)
    BY <1>2, <1>4, <2>1 DEF Store!Refused
  <2>2. CASE Store!Move(t, "barred") /\ UNCHANGED <<loc, key, env, since>>
    BY <1>4, <2>2, QuietKeeps DEF Store!Refused
  <2> QED
    BY <1>4, <2>1, <2>2 DEF Store!Refused
<1> QED
  BY <1>1, <1>3, <1>4

\* The stat: nobody has opened the inode it finds under the key it makes, unless
\* what was opened is that inode.
LEMMA StatKeeps ==
    ASSUME StoreInv, NEW t \in Threads, Store!Stat(t)
    PROVE  StoreInv'
<1> USE DEF StoreInv, ThreadShaped
<1>1. /\ at[t] = "stat" /\ at' = [at EXCEPT ![t] = "acquire"]
      /\ key' = [key EXCEPT ![t] = <<loc[t], Store!Found(loc[t])>>]
      /\ since' = [since EXCEPT ![t] = {Store!Found(loc[t])}]
      /\ UNCHANGED <<disk, marks, place, left, inode, staged, envs, shared, lock, closing, loc, env>>
  BY DEF Store!Stat, Store!Is, Store!Move, Store!KeyOf, Store!disks, Store!table
<1>2. Store!Found(loc[t]) \in Named /\ Store!Found(loc[t]) \in Int
  BY OpenersAssumption DEF Numbered, Named, Spent, Store!Found, Store!Ino, Store!Absent, Store!Copied
<1>3. DiskShaped' /\ TableShaped' /\ Numbered'
  BY <1>1 DEF DiskShaped, TableShaped, Numbered, Named, Spent
<1>4. \A x \in Threads : at'[x] \in {"found", "held"} => x # t /\ at[x] = at'[x]
  BY <1>1
<1>5. ThreadShaped'
  <2>1. since' \in [Threads -> SUBSET Int]
    BY <1>1, <1>2
  <2>2. \A x \in Threads : at'[x] \in Asked => key'[x] \in {loc[x]} \X Named
    BY <1>1, <1>2 DEF Asked
  <2> QED
    BY <1>1, <1>4, <2>1, <2>2 DEF Asked, Named, Spent
<1>6. Seen'
  <2>1. ASSUME NEW e \in DOMAIN envs, envs[e].key = key'[t], Store!Absent \notin since'[t]
        PROVE  envs[e].inode \in since'[t]
    <3>1. envs[e].key = <<loc[t], Store!Found(loc[t])>> /\ since'[t] = {Store!Found(loc[t])}
      BY <1>1, <2>1
    <3>2. envs[e].path = loc[t]
      BY <3>1 DEF Numbered
    <3>3. CASE loc[t] = Store!Mirror
      BY <3>1, <3>2, <3>3 DEF Numbered, Store!Found
    <3>4. CASE loc[t] = Store!Origin
      BY <2>1, <3>1, <3>4 DEF Numbered, Store!Found, Store!Ino, Store!Origin, Store!Mirror
    <3> QED
      BY <3>3, <3>4 DEF Paths
  <2>2. \A x \in Threads \ {t} : at'[x] = at[x] /\ key'[x] = key[x] /\ since'[x] = since[x]
    BY <1>1
  <2>3. \A p : Store!Found(p)' = Store!Found(p)
    BY <1>1 DEF Store!Found, Store!Ino, Store!Gone
  <2>4. Store!Found(loc[t]) \in since'[t]
    BY <1>1
  <2> QED
    BY <1>1, <1>4, <2>1, <2>2, <2>3, <2>4 DEF Seen
<1>7. Locked'
  BY <1>1 DEF Locked
<1>8. \A e : Holders(e)' = Holders(e)
  BY <1>1 DEF Holders
<1>9. Counted'
  BY <1>1, <1>8 DEF Counted
<1> QED
  BY <1>3, <1>5, <1>6, <1>7, <1>9

\* A step that opens nothing and asks nothing: threads find what has their key,
\* hold what they have found, or leave.
LEMMA TableKeeps ==
    ASSUME DiskShaped, TableShaped, ThreadShaped, Numbered, Seen,
           UNCHANGED <<disk, marks, place, left, inode>>,
           DOMAIN envs' = DOMAIN envs,
           \A e \in DOMAIN envs : /\ envs'[e].key = envs[e].key
                                  /\ envs'[e].path = envs[e].path
                                  /\ envs'[e].inode = envs[e].inode,
           at' \in [Threads -> Asked \cup {"idle", "check", "stat", "barred"}],
           loc' \in [Threads -> Paths], DOMAIN key' = Threads, env' \in [Threads -> Nat],
           since' \in [Threads -> SUBSET Int],
           \A x \in Threads : at'[x] \in Asked =>
               /\ loc'[x] = loc[x] /\ key'[x] = key[x] /\ since'[x] = since[x]
               /\ \/ at'[x] = at[x] /\ env'[x] = env[x]
                  \/ at[x] = "found" /\ at'[x] = "held" /\ env'[x] = env[x]
                  \/ /\ at[x] = "acquire" /\ at'[x] = "found"
                     /\ env'[x] \in DOMAIN envs /\ envs[env'[x]].key = key[x]
    PROVE  DiskShaped' /\ ThreadShaped' /\ Numbered' /\ Seen'
<1>1. DiskShaped' /\ Named' = Named /\ Spent' = Spent
  BY DEF DiskShaped, Named, Spent
<1>3. \A x \in Threads : at'[x] \in Asked => at[x] \in Asked
  BY DEF Asked
<1>4. ThreadShaped'
  BY <1>1, <1>3 DEF ThreadShaped
<1>5. Numbered'
  BY <1>1 DEF Numbered
<1>6. ASSUME NEW x \in Threads, Store!Absent \notin since'[x]
      PROVE  /\ at'[x] = "acquire" =>
                  /\ Store!Found(loc[x])' \in since'[x] \cup {Store!Absent}
                  /\ \A e \in DOMAIN envs' : envs'[e].key = key'[x] => envs'[e].inode \in since'[x]
             /\ at'[x] \in {"found", "held"} => envs'[env'[x]].inode \in since'[x]
  <2>1. CASE at'[x] = "acquire"
    <3>1. at[x] = "acquire" /\ loc'[x] = loc[x] /\ key'[x] = key[x] /\ since'[x] = since[x]
      BY <2>1 DEF Asked
    <3>2. Store!Found(loc[x])' = Store!Found(loc[x])
      BY <3>1 DEF Store!Found, Store!Ino, Store!Gone
    <3> QED
      BY <1>6, <2>1, <3>1, <3>2 DEF Seen
  <2>2. CASE at'[x] \in {"found", "held"}
    <3>1. since'[x] = since[x] /\ env'[x] \in DOMAIN envs /\ envs[env'[x]].inode \in since[x]
      BY <1>6, <2>2 DEF Asked, Seen, ThreadShaped
    <3> QED
      BY <2>2, <3>1
  <2> QED
    BY <2>1, <2>2
<1>7. Seen'
  BY <1>6 DEF Seen
<1> QED
  BY <1>1, <1>4, <1>5, <1>7

\* One environment of the table changes its count, or is closed.
LEMMA EnvChanged ==
    ASSUME TableShaped, NEW e \in DOMAIN envs, NEW changed,
           changed \in Environment, changed.key = envs[e].key, changed.path = envs[e].path,
           changed.inode = envs[e].inode, envs' = [envs EXCEPT ![e] = changed]
    PROVE  /\ envs' \in Seq(Environment) /\ DOMAIN envs' = DOMAIN envs
           /\ \A d \in DOMAIN envs : /\ envs'[d].key = envs[d].key
                                     /\ envs'[d].path = envs[d].path
                                     /\ envs'[d].inode = envs[d].inode
                                     /\ d # e => envs'[d] = envs[d]
           /\ envs'[e] = changed
BY DEF TableShaped

\* It is enough to count the one it happens to.
LEMMA CountedStill ==
    ASSUME Counted, NEW e, DOMAIN envs' = DOMAIN envs \cup {e},
           \A d \in DOMAIN envs \ {e} :
               /\ envs'[d] = envs[d] /\ Holders(d)' = Holders(d)
               /\ d \in shared' <=> d \in shared
               /\ d \in closing' <=> d \in closing,
           IF e \in shared'
           THEN /\ envs'[e].open /\ e \notin closing'
                /\ envs'[e].refs = Cardinality(Holders(e)') + envs'[e].dropped
                /\ envs'[e].refs > 0
           ELSE envs'[e].open => e \in closing'
    PROVE  Counted'
<1>1. SUFFICES ASSUME NEW d \in DOMAIN envs'
               PROVE  IF d \in shared'
                      THEN /\ envs'[d].open /\ d \notin closing'
                           /\ envs'[d].refs = Cardinality(Holders(d)') + envs'[d].dropped
                           /\ envs'[d].refs > 0
                      ELSE envs'[d].open => d \in closing'
  BY DEF Counted
<1>2. CASE d = e
  BY <1>2
<1>3. CASE d # e
  <2>1. Holders(d)' = Holders(d) /\ envs'[d] = envs[d] /\ d \in DOMAIN envs
    BY <1>3
  <2>2. Cardinality(Holders(d)') = Cardinality(Holders(d))
    BY <2>1
  <2> QED
    BY <1>3, <2>1, <2>2 DEF Counted
<1> QED
  BY <1>2, <1>3

\* Inside the lock: an entry is found, and then counted. What was found may have
\* been closed in between by the collector; it stays out of the table.
LEMMA LookupKeeps ==
    ASSUME StoreInv, NEW t \in Threads, Store!Lookup(t)
    PROVE  StoreInv'
<1> USE DEF StoreInv
<1>1. /\ at[t] = "acquire" /\ lock = 0 /\ lock' = t /\ at' = [at EXCEPT ![t] = "found"]
      /\ UNCHANGED <<disk, marks, place, left, inode, envs, shared, closing, loc, key, since>>
  BY DEF Store!Lookup, Store!Is, Store!Move, Store!disks
<1>2. PICK e \in shared : envs[e].key = key[t] /\ env' = [env EXCEPT ![t] = e]
  BY DEF Store!Lookup, Store!Entry
<1>3. e \in DOMAIN envs /\ e \in Nat
  BY <1>2 DEF TableShaped
<1>4. DiskShaped' /\ ThreadShaped' /\ Numbered' /\ Seen'
  BY <1>1, <1>2, <1>3, TableKeeps DEF ThreadShaped, Asked
<1>5. TableShaped'
  BY <1>1 DEF TableShaped
<1>6. Locked'
  BY <1>1, OpenersAssumption DEF Locked, ThreadShaped
<1>7. \A d : Holders(d)' = Holders(d)
  BY <1>1, <1>2 DEF Holders, ThreadShaped
<1>8. Counted'
  BY <1>1, <1>7 DEF Counted
<1> QED
  BY <1>4, <1>5, <1>6, <1>8

LEMMA CountKeeps ==
    ASSUME StoreInv, NEW t \in Threads, Store!Count(t)
    PROVE  StoreInv'
<1> USE DEF StoreInv
<1>1. /\ at[t] = "found" /\ lock' = 0 /\ at' = [at EXCEPT ![t] = "held"]
      /\ UNCHANGED <<disk, marks, place, left, inode, shared, closing, loc, key, env, since>>
      /\ envs' = [envs EXCEPT ![env[t]].refs = @ + 1]
  BY DEF Store!Count, Store!Is, Store!Move, Store!disks
<1>2. PICK e \in DOMAIN envs : e = env[t]
  BY <1>1 DEF ThreadShaped
<1>3. envs[e] \in Environment /\ lock = t
  BY <1>1 DEF TableShaped, Locked
<1> DEFINE changed == [envs[e] EXCEPT !.refs = @ + 1]
<1>4. /\ changed \in Environment /\ changed.key = envs[e].key /\ changed.path = envs[e].path
      /\ changed.inode = envs[e].inode /\ changed.refs = envs[e].refs + 1
      /\ changed.dropped = envs[e].dropped /\ changed.open = envs[e].open
  BY <1>3 DEF Environment
<1>5. envs' = [envs EXCEPT ![e] = changed]
  BY <1>1, <1>2
<1> HIDE DEF changed
<1>6. /\ envs' \in Seq(Environment) /\ DOMAIN envs' = DOMAIN envs
      /\ \A d \in DOMAIN envs : /\ envs'[d].key = envs[d].key
                                /\ envs'[d].path = envs[d].path
                                /\ envs'[d].inode = envs[d].inode
                                /\ d # e => envs'[d] = envs[d]
      /\ envs'[e] = changed
  BY <1>4, <1>5, EnvChanged
<1>7. DiskShaped' /\ ThreadShaped' /\ Numbered' /\ Seen'
  BY <1>1, <1>6, TableKeeps DEF ThreadShaped, Asked
<1>8. TableShaped'
  BY <1>1, <1>6 DEF TableShaped
<1>9. Locked'
  BY <1>1, <1>3, OpenersAssumption DEF Locked, ThreadShaped
<1>10. /\ Holders(e)' = Holders(e) \cup {t} /\ t \notin Holders(e)
       /\ \A d : d # e => Holders(d)' = Holders(d)
  BY <1>1, <1>2 DEF Holders, ThreadShaped
<1>11. Cardinality(Holders(e)') = Cardinality(Holders(e)) + 1 /\ Cardinality(Holders(e)) \in Nat
  BY <1>10, HoldersFinite, FS_AddElement
<1>12. IF e \in shared
       THEN /\ envs'[e].open /\ e \notin closing
            /\ envs'[e].refs = Cardinality(Holders(e)') + envs'[e].dropped
            /\ envs'[e].refs > 0
       ELSE envs'[e].open => e \in closing
  <2>1. IF e \in shared
        THEN envs[e].open /\ e \notin closing /\ envs[e].refs = Cardinality(Holders(e)) + envs[e].dropped
        ELSE envs[e].open => e \in closing
    BY DEF Counted
  <2>2. envs[e].dropped \in Nat
    BY <1>3 DEF Environment
  <2>3. envs'[e].refs = envs[e].refs + 1 /\ envs'[e].dropped = envs[e].dropped /\ envs'[e].open = envs[e].open
    BY <1>4, <1>6
  <2> QED
    BY <1>11, <2>1, <2>2, <2>3
<1>13. Counted'
  <2>1. DOMAIN envs' = DOMAIN envs \cup {e}
    BY <1>6
  <2>2. \A d \in DOMAIN envs \ {e} :
           /\ envs'[d] = envs[d] /\ Holders(d)' = Holders(d)
           /\ d \in shared' <=> d \in shared
           /\ d \in closing' <=> d \in closing
    BY <1>1, <1>6, <1>10
  <2> QED
    BY <1>1, <1>12, <2>1, <2>2, CountedStill
<1> QED
  BY <1>7, <1>8, <1>9, <1>13

\* A new environment is of the inode that is under the path, which whoever waits
\* with the same key has seen as well.
LEMMA OpenKeeps ==
    ASSUME StoreInv, NEW t \in Threads, Store!Open(t)
    PROVE  StoreInv'
<1> USE DEF StoreInv
<1> DEFINE ino == Store!Found(loc[t])
           new == [key |-> key[t], path |-> loc[t], inode |-> ino, open |-> TRUE, refs |-> 1, dropped |-> 0]
<1>1. /\ at[t] = "acquire" /\ lock = 0 /\ at' = [at EXCEPT ![t] = "held"]
      /\ ino # Store!Absent
      /\ envs' = Append(envs, new) /\ shared' = shared \cup {Len(envs')} /\ env' = [env EXCEPT ![t] = Len(envs')]
      /\ UNCHANGED <<disk, marks, place, left, inode, lock, closing, loc, key, since>>
  BY DEF Store!Open, Store!Is, Store!Move, Store!disks
<1>2. PICK top \in Nat : top = Len(envs) + 1
  BY DEF TableShaped
<1>3. /\ ino \in Named /\ ino \in Int /\ loc[t] \in Paths
      /\ key[t] \in {loc[t]} \X Named /\ key[t] \in Paths \X Int
  <2>1. Named \subseteq Int
    BY NamedInts
  <2>2. ino \in Named
    BY DEF Numbered, Named, Store!Found, Store!Ino
  <2>3. loc[t] \in Paths /\ key[t] \in {loc[t]} \X Named
    BY <1>1 DEF ThreadShaped, Asked
  <2> QED
    BY <2>1, <2>2, <2>3
<1>4. new \in Environment /\ new.key = key[t] /\ new.path = loc[t] /\ new.inode = ino
      /\ new.open /\ new.refs = 1 /\ new.dropped = 0
  <2> HIDE DEF ino
  <2> QED
    BY <1>3 DEF Environment
<1> HIDE DEF new
<1>5. /\ envs' \in Seq(Environment) /\ DOMAIN envs' = DOMAIN envs \cup {top} /\ top \notin DOMAIN envs
      /\ \A d \in DOMAIN envs : envs'[d] = envs[d]
      /\ envs'[top] = new /\ Len(envs') = top
  BY <1>1, <1>2, <1>4 DEF TableShaped
<1>6. DiskShaped' /\ Named' = Named /\ Spent' = Spent
  BY <1>1 DEF DiskShaped, Named, Spent
<1>7. TableShaped'
  BY <1>1, <1>5 DEF TableShaped
<1>8. \A x \in Threads : x # t => at'[x] = at[x] /\ env'[x] = env[x]
  BY <1>1 DEF ThreadShaped
<1>9. at'[t] = "held" /\ env'[t] = top
  BY <1>1, <1>5 DEF ThreadShaped
<1>10. ThreadShaped'
  <2>1. env' \in [Threads -> Nat] /\ at' \in [Threads -> Asked \cup {"idle", "check", "stat", "barred"}]
    BY <1>1, <1>5 DEF ThreadShaped, Asked
  <2>2. \A x \in Threads : at'[x] \in Asked => key[x] \in {loc[x]} \X Named
    BY <1>1, <1>8 DEF ThreadShaped, Asked
  <2>3. \A x \in Threads : at'[x] \in {"found", "held"} => env'[x] \in DOMAIN envs'
    BY <1>5, <1>8, <1>9 DEF ThreadShaped
  <2> QED
    BY <1>1, <1>6, <2>1, <2>2, <2>3 DEF ThreadShaped
<1>11. Numbered'
  <2>1. new.key = <<Store!Origin, inode>> /\ inode # Store!Absent => new.inode = inode
    BY <1>1, <1>3, <1>4 DEF Store!Found, Store!Ino, Store!Origin, Store!Mirror
  <2>2. new.path = Store!Mirror => new.inode = Store!Copied
    BY <1>4 DEF Store!Found
  <2>3. \A e \in DOMAIN envs' :
            /\ envs'[e].key \in {envs'[e].path} \X Named
            /\ envs'[e].path = Store!Mirror => envs'[e].inode = Store!Copied
            /\ envs'[e].key = <<Store!Origin, inode>> /\ inode # Store!Absent => envs'[e].inode = inode
    BY <1>3, <1>4, <1>5, <2>1, <2>2 DEF Numbered
  <2> QED
    BY <1>1, <1>6, <2>3 DEF Numbered
<1>12. Seen'
  <2>1. ASSUME NEW x \in Threads, Store!Absent \notin since[x], at[x] = "acquire", key[x] = key[t]
        PROVE  ino \in since[x]
    <3>1. loc[x] = loc[t]
      BY <1>1, <2>1 DEF ThreadShaped, Asked
    <3> QED
      BY <1>1, <2>1, <3>1 DEF Seen
  <2>2. ASSUME NEW x \in Threads, Store!Absent \notin since[x]
        PROVE  /\ at'[x] = "acquire" =>
                    /\ Store!Found(loc[x])' \in since[x] \cup {Store!Absent}
                    /\ \A e \in DOMAIN envs' : envs'[e].key = key[x] => envs'[e].inode \in since[x]
               /\ at'[x] \in {"found", "held"} => envs'[env'[x]].inode \in since[x]
    <3>1. Store!Found(loc[x])' = Store!Found(loc[x])
      BY <1>1 DEF Store!Found, Store!Ino, Store!Gone
    <3>2. CASE x = t
      BY <1>1, <1>4, <1>5, <1>9, <2>1, <2>2, <3>2
    <3>3. CASE x # t
      <4>1. at'[x] = at[x] /\ env'[x] = env[x]
        BY <1>8, <3>3
      <4>2. \A e \in DOMAIN envs' : at[x] = "acquire" /\ envs'[e].key = key[x] => envs'[e].inode \in since[x]
        BY <1>4, <1>5, <2>1, <2>2 DEF Seen
      <4>3. at[x] \in {"found", "held"} => envs'[env[x]].inode \in since[x]
        BY <1>5, <2>2 DEF Seen, ThreadShaped
      <4> QED
        BY <2>2, <3>1, <4>1, <4>2, <4>3 DEF Seen
    <3> QED
      BY <3>2, <3>3
  <2> QED
    BY <1>1, <2>2 DEF Seen
<1>13. Locked'
  BY <1>1, OpenersAssumption DEF Locked, ThreadShaped
<1>14. Counted'
  <2>1. Holders(top)' = {t} /\ \A d \in DOMAIN envs : Holders(d)' = Holders(d)
    BY <1>1, <1>5, <1>8, <1>9 DEF Holders, ThreadShaped
  <2>2. Cardinality(Holders(top)') = 1
    BY <2>1, FS_Singleton
  <2>3. top \in shared' /\ top \notin closing' /\ \A d \in DOMAIN envs : d \in shared' <=> d \in shared
    BY <1>1, <1>5 DEF TableShaped
  <2>4. /\ envs'[top].open /\ envs'[top].refs = Cardinality(Holders(top)') + envs'[top].dropped
        /\ envs'[top].refs > 0
    BY <1>4, <1>5, <2>2
  <2>5. \A d \in DOMAIN envs \ {top} :
           /\ envs'[d] = envs[d] /\ Holders(d)' = Holders(d)
           /\ d \in shared' <=> d \in shared
           /\ d \in closing' <=> d \in closing
    BY <1>1, <1>5, <2>1, <2>3
  <2> QED
    BY <1>5, <2>3, <2>4, <2>5, CountedStill
<1> QED
  BY <1>6, <1>7, <1>10, <1>11, <1>12, <1>13, <1>14

\* A handle leaves its environment; the last one takes it out of the table.
LEMMA LeaveMoves ==
    ASSUME ThreadShaped, NEW t \in Threads, Store!Leave(t)
    PROVE  /\ at' \in [Threads -> Asked \cup {"idle", "check", "stat", "barred"}]
           /\ loc' \in [Threads -> Paths] /\ DOMAIN key' = Threads /\ env' \in [Threads -> Nat]
           /\ since' \in [Threads -> SUBSET Int]
           /\ at'[t] = "idle"
           /\ \A x \in Threads \ {t} : /\ at'[x] = at[x] /\ loc'[x] = loc[x] /\ key'[x] = key[x]
                                       /\ env'[x] = env[x] /\ since'[x] = since[x]
BY DEF ThreadShaped, Store!Leave, Paths

LEMMA CloseKeeps ==
    ASSUME StoreInv, NEW t \in Threads, Store!Close(t)
    PROVE  StoreInv'
<1> USE DEF StoreInv
<1>1. /\ at[t] = "held" /\ lock = 0 /\ Store!Release(env[t]) /\ Store!Leave(t)
      /\ UNCHANGED <<disk, marks, place, left, inode, lock>>
  BY DEF Store!Close, Store!Is, Store!disks
<1>2. PICK e \in DOMAIN envs : e = env[t]
  BY <1>1 DEF ThreadShaped
<1>3. envs[e] \in Environment
  BY DEF TableShaped
<1>4. /\ at' \in [Threads -> Asked \cup {"idle", "check", "stat", "barred"}]
      /\ loc' \in [Threads -> Paths] /\ DOMAIN key' = Threads /\ env' \in [Threads -> Nat]
      /\ since' \in [Threads -> SUBSET Int]
      /\ at'[t] = "idle"
      /\ \A x \in Threads \ {t} : /\ at'[x] = at[x] /\ loc'[x] = loc[x] /\ key'[x] = key[x]
                                  /\ env'[x] = env[x] /\ since'[x] = since[x]
  BY <1>1, LeaveMoves
<1>5. /\ Holders(e)' = Holders(e) \ {t} /\ t \in Holders(e)
      /\ \A d : d # e => Holders(d)' = Holders(d)
  BY <1>1, <1>2, <1>4 DEF Holders
<1>6. Cardinality(Holders(e)') = Cardinality(Holders(e)) - 1 /\ Cardinality(Holders(e)) \in Nat
  BY <1>5, HoldersFinite, FS_RemoveElement
<1> DEFINE fewer == envs[e].refs - 1
           changed == IF e \in shared THEN [envs[e] EXCEPT !.refs = fewer] ELSE envs[e]
<1>7. /\ shared' = IF e \notin shared \/ fewer = 0 THEN shared \ {e} ELSE shared
      /\ closing' = IF e \notin shared \/ fewer = 0 THEN closing \cup {e} ELSE closing
      /\ envs' = IF e \in shared THEN [envs EXCEPT ![e].refs = fewer] ELSE envs
  BY <1>1, <1>2 DEF Store!Release, Store!LastGone
<1>8. /\ changed \in Environment /\ changed.key = envs[e].key /\ changed.path = envs[e].path
      /\ changed.inode = envs[e].inode /\ changed.dropped = envs[e].dropped /\ changed.open = envs[e].open
      /\ e \in shared => changed.refs = fewer
  BY <1>3 DEF Environment
<1>9. envs' = [envs EXCEPT ![e] = changed]
  <2>1. CASE e \in shared
    BY <1>7, <2>1
  <2>2. CASE e \notin shared
    BY <1>7, <2>2 DEF TableShaped
  <2> QED
    BY <2>1, <2>2
<1>10. fewer \in Int /\ envs[e].refs = fewer + 1 /\ envs[e].dropped \in Nat
  BY <1>3 DEF Environment
<1> HIDE DEF changed, fewer
<1>11. /\ envs' \in Seq(Environment) /\ DOMAIN envs' = DOMAIN envs
       /\ \A d \in DOMAIN envs : /\ envs'[d].key = envs[d].key
                                 /\ envs'[d].path = envs[d].path
                                 /\ envs'[d].inode = envs[d].inode
                                 /\ d # e => envs'[d] = envs[d]
       /\ envs'[e] = changed
  BY <1>8, <1>9, EnvChanged
<1>12. DiskShaped' /\ ThreadShaped' /\ Numbered' /\ Seen'
  <2>1. \A x \in Threads : at'[x] \in Asked =>
            /\ loc'[x] = loc[x] /\ key'[x] = key[x] /\ since'[x] = since[x]
            /\ at'[x] = at[x] /\ env'[x] = env[x]
    BY <1>4 DEF Asked
  <2> QED
    BY <1>1, <1>4, <1>11, <2>1, TableKeeps
<1>13. TableShaped'
  BY <1>1, <1>7, <1>11 DEF TableShaped
<1>14. Locked'
  BY <1>1, <1>4, OpenersAssumption DEF Locked
<1>15. Counted'
  <2>1. \A d \in DOMAIN envs \ {e} :
           /\ envs'[d] = envs[d] /\ Holders(d)' = Holders(d)
           /\ d \in shared' <=> d \in shared
           /\ d \in closing' <=> d \in closing
    BY <1>5, <1>7, <1>11
  <2>2. IF e \in shared
        THEN /\ envs[e].open /\ e \notin closing /\ envs[e].refs > 0
             /\ envs[e].refs = Cardinality(Holders(e)) + envs[e].dropped
        ELSE envs[e].open => e \in closing
    BY DEF Counted
  <2>3. CASE e \in shared /\ fewer # 0
    <3>1. e \in shared' /\ e \notin closing'
      BY <1>7, <2>2, <2>3
    <3>2. envs'[e].refs = Cardinality(Holders(e)') + envs'[e].dropped /\ envs'[e].refs > 0 /\ envs'[e].open
      BY <1>6, <1>8, <1>10, <1>11, <2>2, <2>3
    <3> QED
      BY <1>11, <2>1, <3>1, <3>2, CountedStill
  <2>4. CASE ~(e \in shared /\ fewer # 0)
    <3>1. e \notin shared' /\ e \in closing'
      BY <1>7, <2>4
    <3> QED
      BY <1>11, <2>1, <3>1, CountedStill
  <2> QED
    BY <2>3, <2>4
<1> QED
  BY <1>12, <1>13, <1>14, <1>15

\* A handle that is only dropped goes on counting until the collector runs.
LEMMA DropKeeps ==
    ASSUME StoreInv, NEW t \in Threads, Store!Drop(t)
    PROVE  StoreInv'
<1> USE DEF StoreInv
<1>1. /\ at[t] = "held" /\ Store!Leave(t)
      /\ envs' = [envs EXCEPT ![env[t]].dropped = @ + 1]
      /\ UNCHANGED <<disk, marks, place, left, inode, shared, lock, closing>>
  BY DEF Store!Drop, Store!Is, Store!disks
<1>2. PICK e \in DOMAIN envs : e = env[t]
  BY <1>1 DEF ThreadShaped
<1>3. envs[e] \in Environment
  BY DEF TableShaped
<1>4. /\ at' \in [Threads -> Asked \cup {"idle", "check", "stat", "barred"}]
      /\ loc' \in [Threads -> Paths] /\ DOMAIN key' = Threads /\ env' \in [Threads -> Nat]
      /\ since' \in [Threads -> SUBSET Int]
      /\ at'[t] = "idle"
      /\ \A x \in Threads \ {t} : /\ at'[x] = at[x] /\ loc'[x] = loc[x] /\ key'[x] = key[x]
                                  /\ env'[x] = env[x] /\ since'[x] = since[x]
  BY <1>1, LeaveMoves
<1>5. /\ Holders(e)' = Holders(e) \ {t} /\ t \in Holders(e)
      /\ \A d : d # e => Holders(d)' = Holders(d)
  BY <1>1, <1>2, <1>4 DEF Holders
<1>6. Cardinality(Holders(e)') = Cardinality(Holders(e)) - 1 /\ Cardinality(Holders(e)) \in Nat
  BY <1>5, HoldersFinite, FS_RemoveElement
<1> DEFINE changed == [envs[e] EXCEPT !.dropped = @ + 1]
<1>7. /\ changed \in Environment /\ changed.key = envs[e].key /\ changed.path = envs[e].path
      /\ changed.inode = envs[e].inode /\ changed.dropped = envs[e].dropped + 1
      /\ changed.open = envs[e].open /\ changed.refs = envs[e].refs
  BY <1>3 DEF Environment
<1>8. envs' = [envs EXCEPT ![e] = changed]
  BY <1>1, <1>2
<1> HIDE DEF changed
<1>9. /\ envs' \in Seq(Environment) /\ DOMAIN envs' = DOMAIN envs
      /\ \A d \in DOMAIN envs : /\ envs'[d].key = envs[d].key
                                /\ envs'[d].path = envs[d].path
                                /\ envs'[d].inode = envs[d].inode
                                /\ d # e => envs'[d] = envs[d]
      /\ envs'[e] = changed
  BY <1>7, <1>8, EnvChanged
<1>10. DiskShaped' /\ ThreadShaped' /\ Numbered' /\ Seen'
  <2>1. \A x \in Threads : at'[x] \in Asked =>
            /\ loc'[x] = loc[x] /\ key'[x] = key[x] /\ since'[x] = since[x]
            /\ at'[x] = at[x] /\ env'[x] = env[x]
    BY <1>4 DEF Asked
  <2> QED
    BY <1>1, <1>4, <1>9, <2>1, TableKeeps
<1>11. TableShaped'
  BY <1>1, <1>9 DEF TableShaped
<1>12. Locked'
  BY <1>1, <1>4 DEF Locked
<1>13. Counted'
  <2>1. \A d \in DOMAIN envs \ {e} :
           /\ envs'[d] = envs[d] /\ Holders(d)' = Holders(d)
           /\ d \in shared' <=> d \in shared
           /\ d \in closing' <=> d \in closing
    BY <1>1, <1>5, <1>9
  <2>2. IF e \in shared
        THEN /\ envs[e].open /\ e \notin closing /\ envs[e].refs > 0
             /\ envs[e].refs = Cardinality(Holders(e)) + envs[e].dropped
        ELSE envs[e].open => e \in closing
    BY DEF Counted
  <2>3. envs[e].refs \in Int /\ envs[e].dropped \in Nat
    BY <1>3 DEF Environment
  <2>4. /\ envs'[e].dropped = envs[e].dropped + 1
        /\ envs'[e].open = envs[e].open /\ envs'[e].refs = envs[e].refs
    BY <1>7, <1>9
  <2>5. IF e \in shared
        THEN /\ envs'[e].open /\ e \notin closing
             /\ envs'[e].refs = Cardinality(Holders(e)') + envs'[e].dropped
             /\ envs'[e].refs > 0
        ELSE envs'[e].open => e \in closing
    BY <1>6, <2>2, <2>3, <2>4
  <2>6. DOMAIN envs' = DOMAIN envs \cup {e}
    BY <1>9
  <2> QED
    BY <1>1, <2>1, <2>5, <2>6, CountedStill
<1> QED
  BY <1>10, <1>11, <1>12, <1>13

\* What threads are about does not change when an environment is closed or a
\* dropped handle is collected.
LEMMA ElsewhereKeeps ==
    ASSUME StoreInv, NEW e \in DOMAIN envs, NEW changed,
           changed \in Environment, changed.key = envs[e].key, changed.path = envs[e].path,
           changed.inode = envs[e].inode, envs' = [envs EXCEPT ![e] = changed],
           shared' \in SUBSET shared, closing' \in SUBSET (closing \cup {e}),
           \A d \in DOMAIN envs \ {e} : (d \in shared' <=> d \in shared) /\ (d \in closing' <=> d \in closing),
           IF e \in shared'
           THEN /\ changed.open /\ e \notin closing'
                /\ changed.refs = Cardinality(Holders(e)) + changed.dropped
                /\ changed.refs > 0
           ELSE changed.open => e \in closing',
           UNCHANGED <<disk, marks, place, left, inode, lock, at, loc, key, env, since>>
    PROVE  StoreInv'
<1> USE DEF StoreInv
<1>1. /\ envs' \in Seq(Environment) /\ DOMAIN envs' = DOMAIN envs
      /\ \A d \in DOMAIN envs : /\ envs'[d].key = envs[d].key
                                /\ envs'[d].path = envs[d].path
                                /\ envs'[d].inode = envs[d].inode
                                /\ d # e => envs'[d] = envs[d]
      /\ envs'[e] = changed
  BY EnvChanged
<1>2. DiskShaped' /\ ThreadShaped' /\ Numbered' /\ Seen'
  BY <1>1, TableKeeps DEF ThreadShaped
<1>3. TableShaped'
  BY <1>1 DEF TableShaped
<1>4. Locked'
  BY DEF Locked
<1>5. \A d : Holders(d)' = Holders(d)
  BY DEF Holders
<1>6. Counted'
  <2>1. \A d \in DOMAIN envs \ {e} :
           /\ envs'[d] = envs[d] /\ Holders(d)' = Holders(d)
           /\ d \in shared' <=> d \in shared
           /\ d \in closing' <=> d \in closing
    BY <1>1, <1>5
  <2>2. DOMAIN envs' = DOMAIN envs \cup {e}
    BY <1>1
  <2>3. Cardinality(Holders(e)') = Cardinality(Holders(e))
    BY <1>5
  <2> QED
    BY <1>1, <2>1, <2>2, <2>3, CountedStill
<1> QED
  BY <1>2, <1>3, <1>4, <1>6

LEMMA CloseEnvKeeps ==
    ASSUME StoreInv, NEW e \in DOMAIN envs, Store!CloseEnv(e)
    PROVE  StoreInv'
<1>1. /\ e \in closing /\ envs' = [envs EXCEPT ![e].open = FALSE] /\ closing' = closing \ {e}
      /\ UNCHANGED <<disk, marks, place, left, inode, shared, lock, at, loc, key, env, since>>
  BY DEF Store!CloseEnv, Store!disks, Store!threads
<1>2. envs[e] \in Environment /\ e \notin shared
  BY <1>1 DEF StoreInv, TableShaped, Counted
<1> DEFINE changed == [envs[e] EXCEPT !.open = FALSE]
<1>3. /\ changed \in Environment /\ changed.key = envs[e].key /\ changed.path = envs[e].path
      /\ changed.inode = envs[e].inode /\ ~changed.open
  BY <1>2 DEF Environment
<1>4. envs' = [envs EXCEPT ![e] = changed]
  BY <1>1
<1> HIDE DEF changed
<1> QED
  BY <1>1, <1>2, <1>3, <1>4, ElsewhereKeeps

LEMMA CollectKeeps ==
    ASSUME StoreInv, NEW e \in DOMAIN envs, Store!Collect(e)
    PROVE  StoreInv'
<1> DEFINE old  == envs[e]
           last == e \notin shared \/ old.refs - 1 = 0
           stays == old.open /\ ~(last /\ lock # 0)
           changed == [key |-> old.key, path |-> old.path, inode |-> old.inode, open |-> stays,
                       refs |-> IF e \in shared THEN old.refs - 1 ELSE old.refs, dropped |-> old.dropped - 1]
<1>1. /\ old.dropped > 0
      /\ envs' = [envs EXCEPT ![e].dropped = @ - 1, ![e].refs = IF e \in shared THEN @ - 1 ELSE @,
                              ![e].open = @ /\ ~(last /\ lock # 0)]
      /\ shared' = IF last THEN shared \ {e} ELSE shared
      /\ closing' = IF last /\ lock = 0 THEN closing \cup {e} ELSE closing
      /\ UNCHANGED <<disk, marks, place, left, inode, lock, at, loc, key, env, since>>
  BY DEF Store!Collect, Store!LastGone, Store!disks, Store!threads
<1>2. old \in Environment
  BY DEF StoreInv, TableShaped
<1>3. /\ changed \in Environment /\ changed.key = old.key /\ changed.path = old.path
      /\ changed.inode = old.inode
  BY <1>1, <1>2 DEF Environment
<1>4. envs' = [envs EXCEPT ![e] = changed]
  <2>1. envs' = [envs EXCEPT ![e] = [[[old EXCEPT !.dropped = @ - 1] EXCEPT !.refs = IF e \in shared THEN @ - 1 ELSE @]
                                       EXCEPT !.open = @ /\ ~(last /\ lock # 0)]]
    <3> HIDE DEF last
    <3> QED
      BY <1>1
  <2>2. \A v : [[[old EXCEPT !.dropped = @ - 1] EXCEPT !.refs = IF e \in shared THEN @ - 1 ELSE @] EXCEPT !.open = v]
                 = [key |-> old.key, path |-> old.path, inode |-> old.inode, open |-> v,
                    refs |-> IF e \in shared THEN old.refs - 1 ELSE old.refs, dropped |-> old.dropped - 1]
    <3> DEFINE one == [old EXCEPT !.dropped = @ - 1]
               two == [one EXCEPT !.refs = IF e \in shared THEN @ - 1 ELSE @]
    <3> HIDE DEF last, old
    <3>1. one = [key |-> old.key, path |-> old.path, inode |-> old.inode, open |-> old.open,
                 refs |-> old.refs, dropped |-> old.dropped - 1]
      BY <1>2 DEF Environment
    <3> HIDE DEF one
    <3>2. two = [key |-> old.key, path |-> old.path, inode |-> old.inode, open |-> old.open,
                 refs |-> IF e \in shared THEN old.refs - 1 ELSE old.refs, dropped |-> old.dropped - 1]
      BY <3>1
    <3> HIDE DEF two
    <3>3. \A v : [two EXCEPT !.open = v]
                 = [key |-> old.key, path |-> old.path, inode |-> old.inode, open |-> v,
                    refs |-> IF e \in shared THEN old.refs - 1 ELSE old.refs, dropped |-> old.dropped - 1]
      BY <3>2
    <3> QED
      BY <3>3, Zenon DEF two, one
  <2>3. [[[old EXCEPT !.dropped = @ - 1] EXCEPT !.refs = IF e \in shared THEN @ - 1 ELSE @]
            EXCEPT !.open = @ /\ ~(last /\ lock # 0)]
          = [[[old EXCEPT !.dropped = @ - 1] EXCEPT !.refs = IF e \in shared THEN @ - 1 ELSE @] EXCEPT !.open = stays]
    <3> DEFINE inner == [[old EXCEPT !.dropped = @ - 1] EXCEPT !.refs = IF e \in shared THEN @ - 1 ELSE @]
    <3> HIDE DEF last, old
    <3>1. inner.open = old.open
      BY <1>2 DEF Environment
    <3> HIDE DEF inner
    <3>2. [inner EXCEPT !.open = @ /\ ~(last /\ lock # 0)] = [inner EXCEPT !.open = stays]
      BY <3>1, Zenon
    <3> QED
      BY <3>2 DEF inner
  <2> QED
    BY <2>1, <2>2, <2>3
<1>5. IF e \in shared
      THEN /\ old.open /\ e \notin closing /\ old.refs > 0
           /\ old.refs = Cardinality(Holders(e)) + old.dropped
      ELSE old.open => e \in closing
  BY DEF StoreInv, Counted
<1>6. Cardinality(Holders(e)) \in Nat /\ old.refs \in Int /\ old.dropped \in Nat
  BY <1>2, HoldersFinite DEF Environment
<1>7. IF e \in shared'
      THEN /\ changed.open /\ e \notin closing'
           /\ changed.refs = Cardinality(Holders(e)) + changed.dropped
           /\ changed.refs > 0
      ELSE changed.open => e \in closing'
  <2>1. CASE last
    <3>1. e \notin shared'
      BY <1>1, <2>1
    <3>2. lock = 0 => e \in closing'
      BY <1>1, <2>1
    <3>3. lock # 0 => ~changed.open
      BY <2>1
    <3> QED
      BY <3>1, <3>2, <3>3
  <2>2. CASE ~last
    <3>1. e \in shared /\ shared' = shared /\ closing' = closing /\ old.refs - 1 # 0
      BY <1>1, <2>2
    <3>2. changed.open = old.open /\ changed.refs = old.refs - 1 /\ changed.dropped = old.dropped - 1
      BY <1>2, <2>2, <3>1 DEF Environment
    <3> HIDE DEF old, changed, last
    <3> QED
      BY <1>1, <1>5, <1>6, <3>1, <3>2
  <2> QED
    BY <2>1, <2>2
<1>8. /\ shared' \in SUBSET shared /\ closing' \in SUBSET (closing \cup {e})
      /\ \A d \in DOMAIN envs \ {e} : (d \in shared' <=> d \in shared) /\ (d \in closing' <=> d \in closing)
  BY <1>1
<1> HIDE DEF changed, last, old
<1>9. changed.key = envs[e].key /\ changed.path = envs[e].path /\ changed.inode = envs[e].inode
  BY <1>3 DEF old
<1> QED
  BY <1>1, <1>3, <1>4, <1>7, <1>8, <1>9, ElsewhereKeeps

LEMMA StoreInductive == StoreInv /\ [MCNext]_<<machine, vars, chunkVars, storeVars, cellVars>> => StoreInv'
<1> SUFFICES ASSUME StoreInv, [MCNext]_<<machine, vars, chunkVars, storeVars, cellVars>> PROVE StoreInv'
  OBVIOUS
<1>1. CASE UNCHANGED storeVars
  <2>1. UNCHANGED <<disk, marks, place, left, inode, envs, shared, lock, closing, at, loc, key, env, since>>
    BY <1>1 DEF storeVars
  <2>2. \A d : Holders(d)' = Holders(d)
    BY <2>1 DEF Holders
  <2> QED
    BY <2>1, <2>2 DEF StoreInv, DiskShaped, TableShaped, ThreadShaped, Numbered, Named, Spent, Seen, Locked, Counted,
       Store!Found, Store!Ino, Store!Gone
<1>2. CASE Store!Next
  <2>1. CASE \E b \in Builders : Store!Build(b)
    BY <2>1, BuildKeeps
  <2>2. CASE \E t \in Threads : Store!Thread(t)
    BY <2>2, AsksKeep, StatKeeps, LookupKeeps, CountKeeps, OpenKeeps, CloseKeeps, DropKeeps DEF Store!Thread
  <2>3. CASE \E e \in DOMAIN envs : Store!CloseEnv(e) \/ Store!Collect(e)
    BY <2>3, CloseEnvKeeps, CollectKeeps
  <2> QED
    BY <1>2, <2>1, <2>2, <2>3 DEF Store!Next
<1>3. UNCHANGED storeVars \/ Store!Next
  BY DEF MCNext, QueueRuns, ChunkRuns, StoreRuns, CellRuns
<1> QED
  BY <1>1, <1>2, <1>3

LEMMA StoreAlways == MCSpec => []StoreInv
BY StoreInitial, StoreInductive, PTL DEF MCSpec

\* However often the directory is replaced, whoever opens it and whatever the
\* collector does: a handle reads what was under the path at some moment since
\* it asked (_env_key, _acquire_env, _release_env).
THEOREM HandlesReadFresh == MCSpec => []FreshRead
<1>1. StoreInv => FreshRead
  BY DEF StoreInv, Seen, FreshRead, Store!FreshRead
<1> QED
  BY <1>1, StoreAlways, PTL

\* An environment that is open has a handle, or one in garbage, or is about to be
\* closed (_release_env, LmdbPassageStore.__del__).
THEOREM NoneOutlives == MCSpec => []NoLeak
<1>1. StoreInv => NoLeak
  <2> SUFFICES ASSUME StoreInv, NEW e \in DOMAIN envs, envs[e].open, e \notin closing, ~(envs[e].dropped > 0)
               PROVE  \E t \in Threads : at[t] \in {"found", "held"} /\ env[t] = e
    BY DEF NoLeak, Store!NoLeak
  <2>1. envs[e].refs = Cardinality(Holders(e)) + envs[e].dropped /\ envs[e].refs > 0
    BY DEF StoreInv, Counted
  <2>2. envs[e].dropped = 0
    <3>1. envs[e] \in Environment
      BY DEF StoreInv, TableShaped
    <3> QED
      BY <3>1 DEF Environment
  <2>3. Holders(e) # {}
    <3>1. Cardinality(Holders(e)) > 0
      BY <2>1, <2>2, HoldersFinite
    <3> QED
      BY <3>1, FS_EmptySet
  <2> QED
    BY <2>3 DEF Holders
<1> QED
  BY <1>1, StoreAlways, PTL

-----------------------------------------------------------------------------
(* The topic.  In what follows m rounds carry a marker, those before m.       *)

Proper(b) ==
    /\ Topic!IsBank(b)
    /\ \A i \in DOMAIN b : /\ b[i].status = "answered" => b[i].answers # {}
                           /\ b[i].status = "pruned" => b[i].answers = {}

\* Ids of a are kept in b, on the same question.
Within(a, b) == \A i \in DOMAIN a : i \in DOMAIN b /\ b[i].origin = a[i].origin

\* An id that is in every bank from j to k is on the same question in both.
SameQuestions(j, k) ==
    \A i \in DOMAIN bankFile[j] :
        (\A l \in j .. k : i \in DOMAIN bankFile[l]) => bankFile[k][i].origin = bankFile[j][i].origin

Auditing == back = "stop" /\ step \in {"record", "write", "mark"}
Written  == step \in {"write", "mark"}

Nov(k) == [i \in 1 .. k |-> Topic!NetNew(bankFile[i], i)]

\* The tree: a chain of audits, none of them past the saturation.
Banked(m) ==
    /\ marked = 0 .. m - 1
    /\ DOMAIN bankFile = Topic!Rounds
    /\ \A k \in 0 .. m - 1 : Proper(bankFile[k])
    /\ m > 0 => bankFile[0] = Topic!Seed
    /\ \A k \in 1 .. m - 1 :
        /\ Topic!Loop!Grown(bankFile[k - 1], bankFile[k], k)
        /\ ~Topic!Saturated(Nov(k - 1))
    /\ \A j, k \in 0 .. m - 1 : j <= k => SameQuestions(j, k)

\* No nugget of the chain has been merged away since, nor is the bank at work
\* about to merge one.
Unmerged(m) == \A j, k \in 0 .. m - 1 : j <= k => DOMAIN bankFile[j] \subseteq DOMAIN bankFile[k]
Upheld(m) == Unmerged(m) /\ (Written /\ back = "stop" => DOMAIN bankFile[m - 1] \subseteq DOMAIN bank)

Ended(m)    == m > 0 /\ (m = RMax + 1 \/ Topic!Saturated(Nov(m - 1)))
Attended(m) == \A i \in Topic!Open(bankFile[m - 1]) : rows[i] # {}

\* Where the process is in the tree.
Solving(m) ==
    /\ step \in Topic!Places
    /\ step = "off" => novelty = <<>> /\ computed = 0
    /\ step = "round" =>
        /\ r \in 1 .. m /\ bank = bankFile[r - 1] /\ novelty = Nov(r - 1)
        /\ ~Topic!Saturated(Nov(r - 1)) /\ computed \in 0 .. r - 1
    /\ Auditing =>
        /\ r = m /\ m \in 1 .. RMax /\ computed \in 0 .. m
        /\ ~Topic!Saturated(Nov(m - 1))
    /\ step = "record" =>
        /\ m > 0 /\ bank = bankFile[m - 1] /\ back \in {"stop", "finish"}
        /\ hits \subseteq Topic!Open(bank) /\ open \subseteq Topic!Open(bank)
    /\ step = "record" /\ back = "stop" => rowNo = m /\ novelty = Nov(m - 1)
    /\ step = "record" /\ back = "finish" =>
        /\ Ended(m) /\ computed \in 1 .. m /\ rowNo = computed
        /\ \A i \in Topic!Open(bank) : i \in open <=> rows[i] = {}
    /\ Written /\ back = "stop" =>
        /\ target = m /\ Proper(bank)
        /\ Topic!Loop!Grown(bankFile[m - 1], bank, m)
        /\ novelty = Append(Nov(m - 1), Topic!NetNew(bank, m))
    /\ Written /\ back = "round" =>
        /\ m = 0 /\ target = 0 /\ bank = Topic!Seed /\ r = 1 /\ novelty = <<>> /\ computed = 0
    /\ Written => back \in {"round", "stop", "finish"}
    /\ Written /\ back = "finish" => step = "write" /\ target \in 0 .. m - 1 /\ Ended(m) /\ Attended(m)
    /\ step = "mark" => bankFile[target] = bank
    /\ step = "stop" => r \in 1 .. m - 1 /\ bank = bankFile[r] /\ novelty = Nov(r) /\ computed \in 0 .. r
    /\ step = "sweep" => Ended(m) /\ bank = bankFile[m - 1] /\ computed \in 0 .. m - 1
    /\ step = "finish" => Ended(m) /\ Attended(m)
    /\ success => Ended(m) /\ Attended(m) /\ step \in {"off", "done"}
    /\ step = "done" => success

\* Row w is what answer a to nugget i was committed in.
Backs(w, i, a) == w.hit /\ a = <<i, w.origin>>

\* Answer a is recorded, in a round up to k, under the nugget it was given to.
Told(a, k) == a[1] \in Topic!Ids /\ \E w \in rows[a[1]] : w.round <= k /\ Backs(w, a[1], a)

\* An answer is recorded, one of the round at work in its own fan; and while no
\* nugget has been merged away, a record is of a nugget of the bank and of its
\* question, and an answer is of the nugget that holds it.
Recorded(m) ==
    /\ rows \in [Topic!Ids -> SUBSET Topic!Rows]
    /\ \A i \in Topic!Ids : rows[i] # {} => m > 0
    /\ m > 0 => \A i \in DOMAIN bankFile[m - 1] : \A a \in bankFile[m - 1][i].answers : Told(a, m - 1)
    /\ step = "record" /\ back = "stop" =>
        \A i \in hits \ open : \E w \in rows[i] : w.hit /\ w.round = m /\ w.origin = bank[i].origin
    /\ Written /\ back = "stop" => \A i \in DOMAIN bank : \A a \in bank[i].answers : Told(a, m)
    /\ Unmerged(m) => \A i \in Topic!Ids : \A w \in rows[i] :
        i \in DOMAIN bankFile[m - 1] /\ w.origin = bankFile[m - 1][i].origin
    /\ Unmerged(m) /\ m > 0 => \A i \in DOMAIN bankFile[m - 1] : \A a \in bankFile[m - 1][i].answers : a[1] = i
    /\ Upheld(m) /\ Written /\ back = "stop" => \A i \in DOMAIN bank : \A a \in bank[i].answers : a[1] = i

\* A topic that no kill has met so far: no round is read back, so a hit is served
\* by the bank of its round, or is one of the sweep, whose nuggets have no other;
\* as long as no nugget was merged away.
Unbroken(m) ==
    kills = 0 =>
        /\ step = "off" => m = 0
        /\ step = "round" => r = m /\ computed = m - 1
        /\ Auditing => computed = m
        /\ step = "stop" => r = m - 1 /\ computed = m - 1
        /\ step = "sweep" => computed = m - 1
        /\ step = "record" /\ back = "finish" => computed = m
        /\ Upheld(m) => \A i \in Topic!Ids : \A w \in rows[i] :
            \/ w.round \in 1 .. m - 1 /\ (w.hit => <<i, w.origin>> \in bankFile[m - 1][i].answers)
            \/ /\ w.round = m
               /\ \/ step = "record" /\ back = "stop" /\ (w.hit => i \in hits)
                  \/ Written /\ back = "stop" /\ (w.hit => <<i, w.origin>> \in bank[i].answers)
                  \/ Ended(m) /\ bankFile[m - 1][i].answers = {}

TopicAt(m) == Banked(m) /\ Solving(m) /\ Recorded(m) /\ Unbroken(m)
TopicInv == kills \in Nat /\ \E m \in 0 .. RMax + 1 : TopicAt(m)

-----------------------------------------------------------------------------
(* What an audit makes of a bank                                              *)

\* The answers of nugget i of bank b once the loops of h have committed theirs.
Enriched(b, h, i) == IF i \in h THEN b[i].answers \cup {<<i, b[i].origin>>} ELSE b[i].answers

\* Evidence is attached to the loops that committed, and nothing else changes in
\* what nuggets say and ask; what is settled stays as it is.
Settles(b, h, c) ==
    /\ DOMAIN c = DOMAIN b
    /\ \A i \in DOMAIN b :
        /\ c[i].origin = b[i].origin
        /\ c[i].answers = Enriched(b, h, i)
        /\ b[i].status # "unanswered" => c[i] = b[i]

Answered(b) == {i \in DOMAIN b : b[i].answers # {}}

LEMMA JudgedBank ==
    ASSUME NEW b, Proper(b), NEW h \in SUBSET Topic!Open(b), NEW tagged, tagged = Topic!Attach(b, h),
           NEW full \in SUBSET (Answered(tagged) \cap Topic!Open(tagged)),
           NEW cut \in SUBSET (DOMAIN tagged \ Answered(tagged)),
           NEW judged, judged = Topic!Prune(Topic!Close(tagged, full), cut)
    PROVE  Proper(judged) /\ Settles(b, h, judged)
<1>0. PICK closed : closed = Topic!Close(tagged, full)
  OBVIOUS
<1>1. /\ DOMAIN b \subseteq Topic!Ids /\ \A i \in DOMAIN b : b[i] \in Topic!Nuggets
      /\ \A i \in h : i \in DOMAIN b /\ b[i].status = "unanswered"
  <2>1. DOMAIN b \subseteq Topic!Ids /\ \A i \in DOMAIN b : b[i] \in Topic!Nuggets
    BY DEF Proper, Topic!IsBank
  <2>2. \A i \in h : i \in DOMAIN b /\ b[i].status = "unanswered"
    BY DEF Topic!Open
  <2> QED
    BY <2>1, <2>2
<1>2. /\ DOMAIN tagged = DOMAIN b
      /\ \A i \in DOMAIN b :
          /\ tagged[i].origin = b[i].origin /\ tagged[i].status = b[i].status /\ tagged[i] \in Topic!Nuggets
          /\ tagged[i].answers = IF i \in h THEN b[i].answers \cup {<<i, b[i].origin>>} ELSE b[i].answers
          /\ i \notin h => tagged[i] = b[i]
  <2>1. DOMAIN tagged = DOMAIN b
    BY DEF Topic!Attach
  <2>2. ASSUME NEW i \in DOMAIN b, i \in h
        PROVE  /\ tagged[i].origin = b[i].origin /\ tagged[i].status = b[i].status /\ tagged[i] \in Topic!Nuggets
               /\ tagged[i].answers = b[i].answers \cup {<<i, b[i].origin>>}
    <3>1. tagged[i] = [b[i] EXCEPT !.answers = @ \cup {<<i, b[i].origin>>}]
      BY <2>2 DEF Topic!Attach, Topic!Committed
    <3>2. <<i, b[i].origin>> \in Topic!Answers
      BY <1>1 DEF Topic!Nuggets, Topic!Answers
    <3> QED
      BY <1>1, <3>1, <3>2 DEF Topic!Nuggets
  <2>3. \A i \in DOMAIN b : i \notin h => tagged[i] = b[i]
    BY DEF Topic!Attach
  <2> QED
    BY <1>1, <2>1, <2>2, <2>3
<1>3. /\ full \subseteq DOMAIN b /\ \A i \in full : tagged[i].status = "unanswered" /\ tagged[i].answers # {}
      /\ cut \subseteq DOMAIN b /\ \A i \in cut : tagged[i].answers = {}
  <2>1. \A i \in full : i \in DOMAIN tagged /\ tagged[i].status = "unanswered" /\ tagged[i].answers # {}
    BY DEF Topic!Open, Answered
  <2>2. \A i \in cut : i \in DOMAIN tagged /\ tagged[i].answers = {}
    BY DEF Answered
  <2> QED
    BY <1>2, <2>1, <2>2
<1>4. /\ DOMAIN closed = DOMAIN b
      /\ \A i \in full : closed[i] = [tagged[i] EXCEPT !.status = "answered"]
      /\ \A i \in DOMAIN b \ full : closed[i] = tagged[i]
  BY <1>0, <1>2, <1>3 DEF Topic!Close
<1>5. /\ DOMAIN judged = DOMAIN b
      /\ \A i \in full : judged[i] = [tagged[i] EXCEPT !.status = "answered"]
      /\ \A i \in cut : judged[i] = [tagged[i] EXCEPT !.status = "pruned"]
      /\ \A i \in DOMAIN b \ (full \cup cut) : judged[i] = tagged[i]
  BY <1>0, <1>3, <1>4 DEF Topic!Prune
<1>6. \A i \in DOMAIN b : /\ judged[i].origin = b[i].origin /\ judged[i].answers = tagged[i].answers
                          /\ judged[i] \in Topic!Nuggets
                          /\ judged[i].status = IF i \in full THEN "answered"
                                                ELSE IF i \in cut THEN "pruned" ELSE b[i].status
  <2> SUFFICES ASSUME NEW i \in DOMAIN b
               PROVE  /\ judged[i].origin = b[i].origin /\ judged[i].answers = tagged[i].answers
                      /\ judged[i] \in Topic!Nuggets
                      /\ judged[i].status = IF i \in full THEN "answered"
                                            ELSE IF i \in cut THEN "pruned" ELSE b[i].status
    OBVIOUS
  <2>1. tagged[i] \in Topic!Nuggets /\ tagged[i].origin = b[i].origin /\ tagged[i].status = b[i].status
    BY <1>2
  <2>2. CASE i \in full
    <3>1. judged[i] = [tagged[i] EXCEPT !.status = "answered"]
      BY <1>5, <2>2
    <3> QED
      BY <2>1, <2>2, <3>1 DEF Topic!Nuggets
  <2>3. CASE i \in cut
    <3>1. i \notin full
      BY <1>3, <2>3
    <3>2. judged[i] = [tagged[i] EXCEPT !.status = "pruned"]
      BY <1>5, <2>3
    <3> QED
      BY <2>1, <2>3, <3>1, <3>2 DEF Topic!Nuggets
  <2>4. CASE i \notin full \cup cut
    BY <1>5, <2>1, <2>4
  <2> QED
    BY <2>2, <2>3, <2>4
<1>7. Proper(judged)
  <2>1. Topic!IsBank(judged)
    BY <1>1, <1>5, <1>6 DEF Topic!IsBank
  <2>2. ASSUME NEW i \in DOMAIN b
        PROVE  /\ judged[i].status = "answered" => judged[i].answers # {}
               /\ judged[i].status = "pruned" => judged[i].answers = {}
    <3>1. CASE i \in full \cup cut
      BY <1>3, <1>6, <3>1
    <3>2. CASE i \notin full \cup cut
      <4>1. judged[i] = tagged[i] /\ (i \notin h => tagged[i] = b[i])
        BY <1>2, <1>5, <3>2
      <4>2. i \in h => tagged[i].status = "unanswered"
        BY <1>1, <1>2
      <4>3. /\ b[i].status = "answered" => b[i].answers # {}
            /\ b[i].status = "pruned" => b[i].answers = {}
        BY DEF Proper
      <4> QED
        BY <4>1, <4>2, <4>3
    <3> QED
      BY <3>1, <3>2
  <2> QED
    BY <1>5, <2>1, <2>2 DEF Proper
<1>8. ASSUME NEW i \in DOMAIN b, b[i].status # "unanswered"
      PROVE  judged[i] = b[i]
  <2>1. i \notin h /\ i \notin full
    BY <1>1, <1>2, <1>3, <1>8
  <2>2. tagged[i] = b[i] /\ b[i] \in Topic!Nuggets
    BY <1>1, <1>2, <2>1
  <2>3. CASE i \in cut
    <3>1. b[i].answers = {}
      BY <1>3, <2>2, <2>3
    <3>2. b[i].status = "pruned"
      BY <1>8, <2>2, <3>1 DEF Proper, Topic!Nuggets
    <3> QED
      BY <1>5, <2>2, <2>3, <3>2 DEF Topic!Nuggets
  <2>4. CASE i \notin cut
    BY <1>5, <2>1, <2>2, <2>4
  <2> QED
    BY <2>3, <2>4
<1> QED
  BY <1>2, <1>5, <1>6, <1>7, <1>8 DEF Settles, Enriched

\* An answer of the audited bank is one of the bank before or of its fan, a nugget
\* that is not merged away keeps its own; and if none is, none holds another's.
Audited(b, h, c, k) ==
    /\ Proper(c) /\ Topic!Loop!Grown(b, c, k)
    /\ \A i \in DOMAIN c : \A a \in c[i].answers : \E j \in DOMAIN b : a \in Enriched(b, h, j)
    /\ \A i \in DOMAIN b \cap DOMAIN c : Enriched(b, h, i) \subseteq c[i].answers
    /\ DOMAIN b \subseteq DOMAIN c =>
        \A i \in DOMAIN c : \A a \in c[i].answers : i \in DOMAIN b /\ a \in Enriched(b, h, i)

LEMMA AuditGrows ==
    ASSUME NEW b, Proper(b), NEW h \in SUBSET Topic!Open(b), NEW judged, Proper(judged), Settles(b, h, judged),
           NEW k \in Topic!Rounds, NEW x, NEW grown, grown = Topic!Mint(judged, x, k), DOMAIN grown \subseteq Topic!Ids,
           NEW gone \in SUBSET Topic!Open(grown), NEW into \in Topic!Merges(grown, gone),
           NEW c, c = Topic!Merged(grown, into)
    PROVE  Audited(b, h, c, k)
<1> DEFINE Gains(i) == UNION {grown[g].answers : g \in {y \in gone : into[y] = i}}
<1>0. /\ DOMAIN judged = DOMAIN b
      /\ \A i \in DOMAIN b :
          /\ judged[i].origin = b[i].origin
          /\ judged[i].answers = Enriched(b, h, i)
          /\ b[i].status # "unanswered" => judged[i] = b[i]
  BY DEF Settles
<1>1. /\ DOMAIN b \subseteq DOMAIN grown
      /\ \A i \in DOMAIN b : grown[i] = judged[i]
      /\ \A i \in DOMAIN grown \ DOMAIN b : grown[i] = Topic!Fresh(k)
  BY <1>0 DEF Topic!Mint
<1>2. /\ DOMAIN into = gone
      /\ DOMAIN c = DOMAIN grown \ gone
      /\ \A i \in DOMAIN c : c[i] = [grown[i] EXCEPT !.answers = @ \cup Gains(i)]
  BY DEF Topic!Merged, Topic!Merges
<1>3. Topic!Fresh(k) \in Topic!Nuggets /\ Topic!Fresh(k).answers = {} /\ Topic!Fresh(k).origin = k
      /\ Topic!Fresh(k).status = "unanswered"
  BY DEF Topic!Fresh, Topic!Nuggets
<1>4. \A i \in DOMAIN grown : grown[i] \in Topic!Nuggets
  BY <1>0, <1>1, <1>3 DEF Proper, Topic!IsBank
<1>5. /\ \A g \in gone : g \in DOMAIN grown /\ grown[g].status = "unanswered"
      /\ \A g \in gone : into[g] \in DOMAIN grown /\ grown[into[g]].status = "unanswered"
  BY DEF Topic!Open, Topic!Merges
<1>6. \A i : \A a \in Gains(i) : \E g \in gone : into[g] = i /\ a \in grown[g].answers
  OBVIOUS
<1>7. \A i \in DOMAIN grown : \A a \in grown[i].answers : i \in DOMAIN b /\ a \in Enriched(b, h, i)
  BY <1>0, <1>1, <1>3
<1>8. \A i : Gains(i) \subseteq Topic!Answers
  BY <1>4, <1>5, <1>6 DEF Topic!Nuggets
<1> HIDE DEF Gains
<1>9. ASSUME NEW i \in DOMAIN c
      PROVE  /\ c[i] \in Topic!Nuggets /\ c[i].status = grown[i].status /\ c[i].origin = grown[i].origin
             /\ c[i].answers = grown[i].answers \cup Gains(i)
             /\ grown[i].status # "unanswered" => c[i] = grown[i]
  <2>1. grown[i] \in Topic!Nuggets /\ Gains(i) \subseteq Topic!Answers
    BY <1>2, <1>4, <1>8
  <2>2. c[i] = [grown[i] EXCEPT !.answers = grown[i].answers \cup Gains(i)]
    BY <1>2
  <2>3. grown[i].status # "unanswered" => Gains(i) = {}
    BY <1>5, <1>6
  <2>4. Gains(i) = {} => grown[i].answers \cup Gains(i) = grown[i].answers
    OBVIOUS
  <2> QED
    BY <2>1, <2>2, <2>3, <2>4 DEF Topic!Nuggets
<1>10. Proper(c)
  <2>1. Topic!IsBank(c)
    BY <1>2, <1>9 DEF Topic!IsBank
  <2>2. ASSUME NEW i \in DOMAIN c
        PROVE  (c[i].status = "answered" => c[i].answers # {}) /\ (c[i].status = "pruned" => c[i].answers = {})
    <3>1. CASE i \in DOMAIN b
      <4>1. (grown[i].status = "answered" => grown[i].answers # {}) /\ (grown[i].status = "pruned" => grown[i].answers = {})
        BY <1>0, <1>1, <3>1 DEF Proper
      <4> QED
        BY <1>9, <4>1
    <3>2. CASE i \notin DOMAIN b
      BY <1>1, <1>2, <1>3, <1>9, <2>2, <3>2
    <3> QED
      BY <3>1, <3>2
  <2> QED
    BY <2>1, <2>2 DEF Proper
<1>11. Topic!Loop!Grown(b, c, k)
  <2>1. \A i \in DOMAIN c \ DOMAIN b : c[i].origin = k
    BY <1>1, <1>2, <1>3, <1>9
  <2>2. ASSUME NEW i \in DOMAIN b \ Topic!Loop!Open(b) PROVE i \in DOMAIN c /\ c[i] = b[i]
    <3>1. b[i].status # "unanswered" /\ grown[i] = b[i] /\ i \in DOMAIN grown
      BY <1>0, <1>1 DEF Topic!Loop!Open
    <3>2. i \in DOMAIN c
      BY <1>2, <1>5, <3>1
    <3> QED
      BY <1>9, <3>1, <3>2
  <2>3. ASSUME NEW i \in Topic!Loop!Open(b) \cap DOMAIN c
        PROVE  c[i].origin = b[i].origin /\ b[i].answers \subseteq c[i].answers
    <3>1. i \in DOMAIN b
      BY DEF Topic!Loop!Open
    <3>2. b[i].answers \subseteq Enriched(b, h, i)
      BY DEF Enriched
    <3>3. c[i].origin = grown[i].origin /\ grown[i].answers \subseteq c[i].answers
      BY <1>9
    <3>4. grown[i].origin = b[i].origin /\ grown[i].answers = Enriched(b, h, i)
      BY <1>0, <1>1, <3>1
    <3> QED
      BY <3>2, <3>3, <3>4
  <2> QED
    BY <1>10, <2>1, <2>2, <2>3 DEF Topic!Loop!Grown, Proper
<1>12. ASSUME NEW i \in DOMAIN c, NEW a \in c[i].answers
       PROVE  \E j \in DOMAIN b : a \in Enriched(b, h, j)
  <2>1. i \in DOMAIN grown /\ (a \in grown[i].answers \/ a \in Gains(i))
    BY <1>2, <1>9
  <2> QED
    BY <1>5, <1>6, <1>7, <2>1
<1>13. \A i \in DOMAIN b \cap DOMAIN c : Enriched(b, h, i) \subseteq c[i].answers
  BY <1>0, <1>1, <1>9
<1>14. ASSUME DOMAIN b \subseteq DOMAIN c, NEW i \in DOMAIN c, NEW a \in c[i].answers
       PROVE  i \in DOMAIN b /\ a \in Enriched(b, h, i)
  <2>1. i \in DOMAIN grown /\ (a \in grown[i].answers \/ a \in Gains(i))
    BY <1>2, <1>9
  <2>2. a \notin Gains(i)
    <3>1. \A g \in gone : g \notin DOMAIN b
      BY <1>2, <1>14
    <3> QED
      BY <1>5, <1>6, <1>7, <3>1
  <2> QED
    BY <1>7, <2>1, <2>2
<1> QED
  BY <1>10, <1>11, <1>12, <1>13, <1>14 DEF Audited

-----------------------------------------------------------------------------
(* The steps of a topic                                                       *)

LEMMA TreeKept ==
    ASSUME NEW m, UNCHANGED <<bankFile, marked>>
    PROVE  /\ Banked(m) => Banked(m)'
           /\ Ended(m) => Ended(m)'
           /\ rows' = rows /\ Attended(m) => Attended(m)'
           /\ Unmerged(m)' <=> Unmerged(m)
           /\ \A k : Nov(k)' = Nov(k)
<1>1. \A k : Nov(k)' = Nov(k)
  BY DEF Nov
<1>2. Banked(m) => Banked(m)'
  BY <1>1 DEF Banked, SameQuestions
<1>3. Ended(m) => Ended(m)'
  BY <1>1 DEF Ended
<1>4. rows' = rows /\ Attended(m) => Attended(m)'
  BY DEF Attended
<1>5. Unmerged(m)' <=> Unmerged(m)
  BY DEF Unmerged
<1> QED
  BY <1>1, <1>2, <1>3, <1>4, <1>5

LEMMA NoopKeeps ==
    ASSUME NEW m \in 0 .. RMax + 1, TopicAt(m), Topic!Noop
    PROVE  TopicAt(m)'
<1> USE DEF TopicAt
<1>1. /\ step = "off" /\ success /\ step' = "done"
      /\ UNCHANGED <<bankFile, marked, rows, success, r, bank, novelty, computed, hits, open, rowNo, target, back, kills>>
  BY DEF Topic!Noop, Topic!disk, Topic!memory, Topic!fan
<1>2. Banked(m)' /\ (Unmerged(m)' <=> Unmerged(m)) /\ (Ended(m) => Ended(m)') /\ (Attended(m) => Attended(m)')
  BY <1>1, TreeKept
<1>3. Solving(m)'
  BY <1>1, <1>2 DEF Solving, Auditing, Written, Topic!Places
<1>4. Recorded(m)'
  BY <1>1, <1>2 DEF Recorded, Written, Backs, Told, Upheld
<1>5. Unbroken(m)'
  BY <1>1, <1>2 DEF Unbroken, Upheld, Auditing, Written
<1> QED
  BY <1>2, <1>3, <1>4, <1>5

LEMMA RoundZeroKeeps ==
    ASSUME NEW m \in 0 .. RMax + 1, TopicAt(m), Topic!RoundZero
    PROVE  TopicAt(m)'
<1> USE DEF TopicAt
<1>1. /\ step = "off" /\ ~success /\ r' = 1
      /\ UNCHANGED <<bankFile, marked, rows, success, novelty, computed, hits, open, rowNo, kills>>
  BY DEF Topic!RoundZero, Topic!disk, Topic!memory, Topic!fan
<1>2. Banked(m)' /\ (Unmerged(m)' <=> Unmerged(m)) /\ \A k : Nov(k)' = Nov(k)
  BY <1>1, TreeKept
<1>3. novelty = <<>> /\ computed = 0 /\ Nov(0) = <<>> /\ ~Topic!Saturated(<<>>)
  <2>1. Nov(0) = <<>>
    BY DEF Nov
  <2>2. ~Topic!Saturated(<<>>)
    BY BankAssumption DEF Topic!Saturated
  <2> QED
    BY <1>1, <2>1, <2>2 DEF Solving
<1>4. CASE 0 \in marked
  <2>1. bank' = bankFile[0] /\ step' = "round" /\ m > 0
    BY <1>4 DEF Topic!RoundZero, Banked
  <2>2. Solving(m)'
    BY <1>1, <1>2, <1>3, <2>1 DEF Solving, Auditing, Written, Topic!Places
  <2>3. Recorded(m)'
    BY <1>1, <1>2, <2>1 DEF Recorded, Written, Backs, Told, Upheld
  <2>4. Unbroken(m)'
    BY <1>1, <1>2, <2>1 DEF Unbroken, Upheld, Auditing, Written
  <2> QED
    BY <1>2, <2>2, <2>3, <2>4
<1>5. CASE 0 \notin marked
  <2>1. bank' = Topic!Seed /\ step' = "write" /\ target' = 0 /\ back' = "round" /\ m = 0
    BY <1>5 DEF Topic!RoundZero, Topic!Persist, Banked
  <2>2. Solving(m)'
    BY <1>1, <1>2, <1>3, <2>1 DEF Solving, Auditing, Written, Topic!Places
  <2>3. Recorded(m)'
    BY <1>1, <1>2, <2>1 DEF Recorded, Written, Backs, Told, Upheld
  <2>4. Unbroken(m)'
    BY <1>1, <1>2, <2>1 DEF Unbroken, Upheld, Auditing, Written, Recorded
  <2> QED
    BY <1>2, <2>2, <2>3, <2>4
<1> QED
  BY <1>4, <1>5

LEMMA NovGrows ==
    \A k \in Nat \ {0} : Append(Nov(k - 1), Topic!NetNew(bankFile[k], k)) = Nov(k)
BY DEF Nov

LEMMA CompleteKeeps ==
    ASSUME NEW m \in 0 .. RMax + 1, TopicAt(m), Topic!Complete
    PROVE  TopicAt(m)'
<1> USE DEF TopicAt
<1>1. /\ step = "finish" /\ success' /\ step' = "done"
      /\ UNCHANGED <<bankFile, marked, rows, r, bank, novelty, computed, hits, open, rowNo, target, back, kills>>
  BY DEF Topic!Complete, Topic!memory, Topic!fan
<1>2. Banked(m)' /\ (Unmerged(m)' <=> Unmerged(m)) /\ (Ended(m) => Ended(m)') /\ (Attended(m) => Attended(m)')
  BY <1>1, TreeKept
<1>3. Solving(m)'
  BY <1>1, <1>2 DEF Solving, Auditing, Written, Topic!Places
<1>4. Recorded(m)'
  BY <1>1, <1>2 DEF Recorded, Written, Backs, Told, Upheld
<1>5. Unbroken(m)'
  BY <1>1, <1>2 DEF Unbroken, Upheld, Auditing, Written
<1> QED
  BY <1>2, <1>3, <1>4, <1>5

\* A kill takes what is in memory, and the claim to be unbroken.
LEMMA CrashKeeps ==
    ASSUME NEW m \in 0 .. RMax + 1, TopicAt(m), kills \in Nat, Topic!Crash
    PROVE  TopicAt(m)' /\ kills' \in Nat
<1> USE DEF TopicAt
<1>1. /\ step' = "off" /\ novelty' = <<>> /\ computed' = 0 /\ kills' = kills + 1
      /\ UNCHANGED <<bankFile, marked, rows, success>>
  BY DEF Topic!Crash, Topic!disk
<1>2. Banked(m)' /\ (Unmerged(m)' <=> Unmerged(m)) /\ (Ended(m) => Ended(m)') /\ (Attended(m) => Attended(m)')
  BY <1>1, TreeKept
<1>3. Solving(m)'
  BY <1>1, <1>2 DEF Solving, Auditing, Written, Topic!Places
<1>4. Recorded(m)'
  BY <1>1, <1>2 DEF Recorded, Written, Backs, Told, Upheld
<1>5. Unbroken(m)'
  BY <1>1 DEF Unbroken
<1> QED
  BY <1>1, <1>2, <1>3, <1>4, <1>5

\* A complete round is read back with its novelty.
LEMMA ResumeKeeps ==
    ASSUME NEW m \in 0 .. RMax + 1, TopicAt(m), Topic!Resume
    PROVE  TopicAt(m)'
<1> USE DEF TopicAt
<1>1. /\ step = "round" /\ r \in marked /\ step' = "stop" /\ bank' = bankFile[r]
      /\ novelty' = Append(novelty, Topic!NetNew(bank', r))
      /\ UNCHANGED <<bankFile, marked, rows, success, r, computed, hits, open, rowNo, target, back, kills>>
  BY DEF Topic!Resume, Topic!disk, Topic!fan
<1>2. Banked(m)' /\ (Unmerged(m)' <=> Unmerged(m)) /\ \A k : Nov(k)' = Nov(k)
  BY <1>1, TreeKept
<1>3. r \in 1 .. m - 1 /\ novelty = Nov(r - 1) /\ computed \in 0 .. r - 1 /\ ~success
  BY <1>1 DEF Solving, Banked
<1>4. novelty' = Nov(r)
  <2>1. r \in Nat \ {0}
    BY <1>3
  <2>2. Append(Nov(r - 1), Topic!NetNew(bankFile[r], r)) = Nov(r)
    BY <2>1, NovGrows
  <2> QED
    BY <1>1, <1>3, <2>2
<1>5. Solving(m)'
  BY <1>1, <1>2, <1>3, <1>4 DEF Solving, Auditing, Written, Topic!Places
<1>6. Recorded(m)'
  BY <1>1, <1>2 DEF Recorded, Written, Backs, Told, Upheld
<1>7. Unbroken(m)'
  BY <1>1, <1>2, <1>3 DEF Unbroken, Upheld, Auditing, Written
<1> QED
  BY <1>2, <1>5, <1>6, <1>7

LEMMA FanKeeps ==
    ASSUME NEW m \in 0 .. RMax + 1, TopicAt(m), Topic!Fan
    PROVE  TopicAt(m)'
<1> USE DEF TopicAt
<1>1. /\ step = "round" /\ r \in Topic!Rounds \ marked /\ step' = "record" /\ back' = "stop"
      /\ hits' \subseteq Topic!Open(bank) /\ open' = Topic!Open(bank) /\ rowNo' = r /\ computed' = computed + 1
      /\ UNCHANGED <<bankFile, marked, rows, success, r, bank, novelty, target, kills>>
  BY DEF Topic!Fan, Topic!FanOut, Topic!disk
<1>2. Banked(m)' /\ (Unmerged(m)' <=> Unmerged(m)) /\ \A k : Nov(k)' = Nov(k)
  BY <1>1, TreeKept
<1>3. /\ r = m /\ m \in 1 .. RMax /\ bank = bankFile[m - 1] /\ novelty = Nov(m - 1)
      /\ ~Topic!Saturated(Nov(m - 1)) /\ computed \in 0 .. m - 1 /\ ~success
  BY <1>1, BankAssumption DEF Solving, Banked, Topic!Rounds
<1>4. Solving(m)'
  BY <1>1, <1>2, <1>3 DEF Solving, Auditing, Written, Topic!Places
<1>5. Recorded(m)'
  BY <1>1, <1>2 DEF Recorded, Written, Backs, Told, Upheld
<1>6. Unbroken(m)'
  BY <1>1, <1>2, <1>3 DEF Unbroken, Upheld, Auditing, Written, Ended
<1> QED
  BY <1>2, <1>4, <1>5, <1>6

\* A saturated round is the last one.
LEMMA StopKeeps ==
    ASSUME NEW m \in 0 .. RMax + 1, TopicAt(m), Topic!Stop
    PROVE  TopicAt(m)'
<1> USE DEF TopicAt
<1>1. /\ step = "stop"
      /\ UNCHANGED <<bankFile, marked, rows, success, bank, novelty, computed, hits, open, rowNo, target, back, kills>>
  BY DEF Topic!Stop, Topic!disk, Topic!fan
<1>2. Banked(m)' /\ (Unmerged(m)' <=> Unmerged(m)) /\ (\A k : Nov(k)' = Nov(k)) /\ (Ended(m) => Ended(m)')
  BY <1>1, TreeKept
<1>3. r \in 1 .. m - 1 /\ bank = bankFile[r] /\ novelty = Nov(r) /\ computed \in 0 .. r /\ ~success
  BY <1>1 DEF Solving
<1>4. CASE Topic!Saturated(novelty)
  <2>1. step' = "sweep" /\ r' = r
    BY <1>4 DEF Topic!Stop
  <2>2. r = m - 1
    <3>1. \A k \in 1 .. m - 1 : ~Topic!Saturated(Nov(k - 1))
      BY DEF Banked
    <3>2. ASSUME r + 1 \in 1 .. m - 1 PROVE FALSE
      <4>1. (r + 1) - 1 = r
        BY <1>3
      <4> QED
        BY <1>3, <1>4, <3>1, <3>2, <4>1
    <3> QED
      BY <1>3, <3>2
  <2>3. Ended(m)
    BY <1>3, <1>4, <2>2 DEF Ended
  <2>4. Solving(m)'
    BY <1>1, <1>2, <1>3, <2>1, <2>2, <2>3 DEF Solving, Auditing, Written, Topic!Places
  <2>5. Recorded(m)'
    BY <1>1, <1>2, <2>1 DEF Recorded, Written, Backs, Told, Upheld
  <2>6. Unbroken(m)'
    BY <1>1, <1>2, <2>1 DEF Unbroken, Upheld, Auditing, Written
  <2> QED
    BY <1>2, <2>4, <2>5, <2>6
<1>5. CASE ~Topic!Saturated(novelty)
  <2>1. step' = "round" /\ r' = r + 1
    BY <1>5 DEF Topic!Stop
  <2>2. Solving(m)'
    BY <1>1, <1>2, <1>3, <1>5, <2>1 DEF Solving, Auditing, Written, Topic!Places
  <2>3. Recorded(m)'
    BY <1>1, <1>2, <2>1 DEF Recorded, Written, Backs, Told, Upheld
  <2>4. Unbroken(m)'
    BY <1>1, <1>2, <1>3, <2>1 DEF Unbroken, Upheld, Auditing, Written
  <2> QED
    BY <1>2, <2>2, <2>3, <2>4
<1> QED
  BY <1>4, <1>5

LEMMA ExhaustedKeeps ==
    ASSUME NEW m \in 0 .. RMax + 1, TopicAt(m), Topic!Exhausted
    PROVE  TopicAt(m)'
<1> USE DEF TopicAt
<1>1. /\ step = "round" /\ r > RMax /\ step' = "sweep"
      /\ UNCHANGED <<bankFile, marked, rows, success, r, bank, novelty, computed, hits, open, rowNo, target, back, kills>>
  BY DEF Topic!Exhausted, Topic!disk, Topic!memory, Topic!fan
<1>2. Banked(m)' /\ (Unmerged(m)' <=> Unmerged(m)) /\ (\A k : Nov(k)' = Nov(k)) /\ (Ended(m) => Ended(m)')
  BY <1>1, TreeKept
<1>3. m = RMax + 1 /\ r = m /\ bank = bankFile[m - 1] /\ computed \in 0 .. m - 1 /\ ~success
  BY <1>1, BankAssumption DEF Solving
<1>4. Ended(m)
  BY <1>3, BankAssumption DEF Ended
<1>5. Solving(m)'
  BY <1>1, <1>2, <1>3, <1>4 DEF Solving, Auditing, Written, Topic!Places
<1>6. Recorded(m)'
  BY <1>1, <1>2 DEF Recorded, Written, Backs, Told, Upheld
<1>7. Unbroken(m)'
  BY <1>1, <1>2 DEF Unbroken, Upheld, Auditing, Written
<1> QED
  BY <1>2, <1>5, <1>6, <1>7

LEMMA NothingToSweepKeeps ==
    ASSUME NEW m \in 0 .. RMax + 1, TopicAt(m), Topic!NothingToSweep
    PROVE  TopicAt(m)'
<1> USE DEF TopicAt
<1>1. /\ step = "sweep" /\ Topic!Unattempted = {} /\ step' = "finish"
      /\ UNCHANGED <<bankFile, marked, rows, success, r, bank, novelty, computed, hits, open, rowNo, target, back, kills>>
  BY DEF Topic!NothingToSweep, Topic!disk, Topic!memory, Topic!fan
<1>2. Banked(m)' /\ (Unmerged(m)' <=> Unmerged(m)) /\ (Ended(m) => Ended(m)') /\ (Attended(m) => Attended(m)')
  BY <1>1, TreeKept
<1>3. Ended(m) /\ bank = bankFile[m - 1] /\ ~success
  BY <1>1 DEF Solving
<1>4. Attended(m)
  BY <1>1, <1>3 DEF Attended, Topic!Unattempted
<1>5. Solving(m)'
  BY <1>1, <1>2, <1>3, <1>4 DEF Solving, Auditing, Written, Topic!Places
<1>6. Recorded(m)'
  BY <1>1, <1>2 DEF Recorded, Written, Backs, Told, Upheld
<1>7. Unbroken(m)'
  BY <1>1, <1>2 DEF Unbroken, Upheld, Auditing, Written
<1> QED
  BY <1>2, <1>5, <1>6, <1>7

\* The sweep goes to the open nuggets without a record.
LEMMA SweepKeeps ==
    ASSUME NEW m \in 0 .. RMax + 1, TopicAt(m), Topic!Sweep
    PROVE  TopicAt(m)'
<1> USE DEF TopicAt
<1>1. /\ step = "sweep" /\ step' = "record" /\ back' = "finish"
      /\ hits' \subseteq Topic!Unattempted /\ open' = Topic!Unattempted
      /\ rowNo' = computed + 1 /\ computed' = computed + 1
      /\ UNCHANGED <<bankFile, marked, rows, success, r, bank, novelty, target, kills>>
  BY DEF Topic!Sweep, Topic!FanOut, Topic!disk
<1>2. Banked(m)' /\ (Unmerged(m)' <=> Unmerged(m)) /\ (Ended(m) => Ended(m)')
  BY <1>1, TreeKept
<1>3. Ended(m) /\ m > 0 /\ bank = bankFile[m - 1] /\ computed \in 0 .. m - 1 /\ ~success
  BY <1>1 DEF Solving, Ended
<1>4. /\ open' \subseteq Topic!Open(bank) /\ hits' \subseteq Topic!Open(bank)
      /\ \A i \in Topic!Open(bank) : i \in open' <=> rows[i] = {}
  BY <1>1 DEF Topic!Unattempted
<1>5. Solving(m)'
  BY <1>1, <1>2, <1>3, <1>4 DEF Solving, Auditing, Written, Topic!Places
<1>6. Recorded(m)'
  BY <1>1, <1>2 DEF Recorded, Written, Backs, Told, Upheld
<1>7. Unbroken(m)'
  BY <1>1, <1>2, <1>3 DEF Unbroken, Upheld, Auditing, Written
<1> QED
  BY <1>2, <1>5, <1>6, <1>7

LEMMA LeastIn ==
    ASSUME NEW T, T \subseteq Nat, T # {}
    PROVE  Topic!Min(T) \in T
<1> DEFINE R == OpToRel(<, Nat)
<1>1. IsWellFoundedOn(R, Nat)
  BY NatLessThanWellFounded
<1>2. PICK x \in T : \A y \in T : <<y, x>> \notin R
  <2> HIDE DEF R
  <2> QED
    BY <1>1, WFMin
<1>3. \A y \in T : x <= y
  <2>1. \A y \in T : ~(y < x)
    BY <1>2 DEF OpToRel
  <2> QED
    BY <2>1
<1> QED
  BY <1>3 DEF Topic!Min

\* The record of one nugget: the row of its fan is replaced, the others stay.
LEMMA RecordKeeps ==
    ASSUME NEW m \in 0 .. RMax + 1, TopicAt(m), Topic!Record
    PROVE  TopicAt(m)'
<1> USE DEF TopicAt
<1> DEFINE i == Topic!Min(open)
           new == [round |-> rowNo, origin |-> bank[i].origin, hit |-> i \in hits]
<1>1. /\ step = "record" /\ open # {}
      /\ rows' = [rows EXCEPT ![i] = {w \in rows[i] : w.round # rowNo} \cup {new}]
      /\ open' = open \ {i}
      /\ UNCHANGED <<bankFile, marked, success, step, r, bank, novelty, computed, hits, rowNo, target, back, kills>>
  BY DEF Topic!Record
<1>2. Banked(m)' /\ (Unmerged(m)' <=> Unmerged(m)) /\ (Ended(m) => Ended(m)') /\ \A k : Nov(k)' = Nov(k)
  BY <1>1, TreeKept
<1>3. /\ m > 0 /\ bank = bankFile[m - 1] /\ back \in {"stop", "finish"} /\ Proper(bank) /\ ~success
      /\ hits \subseteq Topic!Open(bank) /\ open \subseteq Topic!Open(bank) /\ DOMAIN bank \subseteq Topic!Ids
      /\ rowNo \in 1 .. m
  <2>1. Proper(bank)
    BY <1>1, BankAssumption DEF Solving, Banked
  <2>2. DOMAIN bank \subseteq Topic!Ids
    BY <2>1 DEF Proper, Topic!IsBank
  <2> QED
    BY <1>1, <2>1, <2>2, BankAssumption DEF Solving
<1>4. i \in open /\ i \in DOMAIN bank /\ i \in Topic!Ids /\ bank[i] \in Topic!Nuggets
  <2>1. open \subseteq Nat
    BY <1>3, BankAssumption DEF Topic!Open, Topic!Ids
  <2>2. i \in open
    BY <1>1, <2>1, LeastIn
  <2> QED
    BY <1>3, <2>2 DEF Topic!Open, Proper, Topic!IsBank
<1>5. new \in Topic!Rows
  BY <1>3, <1>4, BankAssumption DEF Topic!Rows, Topic!Nuggets
<1> HIDE DEF i
<1>6. /\ rows \in [Topic!Ids -> SUBSET Topic!Rows]
      /\ rows'[i] = {w \in rows[i] : w.round # rowNo} \cup {new}
      /\ \A j \in Topic!Ids \ {i} : rows'[j] = rows[j]
      /\ new.round = rowNo /\ new.origin = bank[i].origin /\ new.hit = (i \in hits)
  BY <1>1, <1>4 DEF Recorded
<1>7. rows' \in [Topic!Ids -> SUBSET Topic!Rows]
  BY <1>1, <1>4, <1>5, <1>6
<1> HIDE DEF new
<1>8. new \in rows'[i]
  BY <1>6
<1>9. /\ back = "finish" => rows[i] = {}
      /\ back = "finish" /\ Unmerged(m) => bankFile[m - 1][i].answers = {}
  <2>1. back = "finish" => rows[i] = {}
    BY <1>1, <1>3, <1>4 DEF Solving
  <2>2. ASSUME Unmerged(m), NEW a \in bankFile[m - 1][i].answers PROVE rows[i] # {}
    <3>1. a[1] = i /\ Told(a, m - 1)
      BY <1>3, <1>4, <2>2 DEF Recorded
    <3> QED
      BY <3>1 DEF Told
  <2> QED
    BY <2>1, <2>2
<1>10. Solving(m)'
  <2>1. ASSUME back = "finish", NEW j \in Topic!Open(bank)
        PROVE  j \in open' <=> rows'[j] = {}
    <3>1. j \in open <=> rows[j] = {}
      BY <1>1, <2>1 DEF Solving
    <3>2. j \in Topic!Ids
      BY <1>3 DEF Topic!Open
    <3> QED
      BY <1>1, <1>6, <1>8, <3>1, <3>2
  <2> QED
    BY <1>1, <1>2, <1>3, <2>1 DEF Solving, Auditing, Written, Topic!Places
<1>11. Recorded(m)'
  <2>1. ASSUME Unmerged(m), NEW j \in Topic!Ids, NEW w \in rows'[j]
        PROVE  j \in DOMAIN bankFile[m - 1] /\ w.origin = bankFile[m - 1][j].origin
    BY <1>3, <1>4, <1>6, <2>1 DEF Recorded
  <2>2. ASSUME NEW a, Told(a, m - 1) PROVE Told(a, m - 1)'
    <3>1. PICK w \in rows[a[1]] : w.round <= m - 1 /\ Backs(w, a[1], a)
      BY <2>2 DEF Told
    <3>2. back = "stop" => w.round # rowNo
      BY <1>1, <3>1 DEF Solving
    <3>3. a[1] \in Topic!Ids
      BY <2>2 DEF Told
    <3>4. w \in rows'[a[1]]
      BY <1>3, <1>6, <1>9, <3>1, <3>2, <3>3
    <3> QED
      BY <3>1, <3>3, <3>4 DEF Told, Backs
  <2>3. ASSUME back = "stop", NEW j \in hits \ open'
        PROVE  \E w \in rows'[j] : w.hit /\ w.round = m /\ w.origin = bank[j].origin
    <3>1. rowNo = m
      BY <1>1, <2>3 DEF Solving
    <3>2. CASE j = i
      BY <1>6, <1>8, <2>3, <3>1, <3>2
    <3>3. CASE j # i
      <4>1. j \in hits \ open /\ j \in Topic!Ids
        BY <1>1, <1>3, <2>3, <3>3 DEF Topic!Open
      <4>2. \E w \in rows[j] : w.hit /\ w.round = m /\ w.origin = bank[j].origin
        BY <1>1, <2>3, <4>1 DEF Recorded
      <4> QED
        BY <1>6, <3>3, <4>1, <4>2
    <3> QED
      BY <3>2, <3>3
  <2>4. \A j \in DOMAIN bankFile[m - 1] : \A a \in bankFile[m - 1][j].answers : Told(a, m - 1)'
    BY <1>3, <2>2 DEF Recorded
  <2>5. Unmerged(m) => \A j \in DOMAIN bankFile[m - 1] : \A a \in bankFile[m - 1][j].answers : a[1] = j
    BY <1>3 DEF Recorded
  <2> QED
    BY <1>1, <1>2, <1>3, <1>7, <2>1, <2>3, <2>4, <2>5 DEF Recorded, Written
<1>12. Unbroken(m)'
  <2>1. ASSUME kills = 0, Unmerged(m), NEW j \in Topic!Ids, NEW w \in rows'[j]
        PROVE  \/ w.round \in 1 .. m - 1 /\ (w.hit => <<j, w.origin>> \in bankFile[m - 1][j].answers)
               \/ /\ w.round = m
                  /\ \/ back = "stop" /\ (w.hit => j \in hits)
                     \/ Ended(m) /\ bankFile[m - 1][j].answers = {}
    <3>1. CASE w \in rows[j]
      BY <1>1, <1>2, <2>1, <3>1 DEF Unbroken, Upheld, Written
    <3>2. CASE w \notin rows[j]
      <4>1. j = i /\ w = new
        BY <1>6, <2>1, <3>2
      <4>2. rowNo = m
        BY <1>1, <1>2, <1>3, <2>1 DEF Unbroken, Upheld, Solving, Auditing
      <4>3. back = "finish" => Ended(m)
        BY <1>1 DEF Solving
      <4> QED
        BY <1>3, <1>6, <1>9, <2>1, <4>1, <4>2, <4>3
    <3> QED
      BY <3>1, <3>2
  <2>2. /\ Auditing /\ kills = 0 => computed = m
        /\ back = "finish" /\ kills = 0 => computed = m
    BY <1>1 DEF Unbroken
  <2> QED
    BY <1>1, <1>2, <2>1, <2>2 DEF Unbroken, Upheld, Auditing, Written
<1> QED
  BY <1>2, <1>10, <1>11, <1>12

\* The audit makes the next bank of the chain, and an answer it attaches has its
\* row in the records of the fan.
LEMMA AuditKeeps ==
    ASSUME NEW m \in 0 .. RMax + 1, TopicAt(m), Topic!Audit
    PROVE  TopicAt(m)'
<1> USE DEF TopicAt
<1>1. /\ step = "record" /\ open = {} /\ back = "stop" /\ step' = "write" /\ back' = "stop" /\ target' = r
      /\ novelty' = Append(novelty, Topic!NetNew(bank', r))
      /\ UNCHANGED <<bankFile, marked, rows, success, r, computed, open, rowNo, kills>>
  BY DEF Topic!Audit, Topic!Persist, Topic!disk
<1>2. Banked(m)' /\ (Unmerged(m)' <=> Unmerged(m)) /\ (Ended(m) => Ended(m)') /\ \A k : Nov(k)' = Nov(k)
  BY <1>1, TreeKept
<1>3. /\ r = m /\ m \in 1 .. RMax /\ computed \in 0 .. m /\ ~Topic!Saturated(Nov(m - 1))
      /\ bank = bankFile[m - 1] /\ hits \in SUBSET Topic!Open(bank) /\ novelty = Nov(m - 1) /\ ~success
  BY <1>1 DEF Solving, Auditing
<1>4. Proper(bank)
  BY <1>3, BankAssumption DEF Banked
<1>5. Audited(bank, hits, bank', m)
  <2>1. PICK tagged : tagged = Topic!Attach(bank, hits)
    OBVIOUS
  <2>2. PICK full \in SUBSET (Answered(tagged) \cap Topic!Open(tagged)),
             cut \in SUBSET (DOMAIN tagged \ Answered(tagged)), x \in 0 .. MaxGaps :
            LET grown == Topic!Mint(Topic!Prune(Topic!Close(tagged, full), cut), x, r)
            IN /\ DOMAIN grown \subseteq Topic!Ids
               /\ \E gone \in SUBSET Topic!Open(grown) :
                    \E into \in Topic!Merges(grown, gone) : bank' = Topic!Merged(grown, into)
    BY <2>1 DEF Topic!Audit, Answered
  <2>3. PICK judged : judged = Topic!Prune(Topic!Close(tagged, full), cut)
    OBVIOUS
  <2>4. PICK grown : grown = Topic!Mint(judged, x, m)
    OBVIOUS
  <2>5. PICK gone \in SUBSET Topic!Open(grown) :
            \E into \in Topic!Merges(grown, gone) : bank' = Topic!Merged(grown, into)
    BY <1>3, <2>2, <2>3, <2>4
  <2>6. PICK into \in Topic!Merges(grown, gone) : bank' = Topic!Merged(grown, into)
    BY <2>5
  <2>7. Proper(judged) /\ Settles(bank, hits, judged)
    BY <1>3, <1>4, <2>1, <2>3, JudgedBank
  <2>8. DOMAIN grown \subseteq Topic!Ids /\ m \in Topic!Rounds
    BY <1>3, <2>2, <2>3, <2>4 DEF Topic!Rounds
  <2>9. PICK c : c = Topic!Merged(grown, into)
    OBVIOUS
  <2>10. Audited(bank, hits, c, m)
    BY <1>3, <1>4, <2>4, <2>7, <2>8, <2>9, AuditGrows
  <2>11. c = bank'
    BY <2>6, <2>9
  <2> HIDE DEF Audited
  <2> QED
    BY <2>10, <2>11
<1>6. novelty' = Append(Nov(m - 1), Topic!NetNew(bank', m))
  BY <1>1, <1>3
<1>7. Solving(m)'
  BY <1>1, <1>2, <1>3, <1>5, <1>6 DEF Solving, Auditing, Written, Topic!Places, Audited
<1>8. \A i \in hits : i \in DOMAIN bank /\ i \in Topic!Ids
  BY <1>3, <1>4 DEF Proper, Topic!IsBank, Topic!Open
<1>9. Recorded(m)'
  <2>1. ASSUME NEW a, Told(a, m - 1) PROVE Told(a, m)
    <3>1. PICK w \in rows[a[1]] : w.round <= m - 1 /\ Backs(w, a[1], a)
      BY <2>1 DEF Told
    <3>2. w \in Topic!Rows
      BY <2>1, <3>1 DEF Told, Recorded
    <3>3. w.round \in Nat
      BY <3>2, BankAssumption DEF Topic!Rows
    <3>4. w.round <= m
      BY <3>1, <3>3
    <3> QED
      BY <2>1, <3>1, <3>4 DEF Told
  <2>2. ASSUME NEW i \in DOMAIN bank, NEW a \in Enriched(bank, hits, i)
        PROVE  Told(a, m)
    <3>1. CASE a \in bank[i].answers
      BY <1>3, <2>1, <3>1 DEF Recorded
    <3>2. CASE a \notin bank[i].answers
      <4>1. i \in hits /\ a = <<i, bank[i].origin>>
        BY <2>2, <3>2 DEF Enriched
      <4>2. PICK w \in rows[i] : w.hit /\ w.round = m /\ w.origin = bank[i].origin
        BY <1>1, <4>1 DEF Recorded
      <4>3. a[1] = i /\ Backs(w, i, a)
        BY <4>1, <4>2 DEF Backs
      <4>4. i \in Topic!Ids /\ w.round <= m
        BY <1>3, <1>8, <4>1, <4>2
      <4> QED
        BY <4>2, <4>3, <4>4 DEF Told
    <3> QED
      BY <3>1, <3>2
  <2>3. ASSUME NEW i \in DOMAIN bank', NEW a \in bank'[i].answers PROVE Told(a, m)'
    <3>1. Told(a, m)
      BY <1>5, <2>2, <2>3 DEF Audited
    <3> QED
      BY <1>1, <3>1 DEF Told
  <2>4. ASSUME Unmerged(m), DOMAIN bank \subseteq DOMAIN bank', NEW i \in DOMAIN bank', NEW a \in bank'[i].answers
        PROVE  a[1] = i
    <3>1. i \in DOMAIN bank /\ a \in Enriched(bank, hits, i)
      BY <1>5, <2>4 DEF Audited
    <3>2. \A z \in bank[i].answers : z[1] = i
      BY <1>3, <2>4, <3>1 DEF Recorded
    <3> QED
      BY <3>1, <3>2 DEF Enriched
  <2>5. \A i \in DOMAIN bankFile[m - 1] : \A a \in bankFile[m - 1][i].answers : Told(a, m - 1)'
    BY <1>1, <1>3 DEF Recorded, Told
  <2>6. Unmerged(m) =>
            /\ \A i \in Topic!Ids : \A w \in rows[i] :
                i \in DOMAIN bankFile[m - 1] /\ w.origin = bankFile[m - 1][i].origin
            /\ \A i \in DOMAIN bankFile[m - 1] : \A a \in bankFile[m - 1][i].answers : a[1] = i
    BY <1>3 DEF Recorded
  <2>7. rows \in [Topic!Ids -> SUBSET Topic!Rows]
    BY DEF Recorded
  <2>8. Upheld(m)' => Unmerged(m) /\ DOMAIN bank \subseteq DOMAIN bank'
    BY <1>1, <1>2, <1>3 DEF Upheld, Written
  <2> QED
    BY <1>1, <1>2, <1>3, <2>3, <2>4, <2>5, <2>6, <2>7, <2>8 DEF Recorded, Written
<1>10. Unbroken(m)'
  <2>1. ASSUME kills = 0, Unmerged(m), DOMAIN bank \subseteq DOMAIN bank', NEW i \in Topic!Ids, NEW w \in rows[i]
        PROVE  \/ w.round \in 1 .. m - 1 /\ (w.hit => <<i, w.origin>> \in bankFile[m - 1][i].answers)
               \/ w.round = m /\ (w.hit => <<i, w.origin>> \in bank'[i].answers)
    <3>1. i \in DOMAIN bank /\ w.origin = bank[i].origin
      BY <1>3, <2>1 DEF Recorded
    <3>2. i \in hits => <<i, w.origin>> \in bank'[i].answers
      <4>1. Enriched(bank, hits, i) \subseteq bank'[i].answers
        BY <1>5, <2>1, <3>1 DEF Audited
      <4> QED
        BY <3>1, <4>1 DEF Enriched
    <3>3. ~Ended(m) /\ Upheld(m)
      BY <1>1, <1>3, <2>1, BankAssumption DEF Ended, Upheld, Written
    <3> QED
      BY <1>1, <2>1, <3>2, <3>3 DEF Unbroken, Written
  <2>2. kills = 0 => computed = m
    BY <1>1 DEF Unbroken, Auditing
  <2>3. Upheld(m)' => Unmerged(m) /\ DOMAIN bank \subseteq DOMAIN bank'
    BY <1>1, <1>2, <1>3 DEF Upheld, Written
  <2> QED
    BY <1>1, <1>2, <2>1, <2>2, <2>3 DEF Unbroken, Auditing, Written
<1> QED
  BY <1>2, <1>7, <1>9, <1>10

\* The bank of the sweep is never written: its round is complete.
LEMMA AttachSweepKeeps ==
    ASSUME NEW m \in 0 .. RMax + 1, TopicAt(m), Topic!AttachSweep
    PROVE  TopicAt(m)'
<1> USE DEF TopicAt
<1>1. /\ step = "record" /\ open = {} /\ back = "finish"
      /\ step' = "write" /\ back' = "finish" /\ target' = computed - 1
      /\ UNCHANGED <<bankFile, marked, rows, success, r, computed, novelty, open, rowNo, kills>>
  BY DEF Topic!AttachSweep, Topic!Persist, Topic!disk
<1>2. Banked(m)' /\ (Unmerged(m)' <=> Unmerged(m)) /\ (Ended(m) => Ended(m)') /\ (Attended(m) => Attended(m)')
  BY <1>1, TreeKept
<1>3. Ended(m) /\ bank = bankFile[m - 1] /\ computed \in 1 .. m /\ ~success
  BY <1>1 DEF Solving
<1>4. Attended(m)
  BY <1>1, <1>3 DEF Solving, Attended
<1>5. Solving(m)'
  BY <1>1, <1>2, <1>3, <1>4 DEF Solving, Auditing, Written, Topic!Places
<1>6. Recorded(m)'
  BY <1>1, <1>2 DEF Recorded, Written, Backs, Told, Upheld
<1>7. Unbroken(m)'
  BY <1>1, <1>2 DEF Unbroken, Upheld, Auditing, Written
<1> QED
  BY <1>2, <1>5, <1>6, <1>7

LEMMA WriteBankKeeps ==
    ASSUME NEW m \in 0 .. RMax + 1, TopicAt(m), Topic!WriteBank
    PROVE  TopicAt(m)'
<1> USE DEF TopicAt
<1>1. /\ step = "write"
      /\ UNCHANGED <<marked, rows, success, r, bank, novelty, computed, hits, open, rowNo, target, back, kills>>
  BY DEF Topic!WriteBank, Topic!memory, Topic!fan
<1>2. ~success /\ back \in {"round", "stop", "finish"} /\ marked = 0 .. m - 1
  BY <1>1 DEF Solving, Written, Banked
<1>3. CASE target \in marked
  <2>1. step' = back /\ bankFile' = bankFile
    BY <1>3 DEF Topic!WriteBank
  <2>2. Banked(m)' /\ (Unmerged(m)' <=> Unmerged(m)) /\ (Ended(m) => Ended(m)') /\ (Attended(m) => Attended(m)')
    BY <1>1, <2>1, TreeKept
  <2>3. back = "finish" /\ Ended(m) /\ Attended(m)
    BY <1>1, <1>2, <1>3 DEF Solving, Written
  <2>4. Solving(m)'
    BY <1>1, <1>2, <2>1, <2>2, <2>3 DEF Solving, Auditing, Written, Topic!Places
  <2>5. Recorded(m)'
    BY <1>1, <2>1, <2>2, <2>3 DEF Recorded, Written, Backs, Told, Upheld
  <2>6. Unbroken(m)'
    BY <1>1, <2>1, <2>2, <2>3 DEF Unbroken, Upheld, Auditing, Written
  <2> QED
    BY <2>2, <2>4, <2>5, <2>6
<1>4. CASE target \notin marked
  <2>1. step' = "mark" /\ bankFile' = [bankFile EXCEPT ![target] = bank]
    BY <1>4 DEF Topic!WriteBank
  <2>2. target = m /\ m \in Topic!Rounds /\ back # "finish"
    BY <1>1, <1>2, <1>4, BankAssumption DEF Solving, Auditing, Written, Topic!Rounds
  <2>3. /\ DOMAIN bankFile' = Topic!Rounds
        /\ bankFile'[m] = bank
        /\ \A k \in 0 .. m - 1 : bankFile'[k] = bankFile[k]
    BY <2>1, <2>2 DEF Banked
  <2>4. \A k \in 0 .. m - 1 : Nov(k)' = Nov(k)
    BY <2>3 DEF Nov
  <2>5. Banked(m)'
    <3>1. marked' = 0 .. m - 1 /\ (\A k \in 0 .. m - 1 : Proper(bankFile'[k])) /\ (m > 0 => bankFile'[0] = Topic!Seed)
      <4>1. marked = 0 .. m - 1 /\ (\A k \in 0 .. m - 1 : Proper(bankFile[k])) /\ (m > 0 => bankFile[0] = Topic!Seed)
        BY DEF Banked
      <4> QED
        BY <1>1, <2>3, <4>1
    <3>2. ASSUME NEW k \in 1 .. m - 1
          PROVE  Topic!Loop!Grown(bankFile'[k - 1], bankFile'[k], k) /\ ~Topic!Saturated(Nov(k - 1)')
      BY <2>3, <2>4 DEF Banked
    <3>3. ASSUME NEW j \in 0 .. m - 1, NEW k \in 0 .. m - 1, j <= k PROVE SameQuestions(j, k)'
      <4>1. SameQuestions(j, k)
        BY <3>3 DEF Banked
      <4>2. \A l \in j .. k : bankFile'[l] = bankFile[l]
        BY <2>3, <3>3
      <4> QED
        BY <3>3, <4>1, <4>2 DEF SameQuestions
    <3> QED
      BY <2>3, <3>1, <3>2, <3>3 DEF Banked
  <2>6. m > 0 => bankFile'[m - 1] = bankFile[m - 1] /\ Nov(m - 1)' = Nov(m - 1)
    BY <2>3, <2>4
  <2>7. Ended(m) => Ended(m)'
    BY <2>6 DEF Ended
  <2>11. Unmerged(m)' <=> Unmerged(m)
    BY <2>3 DEF Unmerged
  <2>8. Solving(m)'
    BY <1>1, <1>2, <2>1, <2>2, <2>3, <2>6 DEF Solving, Auditing, Written, Topic!Places
  <2>9. Recorded(m)'
    <3>1. back = "stop" => m > 0
      BY <1>1 DEF Solving, Auditing
    <3>2. Upheld(m)' => Upheld(m)
      BY <1>1, <2>1, <2>6, <2>11, <3>1 DEF Upheld, Written
    <3>3. /\ m > 0 => \A i \in DOMAIN bankFile[m - 1] : \A a \in bankFile[m - 1][i].answers : Told(a, m - 1)'
          /\ back = "stop" => \A i \in DOMAIN bank : \A a \in bank[i].answers : Told(a, m)'
      BY <1>1 DEF Recorded, Written, Told, Backs
    <3> QED
      BY <1>1, <2>1, <2>2, <2>6, <2>11, <3>2, <3>3 DEF Recorded, Written
  <2>10. Unbroken(m)'
    <3>1. Ended(m) => m > 0
      BY DEF Ended
    <3>2. Upheld(m)' => Upheld(m)
      <4>1. back = "stop" => m > 0
        BY <1>1 DEF Solving, Auditing
      <4> QED
        BY <1>1, <2>1, <2>6, <2>11, <4>1 DEF Upheld, Written
    <3> QED
      BY <1>1, <2>1, <2>2, <2>6, <2>7, <3>1, <3>2 DEF Unbroken, Auditing, Written
  <2> QED
    BY <2>5, <2>8, <2>9, <2>10
<1> QED
  BY <1>3, <1>4

\* The marker makes the bank at work the last one of the chain.
LEMMA MarkBankKeeps ==
    ASSUME NEW m \in 0 .. RMax + 1, TopicAt(m), Topic!MarkBank
    PROVE  m + 1 \in 0 .. RMax + 1 /\ TopicAt(m + 1)'
<1> USE DEF TopicAt
<1> DEFINE u == m + 1
<1>1. /\ step = "mark" /\ marked' = marked \cup {target} /\ step' = back
      /\ UNCHANGED <<bankFile, rows, success, r, bank, novelty, computed, hits, open, rowNo, target, back, kills>>
  BY DEF Topic!MarkBank, Topic!memory, Topic!fan
<1>2. /\ ~success /\ target = m /\ bankFile[m] = bank
      /\ \/ /\ back = "stop" /\ m \in 1 .. RMax /\ r = m /\ computed \in 0 .. m /\ ~Topic!Saturated(Nov(m - 1))
            /\ Proper(bank) /\ Topic!Loop!Grown(bankFile[m - 1], bank, m)
            /\ novelty = Append(Nov(m - 1), Topic!NetNew(bank, m))
         \/ back = "round" /\ m = 0 /\ bank = Topic!Seed /\ r = 1 /\ novelty = <<>> /\ computed = 0
  BY <1>1 DEF Solving, Auditing, Written
<1>3. u \in 1 .. RMax + 1 /\ m \in 0 .. RMax /\ u - 1 = m
  BY <1>2, BankAssumption
<1>4. /\ marked = 0 .. m - 1 /\ DOMAIN bankFile = Topic!Rounds
      /\ \A k \in 0 .. m - 1 : Proper(bankFile[k])
      /\ m > 0 => bankFile[0] = Topic!Seed
      /\ \A k \in 1 .. m - 1 : Topic!Loop!Grown(bankFile[k - 1], bankFile[k], k) /\ ~Topic!Saturated(Nov(k - 1))
      /\ \A j, k \in 0 .. m - 1 : j <= k => SameQuestions(j, k)
  BY DEF Banked
<1>5. \A k : Nov(k)' = Nov(k)
  BY <1>1 DEF Nov
<1>6. Proper(Topic!Seed) /\ \A i \in DOMAIN Topic!Seed : Topic!Seed[i].answers = {}
  BY BankAssumption DEF Proper, Topic!IsBank, Topic!Seed, Topic!Fresh, Topic!Nuggets, Topic!Ids, Topic!Rounds
<1>7. ASSUME NEW j \in 0 .. m, NEW k \in 0 .. m, j <= k PROVE SameQuestions(j, k)
  <2>1. CASE k < m
    BY <1>3, <1>4, <1>7, <2>1
  <2>2. CASE j = k
    BY <1>3, <1>7, <2>2 DEF SameQuestions
  <2>3. CASE j < k /\ k = m
    <3>1. j \in 0 .. m - 1 /\ m - 1 \in 0 .. m - 1 /\ j <= m - 1 /\ back = "stop"
      BY <1>2, <1>3, <1>7, <2>3
    <3>2. Topic!Loop!Grown(bankFile[m - 1], bankFile[m], m) /\ SameQuestions(j, m - 1)
      BY <1>2, <1>4, <3>1
    <3>3. ASSUME NEW i \in DOMAIN bankFile[j], \A l \in j .. m : i \in DOMAIN bankFile[l]
          PROVE  bankFile[m][i].origin = bankFile[j][i].origin
      <4>1. (\A l \in j .. m - 1 : l \in j .. m) /\ m - 1 \in j .. m /\ m \in j .. m
        BY <1>3, <3>1
      <4>2. i \in DOMAIN bankFile[m - 1] /\ i \in DOMAIN bankFile[m]
        BY <3>3, <4>1
      <4>3. bankFile[m - 1][i].origin = bankFile[j][i].origin
        BY <3>2, <3>3, <4>1 DEF SameQuestions
      <4>4. bankFile[m][i].origin = bankFile[m - 1][i].origin
        BY <3>2, <4>2 DEF Topic!Loop!Grown
      <4> QED
        BY <4>3, <4>4
    <3> QED
      BY <2>3, <3>3 DEF SameQuestions
  <2> QED
    BY <1>3, <1>7, <2>1, <2>2, <2>3
<1>8. Banked(u)'
  <2>1. marked' = 0 .. u - 1
    BY <1>1, <1>2, <1>3, <1>4
  <2>2. \A k \in 0 .. u - 1 : Proper(bankFile[k])
    BY <1>2, <1>3, <1>4, <1>6
  <2>3. bankFile[0] = Topic!Seed
    BY <1>2, <1>3, <1>4
  <2>4. ASSUME NEW k \in 1 .. u - 1
        PROVE  Topic!Loop!Grown(bankFile[k - 1], bankFile[k], k) /\ ~Topic!Saturated(Nov(k - 1))
    <3>1. CASE k = m
      BY <1>2, <1>3, <2>4, <3>1
    <3>2. CASE k # m
      BY <1>3, <1>4, <2>4, <3>2
    <3> QED
      BY <3>1, <3>2
  <2>5. ASSUME NEW j \in 0 .. u - 1, NEW k \in 0 .. u - 1, j <= k PROVE SameQuestions(j, k)'
    <3>1. SameQuestions(j, k)
      BY <1>3, <1>7, <2>5
    <3> QED
      BY <1>1, <3>1 DEF SameQuestions
  <2> HIDE DEF u
  <2> QED
    BY <1>1, <1>3, <1>4, <1>5, <2>1, <2>2, <2>3, <2>4, <2>5 DEF Banked
<1>9. back = "stop" => novelty = Nov(m)
  <2>1. m \in Nat
    BY <1>3
  <2>2. m > 0 => Append(Nov(m - 1), Topic!NetNew(bankFile[m], m)) = Nov(m)
    BY <2>1, NovGrows
  <2> QED
    BY <1>2, <2>1, <2>2
<1>10. back = "round" => Nov(0) = <<>> /\ ~Topic!Saturated(<<>>)
  <2>1. Nov(0) = <<>>
    BY DEF Nov
  <2>2. ~Topic!Saturated(<<>>)
    BY BankAssumption DEF Topic!Saturated
  <2> QED
    BY <2>1, <2>2
<1>11. Solving(u)'
  <2>1. CASE back = "stop"
    BY <1>1, <1>2, <1>3, <1>5, <1>9, <2>1 DEF Solving, Auditing, Written, Topic!Places
  <2>2. CASE back = "round"
    BY <1>1, <1>2, <1>3, <1>5, <1>10, <2>2 DEF Solving, Auditing, Written, Topic!Places
  <2> QED
    BY <1>2, <2>1, <2>2
<1> DEFINE Growing == \A j, k \in 0 .. m : j <= k => DOMAIN bankFile[j] \subseteq DOMAIN bankFile[k]
<1>14. Growing => /\ Unmerged(m) /\ Upheld(m)
                  /\ m > 0 => DOMAIN bankFile[m - 1] \subseteq DOMAIN bankFile[m] /\ Within(bankFile[m - 1], bankFile[m])
  <2> SUFFICES ASSUME Growing
               PROVE  /\ Unmerged(m) /\ Upheld(m)
                      /\ m > 0 => /\ DOMAIN bankFile[m - 1] \subseteq DOMAIN bankFile[m]
                                  /\ Within(bankFile[m - 1], bankFile[m])
    OBVIOUS
  <2>1. \A j, k \in 0 .. m : j <= k => DOMAIN bankFile[j] \subseteq DOMAIN bankFile[k]
    OBVIOUS
  <2>2. Unmerged(m)
    BY <1>3, <2>1 DEF Unmerged
  <2>3. m > 0 => DOMAIN bankFile[m - 1] \subseteq DOMAIN bankFile[m]
    BY <1>3, <2>1
  <2>4. m > 0 => Within(bankFile[m - 1], bankFile[m])
    <3>1. m > 0 => Topic!Loop!Grown(bankFile[m - 1], bankFile[m], m)
      BY <1>2
    <3> QED
      BY <2>3, <3>1 DEF Within, Topic!Loop!Grown
  <2>5. back = "stop" => m > 0
    BY <1>2
  <2> QED
    BY <1>2, <2>2, <2>3, <2>4, <2>5 DEF Upheld
<1>15. Unmerged(u)' => Growing
  BY <1>1, <1>3 DEF Unmerged
<1> HIDE DEF Growing
<1>12. Recorded(u)'
  <2>1. ASSUME Growing, NEW i \in Topic!Ids, NEW w \in rows[i]
        PROVE  i \in DOMAIN bankFile[m] /\ w.origin = bankFile[m][i].origin
    <3>1. m > 0 /\ i \in DOMAIN bankFile[m - 1] /\ w.origin = bankFile[m - 1][i].origin
      BY <1>14, <2>1 DEF Recorded
    <3>2. Within(bankFile[m - 1], bankFile[m])
      BY <1>14, <2>1, <3>1
    <3> QED
      BY <3>1, <3>2 DEF Within
  <2>2. ASSUME NEW i \in DOMAIN bankFile[m], NEW a \in bankFile[m][i].answers
        PROVE  Told(a, m)' /\ (Growing => a[1] = i)
    <3>1. CASE back = "stop"
      <4>1. Told(a, m)
        BY <1>1, <1>2, <3>1 DEF Recorded, Written
      <4>2. Growing => a[1] = i
        BY <1>1, <1>2, <1>14, <3>1 DEF Recorded, Written
      <4> QED
        BY <1>1, <4>1, <4>2 DEF Told
    <3>2. CASE back = "round"
      BY <1>2, <1>6, <3>2
    <3> QED
      BY <1>2, <3>1, <3>2
  <2>3. rows \in [Topic!Ids -> SUBSET Topic!Rows]
    BY DEF Recorded
  <2> HIDE DEF u
  <2> QED
    BY <1>1, <1>2, <1>3, <1>15, <2>1, <2>2, <2>3 DEF Recorded, Written
<1>13. Unbroken(u)'
  <2>1. ASSUME kills = 0, Growing, NEW i \in Topic!Ids, NEW w \in rows[i]
        PROVE  w.round \in 1 .. m /\ (w.hit => <<i, w.origin>> \in bankFile[m][i].answers)
    <3>1. m > 0 /\ i \in DOMAIN bankFile[m - 1] /\ w.origin = bankFile[m - 1][i].origin
      BY <1>14, <2>1 DEF Recorded
    <3>2. back = "stop" /\ m \in 1 .. RMax /\ ~Ended(m)
      BY <1>2, <3>1, BankAssumption DEF Ended
    <3>3. Topic!Loop!Grown(bankFile[m - 1], bankFile[m], m) /\ Within(bankFile[m - 1], bankFile[m])
      BY <1>2, <1>14, <2>1, <3>2
    <3>4. i \in DOMAIN bankFile[m]
      BY <3>1, <3>3 DEF Within
    <3>5. bankFile[m - 1][i].answers \subseteq bankFile[m][i].answers
      BY <3>1, <3>3, <3>4 DEF Topic!Loop!Grown, Topic!Loop!Open
    <3>6. \/ w.round \in 1 .. m - 1 /\ (w.hit => <<i, w.origin>> \in bankFile[m - 1][i].answers)
          \/ w.round = m /\ (w.hit => <<i, w.origin>> \in bank[i].answers)
      BY <1>1, <1>14, <2>1, <3>2 DEF Unbroken, Written
    <3> QED
      BY <1>2, <3>1, <3>2, <3>5, <3>6
  <2>2. kills = 0 /\ back = "stop" => computed = m
    BY <1>1 DEF Unbroken, Auditing
  <2>3. Upheld(u)' => Growing
    BY <1>15 DEF Upheld
  <2> HIDE DEF u
  <2> QED
    BY <1>1, <1>2, <1>3, <2>1, <2>2, <2>3 DEF Unbroken, Auditing, Written
<1> QED
  BY <1>3, <1>8, <1>11, <1>12, <1>13

LEMMA TopicInitial == Topic!Init => TopicInv
<1> SUFFICES ASSUME Topic!Init PROVE kills \in Nat /\ TopicAt(0)
  BY BankAssumption DEF TopicInv
<1> USE BankAssumption DEF Topic!Init
<1>1. Banked(0)
  BY DEF Banked
<1>2. Solving(0)
  BY DEF Solving, Auditing, Written, Topic!Places
<1>3. Recorded(0)
  BY DEF Recorded, Written, Topic!Ids
<1>4. Unbroken(0)
  BY DEF Unbroken, Auditing, Written
<1> QED
  BY <1>1, <1>2, <1>3, <1>4 DEF TopicAt

LEMMA TopicStands ==
    ASSUME NEW m \in 0 .. RMax + 1, TopicAt(m), UNCHANGED cellVars
    PROVE  TopicAt(m)'
<1> USE DEF TopicAt, cellVars
<1>1. Banked(m)' /\ (Unmerged(m)' <=> Unmerged(m)) /\ (Ended(m) => Ended(m)') /\ (Attended(m) => Attended(m)') /\ \A k : Nov(k)' = Nov(k)
  BY TreeKept
<1>2. Solving(m)'
  BY <1>1 DEF Solving, Auditing, Written
<1>3. Recorded(m)'
  BY <1>1 DEF Recorded, Written, Backs, Told, Upheld
<1>4. Unbroken(m)'
  BY <1>1 DEF Unbroken, Upheld, Auditing, Written
<1> QED
  BY <1>1, <1>2, <1>3, <1>4

\* What a step of the topic does to the chain: the marker adds a bank to it.
LEMMA TopicSteps ==
    ASSUME NEW m \in 0 .. RMax + 1, TopicAt(m), kills \in Nat,
           [MCNext]_<<machine, vars, chunkVars, storeVars, cellVars>>
    PROVE  /\ kills' \in Nat
           /\ \/ TopicAt(m)'
              \/ Topic!MarkBank /\ m + 1 \in 0 .. RMax + 1 /\ TopicAt(m + 1)'
<1>1. CASE UNCHANGED cellVars
  BY <1>1, TopicStands DEF cellVars
<1>2. CASE Topic!Next
  <2>1. CASE Topic!Noop
    BY <2>1, NoopKeeps DEF Topic!Noop
  <2>2. CASE Topic!RoundZero
    BY <2>2, RoundZeroKeeps DEF Topic!RoundZero
  <2>3. CASE Topic!Resume
    BY <2>3, ResumeKeeps DEF Topic!Resume
  <2>4. CASE Topic!Fan
    BY <2>4, FanKeeps DEF Topic!Fan
  <2>5. CASE Topic!Record
    BY <2>5, RecordKeeps DEF Topic!Record
  <2>6. CASE Topic!Audit
    BY <2>6, AuditKeeps DEF Topic!Audit
  <2>7. CASE Topic!Stop
    BY <2>7, StopKeeps DEF Topic!Stop
  <2>8. CASE Topic!Exhausted
    BY <2>8, ExhaustedKeeps DEF Topic!Exhausted
  <2>9. CASE Topic!NothingToSweep
    BY <2>9, NothingToSweepKeeps DEF Topic!NothingToSweep
  <2>10. CASE Topic!Sweep
    BY <2>10, SweepKeeps DEF Topic!Sweep
  <2>11. CASE Topic!AttachSweep
    BY <2>11, AttachSweepKeeps DEF Topic!AttachSweep
  <2>12. CASE Topic!WriteBank
    BY <2>12, WriteBankKeeps DEF Topic!WriteBank
  <2>13. CASE Topic!MarkBank
    BY <2>13, MarkBankKeeps DEF Topic!MarkBank
  <2>14. CASE Topic!Complete
    BY <2>14, CompleteKeeps DEF Topic!Complete
  <2>15. CASE Topic!Crash
    BY <2>15, CrashKeeps
  <2> QED
    BY <1>2, <2>1, <2>2, <2>3, <2>4, <2>5, <2>6, <2>7, <2>8, <2>9, <2>10, <2>11, <2>12, <2>13, <2>14, <2>15
       DEF Topic!Next
<1>3. UNCHANGED cellVars \/ Topic!Next
  BY DEF MCNext, QueueRuns, ChunkRuns, StoreRuns, CellRuns
<1> QED
  BY <1>1, <1>2, <1>3

LEMMA TopicInductive == TopicInv /\ [MCNext]_<<machine, vars, chunkVars, storeVars, cellVars>> => TopicInv'
<1> SUFFICES ASSUME TopicInv, [MCNext]_<<machine, vars, chunkVars, storeVars, cellVars>>
             PROVE  TopicInv'
  OBVIOUS
<1>1. PICK m \in 0 .. RMax + 1 : TopicAt(m)
  BY DEF TopicInv
<1> QED
  BY <1>1, TopicSteps DEF TopicInv

LEMMA TopicAlways == MCSpec => []TopicInv
<1>1. MCInit => TopicInv
  BY TopicInitial DEF MCInit
<1> QED
  BY <1>1, TopicInductive, PTL DEF MCSpec

LEMMA SameCount ==
    \A T : Topic!Cardinality(T) = Cardinality(T) /\ Topic!Loop!Cardinality(T) = Cardinality(T)
<1>1. \A T : Topic!Cardinality(T) = Cardinality(T)
  BY DEF Topic!Cardinality, Cardinality
<1>2. \A T : Topic!Loop!Cardinality(T) = Cardinality(T)
  BY DEF Topic!Loop!Cardinality, Cardinality
<1> QED
  BY <1>1, <1>2

\* The marked rounds are counted and the last of them found.
LEMMA LastMarked ==
    ASSUME NEW m \in Nat, marked = 0 .. m - 1
    PROVE  /\ Topic!Cardinality(marked) = m
           /\ marked # {} <=> m > 0
           /\ m > 0 => Topic!Through = m - 1 /\ Topic!Final = bankFile[m - 1]
<1>1. Topic!Cardinality(marked) = m
  BY FS_Interval, SameCount
<1>2. m > 0 => Topic!Max(marked) = m - 1
  BY DEF Topic!Max
<1> QED
  BY <1>1, <1>2 DEF Topic!Through, Topic!Final

\* While no nugget is merged away the banks of the chain only grow.
LEMMA UnmergedWithin ==
    ASSUME NEW m \in 0 .. RMax + 1, Banked(m), Unmerged(m), NEW j \in 0 .. m - 1, NEW k \in 0 .. m - 1, j <= k
    PROVE  Within(bankFile[j], bankFile[k])
<1>1. SameQuestions(j, k)
  BY DEF Banked
<1>2. \A l \in j .. k : l \in 0 .. m - 1 /\ j <= l
  BY BankAssumption
<1>3. \A l \in j .. k : DOMAIN bankFile[j] \subseteq DOMAIN bankFile[l]
  BY <1>2 DEF Unmerged
<1> QED
  BY <1>1, <1>3, BankAssumption DEF Within, SameQuestions

\* The files of a topic account for its bank, whatever the paraphrase gate
\* answers, whatever rounds were read back and whenever its processes were killed
\* (round_loop.py, rag_loop/record.py, load.py): every answer is recorded under the
\* nugget whose loop committed it, before its round, and an id that stays in the
\* banks stays on its question.  While no nugget of an earlier bank has been merged
\* away (Retained): a finished topic has a record for every nugget it leaves open,
\* every answer has its record under its own nugget, an id denotes one question,
\* and a topic solved by one process serves every answer its loops committed.
THEOREM TreeAccounts == MCSpec => []RecordsWhole
<1>1. TopicInv => RecordsWhole
  <2> SUFFICES ASSUME TopicInv PROVE RecordsWhole
    OBVIOUS
  <2>1. PICK m \in 0 .. RMax + 1 : TopicAt(m)
    BY DEF TopicInv
  <2> USE DEF TopicAt
  <2>2. /\ marked = 0 .. m - 1 /\ m \in Nat
        /\ \A k \in 0 .. m - 1 : Proper(bankFile[k])
        /\ success => m > 0 /\ Ended(m) /\ Attended(m) /\ step \in {"off", "done"}
    BY <2>1 DEF Banked, Solving, Ended
  <2>3. /\ m > 0 => Topic!Through = m - 1 /\ Topic!Final = bankFile[m - 1]
        /\ marked # {} <=> m > 0
    BY <2>2, LastMarked
  <2>4. m > 0 => DOMAIN bankFile[m - 1] \subseteq Topic!Ids
    BY <2>2 DEF Proper, Topic!IsBank
  <2>5. Topic!Retained => Unmerged(m)
    BY <2>2 DEF Topic!Retained, Unmerged
  <2>6. ASSUME Topic!Retained, NEW i \in Topic!Ids, NEW w \in rows[i]
        PROVE  m > 0 /\ i \in DOMAIN bankFile[m - 1] /\ w.origin = bankFile[m - 1][i].origin
    BY <2>1, <2>5, <2>6 DEF Recorded
  <2>7. Topic!Recorded
    <3> SUFFICES ASSUME marked # {}, NEW i \in DOMAIN Topic!Final, NEW a \in Topic!Final[i].answers
                 PROVE  a \in Topic!LoopEvidence(a[1])
      BY DEF Topic!Recorded
    <3>1. m > 0 /\ Topic!Final = bankFile[m - 1] /\ Topic!Through = m - 1
      BY <2>3
    <3>2. Told(a, m - 1)
      BY <2>1, <3>1 DEF Recorded
    <3> QED
      BY <3>1, <3>2 DEF Told, Topic!LoopEvidence, Topic!Evidence, Backs
  <2>8. Topic!IdReleased
    BY <2>1, <2>2 DEF Topic!IdReleased, Banked, SameQuestions
  <2>9. Topic!Retained => Topic!Attempted
    <3> SUFFICES ASSUME Topic!Retained, success, NEW i \in Topic!Open(Topic!Final)
                 PROVE  \E w \in rows[i] : w.origin = Topic!Final[i].origin
      BY DEF Topic!Attempted
    <3>1. m > 0 /\ Topic!Final = bankFile[m - 1] /\ rows[i] # {}
      BY <2>2, <2>3 DEF Attended
    <3>2. i \in Topic!Ids
      BY <2>4, <3>1 DEF Topic!Open
    <3> QED
      BY <2>6, <3>1, <3>2
  <2>10. Topic!Retained => Topic!TwinEvidence
    <3> SUFFICES ASSUME Topic!Retained, marked # {}, NEW i \in DOMAIN Topic!Final, NEW a \in Topic!Final[i].answers
                 PROVE  a \in Topic!LoopEvidence(i)
      BY DEF Topic!TwinEvidence
    <3>1. m > 0 /\ Topic!Final = bankFile[m - 1]
      BY <2>3
    <3>2. a[1] = i
      BY <2>1, <2>5, <3>1 DEF Recorded
    <3> QED
      BY <2>7, <3>2 DEF Topic!Recorded
  <2>11. Topic!Retained => Topic!IdKept
    <3> SUFFICES ASSUME Topic!Retained, NEW k \in marked, NEW i \in DOMAIN bankFile[k]
                 PROVE  /\ \A w \in rows[i] : w.origin = bankFile[k][i].origin
                        /\ \A j \in marked : i \in DOMAIN bankFile[j] => bankFile[j][i].origin = bankFile[k][i].origin
      BY DEF Topic!IdKept
    <3>1. ASSUME NEW j \in marked, i \in DOMAIN bankFile[j]
          PROVE  bankFile[m - 1][i].origin = bankFile[j][i].origin /\ i \in DOMAIN bankFile[m - 1] /\ m > 0
      <4>1. j \in 0 .. m - 1 /\ m - 1 \in 0 .. m - 1 /\ j <= m - 1 /\ m > 0
        BY <2>2, <3>1
      <4>2. Within(bankFile[j], bankFile[m - 1])
        BY <2>1, <2>5, <4>1, UnmergedWithin
      <4> QED
        BY <3>1, <4>1, <4>2 DEF Within
    <3>2. i \in Topic!Ids
      BY <2>4, <3>1
    <3>3. \A w \in rows[i] : w.origin = bankFile[m - 1][i].origin
      BY <2>6, <3>2
    <3> QED
      BY <3>1, <3>3
  <2>12. Topic!UninterruptedServed
    <3> SUFFICES ASSUME kills = 0, success, Topic!Retained, NEW i \in DOMAIN Topic!Final,
                        NEW a \in Topic!Evidence(i, rows[i])
                 PROVE  a \in Topic!Served(i)
      BY DEF Topic!UninterruptedServed, Topic!AllServed
    <3>1. m > 0 /\ Topic!Final = bankFile[m - 1] /\ Topic!Through = m - 1 /\ step \in {"off", "done"}
      BY <2>2, <2>3
    <3>2. i \in Topic!Ids
      BY <2>4, <3>1
    <3>3. PICK w \in rows[i] : w.hit /\ a = <<i, w.origin>>
      BY DEF Topic!Evidence
    <3>4. Upheld(m)
      BY <2>5, <3>1 DEF Upheld, Written
    <3>5. \/ w.round \in 1 .. m - 1 /\ a \in Topic!Final[i].answers
          \/ w.round = m /\ Topic!Final[i].answers = {}
      BY <2>1, <3>1, <3>2, <3>3, <3>4 DEF Unbroken, Written
    <3>6. CASE w.round \in 1 .. m - 1 /\ a \in Topic!Final[i].answers
      BY <3>1, <3>3, <3>6 DEF Topic!Served, Topic!LoopEvidence, Topic!Evidence
    <3>7. CASE w.round = m /\ Topic!Final[i].answers = {}
      BY <2>2, <3>1, <3>3, <3>7 DEF Topic!Served, Topic!SweptAnswers, Topic!Evidence
    <3> QED
      BY <3>5, <3>6, <3>7
  <2> QED
    BY <2>7, <2>8, <2>9, <2>10, <2>11, <2>12 DEF RecordsWhole, Topic!RecordsWhole
<1> QED
  BY <1>1, TopicAlways, PTL

-----------------------------------------------------------------------------
(* The topic implements the coverage loop                                     *)

Chain == [k \in 1 .. Topic!Cardinality(marked) |-> bankFile[k - 1]]

LEMMA ChainIs ==
    ASSUME NEW m \in Nat, marked = 0 .. m - 1
    PROVE  Chain = [k \in 1 .. m |-> bankFile[k - 1]] /\ Len(Chain) = m
<1>1. Chain = [k \in 1 .. m |-> bankFile[k - 1]]
  BY LastMarked DEF Chain
<1>2. Len([k \in 1 .. m |-> bankFile[k - 1]]) = m
  OBVIOUS
<1> QED
  BY <1>1, <1>2

\* The novelty of the chain is the one the loop looks at.
LEMMA ChainNovelty ==
    ASSUME NEW m \in Nat \ {0}, marked = 0 .. m - 1
    PROVE  Topic!Loop!Novelty = [k \in 1 .. m - 1 |-> Topic!Loop!NetNew(bankFile[k], k)]
<1>1. Chain = [k \in 1 .. m |-> bankFile[k - 1]] /\ Len(Chain) = m
  BY ChainIs
<1>2. Topic!Loop!Novelty = [k \in 1 .. Len(Chain) - 1 |-> Topic!Loop!NetNew(Chain[k + 1], k)]
  BY DEF Topic!Loop!Novelty, Chain
<1>3. \A k \in 1 .. m - 1 : Chain[k + 1] = bankFile[k]
  <2>1. \A k \in 1 .. m - 1 : k + 1 \in 1 .. m /\ (k + 1) - 1 = k
    OBVIOUS
  <2> QED
    BY <1>1, <2>1
<1> QED
  BY <1>1, <1>2, <1>3

LEMMA SameTerms ==
    /\ Topic!Loop!Seed = Topic!Seed
    /\ \A b, k : Topic!Loop!NetNew(b, k) = Topic!NetNew(b, k)
    /\ \A s : Topic!Loop!Saturated(s) <=> Topic!Saturated(s)
<1>1. Topic!Loop!Seed = Topic!Seed
  BY DEF Topic!Loop!Seed, Topic!Seed, Topic!Loop!Fresh, Topic!Fresh
<1>2. \A b, k : Topic!Loop!NetNew(b, k) = Topic!NetNew(b, k)
  BY SameCount DEF Topic!Loop!NetNew, Topic!NetNew
<1>3. \A s : Topic!Loop!Saturated(s) <=> Topic!Saturated(s)
  BY DEF Topic!Loop!Saturated, Topic!Saturated
<1> QED
  BY <1>1, <1>2, <1>3

LEMMA StoppedIsEnded ==
    ASSUME NEW m \in 1 .. RMax + 1, Banked(m)
    PROVE  Topic!Loop!Stopped <=> Ended(m)
<1>1. marked = 0 .. m - 1 /\ m \in Nat \ {0}
  BY BankAssumption DEF Banked
<1>2. Topic!Loop!Novelty = Nov(m - 1)
  <2>1. Topic!Loop!Novelty = [k \in 1 .. m - 1 |-> Topic!Loop!NetNew(bankFile[k], k)]
    BY <1>1, ChainNovelty
  <2> QED
    BY <2>1, SameTerms DEF Nov
<1>3. Topic!Loop!Stopped <=> Len(Chain) = RMax + 1 \/ Topic!Loop!Saturated(Topic!Loop!Novelty)
  BY DEF Topic!Loop!Stopped, Chain
<1>4. Len(Chain) = m
  BY <1>1, ChainIs
<1> QED
  BY <1>1, <1>2, <1>3, <1>4, SameTerms DEF Ended

\* Only a marker and the completion of the topic show in the tree.
LEMMA QuietSteps ==
    ASSUME NEW m \in 0 .. RMax + 1, TopicAt(m),
           [MCNext]_<<machine, vars, chunkVars, storeVars, cellVars>>, ~Topic!MarkBank, ~Topic!Complete
    PROVE  UNCHANGED <<Chain, success>>
<1>1. UNCHANGED <<marked, success>> /\ \A k \in marked : bankFile'[k] = bankFile[k]
  <2>1. marked \subseteq DOMAIN bankFile
    BY BankAssumption DEF TopicAt, Banked, Topic!Rounds
  <2>2. CASE Topic!WriteBank
    <3>1. UNCHANGED <<marked, success>>
      BY <2>2 DEF Topic!WriteBank
    <3>2. CASE target \in marked
      BY <2>2, <3>1, <3>2 DEF Topic!WriteBank
    <3>3. CASE target \notin marked
      BY <2>1, <2>2, <3>1, <3>3 DEF Topic!WriteBank
    <3> QED
      BY <3>1, <3>2, <3>3
  <2>3. CASE UNCHANGED <<bankFile, marked, success>>
    BY <2>3
  <2>4. CASE Topic!Next /\ ~Topic!WriteBank
    <3>1. UNCHANGED <<bankFile, marked, success>>
      BY <2>4 DEF Topic!Next, Topic!Noop, Topic!RoundZero, Topic!Resume, Topic!Fan, Topic!Record, Topic!Audit,
             Topic!Stop, Topic!Exhausted, Topic!NothingToSweep, Topic!Sweep, Topic!AttachSweep, Topic!Crash,
             Topic!disk
    <3> QED
      BY <3>1
  <2> QED
    BY <2>2, <2>3, <2>4 DEF MCNext, QueueRuns, ChunkRuns, StoreRuns, CellRuns, cellVars
<1>2. marked = 0 .. m - 1 /\ m \in Nat
  BY DEF TopicAt, Banked
<1>3. Chain = [k \in 1 .. m |-> bankFile[k - 1]]
  BY <1>2, ChainIs
<1>4. Chain' = [k \in 1 .. m |-> bankFile'[k - 1]]
  BY <1>1, <1>2, LastMarked DEF Chain
<1>5. \A k \in 1 .. m : bankFile'[k - 1] = bankFile[k - 1]
  BY <1>1, <1>2
<1> QED
  BY <1>1, <1>3, <1>4, <1>5

LEMMA LoopSteps ==
    ASSUME NEW m \in 0 .. RMax + 1, TopicAt(m), kills \in Nat,
           [MCNext]_<<machine, vars, chunkVars, storeVars, cellVars>>
    PROVE  [Topic!Loop!Next]_Topic!Loop!loopVars
<1>1. marked = 0 .. m - 1 /\ m \in Nat /\ Banked(m)
  BY DEF TopicAt, Banked
<1>2. Chain = [k \in 1 .. m |-> bankFile[k - 1]] /\ Len(Chain) = m
  BY <1>1, ChainIs
<1>3. CASE ~Topic!MarkBank /\ ~Topic!Complete
  BY <1>3, QuietSteps DEF Chain, Topic!Loop!loopVars
<1>4. CASE Topic!Complete
  <2>1. success' /\ UNCHANGED <<bankFile, marked>> /\ Ended(m)
    BY <1>4 DEF Topic!Complete, TopicAt, Solving
  <2>2. m \in 1 .. RMax + 1
    BY <2>1 DEF Ended
  <2>3. Topic!Loop!Stopped
    BY <1>1, <2>1, <2>2, StoppedIsEnded
  <2>4. Chain # <<>> /\ Chain' = Chain
    <3>1. Chain # <<>>
      <4>1. Len(Chain) > 0
        BY <1>2, <2>2
      <4>2. Len(<<>>) = 0
        OBVIOUS
      <4> QED
        BY <4>1, <4>2
    <3> QED
      BY <2>1, <3>1 DEF Chain
  <2>5. Topic!Loop!Finish
    BY <2>1, <2>3, <2>4 DEF Topic!Loop!Finish, Chain
  <2> QED
    BY <2>5 DEF Topic!Loop!Next
<1>5. CASE Topic!MarkBank
  <2>1. m + 1 \in 0 .. RMax + 1 /\ TopicAt(m + 1)'
    BY <1>5, MarkBankKeeps
  <2>2. UNCHANGED <<bankFile, success>>
    BY <1>5 DEF Topic!MarkBank
  <2>3. marked' = 0 .. m /\ Banked(m + 1)'
    BY <1>1, <2>1 DEF TopicAt, Banked
  <2>4. Topic!Cardinality(marked') = m + 1
    <3>1. Cardinality(0 .. m) = m + 1
      BY <1>1, FS_Interval
    <3> QED
      BY <2>3, <3>1, SameCount
  <2>5. Chain' = [k \in 1 .. m + 1 |-> bankFile[k - 1]]
    BY <2>2, <2>4 DEF Chain
  <2>6. CASE m = 0
    <3>1. bankFile[0] = Topic!Loop!Seed
      BY <2>2, <2>3, <2>6, SameTerms DEF Banked
    <3>2. Chain = <<>>
      BY <1>2, <2>6
    <3>3. Chain' = <<Topic!Loop!Seed>>
      BY <2>5, <2>6, <3>1
    <3>4. Topic!Loop!Start
      BY <2>2, <3>2, <3>3 DEF Topic!Loop!Start, Chain
    <3> QED
      BY <3>4 DEF Topic!Loop!Next
  <2>7. CASE m > 0
    <3>1. m \in 1 .. RMax /\ ~Ended(m)
      BY <1>5, <2>1, <2>7, BankAssumption DEF Topic!MarkBank, TopicAt, Solving, Auditing, Written, Ended
    <3>2. ~Topic!Loop!Stopped
      BY <1>1, <3>1, StoppedIsEnded
    <3>3. Chain # <<>>
      BY <1>2, <2>7
    <3>4. Len(Chain') = m + 1
      BY <1>1, <2>5
    <3>5. SubSeq(Chain', 1, m) = Chain
      <4>1. \A k \in 1 .. m : Chain'[k] = Chain[k]
        BY <1>1, <1>2, <2>5
      <4>2. SubSeq(Chain', 1, m) = [k \in 1 .. m |-> Chain'[k]]
        BY <1>1, <2>5
      <4> QED
        BY <1>2, <4>1, <4>2
    <3>6. Topic!Loop!Grown(Chain[m], Chain'[m + 1], m)
      <4>1. Topic!Loop!Grown(bankFile[m - 1], bankFile[m], m)
        BY <2>2, <2>3, <3>1 DEF Banked
      <4> QED
        BY <1>2, <2>5, <3>1, <4>1
    <3>7. Topic!Loop!Grow
      <4>1. /\ Chain # <<>> /\ ~Topic!Loop!Stopped
            /\ Len(Chain') = Len(Chain) + 1
            /\ SubSeq(Chain', 1, Len(Chain)) = Chain
            /\ Topic!Loop!Grown(Chain[Len(Chain)], Chain'[Len(Chain) + 1], Len(Chain))
            /\ success' = success
        BY <1>2, <2>2, <3>2, <3>3, <3>4, <3>5, <3>6
      <4> QED
        BY <4>1 DEF Topic!Loop!Grow, Chain
    <3> QED
      BY <3>7 DEF Topic!Loop!Next
  <2> QED
    BY <1>1, <2>6, <2>7
<1> QED
  BY <1>3, <1>4, <1>5

\* A topic killed and resumed at any step is the coverage loop: the rounds that
\* carry a marker are its chain of banks, from the seed, each grown by one audit,
\* ended by saturation or at R_max, and never changed (round_loop.py, driver.py).
THEOREM ResumesInvisible == MCSpec => LoopSpec
<1>1. MCInit => Topic!Loop!Init
  <2> SUFFICES ASSUME MCInit PROVE Topic!Loop!Init
    OBVIOUS
  <2>1. marked = {} /\ success = FALSE
    BY DEF MCInit, Topic!Init
  <2>2. Topic!Cardinality(marked) = 0
    BY <2>1, FS_EmptySet, SameCount
  <2>3. [k \in 1 .. 0 |-> bankFile[k - 1]] = <<>>
    OBVIOUS
  <2> QED
    BY <2>1, <2>2, <2>3 DEF Topic!Loop!Init
<1>2. TopicInv /\ [MCNext]_<<machine, vars, chunkVars, storeVars, cellVars>> => [Topic!Loop!Next]_Topic!Loop!loopVars
  BY LoopSteps DEF TopicInv
<1> QED
  BY <1>1, <1>2, TopicAlways, PTL DEF MCSpec, LoopSpec, Topic!LoopSpec, Topic!Loop!Spec

-----------------------------------------------------------------------------
(* The corpus: documents, ranges, batches and their records                   *)

Docs   == Nat \X Nat
Blocks == Nat \X Nat \X Nat

\* A run of documents of one file, and the records a pool makes of documents.
Span(f, a, b) == [d \in 1 .. b - a |-> <<f, a + d>>]
Record(natives, doc) == IF natives[doc[1]][doc[2]] > 0 THEN <<doc>> ELSE <<>>
Records(natives, docs) == FlattenSeq([k \in DOMAIN docs |-> Record(natives, docs[k])])
SpanOf(b) == Span(b[1], b[2], b[3])

LEMMA SameFlatten == \A ss : Chunk!FlattenSeq(ss) = FlattenSeq(ss)
BY DEF Chunk!FlattenSeq, FlattenSeq

LEMMA SegmentIs == \A docs : Chunk!Segment(docs) = Records(scen.files, docs)
BY SameFlatten DEF Chunk!Segment, Chunk!Sentences, Records, Record

LEMMA RecordType ==
    ASSUME NEW natives, NEW docs \in Seq(Docs)
    PROVE  [k \in DOMAIN docs |-> Record(natives, docs[k])] \in Seq(Seq(Docs))
<1>1. \A k \in DOMAIN docs : Record(natives, docs[k]) \in Seq(Docs)
  BY DEF Record
<1>2. DOMAIN docs = 1 .. Len(docs) /\ Len(docs) \in Nat
  BY LenProperties
<1> QED
  BY <1>1, <1>2, FunIsSeq

LEMMA RecordsType ==
    ASSUME NEW natives, NEW docs \in Seq(Docs)
    PROVE  Records(natives, docs) \in Seq(Docs)
BY RecordType, FlatType DEF Records

LEMMA RecordsEmpty == \A natives : Records(natives, <<>>) = <<>>
<1> SUFFICES ASSUME NEW natives PROVE Records(natives, <<>>) = <<>>
  OBVIOUS
<1>1. [k \in DOMAIN <<>> |-> Record(natives, <<>>[k])] = <<>>
  OBVIOUS
<1> QED
  BY <1>1, FlatEmpty DEF Records

\* Documents segmented together or one part after the other.
LEMMA RecordsConcat ==
    ASSUME NEW natives, NEW s \in Seq(Docs), NEW t \in Seq(Docs)
    PROVE  Records(natives, s \o t) = Records(natives, s) \o Records(natives, t)
<1> DEFINE S == [k \in DOMAIN s |-> Record(natives, s[k])]
           T == [k \in DOMAIN t |-> Record(natives, t[k])]
           U == [k \in DOMAIN (s \o t) |-> Record(natives, (s \o t)[k])]
<1>1. S \in Seq(Seq(Docs)) /\ T \in Seq(Seq(Docs)) /\ U \in Seq(Seq(Docs))
  <2>1. s \o t \in Seq(Docs)
    OBVIOUS
  <2> QED
    BY <2>1, RecordType
<1>2. Len(S) = Len(s) /\ Len(T) = Len(t) /\ Len(U) = Len(s) + Len(t)
  OBVIOUS
<1>3. ASSUME NEW k \in 1 .. Len(s) + Len(t) PROVE U[k] = IF k <= Len(s) THEN S[k] ELSE T[k - Len(s)]
  OBVIOUS
<1> HIDE DEF S, T, U
<1>4. U = S \o T
  <2>1. Len(U) = Len(S) + Len(T) /\ \A k \in 1 .. Len(S) + Len(T) : U[k] = IF k <= Len(S) THEN S[k] ELSE T[k - Len(S)]
    BY <1>2, <1>3
  <2> QED
    BY <1>1, <2>1, ConcatIs
<1>5. FlattenSeq(S \o T) = FlattenSeq(S) \o FlattenSeq(T)
  BY <1>1, FlatConcat
<1> QED
  BY <1>4, <1>5 DEF Records, S, T, U

\* Blocks of documents segmented block by block.
LEMMA RecordsFlat ==
    ASSUME NEW natives, NEW ss \in Seq(Seq(Docs))
    PROVE  Records(natives, FlattenSeq(ss)) = FlattenSeq([k \in DOMAIN ss |-> Records(natives, ss[k])])
<1> DEFINE Each(tt) == [k \in DOMAIN tt |-> Records(natives, tt[k])]
           T == {tt \in Seq(Seq(Docs)) : Records(natives, FlattenSeq(tt)) = FlattenSeq(Each(tt))}
<1>1. <<>> \in T
  <2>1. Each(<<>>) = <<>>
    OBVIOUS
  <2>2. Records(natives, FlattenSeq(<<>>)) = FlattenSeq(Each(<<>>))
    BY <2>1, RecordsEmpty, FlatEmpty, Zenon
  <2> QED
    BY <2>2
<1>2. ASSUME NEW tt \in Seq(Seq(Docs)), NEW s \in Seq(Docs), tt \in T PROVE Append(tt, s) \in T
  <2>1. FlattenSeq(Append(tt, s)) = FlattenSeq(tt) \o s
    BY FlatAppend
  <2>2. Each(tt) \in Seq(Seq(Docs))
    <3>1. \A k \in DOMAIN tt : tt[k] \in Seq(Docs)
      OBVIOUS
    <3>2. \A k \in DOMAIN tt : Records(natives, tt[k]) \in Seq(Docs)
      BY <3>1, RecordsType
    <3>3. DOMAIN tt = 1 .. Len(tt) /\ Len(tt) \in Nat
      BY LenProperties
    <3> QED
      BY <3>2, <3>3, FunIsSeq
  <2>3. Each(Append(tt, s)) = Append(Each(tt), Records(natives, s))
    BY <2>2
  <2>4. FlattenSeq(Append(Each(tt), Records(natives, s))) = FlattenSeq(Each(tt)) \o Records(natives, s)
    <3>1. Records(natives, s) \in Seq(Docs)
      BY RecordsType
    <3> HIDE DEF Each
    <3> QED
      BY <2>2, <3>1, FlatAppend
  <2>5. Records(natives, FlattenSeq(tt) \o s) = Records(natives, FlattenSeq(tt)) \o Records(natives, s)
    BY FlatType, RecordsConcat
  <2>6. Records(natives, FlattenSeq(tt)) = FlattenSeq(Each(tt))
    BY <1>2
  <2> HIDE DEF Each
  <2>7. Records(natives, FlattenSeq(Append(tt, s))) = FlattenSeq(Each(Append(tt, s)))
    BY <2>1, <2>3, <2>4, <2>5, <2>6
  <2>8. Append(tt, s) \in Seq(Seq(Docs))
    OBVIOUS
  <2> QED
    BY <2>7, <2>8
<1> HIDE DEF T
<1>3. Seq(Seq(Docs)) \subseteq T
  BY <1>1, <1>2, SeqInd
<1> QED
  BY <1>3 DEF T

LEMMA SpanType ==
    ASSUME NEW f \in Nat, NEW a \in Nat, NEW b \in Nat, a <= b
    PROVE  Span(f, a, b) \in Seq(Docs) /\ Len(Span(f, a, b)) = b - a
<1>1. b - a \in Nat
  OBVIOUS
<1>2. \A d \in 1 .. b - a : <<f, a + d>> \in Docs
  BY DEF Docs
<1> QED
  BY <1>1, <1>2, FunIsSeq DEF Span

LEMMA SpanJoin ==
    ASSUME NEW f \in Nat, NEW a \in Nat, NEW b \in Nat, NEW c \in Nat, a <= b, b <= c
    PROVE  Span(f, a, b) \o Span(f, b, c) = Span(f, a, c)
<1> DEFINE s == Span(f, a, b)
           t == Span(f, b, c)
           u == Span(f, a, c)
<1>1. /\ s \in Seq(Docs) /\ t \in Seq(Docs) /\ u \in Seq(Docs)
      /\ Len(s) = b - a /\ Len(t) = c - b /\ Len(u) = c - a
  <2>1. a <= c
    OBVIOUS
  <2> QED
    BY <2>1, SpanType
<1>2. ASSUME NEW d \in 1 .. c - a PROVE u[d] = IF d <= b - a THEN s[d] ELSE t[d - (b - a)]
  <2>1. CASE d <= b - a
    BY <2>1 DEF Span
  <2>2. CASE ~(d <= b - a)
    <3>1. d - (b - a) \in 1 .. c - b /\ b + (d - (b - a)) = a + d
      BY <2>2
    <3> QED
      BY <2>2, <3>1 DEF Span
  <2> QED
    BY <2>1, <2>2
<1> HIDE DEF s, t, u
<1>3. Len(u) = Len(s) + Len(t) /\ \A k \in 1 .. Len(s) + Len(t) : u[k] = IF k <= Len(s) THEN s[k] ELSE t[k - Len(s)]
  <2>1. Len(s) = b - a /\ Len(t) = c - b /\ Len(u) = c - a
    BY <1>1
  <2>2. (b - a) + (c - b) = c - a
    OBVIOUS
  <2>3. \A k \in 1 .. c - a : u[k] = IF k <= Len(s) THEN s[k] ELSE t[k - Len(s)]
    BY <1>2, <2>1, Zenon
  <2>4. Len(s) + Len(t) = c - a
    BY <2>1, <2>2, Zenon
  <2> QED
    BY <2>1, <2>3, <2>4, Zenon
<1>4. u = s \o t
  BY <1>1, <1>3, ConcatIs
<1> QED
  BY <1>4 DEF s, t, u

LEMMA SpanStart ==
    ASSUME NEW f \in Nat, NEW len \in Nat
    PROVE  Span(f, 0, len) \in Seq(Docs)
<1>1. \A z \in Nat : z <= len => Span(f, z, len) \in Seq(Docs)
  BY SpanType
<1>2. 0 \in Nat /\ 0 <= len
  OBVIOUS
<1> HIDE DEF Span
<1> QED
  BY <1>1, <1>2

LEMMA SpanMore ==
    ASSUME NEW f \in Nat, NEW lo \in Nat, NEW hi \in Nat, lo <= hi
    PROVE  Span(f, 0, lo) \o Span(f, lo, hi) = Span(f, 0, hi)
<1>1. \A z \in Nat : z <= lo => Span(f, z, lo) \o Span(f, lo, hi) = Span(f, z, hi)
  BY SpanJoin
<1>2. 0 \in Nat /\ 0 <= lo
  OBVIOUS
<1> HIDE DEF Span
<1> QED
  BY <1>1, <1>2

-----------------------------------------------------------------------------
(* The ranges of a seed                                                       *)

\* The ranges of a file of len documents: per documents each, the last perhaps fewer.
End(k, per, len) == IF k * per < len THEN k * per ELSE len
Cut(f, len, per) == [k \in 1 .. (len + per - 1) \div per |-> <<f, (k - 1) * per, End(k, per, len)>>]

LEMMA CutAt ==
    ASSUME NEW f \in Nat, NEW len \in Nat, NEW per \in Nat \ {0}, NEW k \in 1 .. (len + per - 1) \div per
    PROVE  /\ Cut(f, len, per)[k] = <<f, End(k - 1, per, len), End(k, per, len)>>
           /\ End(k - 1, per, len) \in Nat /\ End(k, per, len) \in Nat
           /\ End(k - 1, per, len) < End(k, per, len) /\ End(k, per, len) <= len
<1> DEFINE m == (len + per - 1) \div per
<1>1. m \in Nat /\ k \in 1 .. m /\ (k - 1) * per \in Nat /\ (k - 1) * per < len
  BY RunsOf
<1>2. k * per = (k - 1) * per + per /\ k * per \in Nat
  <2>1. k - 1 \in Nat /\ k \in Nat /\ (k - 1) + 1 = k
    BY <1>1
  <2> QED
    BY <2>1, Products
<1>3. End(k - 1, per, len) = (k - 1) * per
  BY <1>1 DEF End
<1>4. Cut(f, len, per)[k] = <<f, (k - 1) * per, End(k, per, len)>>
  BY DEF Cut
<1>5. End(k, per, len) \in Nat /\ (k - 1) * per < End(k, per, len) /\ End(k, per, len) <= len
  <2> DEFINE a == (k - 1) * per
             b == k * per
  <2>1. a \in Nat /\ b = a + per /\ a < len
    BY <1>1, <1>2
  <2>2. End(k, per, len) = IF b < len THEN b ELSE len
    BY DEF End
  <2> HIDE DEF a, b
  <2>3. End(k, per, len) \in Nat /\ a < End(k, per, len) /\ End(k, per, len) <= len
    BY <2>1, <2>2
  <2> QED
    BY <2>3 DEF a
<1> QED
  BY <1>1, <1>3, <1>4, <1>5

LEMMA CutEnds ==
    ASSUME NEW len \in Nat, NEW per \in Nat \ {0}, NEW m, m = (len + per - 1) \div per
    PROVE  m \in Nat /\ End(m, per, len) = len /\ End(0, per, len) = 0
<1>1. m \in Nat /\ len <= m * per
  BY RunsOf
<1>2. m * per \in Nat
  BY <1>1, Products
<1> QED
  BY <1>1, <1>2 DEF End

LEMMA CutType ==
    ASSUME NEW f \in Nat, NEW len \in Nat, NEW per \in Nat \ {0}
    PROVE  Cut(f, len, per) \in [1 .. (len + per - 1) \div per -> Blocks]
<1> DEFINE m == (len + per - 1) \div per
<1>1. ASSUME NEW k \in 1 .. m PROVE Cut(f, len, per)[k] \in Blocks
  <2>1. /\ Cut(f, len, per)[k] = <<f, End(k - 1, per, len), End(k, per, len)>>
        /\ End(k - 1, per, len) \in Nat /\ End(k, per, len) \in Nat
    BY CutAt
  <2> QED
    BY <2>1 DEF Blocks
<1>2. Cut(f, len, per) = [k \in 1 .. m |-> Cut(f, len, per)[k]]
  BY DEF Cut
<1> QED
  BY <1>1, <1>2

\* Together they are the file.
LEMMA CutJoin ==
    ASSUME NEW f \in Nat, NEW len \in Nat, NEW per \in Nat \ {0}, NEW m, m = (len + per - 1) \div per
    PROVE  FlattenSeq([k \in 1 .. m |-> SpanOf(Cut(f, len, per)[k])]) = Span(f, 0, len)
<1>1. m \in Nat /\ End(m, per, len) = len /\ End(0, per, len) = 0
  BY CutEnds
<1>0. ASSUME NEW k \in 1 .. m
      PROVE  /\ Cut(f, len, per)[k] = <<f, End(k - 1, per, len), End(k, per, len)>>
             /\ End(k - 1, per, len) \in Nat /\ End(k, per, len) \in Nat
             /\ End(k - 1, per, len) < End(k, per, len) /\ End(k, per, len) <= len
  BY CutAt
<1> DEFINE G == [k \in 1 .. m |-> SpanOf(Cut(f, len, per)[k])]
           Upto(j) == FlattenSeq([k \in 1 .. j |-> G[k]])
           N == {j \in Nat : j <= m => Upto(j) = Span(f, 0, End(j, per, len))}
<1>2. ASSUME NEW k \in 1 .. m PROVE G[k] = Span(f, End(k - 1, per, len), End(k, per, len)) /\ G[k] \in Seq(Docs)
  <2>1. /\ Cut(f, len, per)[k] = <<f, End(k - 1, per, len), End(k, per, len)>>
        /\ End(k - 1, per, len) \in Nat /\ End(k, per, len) \in Nat
        /\ End(k - 1, per, len) < End(k, per, len)
    BY <1>0
  <2>2. G[k] = Span(f, End(k - 1, per, len), End(k, per, len))
    BY <2>1 DEF SpanOf
  <2> DEFINE a == End(k - 1, per, len)
             b == End(k, per, len)
  <2>3. a \in Nat /\ b \in Nat /\ a < b
    BY <2>1
  <2> HIDE DEF a, b
  <2>4. Span(f, a, b) \in Seq(Docs)
    BY <2>3, SpanType
  <2> QED
    BY <2>2, <2>4 DEF a, b
<1> HIDE DEF G
<1>3. 0 \in N
  <2>1. [k \in 1 .. 0 |-> G[k]] = <<>>
    OBVIOUS
  <2>2. Span(f, 0, 0) = <<>>
    BY DEF Span
  <2>3. Upto(0) = Span(f, 0, End(0, per, len))
    BY <1>1, <2>1, <2>2, FlatEmpty, Zenon
  <2> QED
    BY <2>3
<1>4. ASSUME NEW j \in Nat, j \in N PROVE j + 1 \in N
  <2> SUFFICES ASSUME j + 1 <= m PROVE Upto(j + 1) = Span(f, 0, End(j + 1, per, len))
    OBVIOUS
  <2>1. Upto(j) = Span(f, 0, End(j, per, len))
    BY <1>1, <1>4
  <2>2. Upto(j + 1) = Upto(j) \o G[j + 1]
    <3>1. \A i \in 1 .. j + 1 : G[i] \in Seq(Docs)
      BY <1>1, <1>2
    <3> QED
      BY <3>1, FlatNext
  <2>3. j + 1 \in 1 .. m /\ (j + 1) - 1 = j
    BY <1>1
  <2>4. G[j + 1] = Span(f, End(j, per, len), End(j + 1, per, len))
    BY <1>2, <2>3
  <2>5. End(j, per, len) \in Nat /\ End(j + 1, per, len) \in Nat /\ End(j, per, len) <= End(j + 1, per, len)
    <3>1. /\ End((j + 1) - 1, per, len) \in Nat /\ End(j + 1, per, len) \in Nat
          /\ End((j + 1) - 1, per, len) < End(j + 1, per, len)
      BY <2>3, CutAt
    <3> QED
      BY <2>3, <3>1
  <2>6. Span(f, 0, End(j, per, len)) \o Span(f, End(j, per, len), End(j + 1, per, len)) = Span(f, 0, End(j + 1, per, len))
    <3> DEFINE lo == End(j, per, len)
               hi == End(j + 1, per, len)
    <3>1. lo \in Nat /\ hi \in Nat /\ lo <= hi
      BY <2>5
    <3> HIDE DEF lo, hi
    <3>2. Span(f, 0, lo) \o Span(f, lo, hi) = Span(f, 0, hi)
      BY <3>1, SpanMore
    <3> QED
      BY <3>2 DEF lo, hi
  <2> HIDE DEF Upto
  <2> QED
    BY <2>1, <2>2, <2>4, <2>6
<1> HIDE DEF N
<1>5. m \in N
  BY <1>1, <1>3, <1>4, NatInd
<1>6. Upto(m) = Span(f, 0, len)
  <2>1. m <= m => Upto(m) = Span(f, 0, End(m, per, len))
    BY <1>5 DEF N
  <2> QED
    BY <1>1, <2>1
<1>7. [k \in 1 .. m |-> G[k]] = G
  BY DEF G
<1> QED
  BY <1>6, <1>7 DEF G

\* The ranges of the first j files, and the documents of these.
Upto(natives, per, j)  == FlattenSeq([f \in 1 .. j |-> Cut(f, Len(natives[f]), per)])
Whole(natives, j)      == FlattenSeq([f \in 1 .. j |-> Span(f, 0, Len(natives[f]))])
Spans(rs)              == [k \in DOMAIN rs |-> SpanOf(rs[k])]
Sorted(rs)             == \A i, k \in DOMAIN rs : i < k => Chunk!Before(rs[i], rs[k])
Fits(natives, rs, j)   ==
    \A i \in DOMAIN rs : /\ rs[i][1] \in 1 .. j /\ rs[i][2] \in Nat /\ rs[i][3] \in Nat
                         /\ rs[i][2] < rs[i][3] /\ rs[i][3] <= Len(natives[rs[i][1]])
                         /\ rs[i] = <<rs[i][1], rs[i][2], rs[i][3]>>

LEMMA SpansType ==
    ASSUME NEW natives, NEW j \in Nat, NEW rs \in Seq(Blocks), Fits(natives, rs, j)
    PROVE  Spans(rs) \in Seq(Seq(Docs)) /\ Len(Spans(rs)) = Len(rs)
<1>1. DOMAIN rs = 1 .. Len(rs) /\ Len(rs) \in Nat
  BY LenProperties
<1>2. ASSUME NEW k \in 1 .. Len(rs) PROVE SpanOf(rs[k]) \in Seq(Docs)
  <2>1. rs[k][1] \in Nat /\ rs[k][2] \in Nat /\ rs[k][3] \in Nat /\ rs[k][2] <= rs[k][3]
    BY <1>1 DEF Fits
  <2> QED
    BY <2>1, SpanType DEF SpanOf
<1> QED
  BY <1>1, <1>2, FunIsSeq DEF Spans

LEMMA CutFits ==
    ASSUME NEW natives, natives \in Seq(Seq(Nat)), NEW f \in 1 .. Len(natives), NEW per \in Nat \ {0}
    PROVE  /\ Cut(f, Len(natives[f]), per) \in Seq(Blocks)
           /\ Fits(natives, Cut(f, Len(natives[f]), per), f)
           /\ Sorted(Cut(f, Len(natives[f]), per))
<1> DEFINE len == Len(natives[f])
           c == Cut(f, len, per)
           m == (len + per - 1) \div per
<1>1. len \in Nat /\ f \in Nat
  <2>1. natives[f] \in Seq(Nat)
    OBVIOUS
  <2> QED
    BY <2>1, LenProperties
<1> HIDE DEF len
<1>2. m \in Nat
  BY <1>1, CutEnds
<1>3. c \in [1 .. m -> Blocks]
  BY <1>1, CutType
<1>4. ASSUME NEW k \in 1 .. m
      PROVE  /\ c[k] = <<f, End(k - 1, per, len), End(k, per, len)>>
             /\ End(k - 1, per, len) \in Nat /\ End(k, per, len) \in Nat
             /\ End(k - 1, per, len) < End(k, per, len) /\ End(k, per, len) <= len
  BY <1>1, CutAt
<1>5. c \in Seq(Blocks) /\ DOMAIN c = 1 .. m
  <2> HIDE DEF c, m
  <2> QED
    BY <1>2, <1>3, FunIsSeq
<1>6. ASSUME NEW i \in 1 .. m, NEW k \in 1 .. m, i < k PROVE Chunk!Before(c[i], c[k])
  <2>1. i * per \in Nat /\ (k - 1) * per \in Nat /\ i * per <= (k - 1) * per
    <3>1. i \in Nat /\ k - 1 \in Nat /\ i <= k - 1
      BY <1>2, <1>6
    <3> QED
      BY <3>1, Products
  <2>2. c[i][1] = c[k][1] /\ c[i][2] = End(i - 1, per, len) /\ c[k][2] = End(k - 1, per, len)
    BY <1>4
  <2>3. End(i - 1, per, len) < End(i, per, len) /\ End(i - 1, per, len) \in Nat /\ End(i, per, len) \in Nat /\ End(k - 1, per, len) \in Nat
    BY <1>4
  <2>4. End(i, per, len) <= End(k - 1, per, len)
    <3> DEFINE a == i * per
               b == (k - 1) * per
    <3>1. End(i, per, len) = (IF a < len THEN a ELSE len) /\ End(k - 1, per, len) = IF b < len THEN b ELSE len
      BY DEF End
    <3>2. a \in Nat /\ b \in Nat /\ a <= b
      BY <2>1
    <3> HIDE DEF a, b
    <3> QED
      BY <1>1, <3>1, <3>2
  <2>5. End(i - 1, per, len) < End(k - 1, per, len)
    BY <2>3, <2>4
  <2> QED
    BY <2>2, <2>5 DEF Chunk!Before
<1>7. Sorted(c)
  <2> HIDE DEF c
  <2> QED
    BY <1>5, <1>6 DEF Sorted
<1>8. ASSUME NEW i \in 1 .. m
      PROVE  /\ c[i][1] = f /\ c[i][2] \in Nat /\ c[i][3] \in Nat /\ c[i][2] < c[i][3] /\ c[i][3] <= len
             /\ c[i] = <<c[i][1], c[i][2], c[i][3]>>
  BY <1>4
<1>9. Fits(natives, c, f)
  <2>1. f \in 1 .. f
    BY <1>1
  <2>2. DOMAIN c = 1 .. m
    BY <1>5
  <2> HIDE DEF c, m, len
  <2>3. ASSUME NEW i \in 1 .. m
        PROVE  /\ c[i][1] \in 1 .. f /\ c[i][2] \in Nat /\ c[i][3] \in Nat
               /\ c[i][2] < c[i][3] /\ c[i][3] <= Len(natives[c[i][1]])
               /\ c[i] = <<c[i][1], c[i][2], c[i][3]>>
    <3>1. Len(natives[c[i][1]]) = len
      BY <1>8 DEF len
    <3> QED
      BY <1>8, <2>1, <3>1, Zenon
  <2> QED
    BY <2>2, <2>3, Zenon DEF Fits
<1> QED
  BY <1>5, <1>7, <1>9 DEF len

LEMMA Blanks ==
    ASSUME NEW rs \in Seq(Blocks), NEW c \in Seq(Blocks)
    PROVE  /\ rs \o c \in Seq(Blocks) /\ DOMAIN (rs \o c) = 1 .. Len(rs) + Len(c)
           /\ DOMAIN rs = 1 .. Len(rs) /\ DOMAIN c = 1 .. Len(c) /\ Len(rs) \in Nat /\ Len(c) \in Nat
           /\ \A i \in 1 .. Len(rs) + Len(c) :
                 (rs \o c)[i] = IF i <= Len(rs) THEN rs[i] ELSE c[i - Len(rs)]
OBVIOUS

LEMMA PlacedLeft ==
    ASSUME NEW rs \in Seq(Blocks), NEW c \in Seq(Blocks), NEW u, u = rs \o c, NEW i \in DOMAIN rs
    PROVE  u[i] = rs[i]
BY Blanks

LEMMA PlacedRight ==
    ASSUME NEW rs \in Seq(Blocks), NEW c \in Seq(Blocks), NEW u, u = rs \o c,
           NEW i \in DOMAIN u, i \notin DOMAIN rs
    PROVE  i - Len(rs) \in DOMAIN c /\ u[i] = c[i - Len(rs)]
BY Blanks

LEMMA FitsConcat ==
    ASSUME NEW natives, NEW j \in Nat, NEW rs \in Seq(Blocks), NEW c \in Seq(Blocks),
           Fits(natives, rs, j), Fits(natives, c, j + 1), NEW u, u = rs \o c
    PROVE  Fits(natives, u, j + 1)
<1> DEFINE Fit(b) == /\ b[1] \in 1 .. j + 1 /\ b[2] \in Nat /\ b[3] \in Nat
                     /\ b[2] < b[3] /\ b[3] <= Len(natives[b[1]])
                     /\ b = <<b[1], b[2], b[3]>>
<1>1. \A b : (\E i \in DOMAIN rs : b = rs[i]) \/ (\E i \in DOMAIN c : b = c[i]) => Fit(b)
  BY DEF Fits
<1>2. ASSUME NEW i \in DOMAIN u PROVE (\E q \in DOMAIN rs : u[i] = rs[q]) \/ (\E q \in DOMAIN c : u[i] = c[q])
  <2>1. CASE i \in DOMAIN rs
    BY <2>1, PlacedLeft
  <2>2. CASE i \notin DOMAIN rs
    <3>1. i - Len(rs) \in DOMAIN c /\ u[i] = c[i - Len(rs)]
      BY <2>2, PlacedRight
    <3> QED
      BY <3>1
  <2> QED
    BY <2>1, <2>2
<1>3. \A i \in DOMAIN u : Fit(u[i])
  <2> HIDE DEF Fit
  <2> QED
    BY <1>1, <1>2
<1> QED
  BY <1>3 DEF Fits

LEMMA SortedConcat ==
    ASSUME NEW natives, NEW j \in Nat, NEW rs \in Seq(Blocks), NEW c \in Seq(Blocks),
           Fits(natives, rs, j), \A k \in DOMAIN c : c[k][1] = j + 1, Sorted(rs), Sorted(c),
           NEW u, u = rs \o c
    PROVE  Sorted(u)
<1> SUFFICES ASSUME NEW i \in DOMAIN u, NEW k \in DOMAIN u, i < k
             PROVE  Chunk!Before(u[i], u[k])
  BY DEF Sorted
<1>1. Len(rs) \in Nat /\ DOMAIN rs = 1 .. Len(rs) /\ i \in Nat /\ k \in Nat
  BY Blanks
<1>2. CASE i \in DOMAIN rs /\ k \in DOMAIN rs
  <2>1. u[i] = rs[i] /\ u[k] = rs[k]
    BY <1>2, PlacedLeft
  <2> QED
    BY <1>2, <2>1 DEF Sorted
<1>3. CASE i \in DOMAIN rs /\ k \notin DOMAIN rs
  <2>1. u[i] = rs[i]
    BY <1>3, PlacedLeft
  <2>2. k - Len(rs) \in DOMAIN c /\ u[k] = c[k - Len(rs)]
    BY <1>3, PlacedRight
  <2>3. rs[i][1] \in 1 .. j
    BY <1>3 DEF Fits
  <2>4. u[k][1] = j + 1
    BY <2>2
  <2>5. u[i][1] < u[k][1]
    BY <2>1, <2>3, <2>4
  <2> QED
    BY <2>5 DEF Chunk!Before
<1>4. CASE i \notin DOMAIN rs
  <2>1. i - Len(rs) \in DOMAIN c /\ u[i] = c[i - Len(rs)]
    BY <1>4, PlacedRight
  <2>2. k \notin DOMAIN rs
    BY <1>1, <1>4
  <2>3. k - Len(rs) \in DOMAIN c /\ u[k] = c[k - Len(rs)]
    BY <2>2, PlacedRight
  <2>4. i - Len(rs) < k - Len(rs)
    BY <1>1
  <2> QED
    BY <2>1, <2>3, <2>4 DEF Sorted
<1> QED
  BY <1>2, <1>3, <1>4

\* What the seed of a corpus names: ranges of its files, in order.
LEMMA UptoSorted ==
    ASSUME NEW natives, natives \in Seq(Seq(Nat)), NEW per \in Nat \ {0}, NEW j \in 0 .. Len(natives)
    PROVE  /\ Upto(natives, per, j) \in Seq(Blocks)
           /\ Fits(natives, Upto(natives, per, j), j) /\ Sorted(Upto(natives, per, j))
<1> DEFINE U(i) == Upto(natives, per, i)
           C(i) == Cut(i, Len(natives[i]), per)
           Good(i) == U(i) \in Seq(Blocks) /\ Fits(natives, U(i), i) /\ Sorted(U(i))
           N == {i \in Nat : i <= Len(natives) => Good(i)}
<1>1. Len(natives) \in Nat
  BY LenProperties
<1>2. ASSUME NEW i \in 1 .. Len(natives) PROVE C(i) \in Seq(Blocks) /\ Fits(natives, C(i), i) /\ Sorted(C(i))
  BY CutFits
<1>3. 0 \in N
  <2>1. [f \in 1 .. 0 |-> C(f)] = <<>>
    OBVIOUS
  <2>2. U(0) = <<>>
    BY <2>1, FlatEmpty, Zenon DEF Upto
  <2>3. <<>> \in Seq(Blocks) /\ Fits(natives, <<>>, 0) /\ Sorted(<<>>)
    BY DEF Fits, Sorted
  <2> QED
    BY <2>2, <2>3
<1>4. ASSUME NEW i \in Nat, i \in N, i + 1 <= Len(natives)
      PROVE  U(i + 1) = U(i) \o C(i + 1) /\ U(i) \in Seq(Blocks) /\ C(i + 1) \in Seq(Blocks)
             /\ Fits(natives, U(i), i) /\ Sorted(U(i)) /\ Fits(natives, C(i + 1), i + 1) /\ Sorted(C(i + 1))
  <2>1. Good(i)
    BY <1>1, <1>4
  <2> DEFINE G == [f \in 1 .. i + 1 |-> C(f)]
  <2>2. \A f \in 1 .. i + 1 : G[f] \in Seq(Blocks) /\ G[f] = C(f)
    BY <1>1, <1>2, <1>4
  <2> HIDE DEF G
  <2>3. FlattenSeq([f \in 1 .. i + 1 |-> G[f]]) = FlattenSeq([f \in 1 .. i |-> G[f]]) \o G[i + 1]
    BY <2>2, FlatNext
  <2>4. [f \in 1 .. i + 1 |-> G[f]] = [f \in 1 .. i + 1 |-> C(f)] /\ [f \in 1 .. i |-> G[f]] = [f \in 1 .. i |-> C(f)]
    BY <2>2
  <2>5. G[i + 1] = C(i + 1)
    BY <2>2
  <2>6. U(i + 1) = U(i) \o C(i + 1)
    BY <2>3, <2>4, <2>5 DEF Upto
  <2>7. i + 1 \in 1 .. Len(natives)
    BY <1>1, <1>4
  <2> QED
    BY <1>2, <2>1, <2>6, <2>7
<1>5. ASSUME NEW i \in Nat, i \in N PROVE i + 1 \in N
  <2> SUFFICES ASSUME i + 1 <= Len(natives) PROVE Good(i + 1)
    OBVIOUS
  <2>1. U(i + 1) = U(i) \o C(i + 1) /\ U(i) \in Seq(Blocks) /\ C(i + 1) \in Seq(Blocks)
        /\ Fits(natives, U(i), i) /\ Sorted(U(i)) /\ Fits(natives, C(i + 1), i + 1) /\ Sorted(C(i + 1))
    BY <1>4, <1>5
  <2>2. \A k \in DOMAIN C(i + 1) : C(i + 1)[k][1] = i + 1
    BY DEF Cut
  <2> HIDE DEF U, C
  <2>3. Fits(natives, U(i + 1), i + 1)
    BY <2>1, FitsConcat
  <2>4. Sorted(U(i + 1))
    BY <2>1, <2>2, SortedConcat
  <2>5. U(i + 1) \in Seq(Blocks)
    <3>1. U(i) \o C(i + 1) \in Seq(Blocks)
      BY <2>1, ConcatProperties
    <3> QED
      BY <2>1, <3>1
  <2> QED
    BY <2>3, <2>4, <2>5
<1> HIDE DEF N
<1>6. Nat \subseteq N
  BY <1>3, <1>5, NatInd
<1>7. j \in N /\ j <= Len(natives)
  BY <1>1, <1>6
<1>8. Good(j)
  BY <1>7 DEF N
<1> QED
  BY <1>8

\* Their documents, range by range, are those of the files.
LEMMA UptoWhole ==
    ASSUME NEW natives, natives \in Seq(Seq(Nat)), NEW per \in Nat \ {0}, NEW j \in 0 .. Len(natives)
    PROVE  FlattenSeq(Spans(Upto(natives, per, j))) = Whole(natives, j)
<1> DEFINE U(i) == Upto(natives, per, i)
           C(i) == Cut(i, Len(natives[i]), per)
           W(i) == Whole(natives, i)
           N == {i \in Nat : i <= Len(natives) => FlattenSeq(Spans(U(i))) = W(i)}
<1>1. Len(natives) \in Nat
  BY LenProperties
<1>2. 0 \in N
  <2>1. [f \in 1 .. 0 |-> C(f)] = <<>> /\ [f \in 1 .. 0 |-> Span(f, 0, Len(natives[f]))] = <<>>
    OBVIOUS
  <2>2. U(0) = <<>> /\ W(0) = <<>>
    BY <2>1, FlatEmpty, Zenon DEF Upto, Whole
  <2>3. Spans(<<>>) = <<>>
    BY DEF Spans
  <2>4. FlattenSeq(Spans(U(0))) = W(0)
    BY <2>2, <2>3, FlatEmpty, Zenon
  <2> QED
    BY <2>4
<1>3. ASSUME NEW i \in Nat, i \in N PROVE i + 1 \in N
  <2> SUFFICES ASSUME i + 1 <= Len(natives) PROVE FlattenSeq(Spans(U(i + 1))) = W(i + 1)
    OBVIOUS
  <2>1. i \in 0 .. Len(natives) /\ i + 1 \in 1 .. Len(natives) /\ i + 1 \in Nat
    BY <1>1
  <2>2. FlattenSeq(Spans(U(i))) = W(i)
    BY <1>3, <2>1
  <2>3. \A f \in 1 .. i + 1 : Len(natives[f]) \in Nat /\ C(f) \in Seq(Blocks)
    <3> SUFFICES ASSUME NEW f \in 1 .. i + 1 PROVE Len(natives[f]) \in Nat /\ C(f) \in Seq(Blocks)
      OBVIOUS
    <3>1. f \in 1 .. Len(natives) /\ natives[f] \in Seq(Nat)
      BY <2>1
    <3> QED
      BY <3>1, CutFits, LenProperties
  <2>4. \A f \in 1 .. i + 1 : Span(f, 0, Len(natives[f])) \in Seq(Docs)
    <3>1. \A f \in Nat, len \in Nat : Span(f, 0, len) \in Seq(Docs)
      BY SpanStart
    <3>2. \A f \in 1 .. i + 1 : f \in Nat
      BY <2>1
    <3> QED
      BY <2>3, <3>1, <3>2
  <2>5. U(i + 1) = U(i) \o C(i + 1)
    <3> DEFINE G == [f \in 1 .. i + 1 |-> C(f)]
    <3>1. \A f \in 1 .. i + 1 : G[f] \in Seq(Blocks) /\ G[f] = C(f)
      BY <2>3
    <3> HIDE DEF G
    <3>2. FlattenSeq([f \in 1 .. i + 1 |-> G[f]]) = FlattenSeq([f \in 1 .. i |-> G[f]]) \o G[i + 1]
      BY <3>1, FlatNext
    <3>3. [f \in 1 .. i + 1 |-> G[f]] = [f \in 1 .. i + 1 |-> C(f)] /\ [f \in 1 .. i |-> G[f]] = [f \in 1 .. i |-> C(f)]
      BY <3>1
    <3>4. U(i + 1) = FlattenSeq([f \in 1 .. i + 1 |-> C(f)]) /\ U(i) = FlattenSeq([f \in 1 .. i |-> C(f)])
      BY DEF Upto
    <3>5. G[i + 1] = C(i + 1)
      BY <2>1, <3>1
    <3> QED
      BY <3>2, <3>3, <3>4, <3>5, Zenon
  <2>6. W(i + 1) = W(i) \o Span(i + 1, 0, Len(natives[i + 1]))
    <3> DEFINE G == [f \in 1 .. i + 1 |-> Span(f, 0, Len(natives[f]))]
    <3>1. \A f \in 1 .. i + 1 : G[f] \in Seq(Docs) /\ G[f] = Span(f, 0, Len(natives[f]))
      BY <2>4
    <3> HIDE DEF G
    <3>2. FlattenSeq([f \in 1 .. i + 1 |-> G[f]]) = FlattenSeq([f \in 1 .. i |-> G[f]]) \o G[i + 1]
      BY <3>1, FlatNext
    <3>3. /\ [f \in 1 .. i + 1 |-> G[f]] = [f \in 1 .. i + 1 |-> Span(f, 0, Len(natives[f]))]
          /\ [f \in 1 .. i |-> G[f]] = [f \in 1 .. i |-> Span(f, 0, Len(natives[f]))]
      BY <3>1
    <3>4. W(i + 1) = FlattenSeq([f \in 1 .. i + 1 |-> Span(f, 0, Len(natives[f]))]) /\ W(i) = FlattenSeq([f \in 1 .. i |-> Span(f, 0, Len(natives[f]))])
      BY DEF Whole
    <3>5. G[i + 1] = Span(i + 1, 0, Len(natives[i + 1]))
      BY <2>1, <3>1
    <3> QED
      BY <3>2, <3>3, <3>4, <3>5, Zenon
  <2>7. U(i) \in Seq(Blocks) /\ Fits(natives, U(i), i)
    BY <2>1, UptoSorted
  <2>8. C(i + 1) \in Seq(Blocks) /\ Fits(natives, C(i + 1), i + 1)
    BY <2>1, CutFits
  <2>9. U(i + 1) \in Seq(Blocks) /\ Fits(natives, U(i + 1), i + 1)
    <3>1. i + 1 \in 0 .. Len(natives)
      BY <2>1
    <3> QED
      BY <3>1, UptoSorted
  <2>10. FlattenSeq(Spans(C(i + 1))) = Span(i + 1, 0, Len(natives[i + 1]))
    <3> DEFINE len == Len(natives[i + 1])
               m == (len + per - 1) \div per
    <3>1. FlattenSeq([k \in 1 .. m |-> SpanOf(Cut(i + 1, len, per)[k])]) = Span(i + 1, 0, len)
      <4>1. len \in Nat /\ i + 1 \in Nat
        BY <2>1, <2>3
      <4> HIDE DEF len
      <4> QED
        BY <4>1, CutJoin
    <3>2. DOMAIN Cut(i + 1, len, per) = 1 .. m
      BY DEF Cut
    <3> QED
      BY <3>1, <3>2 DEF Spans
  <2> HIDE DEF U, C, W
  <2>11. Spans(U(i)) \in Seq(Seq(Docs)) /\ Len(Spans(U(i))) = Len(U(i))
    BY <2>7, SpansType
  <2>12. Spans(C(i + 1)) \in Seq(Seq(Docs)) /\ Len(Spans(C(i + 1))) = Len(C(i + 1))
    BY <2>1, <2>8, SpansType
  <2>13. Spans(U(i + 1)) \in Seq(Seq(Docs)) /\ Len(Spans(U(i + 1))) = Len(U(i + 1))
    BY <2>1, <2>9, SpansType
  <2>14. Spans(U(i + 1)) = Spans(U(i)) \o Spans(C(i + 1))
    <3> DEFINE a == U(i)
               b == C(i + 1)
               u == U(i + 1)
    <3>1. /\ a \in Seq(Blocks) /\ b \in Seq(Blocks) /\ u = a \o b
      BY <2>5, <2>7, <2>8
    <3> HIDE DEF a, b, u
    <3>2. /\ DOMAIN u = 1 .. Len(a) + Len(b) /\ Len(u) = Len(a) + Len(b)
          /\ DOMAIN a = 1 .. Len(a) /\ DOMAIN b = 1 .. Len(b) /\ Len(a) \in Nat /\ Len(b) \in Nat
          /\ \A k \in 1 .. Len(a) + Len(b) : u[k] = IF k <= Len(a) THEN a[k] ELSE b[k - Len(a)]
      BY <3>1
    <3>3. \A k \in 1 .. Len(a) + Len(b) : Spans(u)[k] = IF k <= Len(a) THEN Spans(a)[k] ELSE Spans(b)[k - Len(a)]
      BY <3>2 DEF Spans
    <3>4. /\ Spans(a) \in Seq(Seq(Docs)) /\ Spans(b) \in Seq(Seq(Docs)) /\ Spans(u) \in Seq(Seq(Docs))
          /\ Len(Spans(a)) = Len(a) /\ Len(Spans(b)) = Len(b) /\ Len(Spans(u)) = Len(a) + Len(b)
      BY <2>11, <2>12, <2>13, <3>2 DEF a, b, u
    <3> DEFINE sa == Spans(a)
               sb == Spans(b)
               su == Spans(u)
    <3>5. /\ sa \in Seq(Seq(Docs)) /\ sb \in Seq(Seq(Docs)) /\ su \in Seq(Seq(Docs))
          /\ Len(su) = Len(sa) + Len(sb)
          /\ \A k \in 1 .. Len(sa) + Len(sb) : su[k] = IF k <= Len(sa) THEN sa[k] ELSE sb[k - Len(sa)]
      BY <3>3, <3>4
    <3> HIDE DEF sa, sb, su
    <3>6. su = sa \o sb
      BY <3>5, ConcatIs
    <3> QED
      BY <3>6 DEF sa, sb, su, a, b, u
  <2>15. FlattenSeq(Spans(U(i)) \o Spans(C(i + 1))) = FlattenSeq(Spans(U(i))) \o FlattenSeq(Spans(C(i + 1)))
    BY <2>11, <2>12, FlatConcat
  <2> QED
    BY <2>2, <2>6, <2>10, <2>14, <2>15
<1> HIDE DEF N
<1>4. Nat \subseteq N
  BY <1>2, <1>3, NatInd
<1>5. j \in N /\ j <= Len(natives)
  BY <1>1, <1>4
<1> QED
  BY <1>5 DEF N

-----------------------------------------------------------------------------
(* The same of the operators of Chunking                                      *)

Ordering == {p \in Blocks \X Blocks : Chunk!Before(p[1], p[2])}

LEMMA OrderingStrict == Strict(Ordering)
<1> SUFFICES ASSUME NEW x, NEW y, <<x, y>> \in Ordering, <<y, x>> \in Ordering PROVE FALSE
  BY DEF Strict
<1>1. x \in Blocks /\ y \in Blocks /\ Chunk!Before(x, y) /\ Chunk!Before(y, x)
  BY DEF Ordering
<1>2. x[1] \in Nat /\ x[2] \in Nat /\ x[3] \in Nat /\ y[1] \in Nat /\ y[2] \in Nat /\ y[3] \in Nat
  BY <1>1 DEF Blocks
<1> QED
  BY <1>1, <1>2 DEF Chunk!Before

LEMMA SortedOrdered ==
    ASSUME NEW len \in Nat, NEW rs \in [1 .. len -> Blocks], Sorted(rs)
    PROVE  Ordered(Ordering, rs, len)
BY DEF Sorted, Ordered, Ordering

LEMMA SortedApart ==
    ASSUME NEW rs \in Seq(Blocks), Sorted(rs)
    PROVE  IsInjective(rs)
<1> SUFFICES ASSUME NEW i \in DOMAIN rs, NEW k \in DOMAIN rs, rs[i] = rs[k], i # k PROVE FALSE
  BY DEF IsInjective
<1>1. \A x \in Blocks : ~Chunk!Before(x, x)
  <2> SUFFICES ASSUME NEW x \in Blocks PROVE ~Chunk!Before(x, x)
    OBVIOUS
  <2>1. x[1] \in Nat /\ x[2] \in Nat /\ x[3] \in Nat
    BY DEF Blocks
  <2> QED
    BY <2>1 DEF Chunk!Before
<1>2. DOMAIN rs = 1 .. Len(rs) /\ rs[i] \in Blocks
  BY LenProperties
<1>3. i < k \/ k < i
  BY <1>2
<1> QED
  BY <1>1, <1>2, <1>3 DEF Sorted

LEMMA SameCounts == \A S : Chunk!Cardinality(S) = Cardinality(S)
BY DEF Chunk!Cardinality, Cardinality

\* The outputs found by name, in the order of their names.
LEMMA InOrderIs ==
    ASSUME NEW rs \in Seq(Blocks), Sorted(rs)
    PROVE  Chunk!InOrder(Range(rs)) = rs
<1> DEFINE S == Range(rs)
           len == Len(rs)
           Is(o) == o \in [1 .. len -> S] /\ \A i, k \in DOMAIN o : i < k => Chunk!Before(o[i], o[k])
<1>1. IsInjective(rs)
  BY SortedApart
<1>2. Cardinality(S) = len /\ IsFiniteSet(S)
  BY <1>1, InjectiveCount
<1>3. len \in Nat /\ DOMAIN rs = 1 .. len /\ rs \in [1 .. len -> Blocks] /\ S \subseteq Blocks /\ rs \in [1 .. len -> S]
  BY LenProperties DEF Range
<1> HIDE DEF S, len
<1>4. Is(rs)
  BY <1>3 DEF Sorted
<1>5. ASSUME NEW o, Is(o) PROVE o = rs
  <2>1. o \in [1 .. len -> Blocks] /\ Sorted(o)
    BY <1>3, <1>5 DEF Sorted
  <2>2. o \in Seq(Blocks) /\ Len(o) = len
    BY <1>3, <2>1, FunIsSeq
  <2>3. Cardinality(Range(o)) = len
    BY <2>1, <2>2, SortedApart, InjectiveCount
  <2>4. Range(o) \subseteq S /\ DOMAIN o = 1 .. len
    BY <1>5 DEF Range
  <2>5. Range(o) = S
    BY <1>2, <1>3, <2>3, <2>4, FS_Subset
  <2>6. Inside(rs, len, o, len) /\ Inside(o, len, rs, len)
    <3>1. \A i \in 1 .. len : rs[i] \in Range(o) /\ o[i] \in Range(rs)
      BY <1>3, <1>5, <2>4, <2>5 DEF S, Range
    <3> QED
      BY <1>3, <2>4, <3>1 DEF Inside, Range
  <2>7. Ordered(Ordering, rs, len) /\ Ordered(Ordering, o, len)
    BY <1>3, <2>1, SortedOrdered
  <2> QED
    BY <1>3, <2>1, <2>6, <2>7, OrderingStrict, SortedUnique
<1>6. Chunk!InOrder(S) = CHOOSE o \in [1 .. len -> S] : \A i, k \in DOMAIN o : i < k => Chunk!Before(o[i], o[k])
  BY <1>2, SameCounts DEF Chunk!InOrder
<1>7. Is(Chunk!InOrder(S))
  BY <1>4, <1>6
<1> QED
  BY <1>5, <1>7 DEF S

\* Where the ranges of a seed lie, in constants.
Per(natives, width) ==
    LET total == Len(Whole(natives, Len(natives)))
    IN IF total <= width THEN 1 ELSE (total + width - 1) \div width
Seeded(natives, width) == Upto(natives, Per(natives, width), Len(natives))
Lines(natives, recs) ==
    FlattenSeq([k \in DOMAIN recs |-> [s \in 1 .. natives[recs[k][1]][recs[k][2]] |-> <<recs[k], s>>]])

-----------------------------------------------------------------------------
(* The chunk queue: what is where                                             *)

\* What one seed of the corpus names, and a batch of a range.
Cuts         == Seeded(scen.files, scen.widths[1])
Part(b, k)   == SubSeq(SpanOf(b), (k - 1) * Batch + 1, End(k, Batch, Len(SpanOf(b))))
Firsts(b, k) == SubSeq(SpanOf(b), 1, End(k, Batch, Len(SpanOf(b))))
Parts(b)     == (Len(SpanOf(b)) + Batch - 1) \div Batch

PoolTasks   == [job : Nat, at : Nat, docs : Seq(Docs)]
PoolResults == [job : Nat, at : Nat, bad : BOOLEAN, recs : Seq(Docs)]

ChunkTypes ==
    /\ {"files", "widths"} \subseteq DOMAIN scen
    /\ scen.files \in Seq(Seq(Nat)) /\ scen.widths \in Seq(Nat \ {0}) /\ scen.widths # <<>>
    /\ "post" \in DOMAIN seed /\ starts \in Nat /\ seeded \in BOOLEAN
    /\ DOMAIN worker = {"pc", "shard", "next", "got"}
    /\ DOMAIN spine = {"documents", "sentences", "merging"}
    /\ job \in Nat /\ tasks \in Seq(PoolTasks) /\ results \subseteq PoolResults
    /\ DOMAIN child = Children /\ \A c \in Children : child[c] = <<>> \/ child[c] \in PoolTasks

\* A range of the seed is in the queue, in hand, or written.
Accounted(b) == b \in waiting \cup spent \cup DOMAIN outs \/ (worker.pc = "wait" /\ worker.shard = b)
SeedKept ==
    /\ seed.post \in Seq(Range(Cuts)) /\ waiting \subseteq Range(Cuts) /\ DOMAIN outs \subseteq Range(Cuts)
    /\ seed.post # <<>> => \A b \in Range(Cuts) : b \in Range(seed.post) \/ Accounted(b)
    /\ seeded => \A b \in Range(Cuts) : Accounted(b)
    /\ worker.pc # "idle" => seeded

\* What belongs to a call of the pool that is over is told by its number.
Past ==
    /\ \A k \in 1 .. Len(tasks) : tasks[k].job <= job
    /\ \A c \in Children : child[c] # <<>> => child[c].job <= job
    /\ \A res \in results : res.job <= job

\* The batches of the call that is not are of the shard in hand, wherever they are.
Handed ==
    /\ \A k \in 1 .. Len(tasks) : tasks[k].job = job => tasks[k].docs = Part(worker.shard, tasks[k].at)
    /\ \A c \in Children :
          child[c] # <<>> /\ child[c].job = job => child[c].docs = Part(worker.shard, child[c].at)
    /\ \A res \in results :
          res.job = job => res.recs = Records(scen.files, Part(worker.shard, res.at))

Gathered ==
    worker.pc = "wait" =>
        /\ worker.shard \in Range(Cuts)
        /\ worker.next \in Nat \ {0} /\ worker.next <= Parts(worker.shard) + 1
        /\ worker.got = Records(scen.files, Firsts(worker.shard, worker.next - 1))
        /\ Handed

OutsKept == \A b \in DOMAIN outs : outs[b] = Records(scen.files, SpanOf(b))

SpineKept ==
    /\ spine.merging # <<<<>>>> => spine.merging = Cuts /\ Range(Cuts) \subseteq DOMAIN outs
    /\ LET all == Records(scen.files, Whole(scen.files, Len(scen.files)))
       IN spine.documents \in {<<<<>>>>, all} /\ spine.sentences \in {<<<<>>>>, Lines(scen.files, all)}

ChunkInv == ChunkTypes /\ SeedKept /\ Past /\ Gathered /\ OutsKept /\ SpineKept
Chunked ==
    machine = "chunk" => {"files", "widths"} \subseteq DOMAIN scen /\ (Chunk!OneWidth => ChunkInv)

LEMMA FilesKept ==
    ASSUME {"files", "widths"} \subseteq DOMAIN scen, Chunk!Next
    PROVE  scen'.files = scen.files /\ scen'.widths = scen.widths /\ {"files", "widths"} \subseteq DOMAIN (scen')
<1>1. ASSUME NEW what \in {"errors", "kills", "deaths", "slow"}, scen' = [scen EXCEPT ![what] = @ - 1]
      PROVE  scen'.files = scen.files /\ scen'.widths = scen.widths /\ {"files", "widths"} \subseteq DOMAIN (scen')
  BY <1>1
<1>2. scen' = scen \/ \E what \in {"errors", "kills", "deaths", "slow"} : scen' = [scen EXCEPT ![what] = @ - 1]
  BY DEF Chunk!Next, Chunk!Seeding, Chunk!Working, Chunk!Driving, Chunk!Launch, Chunk!CutSlice, Chunk!CutFails,
     Chunk!Post, Chunk!SeedKilled, Chunk!Claim, Chunk!Take, Chunk!Put, Chunk!ChildDies, Chunk!Collect,
     Chunk!CollectRaises, Chunk!Stall, Chunk!WorkDone, Chunk!Drained, Chunk!Joined, Chunk!Killed,
     Chunk!Bringup, Chunk!Drive, Chunk!DocumentRows, Chunk!SentenceRows, Chunk!Seal, Chunk!DriveKilled,
     Chunk!Spend
<1> QED
  BY <1>1, <1>2

LEMMA DocsOfIs == \A b : Chunk!DocsOf(b) = SpanOf(b)
BY DEF Chunk!DocsOf, SpanOf, Span

LEMMA CorpusIs ==
    ASSUME scen.files \in Seq(Seq(Nat))
    PROVE  Chunk!Corpus = Whole(scen.files, Len(scen.files))
<1>1. DOMAIN scen.files = 1 .. Len(scen.files)
  BY LenProperties
<1>2. ASSUME NEW f \in 1 .. Len(scen.files)
      PROVE  [d \in 1 .. Len(scen.files[f]) |-> <<f, d>>] = Span(f, 0, Len(scen.files[f]))
  <2>1. Len(scen.files[f]) \in Nat
    <3>1. scen.files[f] \in Seq(Nat)
      OBVIOUS
    <3> QED
      BY <3>1, LenProperties
  <2> DEFINE len == Len(scen.files[f])
  <2>2. len - 0 = len /\ \A d \in 1 .. len : 0 + d = d
    BY <2>1
  <2> HIDE DEF len
  <2>3. [d \in 1 .. len |-> <<f, d>>] = Span(f, 0, len)
    BY <2>2 DEF Span
  <2> QED
    BY <2>3 DEF len
<1>3. [f \in DOMAIN scen.files |-> [d \in 1 .. Len(scen.files[f]) |-> <<f, d>>]]
      = [f \in 1 .. Len(scen.files) |-> Span(f, 0, Len(scen.files[f]))]
  BY <1>1, <1>2
<1> QED
  BY <1>3, SameFlatten DEF Chunk!Corpus, Chunk!Files, Whole

LEMMA WholeType ==
    ASSUME NEW natives, natives \in Seq(Seq(Nat))
    PROVE  Whole(natives, Len(natives)) \in Seq(Docs)
<1>1. ASSUME NEW f \in 1 .. Len(natives) PROVE Span(f, 0, Len(natives[f])) \in Seq(Docs)
  <2>1. Len(natives[f]) \in Nat
    <3>1. natives[f] \in Seq(Nat)
      OBVIOUS
    <3> QED
      BY <3>1, LenProperties
  <2>2. f \in Nat
    BY LenProperties
  <2> QED
    BY <2>1, <2>2, SpanStart
<1>2. Len(natives) \in Nat
  BY LenProperties
<1>3. [f \in 1 .. Len(natives) |-> Span(f, 0, Len(natives[f]))] \in Seq(Seq(Docs))
  BY <1>1, <1>2, FunIsSeq
<1> QED
  BY <1>3, FlatType DEF Whole

LEMMA PerPositive ==
    ASSUME NEW natives, natives \in Seq(Seq(Nat)), NEW width \in Nat \ {0}
    PROVE  Per(natives, width) \in Nat \ {0}
<1> DEFINE total == Len(Whole(natives, Len(natives)))
           a == total + width - 1
<1>1. total \in Nat
  BY WholeType, LenProperties
<1>2. Per(natives, width) = IF total <= width THEN 1 ELSE a \div width
  BY DEF Per
<1> HIDE DEF total
<1>3. total > width => a \in Nat /\ a >= width
  BY <1>1
<1> HIDE DEF a
<1>4. total > width => a \div width \in Nat \ {0}
  BY <1>3
<1> QED
  BY <1>1, <1>2, <1>4

LEMMA RangesAre ==
    ASSUME scen.files \in Seq(Seq(Nat)), NEW width \in Nat \ {0}
    PROVE  Chunk!Ranges(width) = Seeded(scen.files, width)
<1> DEFINE per == Per(scen.files, width)
           Of(f) == [k \in 1 .. (Len(scen.files[f]) + per - 1) \div per |->
                       <<f, (k - 1) * per, IF k * per < Len(scen.files[f]) THEN k * per ELSE Len(scen.files[f])>>]
<1>1. Chunk!Ranges(width) = Chunk!FlattenSeq([f \in DOMAIN scen.files |-> Of(f)])
  BY CorpusIs DEF Chunk!Ranges, Chunk!Files, Per
<1>2. \A f : Of(f) = Cut(f, Len(scen.files[f]), per)
  BY DEF Cut, End
<1>3. DOMAIN scen.files = 1 .. Len(scen.files)
  BY LenProperties
<1>4. [f \in DOMAIN scen.files |-> Of(f)] = [f \in 1 .. Len(scen.files) |-> Cut(f, Len(scen.files[f]), per)]
  BY <1>2, <1>3
<1> QED
  BY <1>1, <1>4, SameFlatten DEF Seeded, Upto

\* The ranges a seed names: sorted, not empty, inside their files.
LEMMA SeededSorted ==
    ASSUME NEW natives, natives \in Seq(Seq(Nat)), NEW width \in Nat \ {0}
    PROVE  /\ Seeded(natives, width) \in Seq(Blocks) /\ Sorted(Seeded(natives, width))
           /\ Fits(natives, Seeded(natives, width), Len(natives))
           /\ FlattenSeq(Spans(Seeded(natives, width))) = Whole(natives, Len(natives))
<1>1. Per(natives, width) \in Nat \ {0}
  BY PerPositive
<1>2. Len(natives) \in 0 .. Len(natives)
  BY LenProperties
<1> QED
  BY <1>1, <1>2, UptoSorted, UptoWhole DEF Seeded

LEMMA SeededSpan ==
    ASSUME NEW natives, natives \in Seq(Seq(Nat)), NEW width \in Nat \ {0},
           NEW b \in Range(Seeded(natives, width))
    PROVE  SpanOf(b) \in Seq(Docs)
<1>1. PICK k \in DOMAIN Seeded(natives, width) : b = Seeded(natives, width)[k]
  BY DEF Range
<1>2. b[1] \in Nat /\ b[2] \in Nat /\ b[3] \in Nat /\ b[2] <= b[3]
  <2>1. Fits(natives, Seeded(natives, width), Len(natives)) /\ Len(natives) \in Nat
    BY SeededSorted, LenProperties
  <2>2. b[1] \in 1 .. Len(natives) /\ b[2] \in Nat /\ b[3] \in Nat /\ b[2] < b[3]
    BY <1>1, <2>1, Zenon DEF Fits
  <2> QED
    BY <2>1, <2>2
<1> QED
  BY <1>2, SpanType DEF SpanOf

\* The records of the ranges, one after the other, are those of the corpus.
LEMMA SpineOf ==
    ASSUME scen.files \in Seq(Seq(Nat)), NEW width \in Nat \ {0}, NEW rs, rs = Seeded(scen.files, width),
           \A b \in Range(rs) : outs[b] = Records(scen.files, SpanOf(b))
    PROVE  Chunk!Records(rs) = Records(scen.files, Whole(scen.files, Len(scen.files)))
<1>1. rs \in Seq(Blocks) /\ Fits(scen.files, rs, Len(scen.files))
      /\ FlattenSeq(Spans(rs)) = Whole(scen.files, Len(scen.files))
  BY SeededSorted
<1>2. Spans(rs) \in Seq(Seq(Docs)) /\ DOMAIN Spans(rs) = DOMAIN rs
  <2>1. Len(scen.files) \in Nat
    BY LenProperties
  <2> QED
    BY <1>1, <2>1, SpansType DEF Spans
<1>3. Records(scen.files, FlattenSeq(Spans(rs)))
      = FlattenSeq([k \in DOMAIN Spans(rs) |-> Records(scen.files, Spans(rs)[k])])
  BY <1>2, RecordsFlat
<1>4. [k \in DOMAIN rs |-> outs[rs[k]]] = [k \in DOMAIN Spans(rs) |-> Records(scen.files, Spans(rs)[k])]
  BY <1>2 DEF Spans, Range
<1> QED
  BY <1>1, <1>3, <1>4, SameFlatten DEF Chunk!Records

LEMMA BatchesAre ==
    ASSUME NEW b, SpanOf(b) \in Seq(Docs)
    PROVE  /\ Parts(b) \in Nat /\ DOMAIN Chunk!Batches(SpanOf(b)) = 1 .. Parts(b)
           /\ Len(Chunk!Batches(SpanOf(b))) = Parts(b)
           /\ \A k \in 1 .. Parts(b) : Chunk!Batches(SpanOf(b))[k] = Part(b, k) /\ Part(b, k) \in Seq(Docs)
<1> DEFINE docs == SpanOf(b)
           B == Chunk!Batches(docs)
<1>1. Len(docs) \in Nat /\ Batch \in Nat \ {0}
  BY LenProperties, ChunkAssumption
<1>2. Parts(b) \in Nat
  BY <1>1, CutEnds DEF Parts
<1>3. DOMAIN B = 1 .. Parts(b)
  BY DEF Chunk!Batches, Parts
<1>4. ASSUME NEW k \in 1 .. Parts(b) PROVE B[k] = Part(b, k)
  BY DEF Chunk!Batches, Parts, Part, End
<1>5. ASSUME NEW k \in 1 .. Parts(b) PROVE Part(b, k) \in Seq(Docs)
  <2> DEFINE lo == (k - 1) * Batch
             hi == End(k, Batch, Len(docs))
  <2>1. k \in 1 .. (Len(docs) + Batch - 1) \div Batch
    BY DEF Parts
  <2>2. hi \in Nat /\ hi <= Len(docs)
    BY <1>1, <2>1, CutAt, Zenon
  <2>3. lo \in Nat
    BY <1>1, <1>2, Products
  <2> HIDE DEF lo, hi, docs
  <2>4. docs \in Seq(Docs)
    BY DEF docs
  <2>5. SubSeq(docs, lo + 1, hi) \in Seq(Docs)
    <3>1. lo + 1 \in Int /\ hi \in Int /\ \A i \in lo + 1 .. hi : docs[i] \in Docs
      BY <1>1, <2>2, <2>3, <2>4
    <3> QED
      BY <3>1, SubSeqProperties
  <2> QED
    BY <2>5 DEF Part, lo, hi, docs
<1>6. Len(B) = Parts(b)
  <2>1. B = [k \in 1 .. Parts(b) |-> Part(b, k)]
    <3>1. B = [k \in 1 .. Parts(b) |-> B[k]]
      BY DEF Chunk!Batches, Parts
    <3> HIDE DEF B
    <3> QED
      BY <1>4, <3>1
  <2>2. [k \in 1 .. Parts(b) |-> Part(b, k)] \in [1 .. Parts(b) -> Seq(Docs)]
    BY <1>5
  <2> HIDE DEF B
  <2> QED
    BY <1>2, <2>1, <2>2, FunIsSeq
<1> QED
  BY <1>2, <1>3, <1>4, <1>5, <1>6

\* What has been gathered grows batch by batch up to the range.
LEMMA FirstsNext ==
    ASSUME NEW b, SpanOf(b) \in Seq(Docs)
    PROVE  /\ Firsts(b, 0) = <<>> /\ Firsts(b, Parts(b)) = SpanOf(b)
           /\ \A k \in 1 .. Parts(b) :
                 /\ Firsts(b, k - 1) \in Seq(Docs)
                 /\ Firsts(b, k) = Firsts(b, k - 1) \o Part(b, k)
<1> DEFINE docs == SpanOf(b)
           len == Len(docs)
           E(k) == End(k, Batch, len)
<1>1. len \in Nat /\ Batch \in Nat \ {0} /\ docs \in Seq(Docs)
  BY LenProperties, ChunkAssumption
<1>2. Parts(b) \in Nat /\ E(Parts(b)) = len /\ E(0) = 0
  BY <1>1, CutEnds DEF Parts
<1>3. ASSUME NEW k \in 1 .. Parts(b)
      PROVE  E(k - 1) \in Nat /\ E(k) \in Nat /\ E(k - 1) < E(k) /\ E(k) <= len /\ E(k - 1) = (k - 1) * Batch
  <2>1. k \in 1 .. (len + Batch - 1) \div Batch
    BY DEF Parts
  <2>2. E(k - 1) \in Nat /\ E(k) \in Nat /\ E(k - 1) < E(k) /\ E(k) <= len
    BY <1>1, <2>1, CutAt, Zenon
  <2>3. (k - 1) * Batch \in Nat /\ (k - 1) * Batch < len
    BY <1>1, <2>1, RunsOf, Zenon
  <2>4. E(k - 1) = (k - 1) * Batch
    BY <2>3 DEF End
  <2> QED
    BY <2>2, <2>4
<1>4. Firsts(b, 0) = <<>>
  <2>1. Firsts(b, 0) = SubSeq(docs, 1, 0)
    BY <1>2 DEF Firsts
  <2> QED
    BY <2>1, SubSeqEmpty
<1>5. Firsts(b, Parts(b)) = docs
  <2>1. Firsts(b, Parts(b)) = SubSeq(docs, 1, len)
    BY <1>2 DEF Firsts
  <2> QED
    BY <2>1, SubSeqFull
<1>6. ASSUME NEW k \in 1 .. Parts(b)
      PROVE  Firsts(b, k - 1) \in Seq(Docs) /\ Firsts(b, k) = Firsts(b, k - 1) \o Part(b, k)
  <2> DEFINE lo == E(k - 1)
             hi == E(k)
  <2>1. lo \in Nat /\ hi \in Nat /\ lo < hi /\ hi <= len /\ lo = (k - 1) * Batch
    BY <1>3
  <2>2. Firsts(b, k - 1) = SubSeq(docs, 1, lo) /\ Firsts(b, k) = SubSeq(docs, 1, hi)
        /\ Part(b, k) = SubSeq(docs, lo + 1, hi)
    BY <2>1 DEF Firsts, Part
  <2> HIDE DEF lo, hi, docs
  <2>3. SubSeq(docs, 1, hi) = SubSeq(docs, 1, lo) \o SubSeq(docs, lo + 1, hi) /\ SubSeq(docs, 1, lo) \in Seq(Docs)
    BY <1>1, <2>1, SubSeqJoin DEF len
  <2> QED
    BY <2>2, <2>3
<1> QED
  BY <1>4, <1>5, <1>6

-----------------------------------------------------------------------------
(* The chunk queue: its steps                                                 *)

\* What the steps cannot change, and what is known of the ranges.
LEMMA CutsKept ==
    ASSUME ChunkTypes, Chunk!Next
    PROVE  Cuts' = Cuts /\ scen'.files = scen.files
BY FilesKept DEF Cuts, ChunkTypes

LEMMA CutsFacts ==
    ASSUME ChunkTypes
    PROVE  /\ Cuts \in Seq(Blocks) /\ Sorted(Cuts)
           /\ \A b \in Range(Cuts) : SpanOf(b) \in Seq(Docs)
<1>1. scen.widths[1] \in Nat \ {0}
  <2>1. Len(scen.widths) \in Nat \ {0} /\ scen.widths \in Seq(Nat \ {0})
    BY EmptySeq DEF ChunkTypes
  <2> QED
    BY <2>1
<1>2. scen.files \in Seq(Seq(Nat))
  BY DEF ChunkTypes
<1> QED
  BY <1>1, <1>2, SeededSorted, SeededSpan DEF Cuts

LEMMA FailsIs ==
    ASSUME Chunk!Fails
    PROVE  /\ worker' = Chunk!Rested
           /\ waiting' = waiting \/ waiting' = waiting \cup {worker.shard}
           /\ waiting' \cup spent' = waiting \cup spent \cup {worker.shard}
           /\ waiting \subseteq waiting' /\ spent \subseteq spent'
BY DEF Chunk!Fails

LEMMA ChunkTypesInit ==
    ASSUME Chunk!Init
    PROVE  ChunkTypes
<1>1. scen \in Corpora
  BY DEF Chunk!Init
<1>2. /\ scen = [files |-> scen.files, torn |-> scen.torn, widths |-> scen.widths,
                 errors |-> scen.errors, kills |-> scen.kills, deaths |-> scen.deaths, slow |-> scen.slow]
      /\ scen.files \in Seq(Seq(Nat)) /\ scen.widths \in Seq(Nat \ {0}) /\ scen.widths # <<>>
  BY <1>1, ChunkAssumption
<1>3. {"files", "widths"} \subseteq DOMAIN scen
  <2> DEFINE it == [files |-> scen.files, torn |-> scen.torn, widths |-> scen.widths,
                 errors |-> scen.errors, kills |-> scen.kills, deaths |-> scen.deaths, slow |-> scen.slow]
  <2>1. {"files", "widths"} \subseteq DOMAIN it
    OBVIOUS
  <2>2. scen = it
    BY <1>2
  <2> HIDE DEF it
  <2> QED
    BY <2>1, <2>2
<1>4. scen.files \in Seq(Seq(Nat)) /\ scen.widths \in Seq(Nat \ {0}) /\ scen.widths # <<>>
  BY <1>2
<1>5. "post" \in DOMAIN seed /\ starts \in Nat /\ seeded \in BOOLEAN /\ job \in Nat
  BY DEF Chunk!Init, Chunk!NoSeed
<1>6. DOMAIN worker = {"pc", "shard", "next", "got"} /\ DOMAIN spine = {"documents", "sentences", "merging"}
  BY DEF Chunk!Init, Chunk!Rested
<1>7. tasks \in Seq(PoolTasks)
  BY DEF Chunk!Init
<1>8. results \subseteq PoolResults /\ DOMAIN child = Children /\ \A c \in Children : child[c] = <<>>
  BY DEF Chunk!Init, Chunk!Idle
<1> QED
  BY <1>3, <1>4, <1>5, <1>6, <1>7, <1>8 DEF ChunkTypes

\* Seeding.
LEMMA ChunkSeeding ==
    ASSUME ChunkTypes, Chunk!Seeding, {"files", "widths"} \subseteq DOMAIN (scen'),
           scen'.files = scen.files, scen'.widths = scen.widths
    PROVE  ChunkTypes'
<1>1. /\ UNCHANGED <<worker, spine, job, tasks, results, child>>
      /\ starts' \in Nat /\ seeded' \in BOOLEAN /\ "post" \in DOMAIN (seed')
  <2>1. CASE Chunk!Launch
    BY <2>1 DEF Chunk!Launch, Chunk!queue, Chunk!pool, ChunkTypes
  <2>2. CASE Chunk!CutSlice
    BY <2>2 DEF Chunk!CutSlice, Chunk!queue, Chunk!pool, ChunkTypes
  <2>3. CASE Chunk!CutFails
    BY <2>3 DEF Chunk!CutFails, Chunk!queue, Chunk!pool, ChunkTypes
  <2>4. CASE Chunk!Post
    BY <2>4 DEF Chunk!Post, Chunk!queue, Chunk!pool, ChunkTypes
  <2>5. CASE Chunk!SeedKilled
    BY <2>5 DEF Chunk!SeedKilled, Chunk!queue, Chunk!pool, ChunkTypes, Chunk!NoSeed
  <2> QED
    BY <2>1, <2>2, <2>3, <2>4, <2>5 DEF Chunk!Seeding
<1> QED
  BY <1>1 DEF ChunkTypes

LEMMA ChunkDriving ==
    ASSUME ChunkTypes, Chunk!Driving, {"files", "widths"} \subseteq DOMAIN (scen'),
           scen'.files = scen.files, scen'.widths = scen.widths
    PROVE  ChunkTypes'
<1>1. UNCHANGED <<worker, job, tasks, results, child, seed, starts, seeded>>
      /\ DOMAIN (spine') = {"documents", "sentences", "merging"}
  BY DEF Chunk!Driving, Chunk!Drive, Chunk!DocumentRows, Chunk!SentenceRows, Chunk!Seal, Chunk!DriveKilled,
         Chunk!queue, Chunk!pool, ChunkTypes
<1> QED
  BY <1>1 DEF ChunkTypes

\* The worker and its pool.
LEMMA ChunkWorking ==
    ASSUME ChunkTypes, SeedKept, Chunk!Working, {"files", "widths"} \subseteq DOMAIN (scen'),
           scen'.files = scen.files, scen'.widths = scen.widths, \A b \in Range(Cuts) : SpanOf(b) \in Seq(Docs)
    PROVE  ChunkTypes'
<1>1. UNCHANGED <<seed, starts, seeded, spine>>
  BY DEF Chunk!Working, Chunk!Claim, Chunk!Take, Chunk!Put, Chunk!ChildDies, Chunk!Collect,
     Chunk!CollectRaises, Chunk!Stall, Chunk!WorkDone, Chunk!Drained, Chunk!Joined, Chunk!Killed, Chunk!Bringup
<1>2. DOMAIN (worker') = {"pc", "shard", "next", "got"}
  BY DEF Chunk!Working, Chunk!Claim, Chunk!Take, Chunk!Put, Chunk!ChildDies, Chunk!Collect,
     Chunk!CollectRaises, Chunk!Stall, Chunk!WorkDone, Chunk!Drained, Chunk!Joined, Chunk!Killed, Chunk!Bringup,
     Chunk!Fails, Chunk!Rested, ChunkTypes
<1>3. job' \in Nat /\ tasks' \in Seq(PoolTasks)
  <2>1. ASSUME NEW b \in waiting, Chunk!Claim(b) PROVE job' \in Nat /\ tasks' \in Seq(PoolTasks)
    <3> DEFINE B == Chunk!Batches(SpanOf(b))
               T == [k \in DOMAIN B |-> [job |-> job + 1, at |-> k, docs |-> B[k]]]
    <3>1. tasks' = tasks \o T /\ job' = job + 1
      BY <2>1, DocsOfIs DEF Chunk!Claim
    <3>2. SpanOf(b) \in Seq(Docs)
      BY DEF SeedKept
    <3>3. Parts(b) \in Nat /\ DOMAIN B = 1 .. Parts(b) /\ \A k \in 1 .. Parts(b) : B[k] \in Seq(Docs)
      BY <3>2, BatchesAre
    <3> HIDE DEF B
    <3>4. T \in [1 .. Parts(b) -> PoolTasks]
      BY <3>3 DEF PoolTasks, ChunkTypes
    <3>5. T \in Seq(PoolTasks)
      BY <3>3, <3>4, FunIsSeq
    <3> HIDE DEF T
    <3> QED
      BY <3>1, <3>5 DEF ChunkTypes
  <2>2. ASSUME NEW c \in Children, Chunk!Take(c) PROVE job' \in Nat /\ tasks' \in Seq(PoolTasks)
    BY <2>2 DEF Chunk!Take, ChunkTypes
  <2>3. (tasks' = tasks \/ tasks' = <<>>) /\ job' = job => job' \in Nat /\ tasks' \in Seq(PoolTasks)
    <3>1. tasks \in Seq(PoolTasks) /\ <<>> \in Seq(PoolTasks) /\ job \in Nat
      BY DEF ChunkTypes
    <3> QED
      BY <3>1
  <2> QED
    BY <2>1, <2>2, <2>3 DEF Chunk!Working, Chunk!Put, Chunk!ChildDies, Chunk!Collect, Chunk!pool,
       Chunk!CollectRaises, Chunk!Stall, Chunk!WorkDone, Chunk!Drained, Chunk!Joined, Chunk!Killed, Chunk!Bringup
<1>4. DOMAIN (child') = Children /\ \A c \in Children : child'[c] = <<>> \/ child'[c] \in PoolTasks
  <2>1. ASSUME NEW c \in Children, Chunk!Take(c)
        PROVE  DOMAIN (child') = Children /\ \A q \in Children : child'[q] = <<>> \/ child'[q] \in PoolTasks
    <3>1. Head(tasks) \in PoolTasks
      BY <2>1, HeadTailProperties DEF Chunk!Take, ChunkTypes
    <3> QED
      BY <2>1, <3>1 DEF Chunk!Take, ChunkTypes
  <2>2. ASSUME NEW c \in Children, child' = [child EXCEPT ![c] = <<>>]
        PROVE  DOMAIN (child') = Children /\ \A q \in Children : child'[q] = <<>> \/ child'[q] \in PoolTasks
    BY <2>2 DEF ChunkTypes
  <2>3. CASE child' = child \/ child' = [c \in Children |-> <<>>]
    BY <2>3 DEF ChunkTypes
  <2> QED
    BY <2>1, <2>2, <2>3 DEF Chunk!Working, Chunk!Claim, Chunk!Put, Chunk!ChildDies, Chunk!Collect, Chunk!pool,
       Chunk!CollectRaises, Chunk!Stall, Chunk!WorkDone, Chunk!Drained, Chunk!Joined, Chunk!Killed, Chunk!Bringup, Chunk!Idle
<1>5. results' \subseteq PoolResults
  <2>1. ASSUME NEW c \in Children, Chunk!Put(c) PROVE results' \subseteq PoolResults
    <3>1. child[c] \in PoolTasks
      BY <2>1 DEF Chunk!Put, Chunk!Idle, ChunkTypes
    <3>2. Chunk!Segment(child[c].docs) \in Seq(Docs)
      BY <3>1, SegmentIs, RecordsType DEF PoolTasks
    <3>3. Chunk!Raises(child[c].docs) \in BOOLEAN
      BY DEF Chunk!Raises
    <3>4. [job |-> child[c].job, at |-> child[c].at, bad |-> Chunk!Raises(child[c].docs),
           recs |-> Chunk!Segment(child[c].docs)] \in PoolResults
      BY <3>1, <3>2, <3>3 DEF PoolTasks, PoolResults
    <3> QED
      BY <2>1, <3>4 DEF Chunk!Put, ChunkTypes
  <2>2. CASE results' \subseteq results
    BY <2>2 DEF ChunkTypes
  <2> QED
    BY <2>1, <2>2 DEF Chunk!Working, Chunk!Claim, Chunk!Take, Chunk!ChildDies, Chunk!Collect, Chunk!pool,
       Chunk!CollectRaises, Chunk!Stall, Chunk!WorkDone, Chunk!Drained, Chunk!Joined, Chunk!Killed, Chunk!Bringup
<1> QED
  BY <1>1, <1>2, <1>3, <1>4, <1>5 DEF ChunkTypes

\* A range in the queue, in hand or written stays one of these.
LEMMA StaysAccounted ==
    ASSUME ChunkTypes, Chunk!Next, NEW b, Accounted(b)
    PROVE  Accounted(b)'
<1>1. CASE waiting \subseteq waiting' /\ spent \subseteq spent' /\ DOMAIN outs \subseteq DOMAIN (outs')
           /\ (worker.pc = "wait" => \/ worker'.pc = "wait" /\ worker'.shard = worker.shard
                                     \/ worker.shard \in waiting' \cup spent' \cup DOMAIN (outs'))
  BY <1>1 DEF Accounted
<1>2. ASSUME NEW q \in waiting, Chunk!Claim(q) PROVE Accounted(b)'
  BY <1>2 DEF Chunk!Claim, Chunk!Rested, Accounted
<1>3. CASE Chunk!Fails /\ outs' = outs
  BY <1>1, <1>3, FailsIs
<1>4. CASE Chunk!WorkDone
  <2>1. DOMAIN (outs') = DOMAIN outs \cup {worker.shard}
    BY <1>4 DEF Chunk!WorkDone
  <2>2. waiting \subseteq waiting' /\ spent \subseteq spent'
    BY <1>4, FailsIs DEF Chunk!WorkDone
  <2> QED
    BY <1>1, <2>1, <2>2
<1>5. CASE Chunk!Seeding
  BY <1>1, <1>5 DEF Chunk!Seeding, Chunk!Launch, Chunk!CutSlice, Chunk!CutFails, Chunk!Post, Chunk!SeedKilled, Chunk!queue
<1>6. CASE Chunk!Driving
  BY <1>1, <1>6 DEF Chunk!Driving, Chunk!Drive, Chunk!DocumentRows, Chunk!SentenceRows, Chunk!Seal, Chunk!DriveKilled,
     Chunk!queue
<1>7. CASE (\E c \in Children : Chunk!Take(c) \/ Chunk!Put(c) \/ Chunk!ChildDies(c))
           \/ Chunk!Drained \/ Chunk!Joined \/ Chunk!Bringup \/ Chunk!Killed
  BY <1>1, <1>7 DEF Chunk!Take, Chunk!Put, Chunk!ChildDies, Chunk!Drained, Chunk!Joined, Chunk!Bringup, Chunk!Killed,
     Chunk!queue, Chunk!Rested
<1>8. CASE Chunk!Collect
  BY <1>1, <1>8 DEF Chunk!Collect, Chunk!queue, ChunkTypes
<1> QED
  BY <1>2, <1>3, <1>4, <1>5, <1>6, <1>7, <1>8
     DEF Chunk!Next, Chunk!Working, Chunk!CollectRaises, Chunk!Stall

LEMMA HeadOrTail ==
    ASSUME NEW X, NEW s \in Seq(X), s # <<>>
    PROVE  /\ Head(s) \in X /\ Tail(s) \in Seq(X) /\ Head(s) \in Range(s) /\ (Len(s) = 1 <=> Tail(s) = <<>>)
           /\ \A x \in Range(s) : x = Head(s) \/ x \in Range(Tail(s))
<1>1. DOMAIN s = 1 .. Len(s) /\ Len(s) \in Nat \ {0} /\ Tail(s) \in Seq(X) /\ Len(Tail(s)) = Len(s) - 1
      /\ Head(s) = s[1] /\ \A i \in 1 .. Len(s) - 1 : Tail(s)[i] = s[i + 1]
  BY EmptySeq, HeadTailProperties, LenProperties
<1>2. DOMAIN Tail(s) = 1 .. Len(s) - 1
  BY <1>1, LenProperties
<1>3. ASSUME NEW x \in Range(s) PROVE x = Head(s) \/ x \in Range(Tail(s))
  <2>1. PICK i \in 1 .. Len(s) : s[i] = x
    BY <1>1 DEF Range
  <2>2. CASE i = 1
    BY <1>1, <2>1, <2>2
  <2>3. CASE i # 1
    <3>1. i - 1 \in 1 .. Len(s) - 1 /\ Tail(s)[i - 1] = x
      BY <1>1, <2>1, <2>3
    <3> QED
      BY <1>2, <3>1 DEF Range
  <2> QED
    BY <2>2, <2>3
<1>4. Len(s) = 1 <=> Tail(s) = <<>>
  <2>1. Tail(s) = <<>> => Len(Tail(s)) = 0
    BY EmptySeq
  <2>2. Tail(s) # <<>> => Len(Tail(s)) # 0
    BY <1>1, EmptySeq
  <2> QED
    BY <1>1, <2>1, <2>2
<1>5. Head(s) \in X /\ Head(s) \in Range(s)
  BY <1>1 DEF Range
<1> QED
  BY <1>1, <1>3, <1>4, <1>5

\* Every step but a launch and a post leaves what is to be posted, or gives it up.
LEMMA SeedStep ==
    ASSUME ChunkTypes, SeedKept, Gathered, Chunk!OneWidth, Chunk!Next
    PROVE  SeedKept'
<1>1. Cuts' = Cuts
  BY CutsKept
<1>2. \A b : Accounted(b) => Accounted(b)'
  BY StaysAccounted
<1>3. waiting' \subseteq Range(Cuts) /\ DOMAIN (outs') \subseteq Range(Cuts)
  <2>1. CASE waiting' \subseteq waiting /\ outs' = outs
    BY <2>1 DEF SeedKept
  <2>2. CASE worker.pc = "wait" /\ Chunk!Fails /\ outs' = outs
    BY <2>2, FailsIs DEF SeedKept, Gathered
  <2>3. CASE Chunk!WorkDone
    <3>1. worker.shard \in Range(Cuts) /\ DOMAIN (outs') = DOMAIN outs \cup {worker.shard}
      BY <2>3 DEF Chunk!WorkDone, Gathered
    <3>2. waiting' \subseteq waiting \cup {worker.shard}
      BY <2>3, FailsIs DEF Chunk!WorkDone
    <3> QED
      BY <3>1, <3>2 DEF SeedKept
  <2>4. CASE Chunk!Post
    BY <2>4, HeadOrTail DEF Chunk!Post, SeedKept
  <2>5. CASE Chunk!Killed
    BY <2>5 DEF Chunk!Killed, SeedKept, Gathered
  <2>6. \/ waiting' \subseteq waiting /\ outs' = outs
        \/ worker.pc = "wait" /\ Chunk!Fails /\ outs' = outs
        \/ Chunk!WorkDone \/ Chunk!Post \/ Chunk!Killed
    BY DEF Chunk!Next, Chunk!Seeding, Chunk!Working, Chunk!Driving, Chunk!Launch, Chunk!CutSlice, Chunk!CutFails,
       Chunk!SeedKilled, Chunk!Claim, Chunk!Take, Chunk!Put, Chunk!ChildDies, Chunk!Collect, Chunk!CollectRaises,
       Chunk!Stall, Chunk!Drained, Chunk!Joined, Chunk!Bringup, Chunk!Drive, Chunk!DocumentRows,
       Chunk!SentenceRows, Chunk!Seal, Chunk!DriveKilled, Chunk!queue
  <2> QED
    BY <2>1, <2>2, <2>3, <2>4, <2>5, <2>6
<1>4. worker'.pc # "idle" => seeded'
  <2>1. seeded => seeded'
    BY DEF Chunk!Next, Chunk!Seeding, Chunk!Working, Chunk!Driving, Chunk!Launch, Chunk!CutSlice, Chunk!CutFails,
       Chunk!Post, Chunk!WorkDone, Chunk!Killed,
       Chunk!SeedKilled, Chunk!Claim, Chunk!Take, Chunk!Put, Chunk!ChildDies, Chunk!Collect, Chunk!CollectRaises,
       Chunk!Stall, Chunk!Drained, Chunk!Joined, Chunk!Bringup, Chunk!Drive, Chunk!DocumentRows,
       Chunk!SentenceRows, Chunk!Seal, Chunk!DriveKilled
  <2>2. worker'.pc = "idle" \/ seeded \/ worker' = worker
    BY DEF Chunk!Next, Chunk!Seeding, Chunk!Working, Chunk!Driving, Chunk!Launch, Chunk!CutSlice, Chunk!CutFails,
       Chunk!Post, Chunk!WorkDone, Chunk!Killed, Chunk!Fails, Chunk!Rested, SeedKept,
       Chunk!SeedKilled, Chunk!Claim, Chunk!Take, Chunk!Put, Chunk!ChildDies, Chunk!Collect, Chunk!CollectRaises,
       Chunk!Stall, Chunk!Drained, Chunk!Joined, Chunk!Bringup, Chunk!Drive, Chunk!DocumentRows,
       Chunk!SentenceRows, Chunk!Seal, Chunk!DriveKilled
  <2> QED
    BY <2>1, <2>2 DEF SeedKept
<1>5. /\ seed'.post \in Seq(Range(Cuts))
      /\ seed'.post # <<>> => \A b \in Range(Cuts) : b \in Range(seed'.post) \/ Accounted(b)'
      /\ seeded' => \A b \in Range(Cuts) : Accounted(b)'
  <2>1. CASE Chunk!Launch
    <3>1. Len(scen.widths) \in Nat \ {0} /\ starts + 1 \in 1 .. Len(scen.widths)
      BY <2>1 DEF Chunk!Launch, ChunkTypes
    <3>2. scen.widths[starts + 1] = scen.widths[1] /\ scen.widths[1] \in Nat \ {0}
      BY <3>1 DEF Chunk!OneWidth, ChunkTypes
    <3>3. Chunk!Ranges(scen.widths[starts + 1]) = Cuts
      BY <3>2, RangesAre DEF ChunkTypes, Cuts
    <3>4. seed'.post = Cuts /\ seeded' = seeded
      BY <2>1, <3>3 DEF Chunk!Launch
    <3>5. Cuts \in Seq(Range(Cuts))
      <4>1. Cuts \in Seq(Blocks)
        BY <3>2, SeededSorted DEF Cuts, ChunkTypes
      <4>2. Len(Cuts) \in Nat /\ Cuts \in [1 .. Len(Cuts) -> Range(Cuts)]
        BY <4>1, LenProperties DEF Range
      <4> HIDE DEF Cuts
      <4> QED
        BY <4>2, FunIsSeq
    <3> HIDE DEF Cuts
    <3> QED
      BY <1>2, <3>4, <3>5 DEF SeedKept
  <2>2. CASE Chunk!Post
    <3>1. /\ seed.post # <<>> /\ seed'.post = Tail(seed.post) /\ waiting' = waiting \cup {Head(seed.post)}
          /\ seeded' = (seeded \/ Len(seed.post) = 1)
      BY <2>2 DEF Chunk!Post, ChunkTypes
    <3>2. /\ seed'.post \in Seq(Range(Cuts)) /\ (Len(seed.post) = 1 <=> seed'.post = <<>>)
          /\ \A b \in Range(seed.post) : b = Head(seed.post) \/ b \in Range(seed'.post)
      BY <3>1, HeadOrTail DEF SeedKept
    <3>3. ASSUME NEW b \in Range(Cuts) PROVE b \in Range(seed'.post) \/ Accounted(b)'
      <4>1. b \in Range(seed.post) \/ Accounted(b)
        BY <3>1 DEF SeedKept
      <4>2. b = Head(seed.post) => Accounted(b)'
        BY <3>1 DEF Accounted
      <4> QED
        BY <1>2, <3>2, <4>1, <4>2
    <3>4. ASSUME seeded', NEW b \in Range(Cuts) PROVE Accounted(b)'
      <4>1. CASE seeded
        BY <1>2, <4>1 DEF SeedKept
      <4>2. CASE Len(seed.post) = 1
        <5>1. Range(seed'.post) = {}
          BY <3>2, <4>2 DEF Range
        <5> QED
          BY <3>3, <5>1
      <4> QED
        BY <3>1, <3>4, <4>1, <4>2
    <3> QED
      BY <3>2, <3>3, <3>4
  <2>3. CASE (seed'.post = seed.post \/ seed'.post = <<>>) /\ seeded' = seeded
    <3>1. seed'.post \in Seq(Range(Cuts))
      <4>1. <<>> \in Seq(Range(Cuts)) /\ seed.post \in Seq(Range(Cuts))
        BY EmptySeq DEF SeedKept
      <4> QED
        BY <2>3, <4>1
    <3>2. seed'.post # <<>> => \A b \in Range(Cuts) : b \in Range(seed'.post) \/ Accounted(b)'
      BY <1>2, <2>3 DEF SeedKept
    <3>3. seeded' => \A b \in Range(Cuts) : Accounted(b)'
      BY <1>2, <2>3 DEF SeedKept
    <3> QED
      BY <3>1, <3>2, <3>3
  <2>4. CASE Chunk!SeedKilled
    BY <2>3, <2>4 DEF Chunk!SeedKilled, Chunk!NoSeed
  <2>5. CASE Chunk!CutSlice \/ Chunk!CutFails
    BY <2>3, <2>5 DEF Chunk!CutSlice, Chunk!CutFails, ChunkTypes
  <2>6. CASE Chunk!Working \/ Chunk!Driving
    BY <2>3, <2>6 DEF Chunk!Working, Chunk!Driving, Chunk!WorkDone, Chunk!Killed,
       Chunk!Claim, Chunk!Take, Chunk!Put, Chunk!ChildDies, Chunk!Collect, Chunk!CollectRaises,
       Chunk!Stall, Chunk!Drained, Chunk!Joined, Chunk!Bringup, Chunk!Drive, Chunk!DocumentRows,
       Chunk!SentenceRows, Chunk!Seal, Chunk!DriveKilled
  <2> QED
    BY <2>1, <2>2, <2>4, <2>5, <2>6 DEF Chunk!Next, Chunk!Seeding
<1> QED
  BY <1>1, <1>3, <1>4, <1>5 DEF SeedKept

LEMMA JoinedAt ==
    ASSUME NEW X, NEW s \in Seq(X), NEW t \in Seq(X), NEW k \in 1 .. Len(s \o t)
    PROVE  \/ k \in 1 .. Len(s) /\ (s \o t)[k] = s[k]
           \/ \E i \in 1 .. Len(t) : (s \o t)[k] = t[i]
<1>1. CASE k <= Len(s)
  BY <1>1
<1>2. CASE ~(k <= Len(s))
  <2>1. k - Len(s) \in 1 .. Len(t) /\ (s \o t)[k] = t[k - Len(s)]
    BY <1>2
  <2> QED
    BY <2>1
<1> QED
  BY <1>1, <1>2

\* A call of the pool adds the batches of its range, under a number of their own.
LEMMA ClaimIs ==
    ASSUME ChunkTypes, SeedKept, NEW b \in waiting, Chunk!Claim(b)
    PROVE  /\ job' = job + 1 /\ UNCHANGED <<child, results, outs, seeded>>
           /\ worker' = [pc |-> "wait", shard |-> b, next |-> 1, got |-> <<>>]
           /\ SpanOf(b) \in Seq(Docs) /\ b \in Range(Cuts)
           /\ \E T \in Seq(PoolTasks) :
                 /\ tasks' = tasks \o T
                 /\ \A k \in 1 .. Len(T) : T[k].job = job + 1 /\ T[k].docs = Part(b, T[k].at)
<1> DEFINE B == Chunk!Batches(SpanOf(b))
           T == [k \in DOMAIN B |-> [job |-> job + 1, at |-> k, docs |-> B[k]]]
<1>1. tasks' = tasks \o T /\ job' = job + 1
  BY DocsOfIs DEF Chunk!Claim
<1>2. SpanOf(b) \in Seq(Docs) /\ b \in Range(Cuts)
  BY CutsFacts DEF SeedKept
<1>3. Parts(b) \in Nat /\ DOMAIN B = 1 .. Parts(b)
      /\ \A k \in 1 .. Parts(b) : B[k] \in Seq(Docs) /\ B[k] = Part(b, k)
  BY <1>2, BatchesAre
<1>4. UNCHANGED <<child, results, outs, seeded>>
      /\ worker' = [pc |-> "wait", shard |-> b, next |-> 1, got |-> <<>>]
  BY DEF Chunk!Claim, Chunk!Rested
<1> HIDE DEF B
<1>5. T \in [1 .. Parts(b) -> PoolTasks]
  BY <1>3 DEF PoolTasks, ChunkTypes
<1>6. T \in Seq(PoolTasks) /\ Len(T) = Parts(b)
  BY <1>3, <1>5, FunIsSeq
<1>7. \A k \in 1 .. Len(T) : T[k].job = job + 1 /\ T[k].docs = Part(b, T[k].at)
  BY <1>3, <1>6
<1> HIDE DEF T
<1> QED
  BY <1>1, <1>2, <1>4, <1>6, <1>7

\* What a child returns and what it was handed.
LEMMA PutIs ==
    ASSUME ChunkTypes, NEW c \in Children, Chunk!Put(c), NEW res \in results', res \notin results
    PROVE  /\ child[c] # <<>> /\ res.job = child[c].job /\ res.at = child[c].at
           /\ res.recs = Records(scen.files, child[c].docs)
BY SegmentIs DEF Chunk!Put, Chunk!Idle

\* What is queued or in a process after a step was queued or in it before, or is of
\* a new call.
LEMMA PoolStep ==
    ASSUME ChunkTypes, Chunk!Next, ~\E b \in waiting : Chunk!Claim(b)
    PROVE  /\ job' = job
           /\ \A k \in 1 .. Len(tasks') : \E i \in 1 .. Len(tasks) : tasks'[k] = tasks[i]
           /\ \A c \in Children : \/ child'[c] = <<>> \/ child'[c] = child[c]
                                 \/ \E i \in 1 .. Len(tasks) : child'[c] = tasks[i]
           /\ \/ \E c \in Children : Chunk!Put(c)
              \/ results' \subseteq results
<1>1. job' = job
  BY DEF Chunk!Next, Chunk!Seeding, Chunk!Working, Chunk!Driving, Chunk!Launch, Chunk!CutSlice, Chunk!CutFails,
     Chunk!Post, Chunk!WorkDone, Chunk!Killed,
     Chunk!SeedKilled, Chunk!Take, Chunk!Put, Chunk!ChildDies, Chunk!Collect, Chunk!CollectRaises,
     Chunk!Stall, Chunk!Drained, Chunk!Joined, Chunk!Bringup, Chunk!Drive, Chunk!DocumentRows,
     Chunk!SentenceRows, Chunk!Seal, Chunk!DriveKilled
<1>2. tasks \in Seq(PoolTasks) /\ Len(tasks) \in Nat /\ DOMAIN child = Children
  BY LenProperties DEF ChunkTypes
<1>3. ASSUME NEW c \in Children, Chunk!Take(c)
      PROVE  /\ \A k \in 1 .. Len(tasks') : \E i \in 1 .. Len(tasks) : tasks'[k] = tasks[i]
             /\ \A q \in Children : \/ child'[q] = <<>> \/ child'[q] = child[q]
                                   \/ \E i \in 1 .. Len(tasks) : child'[q] = tasks[i]
             /\ results' = results
  <2>1. tasks # <<>> /\ tasks' = Tail(tasks) /\ child' = [child EXCEPT ![c] = Head(tasks)] /\ results' = results
    BY <1>3 DEF Chunk!Take
  <2>2. Len(tasks') = Len(tasks) - 1 /\ \A k \in 1 .. Len(tasks) - 1 : tasks'[k] = tasks[k + 1]
    BY <1>2, <2>1, HeadTailProperties
  <2>3. 1 \in 1 .. Len(tasks) /\ Head(tasks) = tasks[1]
    BY <1>2, <2>1, EmptySeq
  <2>4. \A k \in 1 .. Len(tasks') : \E i \in 1 .. Len(tasks) : tasks'[k] = tasks[i]
    <3> SUFFICES ASSUME NEW k \in 1 .. Len(tasks') PROVE \E i \in 1 .. Len(tasks) : tasks'[k] = tasks[i]
      OBVIOUS
    <3>1. k \in 1 .. Len(tasks) - 1 /\ k + 1 \in 1 .. Len(tasks)
      BY <1>2, <2>2
    <3> QED
      BY <2>2, <3>1
  <2> QED
    BY <1>2, <2>1, <2>3, <2>4
<1>4. CASE tasks' = tasks /\ child' = child /\ results' \subseteq results
  BY <1>1, <1>4
<1>5. CASE tasks' = <<>> /\ child' = [c \in Children |-> <<>>] /\ results' = {}
  <2>1. Len(tasks') = 0
    BY <1>5
  <2> QED
    BY <1>1, <1>5, <2>1
<1>6. ASSUME NEW c \in Children, tasks' = tasks, child' = [child EXCEPT ![c] = <<>>],
             Chunk!Put(c) \/ results' = results
      PROVE  /\ \A k \in 1 .. Len(tasks') : \E i \in 1 .. Len(tasks) : tasks'[k] = tasks[i]
             /\ \A q \in Children : \/ child'[q] = <<>> \/ child'[q] = child[q]
                                   \/ \E i \in 1 .. Len(tasks) : child'[q] = tasks[i]
             /\ (\E q \in Children : Chunk!Put(q)) \/ results' \subseteq results
  BY <1>2, <1>6
<1>7. \/ \E c \in Children : Chunk!Take(c)
      \/ tasks' = tasks /\ child' = child /\ results' \subseteq results
      \/ tasks' = <<>> /\ child' = [c \in Children |-> <<>>] /\ results' = {}
      \/ \E c \in Children : tasks' = tasks /\ child' = [child EXCEPT ![c] = <<>>] /\ (Chunk!Put(c) \/ results' = results)
  <2>1. CASE Chunk!Seeding
    BY <2>1 DEF Chunk!Seeding, Chunk!Launch, Chunk!CutSlice, Chunk!CutFails, Chunk!Post, Chunk!SeedKilled, Chunk!pool
  <2>2. CASE Chunk!Driving
    BY <2>2 DEF Chunk!Driving, Chunk!Drive, Chunk!DocumentRows, Chunk!SentenceRows, Chunk!Seal, Chunk!DriveKilled, Chunk!pool
  <2>3. ASSUME NEW c \in Children, Chunk!Take(c) \/ Chunk!Put(c) \/ Chunk!ChildDies(c) PROVE <1>7!:
    BY <2>3 DEF Chunk!Put, Chunk!ChildDies, Chunk!Idle
  <2>4. CASE Chunk!Collect \/ Chunk!CollectRaises \/ Chunk!Stall \/ Chunk!WorkDone \/ Chunk!Drained \/ Chunk!Joined
             \/ Chunk!Killed \/ Chunk!Bringup
    BY <2>4 DEF Chunk!Collect, Chunk!CollectRaises, Chunk!Stall, Chunk!WorkDone, Chunk!Drained, Chunk!Joined, Chunk!Killed,
       Chunk!Bringup, Chunk!pool, Chunk!Idle
  <2> QED
    BY <2>1, <2>2, <2>3, <2>4 DEF Chunk!Next, Chunk!Working
<1> QED
  BY <1>1, <1>3, <1>4, <1>5, <1>6, <1>7

\* The number of the call tells what is of a call that is over.
LEMMA PastStep ==
    ASSUME ChunkTypes, SeedKept, Past, Chunk!Next
    PROVE  Past'
<1>0. job \in Nat /\ tasks \in Seq(PoolTasks) /\ Len(tasks) \in Nat
  BY LenProperties DEF ChunkTypes
<1>1. /\ \A k \in 1 .. Len(tasks) : tasks[k].job \in Nat
      /\ \A c \in Children : child[c] # <<>> => child[c].job \in Nat
      /\ \A res \in results : res.job \in Nat
  <2>1. \A u \in PoolTasks : u.job \in Nat
    BY DEF PoolTasks
  <2>2. \A u \in PoolResults : u.job \in Nat
    BY DEF PoolResults
  <2>3. results \subseteq PoolResults /\ \A c \in Children : child[c] = <<>> \/ child[c] \in PoolTasks
    BY DEF ChunkTypes
  <2>4. \A k \in 1 .. Len(tasks) : tasks[k] \in PoolTasks
    BY <1>0
  <2> QED
    BY <2>1, <2>2, <2>3, <2>4
<1>2. ASSUME NEW b \in waiting, Chunk!Claim(b) PROVE Past'
  <2>1. PICK T \in Seq(PoolTasks) : tasks' = tasks \o T /\ \A k \in 1 .. Len(T) : T[k].job = job + 1
    BY <1>2, ClaimIs
  <2>2. job' = job + 1 /\ child' = child /\ results' = results
    BY <1>2, ClaimIs
  <2>3. ASSUME NEW k \in 1 .. Len(tasks') PROVE tasks'[k].job <= job'
    <3>1. \/ k \in 1 .. Len(tasks) /\ tasks'[k] = tasks[k]
          \/ \E i \in 1 .. Len(T) : tasks'[k] = T[i]
      BY <1>0, <2>1, JoinedAt
    <3> QED
      BY <1>0, <1>1, <2>1, <2>2, <3>1 DEF Past
  <2>4. \A lo \in Nat : lo <= job => lo <= job'
    <3>1. job \in Nat /\ job' = job + 1
      BY <1>0, <2>2
    <3> QED
      BY <3>1
  <2>5. \A c \in Children : child[c] # <<>> => child[c].job \in Nat /\ child[c].job <= job
    BY <1>1 DEF Past
  <2>6. \A res \in results : res.job \in Nat /\ res.job <= job
    BY <1>1 DEF Past
  <2>7. \A c \in Children : child'[c] # <<>> => child'[c].job <= job'
    BY <2>2, <2>4, <2>5
  <2>8. \A res \in results' : res.job <= job'
    BY <2>2, <2>4, <2>6
  <2> QED
    BY <2>3, <2>7, <2>8 DEF Past
<1>3. CASE ~\E b \in waiting : Chunk!Claim(b)
  <2>1. ASSUME NEW c \in Children, Chunk!Put(c), NEW res \in results' PROVE res.job <= job
    BY <2>1, PutIs DEF Past
  <2> QED
    BY <1>3, <2>1, PoolStep DEF Past
<1> QED
  BY <1>2, <1>3

\* A call that is made holds batches of its own range and no others.
LEMMA HandedClaim ==
    ASSUME ChunkTypes, SeedKept, Past, Chunk!Next, NEW b \in waiting, Chunk!Claim(b)
    PROVE  Handed'
<1>1. PICK T \in Seq(PoolTasks) :
         tasks' = tasks \o T /\ \A k \in 1 .. Len(T) : T[k].job = job + 1 /\ T[k].docs = Part(b, T[k].at)
  BY ClaimIs
<1>2. job' = job + 1 /\ child' = child /\ results' = results /\ worker'.shard = b
  BY ClaimIs
<1>3. job \in Nat /\ tasks \in Seq(PoolTasks)
  BY DEF ChunkTypes
<1>4. \A z : z <= job => z # job'
  BY <1>2, <1>3
<1>5. ASSUME NEW k \in 1 .. Len(tasks'), tasks'[k].job = job' PROVE tasks'[k].docs = Part(b, tasks'[k].at)
  <2>1. \/ k \in 1 .. Len(tasks) /\ tasks'[k] = tasks[k]
        \/ \E i \in 1 .. Len(T) : tasks'[k] = T[i]
    BY <1>1, <1>3, JoinedAt
  <2>2. ASSUME k \in 1 .. Len(tasks), tasks'[k] = tasks[k] PROVE FALSE
    <3>1. tasks[k].job <= job
      BY <2>2 DEF Past
    <3> QED
      BY <1>4, <1>5, <2>2, <3>1
  <2> QED
    BY <1>1, <2>1, <2>2
<1>6. \A c \in Children : child'[c] # <<>> => child'[c].job # job'
  BY <1>2, <1>4 DEF Past
<1>7. \A res \in results' : res.job # job'
  BY <1>2, <1>4 DEF Past
<1> QED
  BY <1>2, <1>5, <1>6, <1>7 DEF Handed

\* The rest moves batches about, or drops them.
LEMMA HandedStep ==
    ASSUME ChunkTypes, Handed, Chunk!Next, ~\E b \in waiting : Chunk!Claim(b), worker'.shard = worker.shard
    PROVE  Handed'
<1>1. job' = job /\ scen'.files = scen.files
  BY PoolStep, CutsKept
<1>2. ASSUME NEW k \in 1 .. Len(tasks'), tasks'[k].job = job' PROVE tasks'[k].docs = Part(worker'.shard, tasks'[k].at)
  <2>1. PICK i \in 1 .. Len(tasks) : tasks'[k] = tasks[i]
    BY PoolStep
  <2> QED
    BY <1>1, <1>2, <2>1 DEF Handed
<1>3. ASSUME NEW c \in Children, child'[c] # <<>>, child'[c].job = job' PROVE child'[c].docs = Part(worker'.shard, child'[c].at)
  <2>1. child'[c] = child[c] \/ \E i \in 1 .. Len(tasks) : child'[c] = tasks[i]
    BY <1>3, PoolStep
  <2> QED
    BY <1>1, <1>3, <2>1 DEF Handed
<1>4. ASSUME NEW res \in results', res.job = job' PROVE res.recs = Records(scen'.files, Part(worker'.shard, res.at))
  <2>1. CASE res \in results
    BY <1>1, <1>4, <2>1 DEF Handed
  <2>2. CASE res \notin results
    <3>1. PICK c \in Children : Chunk!Put(c)
      BY <2>2, PoolStep
    <3>2. /\ child[c] # <<>> /\ res.job = child[c].job /\ res.at = child[c].at
          /\ res.recs = Records(scen.files, child[c].docs)
      BY <2>2, <3>1, PutIs
    <3>3. child[c].docs = Part(worker.shard, child[c].at)
      BY <1>1, <1>4, <3>2 DEF Handed
    <3> QED
      BY <1>1, <3>2, <3>3
  <2> QED
    BY <2>1, <2>2
<1> QED
  BY <1>2, <1>3, <1>4 DEF Handed

\* What the worker has gathered is what its range gives, batch by batch.
LEMMA GatheredStep ==
    ASSUME ChunkTypes, SeedKept, Past, Gathered, Chunk!Next
    PROVE  Gathered'
<1>1. Cuts' = Cuts /\ scen'.files = scen.files
  BY CutsKept
<1> SUFFICES ASSUME worker'.pc = "wait"
             PROVE  /\ worker'.shard \in Range(Cuts)
                    /\ worker'.next \in Nat \ {0} /\ worker'.next <= Parts(worker'.shard) + 1
                    /\ worker'.got = Records(scen.files, Firsts(worker'.shard, worker'.next - 1))
                    /\ Handed'
  BY <1>1 DEF Gathered
<1>2. ASSUME NEW b \in waiting, Chunk!Claim(b)
      PROVE  /\ worker'.shard \in Range(Cuts)
             /\ worker'.next \in Nat \ {0} /\ worker'.next <= Parts(worker'.shard) + 1
             /\ worker'.got = Records(scen.files, Firsts(worker'.shard, worker'.next - 1))
             /\ Handed'
  <2>1. worker'.shard = b /\ worker'.next = 1 /\ worker'.got = <<>> /\ b \in Range(Cuts) /\ SpanOf(b) \in Seq(Docs)
    BY <1>2, ClaimIs
  <2>2. Parts(b) \in Nat
    BY <2>1, BatchesAre
  <2>3. Firsts(b, 0) = <<>>
    BY <2>1, FirstsNext
  <2>4. worker'.got = Records(scen.files, Firsts(b, 0))
    BY <2>1, <2>3, RecordsEmpty
  <2>5. Handed'
    BY <1>2, HandedClaim
  <2> QED
    BY <2>1, <2>2, <2>4, <2>5
<1>3. CASE worker' = worker /\ ~\E b \in waiting : Chunk!Claim(b)
  <2>1. worker.pc = "wait"
    BY <1>3
  <2>2. Handed'
    BY <1>3, <2>1, HandedStep DEF Gathered
  <2> QED
    BY <1>3, <2>1, <2>2 DEF Gathered
<1>4. ASSUME Chunk!Collect, ~\E b \in waiting : Chunk!Claim(b)
      PROVE  /\ worker'.shard \in Range(Cuts)
             /\ worker'.next \in Nat \ {0} /\ worker'.next <= Parts(worker'.shard) + 1
             /\ worker'.got = Records(scen.files, Firsts(worker'.shard, worker'.next - 1))
             /\ Handed'
  <2> DEFINE b == worker.shard
             k == worker.next
  <2>1. PICK res \in results : /\ res.job = job /\ res.at = k
                              /\ worker' = [worker EXCEPT !.next = @ + 1, !.got = @ \o res.recs]
    BY <1>4 DEF Chunk!Collect, Chunk!Arrived
  <2>2. worker.pc = "wait" /\ k <= Len(Chunk!Batches(SpanOf(b)))
    BY <1>4, DocsOfIs DEF Chunk!Collect, Chunk!Left
  <2>3. b \in Range(Cuts) /\ k \in Nat \ {0} /\ worker.got = Records(scen.files, Firsts(b, k - 1))
        /\ Handed
    BY <2>2 DEF Gathered
  <2>4. worker'.shard = b /\ worker'.next = k + 1 /\ worker'.got = worker.got \o res.recs
    BY <2>1 DEF ChunkTypes
  <2>5. Handed'
    BY <1>4, <2>3, <2>4, HandedStep
  <2>6. res.recs = Records(scen.files, Part(b, k))
    BY <2>1, <2>3 DEF Handed
  <2>7. SpanOf(b) \in Seq(Docs)
    BY <2>3, CutsFacts
  <2> HIDE DEF b, k
  <2>8. Parts(b) \in Nat /\ k \in 1 .. Parts(b) /\ Part(b, k) \in Seq(Docs)
    BY <2>2, <2>3, <2>7, BatchesAre
  <2>9. Firsts(b, k - 1) \in Seq(Docs) /\ Firsts(b, k) = Firsts(b, k - 1) \o Part(b, k)
    BY <2>7, <2>8, FirstsNext
  <2>10. worker'.got = Records(scen.files, Firsts(b, k))
    <3>1. \A p, q \in Seq(Docs) : Records(scen.files, p \o q) = Records(scen.files, p) \o Records(scen.files, q)
      BY RecordsConcat
    <3>2. Records(scen.files, Firsts(b, k - 1) \o Part(b, k))
          = Records(scen.files, Firsts(b, k - 1)) \o Records(scen.files, Part(b, k))
      BY <2>8, <2>9, <3>1, Zenon
    <3> QED
      BY <2>3, <2>4, <2>6, <2>9, <3>2, Zenon
  <2>11. worker'.next - 1 = k /\ worker'.next \in Nat \ {0} /\ worker'.next <= Parts(b) + 1
    BY <2>3, <2>4, <2>8
  <2> QED
    BY <2>3, <2>4, <2>5, <2>10, <2>11
<1>5. ~(\E b \in waiting : Chunk!Claim(b)) /\ ~Chunk!Collect => worker' = worker
  BY DEF Chunk!Next, Chunk!Seeding, Chunk!Working, Chunk!Driving, Chunk!Launch, Chunk!CutSlice, Chunk!CutFails,
     Chunk!Post, Chunk!WorkDone, Chunk!Killed, Chunk!Fails, Chunk!Rested,
     Chunk!SeedKilled, Chunk!Take, Chunk!Put, Chunk!ChildDies, Chunk!CollectRaises,
     Chunk!Stall, Chunk!Drained, Chunk!Joined, Chunk!Bringup, Chunk!Drive, Chunk!DocumentRows,
     Chunk!SentenceRows, Chunk!Seal, Chunk!DriveKilled
<1>6. Chunk!Collect => ~\E b \in waiting : Chunk!Claim(b)
  <2>1. Chunk!Collect => worker.pc = "wait"
    BY DEF Chunk!Collect
  <2>2. ASSUME NEW b \in waiting, Chunk!Claim(b) PROVE worker.pc = "idle"
    BY <2>2 DEF Chunk!Claim, Chunk!Rested
  <2> QED
    BY <2>1, <2>2
<1> QED
  BY <1>2, <1>3, <1>4, <1>5, <1>6

\* An output is written when the last batch of its range has come.
LEMMA OutsStep ==
    ASSUME ChunkTypes, Gathered, OutsKept, Chunk!Next
    PROVE  OutsKept' /\ DOMAIN outs \subseteq DOMAIN (outs')
<1>1. scen'.files = scen.files
  BY CutsKept
<1>2. CASE Chunk!WorkDone
  <2> DEFINE b == worker.shard
             k == worker.next
  <2>1. worker.pc = "wait" /\ ~(Len(Chunk!Batches(SpanOf(b))) >= k)
        /\ outs' = [q \in DOMAIN outs \cup {b} |-> IF q = b THEN worker.got ELSE outs[q]]
    BY <1>2, DocsOfIs DEF Chunk!WorkDone, Chunk!Left
  <2>2. b \in Range(Cuts) /\ k \in Nat \ {0} /\ k <= Parts(b) + 1 /\ worker.got = Records(scen.files, Firsts(b, k - 1))
    BY <2>1 DEF Gathered
  <2>3. SpanOf(b) \in Seq(Docs)
    BY <2>2, CutsFacts
  <2> HIDE DEF b, k
  <2>4. Parts(b) \in Nat /\ Len(Chunk!Batches(SpanOf(b))) = Parts(b)
    BY <2>3, BatchesAre
  <2>5. k - 1 = Parts(b)
    BY <2>1, <2>2, <2>4
  <2>6. Firsts(b, Parts(b)) = SpanOf(b)
    BY <2>3, FirstsNext
  <2>7. worker.got = Records(scen.files, SpanOf(b))
    BY <2>2, <2>5, <2>6
  <2> QED
    BY <1>1, <2>1, <2>7 DEF OutsKept
<1>3. ~Chunk!WorkDone => outs' = outs
  BY DEF Chunk!Next, Chunk!Seeding, Chunk!Working, Chunk!Driving, Chunk!Launch, Chunk!CutSlice, Chunk!CutFails,
     Chunk!Post, Chunk!SeedKilled, Chunk!Claim, Chunk!Take, Chunk!Put, Chunk!ChildDies, Chunk!Collect, Chunk!CollectRaises,
     Chunk!Stall, Chunk!Drained, Chunk!Joined, Chunk!Killed, Chunk!Bringup, Chunk!Drive, Chunk!DocumentRows,
     Chunk!SentenceRows, Chunk!Seal, Chunk!DriveKilled, Chunk!queue
<1> QED
  BY <1>1, <1>2, <1>3 DEF OutsKept

LEMMA LinesAre == \A recs : Chunk!SentencesOf(recs) = Lines(scen.files, recs)
BY SameFlatten DEF Chunk!SentencesOf, Chunk!Sentences, Lines

\* Drive finds an output for every range, and no other.
LEMMA DriveFinds ==
    ASSUME ChunkTypes, SeedKept, Chunk!Drive
    PROVE  DOMAIN outs = Range(Cuts) /\ spine' = [spine EXCEPT !.merging = Cuts]
<1>1. worker.pc = "gone" /\ waiting = {} /\ spent = {} /\ spine' = [spine EXCEPT !.merging = Chunk!InOrder(DOMAIN outs)]
  BY DEF Chunk!Drive
<1>2. DOMAIN outs = Range(Cuts)
  BY <1>1 DEF SeedKept, Accounted
<1>3. Chunk!InOrder(Range(Cuts)) = Cuts
  BY CutsFacts, InOrderIs
<1> QED
  BY <1>1, <1>2, <1>3

LEMMA SpineStep ==
    ASSUME ChunkTypes, SeedKept, Gathered, OutsKept, SpineKept, Chunk!Next
    PROVE  SpineKept'
<1> DEFINE all == Records(scen.files, Whole(scen.files, Len(scen.files)))
<1>1. Cuts' = Cuts /\ scen'.files = scen.files
  BY CutsKept
<1>2. DOMAIN outs \subseteq DOMAIN (outs')
  BY OutsStep
<1>3. spine.merging # <<<<>>>> => spine.merging = Cuts /\ Range(Cuts) \subseteq DOMAIN outs
  BY DEF SpineKept
<1>4. spine.documents \in {<<<<>>>>, all} /\ spine.sentences \in {<<<<>>>>, Lines(scen.files, all)}
  BY DEF SpineKept
<1>5. spine.merging # <<<<>>>> => Chunk!Records(spine.merging) = all
  <2> SUFFICES ASSUME spine.merging # <<<<>>>> PROVE Chunk!Records(spine.merging) = all
    OBVIOUS
  <2>1. spine.merging = Seeded(scen.files, scen.widths[1]) /\ \A b \in Range(spine.merging) : b \in DOMAIN outs
    BY <1>3 DEF Cuts
  <2>2. \A b \in Range(spine.merging) : outs[b] = Records(scen.files, SpanOf(b))
    BY <2>1 DEF OutsKept
  <2>3. scen.widths[1] \in Nat \ {0} /\ scen.files \in Seq(Seq(Nat))
    <3>1. Len(scen.widths) \in Nat \ {0} /\ scen.widths \in Seq(Nat \ {0}) /\ scen.files \in Seq(Seq(Nat))
      BY EmptySeq DEF ChunkTypes
    <3> QED
      BY <3>1
  <2> QED
    BY <2>1, <2>2, <2>3, SpineOf
<1> HIDE DEF all
<1>6. /\ spine'.merging # <<<<>>>> => spine'.merging = Cuts /\ Range(Cuts) \subseteq DOMAIN (outs')
      /\ spine'.documents \in {<<<<>>>>, all} /\ spine'.sentences \in {<<<<>>>>, Lines(scen.files, all)}
  <2>1. CASE spine' = spine \/ spine' = [spine EXCEPT !.merging = <<<<>>>>]
    BY <1>2, <1>3, <1>4, <2>1 DEF ChunkTypes
  <2>2. CASE Chunk!Drive
    <3>1. DOMAIN outs = Range(Cuts) /\ spine' = [spine EXCEPT !.merging = Cuts]
      BY <2>2, DriveFinds
    <3> QED
      BY <1>2, <1>4, <3>1 DEF ChunkTypes
  <2>3. CASE Chunk!DocumentRows
    <3>1. spine.merging # <<<<>>>> /\ spine' = [spine EXCEPT !.documents = all]
      BY <1>5, <2>3 DEF Chunk!DocumentRows, Chunk!Unset, Chunk!Idle
    <3> QED
      BY <1>2, <1>3, <1>4, <3>1 DEF ChunkTypes
  <2>4. CASE Chunk!SentenceRows
    <3>1. spine.merging # <<<<>>>> /\ spine' = [spine EXCEPT !.sentences = Lines(scen.files, all)]
      BY <1>5, <2>4, LinesAre DEF Chunk!SentenceRows, Chunk!Unset, Chunk!Idle
    <3> QED
      BY <1>2, <1>3, <1>4, <3>1 DEF ChunkTypes
  <2>5. \/ spine' = spine \/ spine' = [spine EXCEPT !.merging = <<<<>>>>]
        \/ Chunk!Drive \/ Chunk!DocumentRows \/ Chunk!SentenceRows
    BY DEF Chunk!Next, Chunk!Seeding, Chunk!Working, Chunk!Driving, Chunk!Launch, Chunk!CutSlice, Chunk!CutFails,
       Chunk!Post, Chunk!SeedKilled, Chunk!Claim, Chunk!Take, Chunk!Put, Chunk!ChildDies, Chunk!Collect,
       Chunk!CollectRaises, Chunk!Stall, Chunk!WorkDone, Chunk!Drained, Chunk!Joined, Chunk!Killed, Chunk!Bringup,
       Chunk!Seal, Chunk!DriveKilled, Chunk!Unset, Chunk!Idle
  <2> QED
    BY <2>1, <2>2, <2>3, <2>4, <2>5
<1>7. all = Records(scen'.files, Whole(scen'.files, Len(scen'.files)))
  BY <1>1 DEF all
<1> QED
  BY <1>1, <1>6, <1>7 DEF SpineKept

-----------------------------------------------------------------------------
LEMMA ChunkStarts ==
    ASSUME Chunk!Init
    PROVE  ChunkInv
<1>1. ChunkTypes
  BY ChunkTypesInit
<1>2. /\ waiting = {} /\ outs = <<>> /\ ~seeded /\ worker.pc = "idle" /\ seed.post = <<>> /\ tasks = <<>> /\ results = {}
      /\ \A c \in Children : child[c] = <<>>
      /\ spine.merging = <<<<>>>> /\ spine.documents = <<<<>>>> /\ spine.sentences = <<<<>>>>
  BY DEF Chunk!Init, Chunk!NoSeed, Chunk!Rested, Chunk!Unset, Chunk!Idle
<1>3. SeedKept
  <2>1. <<>> \in Seq(Range(Cuts)) /\ DOMAIN <<>> = {}
    OBVIOUS
  <2>2. seed.post \in Seq(Range(Cuts)) /\ DOMAIN outs = {}
    BY <1>2, <2>1
  <2> QED
    BY <1>2, <2>2 DEF SeedKept
<1>4. Past
  <2>1. 1 .. Len(tasks) = {}
    BY <1>2
  <2> QED
    BY <1>2, <2>1 DEF Past
<1>5. Gathered /\ OutsKept
  BY <1>2 DEF Gathered, OutsKept
<1>6. SpineKept
  BY <1>2 DEF SpineKept
<1> QED
  BY <1>1, <1>3, <1>4, <1>5, <1>6 DEF ChunkInv

LEMMA ChunkSteps ==
    ASSUME ChunkInv, Chunk!OneWidth, Chunk!Next
    PROVE  ChunkInv'
<1>1. /\ {"files", "widths"} \subseteq DOMAIN (scen') /\ scen'.files = scen.files /\ scen'.widths = scen.widths
  BY FilesKept DEF ChunkInv, ChunkTypes
<1>2. ChunkTypes'
  <2>1. \A b \in Range(Cuts) : SpanOf(b) \in Seq(Docs)
    BY CutsFacts DEF ChunkInv
  <2> QED
    BY <1>1, <2>1, ChunkSeeding, ChunkWorking, ChunkDriving DEF ChunkInv, Chunk!Next
<1>3. SeedKept'
  BY SeedStep DEF ChunkInv
<1>4. Past' /\ Gathered'
  BY PastStep, GatheredStep DEF ChunkInv
<1>5. OutsKept' /\ SpineKept'
  BY OutsStep, SpineStep DEF ChunkInv
<1> QED
  BY <1>2, <1>3, <1>4, <1>5 DEF ChunkInv

LEMMA ChunkedHolds == MCSpec => []Chunked
<1>1. MCInit => Chunked
  <2>1. Chunk!Init => ChunkInv /\ {"files", "widths"} \subseteq DOMAIN scen
    BY ChunkStarts DEF ChunkInv, ChunkTypes
  <2> QED
    BY <2>1 DEF MCInit, Chunked
<1>2. Chunked /\ [MCNext]_<<machine, vars, chunkVars, storeVars, cellVars>> => Chunked'
  <2> SUFFICES ASSUME Chunked, [MCNext]_<<machine, vars, chunkVars, storeVars, cellVars>>, machine' = "chunk"
               PROVE  {"files", "widths"} \subseteq DOMAIN (scen') /\ ((Chunk!OneWidth)' => ChunkInv')
    BY DEF Chunked
  <2>1. CASE Chunk!Next /\ machine = "chunk"
    <3>1. {"files", "widths"} \subseteq DOMAIN scen /\ (Chunk!OneWidth => ChunkInv)
      BY <2>1 DEF Chunked
    <3>2. {"files", "widths"} \subseteq DOMAIN (scen') /\ scen'.widths = scen.widths
      BY <2>1, <3>1, FilesKept
    <3>3. (Chunk!OneWidth)' => Chunk!OneWidth
      BY <3>2 DEF Chunk!OneWidth
    <3> QED
      BY <2>1, <3>1, <3>2, <3>3, ChunkSteps
  <2>2. CASE UNCHANGED <<machine, chunkVars>>
    BY <2>2 DEF Chunked, chunkVars, ChunkInv, ChunkTypes, SeedKept, Accounted, Past, Gathered, Handed, OutsKept, SpineKept,
       Cuts, Chunk!OneWidth
  <2> QED
    BY <2>1, <2>2 DEF MCNext, QueueRuns, ChunkRuns, StoreRuns, CellRuns
<1> QED
  BY <1>1, <1>2, PTL DEF MCSpec

\* For every corpus, batch size and pool: the tables of a corpus that is seeded at
\* one width are those one process would write, whoever was killed, retried or late.
THEOREM SpineHolds == MCSpec => []SpineExact
<1>1. Chunked => SpineExact
  <2> SUFFICES ASSUME ChunkInv PROVE Chunk!OneWidth => Chunk!SpineExact
    BY DEF Chunked, SpineExact, Chunk!SpineExact
  <2>1. scen.files \in Seq(Seq(Nat)) /\ SpineKept
    BY DEF ChunkInv, ChunkTypes
  <2>2. Chunk!Segment(Chunk!Corpus) = Records(scen.files, Whole(scen.files, Len(scen.files)))
    BY <2>1, CorpusIs, SegmentIs
  <2> QED
    BY <2>1, <2>2, LinesAre DEF SpineKept, Chunk!SpineExact, Chunk!Unset, Chunk!Idle
<1> QED
  BY <1>1, ChunkedHolds, PTL
===============================================================================
