----------------------------- MODULE Submission -----------------------------
(* Serialization of one arm by the parallel driver (slurm/serialize_parallel) *)
(* over project(): every finished topic is a shard, a shard publishes its     *)
(* deliverables one after the other, each behind its gate, and the reduce     *)
(* joins the topics that have them all. The driver may be killed anywhere and *)
(* is started again over what is on disk; what a model answers, and with it   *)
(* what a projection contains, may differ from one attempt to the next.       *)
EXTENDS Integers, FiniteSets, Sequences

CONSTANTS
    Topics,       \* of the cell
    Tasks,        \* the config's deliverables, in its order
    Workers,      \* size of the pool
    MaxLaunches,  \* bound: starts of the driver
    MaxKills      \* bound: kills

VARIABLES
    cell,      \* topics whose cell directory is complete
    file,      \* the projection each <<topic, task>> file holds, 0 for no file
    marked,    \* the <<topic, task>> with a _SUCCESS
    fragment,  \* topics with a manifest fragment
    passed,    \* the <<topic, task, projection>> a gate has accepted
    family,    \* the joined file of a task: [topic -> projection], in topic order
    driver,    \* "off", "map", "reduce", "end"
    listed,    \* topics complete when the driver started
    todo,      \* shards it still has to run
    covered,   \* topics its reduce found to have every deliverable
    next,      \* the deliverable it joins next
    shard,     \* [topic -> where its project() stands]
    tries,     \* projections begun, by topic
    launches, kills

files  == <<file, marked, fragment, passed>>
work   == <<shard, tries, todo>>
run    == <<driver, listed, covered, next, family>>
bounds == <<launches, kills>>
vars   == <<cell, files, work, run, bounds>>

Idle   == [at |-> "idle", task |-> 0, again |-> FALSE]
Pieces == Topics \X DOMAIN Tasks

Init ==
    /\ cell \in SUBSET Topics
    /\ file = [p \in Pieces |-> 0] /\ marked = {} /\ fragment = {} /\ passed = {}
    /\ family = [k \in DOMAIN Tasks |-> <<>>]
    /\ driver = "off" /\ listed = {} /\ covered = {} /\ next = 1
    /\ shard = [t \in Topics |-> Idle] /\ tries = [t \in Topics |-> 0] /\ todo = {}
    /\ launches = 0 /\ kills = MaxKills

-----------------------------------------------------------------------------
(* The driver                                                                 *)

Bug_ShardDone(t) == \E k \in DOMAIN Tasks : <<t, k>> \in marked

\* shard_done: every declared deliverable is marked.
ShardDone(t) == \A k \in DOMAIN Tasks : <<t, k>> \in marked

\* Another topic of the cell completes.
Complete(t) ==
    /\ t \notin cell /\ cell' = cell \cup {t}
    /\ UNCHANGED <<files, work, run, bounds>>

Launch ==
    /\ driver \in {"off", "end"} /\ launches < MaxLaunches
    /\ launches' = launches + 1
    /\ listed' = cell /\ todo' = {t \in cell : ~ShardDone(t)}
    /\ driver' = "map"
    /\ UNCHANGED <<cell, files, shard, tries, covered, next, family, kills>>

\* SLURM ends the job, or a worker dies and takes the pool with it.
Kill ==
    /\ driver \in {"map", "reduce"} /\ kills > 0
    /\ kills' = kills - 1
    /\ driver' = "off" /\ todo' = {} /\ shard' = [t \in Topics |-> Idle]
    /\ UNCHANGED <<cell, files, tries, listed, covered, next, family, launches>>

-----------------------------------------------------------------------------
(* One shard: _run_shard_guarded, _run_shard and project                      *)

Move(t, at, task) == shard' = [shard EXCEPT ![t].at = at, ![t].task = task]
Left(t)           == /\ shard' = [shard EXCEPT ![t] = Idle]
                     /\ todo' = todo \ {t}
Else              == UNCHANGED <<cell, run, bounds>>

\* A worker takes the shard; reading, deduplicating and projecting come first.
Start(t) ==
    /\ driver = "map" /\ t \in todo /\ shard[t] = Idle
    /\ Cardinality({u \in Topics : shard[u] # Idle}) < Workers
    /\ tries' = [tries EXCEPT ![t] = @ + 1]
    /\ Move(t, "project", 0)
    /\ UNCHANGED <<files, todo>> /\ Else

\* The confirm gate loses its endpoint: once more on another, if there is one.
Reconnect(t) ==
    /\ shard[t].at = "project" /\ ~shard[t].again
    /\ tries' = [tries EXCEPT ![t] = @ + 1]
    /\ shard' = [shard EXCEPT ![t].again = TRUE]
    /\ UNCHANGED <<files, todo>> /\ Else

\* A projection that raises is reported and leaves its topic for a later launch.
Raise(t) ==
    /\ shard[t].at = "project"
    /\ Left(t)
    /\ UNCHANGED <<files, tries>> /\ Else

Projected(t) ==
    /\ shard[t].at = "project"
    /\ Move(t, "gate", 1)
    /\ UNCHANGED <<files, tries, todo>> /\ Else

\* A gate that cannot run has not passed.
Publishes(verdict) == verdict = "passed"

\* _emit: the staged copy goes to the validator, or a Task-2 run to check_run_file.
Gate(t) ==
    /\ shard[t].at = "gate"
    /\ \E verdict \in {"passed", "failed", "not run"} :
          /\ verdict = "not run" => Tasks[shard[t].task] # 2
          /\ passed' = IF verdict = "passed"
                       THEN passed \cup {<<t, shard[t].task, tries[t]>>} ELSE passed
          /\ IF Publishes(verdict) THEN Move(t, "write", shard[t].task) /\ UNCHANGED todo
             ELSE Left(t)
    /\ UNCHANGED <<file, marked, fragment, tries>> /\ Else

\* write_jsonl_rows, write_trec_run: skip_if_done is off, the file is replaced
\* under the marker it may already have.
Write(t) ==
    /\ shard[t].at = "write" /\ Move(t, "mark", shard[t].task)
    /\ file' = [file EXCEPT ![<<t, shard[t].task>>] = tries[t]]
    /\ UNCHANGED <<marked, fragment, passed, tries, todo>> /\ Else

Mark(t) ==
    /\ shard[t].at = "mark"
    /\ marked' = marked \cup {<<t, shard[t].task>>}
    /\ IF shard[t].task = Len(Tasks) THEN Move(t, "manifest", 0) ELSE Move(t, "gate", shard[t].task + 1)
    /\ UNCHANGED <<file, fragment, passed, tries, todo>> /\ Else

Manifest(t) ==
    /\ shard[t].at = "manifest" /\ Left(t)
    /\ fragment' = fragment \cup {t}
    /\ UNCHANGED <<file, marked, passed, tries>> /\ Else

-----------------------------------------------------------------------------
(* concat_arm                                                                 *)

\* Every shard has reported: the topics of the launch are looked at again.
Reduce ==
    /\ driver = "map" /\ todo = {}
    /\ driver' = "reduce" /\ next' = 1
    /\ covered' = {t \in listed : ShardDone(t)}
    /\ UNCHANGED <<cell, files, work, listed, family, bounds>>

\* One deliverable after the other: every covered topic with a file, in order.
\* The validator's word on the joined file is only reported.
Concat ==
    /\ driver = "reduce"
    /\ family' = [family EXCEPT ![next] =
           [t \in {u \in covered : file[<<u, next>>] # 0} |-> file[<<t, next>>]]]
    /\ next' = next + 1
    /\ driver' = IF next = Len(Tasks) THEN "end" ELSE "reduce"
    /\ UNCHANGED <<cell, files, work, listed, covered, bounds>>

Shard(t) ==
    Start(t) \/ Reconnect(t) \/ Raise(t) \/ Projected(t) \/ Gate(t) \/ Write(t) \/ Mark(t) \/ Manifest(t)
Next ==
    \/ Launch \/ Kill \/ Reduce \/ Concat
    \/ \E t \in Topics : Complete(t) \/ Shard(t)
Spec == Init /\ [][Next]_vars

-----------------------------------------------------------------------------
(* Properties                                                                 *)

\* Nothing is published that its gate has not accepted.
PublishedPassed == \A p \in marked : <<p[1], p[2], file[p]>> \in passed

\* What a finished driver leaves is one submission: every task's file has the
\* same topics, all that it covered, and what it says of a topic comes from
\* one projection, whatever was killed, refused and tried again before.
OneProjection ==
    driver = "end" =>
        \A k \in DOMAIN Tasks : family[k] = family[1] /\ DOMAIN family[k] = covered
=============================================================================
