---------------------------- MODULE PassageStore ----------------------------
(* The passage store of a family: the one shard of its stage builds and       *)
(* publishes it (preprocess/passage_store_build.py, index.py _publish_dir),   *)
(* and the threads of a process open it, or a mirror of it, through one table *)
(* of shared environments (common/passage_store.py, retrieval/store_mirror.py, *)
(* retrieval/context.py _open_store).                                         *)
EXTENDS DirPublish, Integers, FiniteSets

CONSTANTS
    Threads,    \* of the process that reads
    Builders,   \* attempts of the shard, numbered from 1, each a process of its own
    Stagings,   \* what the mirror root may hold: "none", "unmarked", "short", "whole"
    MaxOpens,   \* bound: environments opened
    MaxDropped  \* bound: handles of one environment in garbage at a time

Origin == "passages.lmdb"
Mirror == "mirror"

VARIABLES
    inode,    \* of data.mdb under the path, the number of who built it
    staged,   \* what the mirror root holds
    envs,     \* the environments opened so far: [key, path, inode, open, refs, dropped]
    shared,   \* those in _SHARED_ENVS
    lock,     \* who is inside _ENV_LOCK: a thread, or 0
    closing,  \* those out of the table that are about to be closed
    place, loc, key, env,   \* of each thread
    since     \* history, per thread: inodes the path has named since the stat

disks   == <<disk, marks, pc, todo, inode>>
table   == <<envs, shared, lock, closing>>
threads == <<place, loc, key, env, since>>
vars    == <<disks, staged, table, threads>>

Absent  == 0
Copied  == -1   \* the mirror's data.mdb
Gone(d) == disk[d] # "whole"
Ino     == IF Gone(Origin) THEN Absent ELSE inode

-----------------------------------------------------------------------------
(* The shard                                                                  *)

\* work: what is marked is read and not built again.
Work(b) ==
    /\ At(b, "work")
    /\ Goto(b, IF IsDone(Origin) THEN "next" ELSE "exists")
    /\ UNCHANGED <<disk, marks, todo, inode>>

\* _census, and validate on the receipt, open what is under the path.
Receipt(b) ==
    /\ At(b, "next")
    /\ Goto(b, IF IsDone(Origin) /\ ~Gone(Origin) THEN "accepted" ELSE "failed")
    /\ UNCHANGED <<disk, marks, todo, inode>>

Build(b) ==
    /\ \/ Work(b) \/ Receipt(b)
       \/ Publish(b) /\ inode' = IF At(b, "replace") /\ pc'[b] = "mark" THEN b ELSE inode
    /\ since' = [t \in Threads |-> IF place[t] = "acquire" /\ disk'[Origin] = "whole"
                                  THEN since[t] \cup {inode'} ELSE since[t]]
    /\ UNCHANGED <<staged, table, place, loc, key, env>>

-----------------------------------------------------------------------------
(* Opening                                                                    *)

Is(t, where)   == place[t] = where
Move(t, where) == place' = [place EXCEPT ![t] = where]
Leave(t) ==
    /\ place' = [place EXCEPT ![t] = "idle"] /\ loc' = [loc EXCEPT ![t] = Origin]
    /\ key' = [key EXCEPT ![t] = <<>>] /\ env' = [env EXCEPT ![t] = 0]
    /\ since' = [since EXCEPT ![t] = {}]

\* resolve_store_location: the mirror, if it is marked and of the origin's size.
Resolve(t) ==
    /\ Is(t, "idle") /\ Len(envs) < MaxOpens
    /\ loc' = [loc EXCEPT ![t] = IF staged = "whole" /\ ~Gone(Origin) THEN Mirror ELSE Origin]
    /\ Move(t, "check")
    /\ UNCHANGED <<disks, staged, table, key, env, since>>

\* _open_store: no copy stands in for a store that is not published.
Check(t) ==
    /\ Is(t, "check")
    /\ IF disk[Origin] # "absent" /\ IsDone(Origin)
       THEN Move(t, "stat") /\ UNCHANGED <<loc, key, env, since>> ELSE Leave(t)
    /\ UNCHANGED <<disks, staged, table>>

Bug_KeyOf(path, ino) == <<path>>
\* _env_key
KeyOf(path, ino) == <<path, ino>>

Found(path) == IF path = Mirror THEN Copied ELSE Ino

Stat(t) ==
    /\ Is(t, "stat")
    /\ key' = [key EXCEPT ![t] = KeyOf(loc[t], Found(loc[t]))]
    /\ since' = [since EXCEPT ![t] = {Found(loc[t])}]
    /\ Move(t, "acquire")
    /\ UNCHANGED <<disks, staged, table, loc, env>>

Entry(k)   == {e \in shared : envs[e].key = k}
Live(path) == {e \in DOMAIN envs : envs[e].open /\ envs[e].path = path}

\* _acquire_env, inside the lock: the entry of the key, before it is counted.
Lookup(t) ==
    /\ Is(t, "acquire") /\ lock = 0
    /\ \E e \in Entry(key[t]) : env' = [env EXCEPT ![t] = e]
    /\ lock' = t /\ Move(t, "found")
    /\ UNCHANGED <<disks, staged, envs, shared, closing, loc, key, since>>
Count(t) ==
    /\ Is(t, "found")
    /\ envs' = [envs EXCEPT ![env[t]].refs = @ + 1]
    /\ lock' = 0 /\ Move(t, "held")
    /\ UNCHANGED <<disks, staged, shared, closing, loc, key, env, since>>

\* No entry: lmdb.open refuses a path on which an environment is open.
Open(t) ==
    /\ Is(t, "acquire") /\ lock = 0 /\ Entry(key[t]) = {}
    /\ Live(loc[t]) = {} /\ Found(loc[t]) # Absent
    /\ envs' = Append(envs, [key |-> key[t], path |-> loc[t], inode |-> Found(loc[t]),
                             open |-> TRUE, refs |-> 1, dropped |-> 0])
    /\ shared' = shared \cup {Len(envs')}
    /\ env' = [env EXCEPT ![t] = Len(envs')]
    /\ Move(t, "held")
    /\ UNCHANGED <<disks, staged, lock, closing, loc, key, since>>
Refused(t) ==
    /\ Is(t, "acquire") /\ lock = 0 /\ Entry(key[t]) = {}
    /\ Live(loc[t]) # {} \/ Found(loc[t]) = Absent
    /\ IF \E e \in Live(loc[t]) : envs[e].inode = Found(loc[t])
       THEN Move(t, "barred") /\ UNCHANGED <<loc, key, env, since>> ELSE Leave(t)
    /\ UNCHANGED <<disks, staged, table>>

-----------------------------------------------------------------------------
(* Closing                                                                    *)

Bug_LastGone(refs) == refs < 0
LastGone(refs) == refs = 0

\* _release_env, up to where it leaves the lock: what is no longer in the table
\* belongs to its handle alone.
Release(e) ==
    LET refs == envs[e].refs - 1
        last == e \notin shared \/ LastGone(refs)
    IN /\ shared' = IF last THEN shared \ {e} ELSE shared
       /\ closing' = IF last THEN closing \cup {e} ELSE closing
       /\ envs' = IF e \in shared THEN [envs EXCEPT ![e].refs = refs] ELSE envs

\* close, with what is read in between left out.
Close(t) ==
    /\ Is(t, "held") /\ lock = 0
    /\ Release(env[t])
    /\ Leave(t)
    /\ UNCHANGED <<disks, staged, lock>>

\* The environment is closed after the lock is left.
CloseEnv(e) ==
    /\ e \in closing
    /\ envs' = [envs EXCEPT ![e].open = FALSE]
    /\ closing' = closing \ {e}
    /\ UNCHANGED <<disks, staged, shared, lock, threads>>

\* A handle nobody closed ends up in a garbage cycle, and __del__ releases it
\* when the collector runs: in whoever is inside the lock, or when nobody is.
Drop(t) ==
    /\ Is(t, "held") /\ \A e \in DOMAIN envs : envs[e].dropped < MaxDropped
    /\ envs' = [envs EXCEPT ![env[t]].dropped = @ + 1]
    /\ Leave(t)
    /\ UNCHANGED <<disks, staged, shared, lock, closing>>
Collect(e) ==
    /\ envs[e].dropped > 0
    /\ LET last == e \notin shared \/ LastGone(envs[e].refs - 1)
       IN /\ envs' = [envs EXCEPT ![e].dropped = @ - 1,
                                  ![e].refs = IF e \in shared THEN @ - 1 ELSE @,
                                  ![e].open = @ /\ ~(last /\ lock # 0)]
          /\ shared' = IF last THEN shared \ {e} ELSE shared
          /\ closing' = IF last /\ lock = 0 THEN closing \cup {e} ELSE closing
    /\ UNCHANGED <<disks, staged, lock, threads>>

Thread(t) ==
    \/ Resolve(t) \/ Check(t) \/ Stat(t) \/ Lookup(t) \/ Count(t) \/ Open(t) \/ Refused(t)
    \/ Close(t) \/ Drop(t)

Init ==
    /\ disk = [d \in {Origin} |-> "absent"] /\ marks = {}
    /\ pc = [b \in Builders |-> "work"] /\ todo = [b \in Builders |-> <<Origin>>]
    /\ inode = Absent
    /\ staged \in Stagings
    /\ envs = <<>> /\ shared = {} /\ lock = 0 /\ closing = {}
    /\ place = [t \in Threads |-> "idle"] /\ loc = [t \in Threads |-> Origin]
    /\ key = [t \in Threads |-> <<>>] /\ env = [t \in Threads |-> 0]
    /\ since = [t \in Threads |-> {}]

Next ==
    \/ \E b \in Builders : Build(b)
    \/ \E t \in Threads : Thread(t)
    \/ \E e \in DOMAIN envs : CloseEnv(e) \/ Collect(e)

Spec == Init /\ [][Next]_vars

-----------------------------------------------------------------------------
(* Properties                                                                 *)

\* What a handle reads was under the path at some moment since the handle asked,
\* however often the directory is replaced (a path without data.mdb at the stat
\* has no identity but its name).
FreshRead ==
    \A t \in Threads :
        place[t] = "held" /\ Absent \notin since[t] => envs[env[t]].inode \in since[t]

\* No environment outlives its handles, closed or dropped: it would block the
\* next one on the same path (__del__).
NoLeak ==
    \A e \in DOMAIN envs :
        envs[e].open =>
            \/ e \in closing \/ envs[e].dropped > 0
            \/ \E t \in Threads : place[t] \in {"found", "held"} /\ env[t] = e

\* "Opening the same store twice in one process is legal and shares one
\* environment" (LmdbPassageStore): nobody is told that it is already open.
Absorbed == \A t \in Threads : place[t] # "barred"
=============================================================================
