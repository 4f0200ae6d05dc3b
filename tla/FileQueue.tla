----------------------------- MODULE FileQueue -----------------------------
(* The primitives of orchestration/slurm/workqueue.py that both the shard     *)
(* queue and the vLLM pair registry are built on: two directories of names,   *)
(* moved by rename, and a heartbeat file per name in meta/.                   *)
EXTENDS Naturals

CONSTANT MaxAge   \* the reaper window, in ticks

VARIABLES
    pending, running,  \* the directories, as sets of file names
    sidecar,           \* names with a heartbeat file in meta/
    age                \* ticks since the sidecar's stamp, or since the file's ctime

\* A writer's `.name.tmp-pid` sits beside `name`, in a directory claim globs.
Temp(f) == <<"tmp", f>>

\* A rename bumps the file's ctime, which the reaper reads only while the name
\* has no sidecar; the sidecar's stamp survives every move.
Renamed(f) == age' = [age EXCEPT ![f] = IF f \in sidecar THEN @ ELSE 0]

\* Mutant: the file is copied, so another claimer still finds it.
Bug_ClaimCopies(f) ==
    /\ f \in pending
    /\ running' = running \cup {f}
    /\ Renamed(f)
    /\ UNCHANGED pending

\* claim's os.rename: atomic, it overwrites a file of that name in running/.
ClaimMove(f) ==
    /\ f \in pending
    /\ pending' = pending \ {f}
    /\ running' = running \cup {f}
    /\ Renamed(f)

\* requeue through _move_tolerant: by name, whoever holds it, a no-op when the
\* file is gone.
Requeue(f) ==
    /\ running' = running \ {f}
    /\ pending' = IF f \in running THEN pending \cup {f} ELSE pending
    /\ IF f \in running THEN Renamed(f) ELSE UNCHANGED age

\* heartbeat: the sidecar is written whether or not the file still exists.
Heartbeat(f) ==
    /\ sidecar' = sidecar \cup {f}
    /\ age' = [age EXCEPT ![f] = 0]

\* _hb_time and the ctime fallback of reap_stale, compared with max_age.
Stale(f) == age[f] > MaxAge

\* A tick of the clock during which the names in beaten were stamped.
Aging(beaten) ==
    /\ sidecar' = sidecar \cup beaten
    /\ age' = [f \in DOMAIN age |-> IF f \in beaten THEN 0
                                    ELSE IF Stale(f) THEN age[f] ELSE age[f] + 1]
=============================================================================
