---------------------------- MODULE MCWorkQueue ----------------------------
(* The file queue with its roles and, beside it, three users of it: the         *)
(* chunking of a corpus, the passage store, and the topic a fleet worker       *)
(* solves. The four machines share no state. A behaviour runs the one its      *)
(* first state picks while the others stand still.                             *)
EXTENDS WorkQueue, NuggetBank, Sequences, TLC

CONSTANTS s1, s2, w1, w2, none

VARIABLE machine   \* "queue", "chunk", "store" or "cell"

TwoShards == {s1, s2}
TwoWorkers == {w1, w2}

\* Neither shards nor workers are ordered or compared anywhere.
Symmetric == Permutations(Shards) \cup Permutations(Workers)

-----------------------------------------------------------------------------
(* Chunking: files of documents of up to two sentences, one of them without   *)
(* any, a pool of two processes; kills of seed, worker and drive, a child that *)
(* dies with a batch, a wait that runs out, an error, a document whose spans  *)
(* do not fit, one launch of the seed or two of one width.                    *)

CONSTANTS Corpora, Batch, Children   \* see Chunking

\* A batch holds a document, a seed asks for a range and is launched once at least.
\* A file may hold no document, and a document no sentence.
ASSUME ChunkAssumption ==
    /\ Batch \in Nat \ {0}
    /\ \A c \in Corpora :
          /\ c = [files |-> c.files, torn |-> c.torn, widths |-> c.widths,
                  errors |-> c.errors, kills |-> c.kills, deaths |-> c.deaths, slow |-> c.slow]
          /\ c.files \in Seq(Seq(Nat)) /\ c.widths \in Seq(Nat \ {0}) /\ c.widths # <<>>

VARIABLES scen, slices, seed, starts, seeded, waiting, tries, spent, outs, worker, job, tasks,
          child, results, lost, spine, sealed

Sound == [files |-> <<<<1, 0, 2>>, <<1, 1>>>>, torn |-> {}, widths |-> <<2>>,
          errors |-> 0, kills |-> 0, deaths |-> 0, slow |-> 0]
SomeNatives ==
    {[Sound EXCEPT !.widths = <<2, 2>>, !.kills = 1],
     [Sound EXCEPT !.widths = <<1>>, !.deaths = 1, !.slow = 1],
     [Sound EXCEPT !.deaths = 1, !.kills = 1],
     [Sound EXCEPT !.errors = 1, !.kills = 1],
     [Sound EXCEPT !.widths = <<3>>, !.files = <<<<1, 2>>, <<1>>>>, !.torn = {<<1, 2>>}],
     [Sound EXCEPT !.files = <<<<0, 1>>>>]}

Chunk == INSTANCE Chunking
    WITH launches <- starts, pending <- waiting, attempts <- tries, failed <- spent

-----------------------------------------------------------------------------
(* PassageStore: two attempts of the shard, two threads, a mirror that is     *)
(* whole or short.                                                            *)

CONSTANTS Threads, Builders, Stagings, MaxOpens, MaxDropped   \* see PassageStore

\* A thread is no free lock, a builder no inode of an absent file or of a copy.
ASSUME OpenersAssumption ==
    /\ Threads \subseteq Nat \ {0} /\ IsFiniteSet(Threads)
    /\ Builders \subseteq Nat \ {0}
    /\ MaxOpens \in Nat /\ MaxDropped \in Nat

Two == {1, 2}
WholeOrShort == {"whole", "short"}

VARIABLES disk, marks, place, left, inode, staged, envs, shared, lock, closing, at, loc, key, env, since

Store == INSTANCE PassageStore WITH pc <- place, todo <- left, place <- at

-----------------------------------------------------------------------------
(* Cell: three rounds, two seeds and a third id, a gap an audit, two kills,   *)
(* under a paraphrase gate that may answer anything at every audit.           *)

CONSTANTS MaxGaps, MaxKills   \* bounds, see Cell

ASSUME KillsAssumption == MaxKills \in Nat

VARIABLES bankFile, marked, rows, success, step, r, bank, novelty, computed, hits, open, rowNo,
          target, back, kills

Topic == INSTANCE Cell
    WITH None <- "none", MaxCrashes <- MaxKills,
         pc <- step, left <- open, crashes <- kills

cellVars ==
    <<bankFile, marked, rows, success, step, r, bank, novelty, computed, hits, open, rowNo, target,
      back, kills>>
chunkVars ==
    <<scen, slices, seed, starts, seeded, waiting, tries, spent, outs, worker, job, tasks,
      child, results, lost, spine, sealed>>
storeVars == <<disk, marks, place, left, inode, staged, envs, shared, lock, closing, at, loc, key, env, since>>

ChunkIdle ==
    /\ scen = "idle" /\ slices = "idle" /\ seed = "idle" /\ starts = "idle" /\ seeded = "idle"
    /\ waiting = "idle" /\ tries = "idle" /\ spent = "idle" /\ outs = "idle" /\ worker = "idle"
    /\ job = "idle" /\ tasks = "idle" /\ child = "idle" /\ results = "idle" /\ lost = "idle"
    /\ spine = "idle" /\ sealed = "idle"

MCInit ==
    /\ machine \in {"queue", "chunk", "store", "cell"}
    /\ Init /\ Store!Init /\ Topic!Init
    /\ machine = "store" \/ staged = CHOOSE m \in Stagings : TRUE
    /\ IF machine = "chunk" THEN Chunk!Init ELSE ChunkIdle

QueueRuns == machine = "queue" /\ Next /\ UNCHANGED <<machine, chunkVars, storeVars, cellVars>>
ChunkRuns == machine = "chunk" /\ Chunk!Next /\ UNCHANGED <<machine, vars, storeVars, cellVars>>
StoreRuns == machine = "store" /\ Store!Next /\ UNCHANGED <<machine, vars, chunkVars, cellVars>>
CellRuns  == machine = "cell" /\ Topic!Next /\ UNCHANGED <<machine, vars, chunkVars, storeVars>>

MCNext == QueueRuns \/ ChunkRuns \/ StoreRuns \/ CellRuns
MCSpec == MCInit /\ [][MCNext]_<<machine, vars, chunkVars, storeVars, cellVars>>

-----------------------------------------------------------------------------
(* Properties: NoShardLost, MergeComplete and PoolSpec are WorkQueue's.       *)

\* The spine is what one process would make of the corpus.
SpineExact == machine = "chunk" => Chunk!SpineExact

\* A handle reads the store that was published when it asked.
FreshRead == Store!FreshRead

\* No environment outlives its handles.
NoLeak == Store!NoLeak

\* The records of the tree account for the bank: every answer is recorded under
\* the nugget whose loop committed it, and an id changes its question only through
\* a bank without it; and as long as no nugget of an earlier bank was merged away,
\* nothing is left unattempted, every answer has its record under its own nugget,
\* an id denotes one question, and a topic solved by one process serves every
\* answer its loops committed.
RecordsWhole == Topic!RecordsWhole /\ Topic!UninterruptedServed

\* Kills and resumes are invisible: the tree is that of CoverageLoop.
LoopSpec == Topic!LoopSpec
=============================================================================
