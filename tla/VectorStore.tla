---------------------------- MODULE VectorStore ----------------------------
(* The vectorize stage (preprocess/vectorize.py over preprocess/vectors.py):  *)
(* the corpus is cut into cells, a cell into blocks; a task encodes a run of  *)
(* blocks of one cell and publishes one directory per block and leg; merge    *)
(* accepts the store once every cell is whole.                                *)
EXTENDS Integers, FiniteSets, SequencesExt, DirPublish

CONSTANTS
    Cells,      \* (rendering, source language) pairs, the shared English one among them
    Blocks,     \* blocks of each cell
    Legs,       \* the three legs, in build order
    Builders,   \* worker processes
    Scenarios   \* what may happen: see Scenario

\* widths: vectorize_blocks_per_task of the successive seed runs, an unhashed
\* execution knob; torn: a seed run may be killed part way; kills, yanks: how
\* many builders are killed, how many lose their task to the reaper and work on.
Scenario == [widths : Seq(Nat \ {0}), torn : BOOLEAN, kills : Nat, yanks : Nat]

ASSUME StoreAssumption ==
    /\ Blocks \in [Cells -> Nat \ {0}]
    /\ Legs \in Seq({Legs[i] : i \in DOMAIN Legs}) /\ IsInjective(Legs)
    /\ Scenarios \subseteq Scenario

LegSet == {Legs[i] : i \in DOMAIN Legs}
BlocksOf(c) == 0 .. Blocks[c] - 1

\* A directory of the vector store: one leg of one block of one cell.
BlockDir(c, l, k) == <<"block", c, l, k>>
BlockDirs == {BlockDir(c, l, k) : c \in Cells, l \in LegSet, k \in UNION {BlocksOf(x) : x \in Cells}}

VARIABLES
    scen,      \* the scenario: widths not yet seeded, kills and yanks left
    stage,     \* "vectorize", and then what follows
    placed,    \* shard files of the stage, wherever they are: the first write of a name stays
    waiting,   \* those in pending/
    settled,   \* those in done/
    task       \* the shard each builder works on

store == <<disk, marks>>
queue == <<placed, waiting, settled>>
hands == <<pc, todo, task>>

NoTask == <<>>

\* VectorizeTaskSpec: a shard file is named for its cell and its first block.
Task(c, first, count) == [of |-> "vectorize", cell |-> c, first |-> first, count |-> count]
Name(t)    == <<t.of, t.cell, t.first>>
Covered(t) == t.first .. t.first + t.count - 1

\* VectorizeAdapter.shards at one width.
TasksAt(width) ==
    UNION {{Task(c, f, IF Blocks[c] - f < width THEN Blocks[c] - f ELSE width) :
              f \in {k \in BlocksOf(c) : k % width = 0}} : c \in Cells}

\* work publishes block by block, and within a block leg by leg.
DirsOf(t) ==
    [n \in 1 .. t.count * Len(Legs) |->
        BlockDir(t.cell, Legs[1 + ((n - 1) % Len(Legs))], t.first + (n - 1) \div Len(Legs))]

VectorizeInit ==
    /\ scen \in Scenarios
    /\ stage = "vectorize"
    /\ placed = {} /\ waiting = {} /\ settled = {}
    /\ marks = {}
    /\ pc = [b \in Builders |-> "idle"]
    /\ todo = [b \in Builders |-> <<>>]
    /\ task = [b \in Builders |-> NoTask]

-----------------------------------------------------------------------------
(* The queue, reduced to what the stage relies on (see WorkQueue).            *)

\* A seed run writes the names that are in no directory yet; a killed one only
\* some of them.
SeedVectorize ==
    /\ stage \in {"vectorize", "refused"} /\ scen.widths # <<>>
    /\ stage' = "vectorize"
    /\ LET fresh == {t \in TasksAt(Head(scen.widths)) :
                        \A p \in placed : Name(p) # Name(t)}
       IN \E written \in (IF scen.torn THEN SUBSET fresh ELSE {fresh}) :
             /\ placed' = placed \cup written
             /\ waiting' = waiting \cup written
    /\ scen' = [scen EXCEPT !.widths = Tail(@), !.torn = FALSE]
    /\ UNCHANGED <<store, settled, hands>>

\* The work list follows from what the builder reads when it gets there.
Claim(b, t, dirs) ==
    /\ At(b, "idle") /\ t \in waiting
    /\ waiting' = waiting \ {t}
    /\ task' = [task EXCEPT ![b] = t]
    /\ todo' = [todo EXCEPT ![b] = dirs]
    /\ Goto(b, "next")
    /\ UNCHANGED <<store, scen, stage, placed, settled>>

ClaimVectorize(b) == \E t \in waiting : t.of = "vectorize" /\ Claim(b, t, DirsOf(t))

Rest(b) == task' = [task EXCEPT ![b] = NoTask] /\ todo' = [todo EXCEPT ![b] = <<>>]

\* The name goes back to pending/ unless another process has moved it on.
GiveBack(t) == IF t \in settled THEN UNCHANGED waiting ELSE waiting' = waiting \cup {t}

\* An attempt that raised.
GiveUp(b) ==
    /\ At(b, "failed")
    /\ GiveBack(task[b])
    /\ Rest(b) /\ Goto(b, "idle")
    /\ UNCHANGED <<store, scen, stage, placed, settled>>

\* The process is killed; the reaper, or the chain, returns its task.
Kill(b) ==
    /\ scen.kills > 0 /\ pc[b] \notin {"idle", "dead"}
    /\ scen' = [scen EXCEPT !.kills = @ - 1]
    /\ GiveBack(task[b])
    /\ Rest(b) /\ Goto(b, "dead")
    /\ UNCHANGED <<store, stage, placed, settled>>

\* Its heartbeat stops while it works on.
Yank(b) ==
    /\ scen.yanks > 0 /\ pc[b] \notin {"idle", "dead"}
    /\ scen' = [scen EXCEPT !.yanks = @ - 1]
    /\ GiveBack(task[b])
    /\ UNCHANGED <<store, stage, placed, settled, hands>>

-----------------------------------------------------------------------------
(* VectorizeAdapter.work, _write_leg_block and vectors.write_block.           *)

\* A block whose leg is marked is kept; any other is encoded into a temporary
\* directory of this process.
Encode(b) ==
    /\ At(b, "next") /\ todo[b] # <<>> /\ Target(b)[1] = "block"
    /\ IF IsDone(Target(b)) THEN Published(b) ELSE Goto(b, "exists") /\ UNCHANGED todo
    /\ UNCHANGED <<store, scen, stage, queue, task>>

PublishBlock(b) ==
    /\ Publish(b)
    /\ UNCHANGED <<scen, stage, queue, task>>

\* VectorizeAdapter.validate: every block of the report is marked and its id map,
\* read from the directory, is the slice the table implies.
Valid(dirs) == \A d \in dirs : IsDone(d) /\ disk[d] = "whole"

\* The report, validate, and the move to done/, which does nothing when the
\* reaper has put the name back.
Settle(b, valid) ==
    /\ At(b, "next") /\ todo[b] = <<>>
    /\ IF valid
       THEN /\ settled' = IF task[b] \in waiting THEN settled ELSE settled \cup {task[b]}
            /\ Rest(b) /\ Goto(b, "idle")
       ELSE Goto(b, "failed") /\ UNCHANGED <<settled, todo, task>>
    /\ UNCHANGED <<store, scen, stage, placed, waiting>>

SettleVectorize(b) ==
    /\ task[b] # NoTask /\ task[b].of = "vectorize"
    /\ Settle(b, Valid(ToSet(DirsOf(task[b]))))

-----------------------------------------------------------------------------
(* vectors.read_cell_census and VectorizeAdapter.merge.                       *)

\* The directories a glob finds must all be whole and marked, and be exactly the
\* blocks the plan counts.
CensusHolds(c, l) ==
    \A k \in BlocksOf(c) : LET d == BlockDir(c, l, k) IN disk[d] = "whole" /\ IsDone(d)

Reported(c) == UNION {Covered(t) : t \in {s \in settled : s.cell = c}}

Bug_StoreReported == \A c \in Cells : Reported(c) # {}

StoreAccepted ==
    \A c \in Cells :
        /\ Reported(c) = BlocksOf(c)
        /\ \A l \in LegSet : CensusHolds(c, l)

\* drive merges when pending/ and running/ are empty, and raises otherwise.
Drained(of) ==
    LET mine == {t \in placed : t.of = of} IN mine # {} /\ mine \subseteq settled
=============================================================================
