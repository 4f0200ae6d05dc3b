--------------------------- MODULE IndexAssembly ---------------------------
(* The assemble stage (preprocess/assemble.py) over the vector store: a shard *)
(* is one part of one cell, a contiguous run of whole blocks; a worker builds *)
(* and publishes one directory per leg from the blocks it streams; merge      *)
(* writes the manifest.  Workers of vectorize that lost their task may still  *)
(* be at work on the store meanwhile.                                         *)
EXTENDS VectorStore

CONSTANTS PartBlocks   \* blocks of a part: plaid_part_passages / encode_block_passages

ASSUME AssemblyAssumption == PartBlocks \in Nat \ {0}

PartsOf(c)       == {k \div PartBlocks : k \in BlocksOf(c)}
PartBlocksOf(c, p) == {k \in BlocksOf(c) : k \div PartBlocks = p}

\* A directory of the index: one leg of one part of one cell.
LegDir(c, l, p) == <<"leg", c, l, p>>
LegDirs == {LegDir(c, l, p) : c \in Cells, l \in LegSet, p \in UNION {PartsOf(x) : x \in Cells}}

VARIABLES
    read,   \* builder -> blocks streamed into the leg in hand
    held    \* leg directory -> blocks whose passages its id map lists

vars == <<store, scen, stage, queue, hands, read, held>>

PartOf(c, p) == [of |-> "assemble", cell |-> c, part |-> p]
LegDirsOf(t) == [j \in DOMAIN Legs |-> LegDir(t.cell, Legs[j], t.part)]

TypeOK ==
    /\ stage \in {"vectorize", "refused", "assemble", "indexed", "withheld"}
    /\ disk \in [BlockDirs \cup LegDirs -> {"absent", "torn", "whole"}]
    /\ marks \subseteq BlockDirs \cup LegDirs
    /\ settled \subseteq placed /\ waiting \subseteq placed
    /\ pc \in [Builders -> Publishing \cup {"idle", "next", "stream", "failed", "dead"}]
    /\ \A b \in Builders : pc[b] \in Publishing \cup {"stream"} => todo[b] # <<>>

Init ==
    /\ VectorizeInit
    /\ disk = [d \in BlockDirs \cup LegDirs |-> "absent"]
    /\ read = [b \in Builders |-> {}]
    /\ held = [d \in LegDirs |-> {}]

\* drive of vectorize, and the seed of assemble, which the chain submits after it.
DriveVectorize ==
    /\ stage = "vectorize" /\ Drained("vectorize")
    /\ IF StoreAccepted
       THEN LET parts == UNION {{PartOf(c, p) : p \in PartsOf(c)} : c \in Cells}
            IN stage' = "assemble" /\ placed' = placed \cup parts /\ waiting' = waiting \cup parts
       ELSE stage' = "refused" /\ UNCHANGED <<placed, waiting>>
    /\ UNCHANGED <<store, scen, settled, hands, read, held>>

Vectorize ==
    /\ \/ SeedVectorize
       \/ \E b \in Builders :
             \/ ClaimVectorize(b) \/ Encode(b) \/ SettleVectorize(b)
             \/ GiveUp(b) \/ Kill(b) \/ Yank(b)
             \/ todo[b] # <<>> /\ Target(b)[1] = "block" /\ PublishBlock(b)
    /\ UNCHANGED <<read, held>>

-----------------------------------------------------------------------------
(* AssembleAdapter.work and _assemble_leg.                                    *)

\* The legs that are pending are decided once, and kept in their order.
Pending(t) ==
    LET left == {j \in DOMAIN Legs : ~IsDone(LegDir(t.cell, Legs[j], t.part))}
    IN {f \in [1 .. Cardinality(left) -> left] : \A i, j \in DOMAIN f : i < j => f[i] < f[j]}

ClaimAssemble(b) ==
    /\ \E t \in waiting :
          /\ t.of = "assemble"
          /\ \E f \in Pending(t) :
                Claim(b, t, [j \in DOMAIN f |-> LegDir(t.cell, Legs[f[j]], t.part)])
    /\ UNCHANGED <<read, held>>

\* The cell's census first: a cell that is not whole is not assembled.
OpenCell(b) ==
    /\ At(b, "next") /\ todo[b] # <<>> /\ Target(b)[1] = "leg"
    /\ Goto(b, IF CensusHolds(Target(b)[2], Target(b)[3]) THEN "stream" ELSE "failed")
    /\ read' = [read EXCEPT ![b] = {}]
    /\ UNCHANGED <<store, scen, stage, queue, todo, task, held>>

\* stream_part: the part's blocks in order, each read from its directory when
\* its turn comes.
Stream(b) ==
    /\ At(b, "stream")
    /\ LET c == Target(b)[2]
           left == PartBlocksOf(c, Target(b)[4]) \ read[b]
           k == CHOOSE x \in left : \A y \in left : x <= y
       IN IF left = {} THEN Goto(b, "exists") /\ UNCHANGED read
          ELSE IF disk[BlockDir(c, Target(b)[3], k)] = "whole"
          THEN read' = [read EXCEPT ![b] = @ \cup {k}] /\ UNCHANGED pc
          ELSE Goto(b, "failed") /\ UNCHANGED read
    /\ UNCHANGED <<store, scen, stage, queue, todo, task, held>>

PublishLeg(b) ==
    /\ todo[b] # <<>> /\ Target(b)[1] = "leg"
    /\ Publish(b)
    /\ held' = IF At(b, "replace") /\ pc'[b] = "mark"
               THEN [held EXCEPT ![Target(b)] = read[b]] ELSE held
    /\ UNCHANGED <<scen, stage, queue, task, read>>

\* validate compares the id map of every leg with the slice the table implies.
ValidPart(t) ==
    \A d \in ToSet(LegDirsOf(t)) :
        IsDone(d) /\ disk[d] = "whole" /\ held[d] = PartBlocksOf(t.cell, t.part)

SettleAssemble(b) ==
    /\ task[b] # NoTask /\ task[b].of = "assemble"
    /\ Settle(b, ValidPart(task[b]))
    /\ UNCHANGED <<read, held>>

-----------------------------------------------------------------------------
(* AssembleAdapter.merge.                                                     *)

\* _part_ids: a passage counts for a part when all its legs list it.
PartIds(c, p) == {k \in BlocksOf(c) : \A l \in LegSet : k \in held[LegDir(c, l, p)]}

\* _merge_cell and _assert_covers_corpus: parts disjoint, and nothing missing.
CellCovered(c) ==
    /\ \A p \in PartsOf(c) : PartOf(c, p) \in settled
    /\ \A p \in PartsOf(c), l \in LegSet : disk[LegDir(c, l, p)] = "whole"
    /\ \A p, q \in PartsOf(c) : p # q => PartIds(c, p) \cap PartIds(c, q) = {}
    /\ UNION {PartIds(c, p) : p \in PartsOf(c)} = BlocksOf(c)

DriveAssemble ==
    /\ stage = "assemble" /\ Drained("assemble")
    /\ stage' = IF \A c \in Cells : CellCovered(c) THEN "indexed" ELSE "withheld"
    /\ UNCHANGED <<store, scen, queue, hands, read, held>>

Assemble ==
    \/ DriveAssemble
    \/ \E b \in Builders :
          ClaimAssemble(b) \/ OpenCell(b) \/ Stream(b) \/ PublishLeg(b) \/ SettleAssemble(b)

Next == Vectorize \/ DriveVectorize \/ Assemble

Spec == Init /\ [][Next]_vars

\* Every worker that lives runs on, the seed runs are submitted, and so is drive.
Steps(b) ==
    \/ (ClaimVectorize(b) \/ Encode(b) \/ SettleVectorize(b) \/ GiveUp(b)) /\ UNCHANGED <<read, held>>
    \/ todo[b] # <<>> /\ Target(b)[1] = "block" /\ PublishBlock(b) /\ UNCHANGED <<read, held>>
    \/ ClaimAssemble(b) \/ OpenCell(b) \/ Stream(b) \/ PublishLeg(b) \/ SettleAssemble(b)

FairSpec ==
    /\ Spec
    /\ WF_vars(SeedVectorize /\ UNCHANGED <<read, held>>)
    /\ WF_vars(DriveVectorize \/ DriveAssemble)
    /\ \A b \in Builders : WF_vars(Steps(b))

-----------------------------------------------------------------------------
(* Properties.                                                                *)

InHand(d) == \E b \in Builders : pc[b] \in {"rmdir", "replace"} /\ Target(b) = d

\* A leg is either fully published or absent, and never stays marked without its
\* directory: only a builder that is about to put the same content back stands
\* between (_publish_dir reads the marker before it removes the directory).
MarkedWhole == \A d \in marks : disk[d] = "whole" \/ InHand(d)

\* No leg is built short, whatever is removed from the store after its census:
\* it lists exactly its part's blocks.
LegsExact ==
    \A c \in Cells, l \in LegSet : \A p \in PartsOf(c) :
        LET d == LegDir(c, l, p) IN disk[d] = "whole" => held[d] = PartBlocksOf(c, p)

\* Nothing is built over a hole: assemble starts only over a store that holds
\* every block of every cell and leg, whatever seed runs of different widths left
\* in the queue, and a manifest names only cells whose legs are all published
\* and whose parts cover them.
NoHoles ==
    /\ stage \in {"assemble", "indexed", "withheld"} =>
          \A c \in Cells, l \in LegSet : \A k \in BlocksOf(c) : IsDone(BlockDir(c, l, k))
    /\ stage = "indexed" =>
          \A c \in Cells, l \in LegSet :
              /\ \A p \in PartsOf(c) : IsDone(LegDir(c, l, p))
              /\ UNION {held[LegDir(c, l, p)] : p \in PartsOf(c)} = BlocksOf(c)

\* What is published is what the store held: no leg short, no manifest with a hole.
IndexExact == LegsExact /\ NoHoles

\* The build comes to an end: a manifest, or a drive that says what is missing.
BuildEnds == <>[](stage \in {"indexed", "withheld", "refused"})
=============================================================================
