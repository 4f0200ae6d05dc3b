--------------------------- MODULE MCCorpus_proof ---------------------------
(* For any cells, blocks, legs, builders and seed runs: the index built over   *)
(* the vector store has no short leg and no hole, and what is marked is whole. *)
(* For any packings of the table: the manifest of the fused build is exact.    *)
(* For any finished trees: the verdict of the acceptance pass is true. Only    *)
(* one machine moves, so a step of the whole is a step or a stutter of each.   *)
EXTENDS MCCorpus, DataLemmas

-----------------------------------------------------------------------------
(* IndexAssembly                                                              *)

Dirs == BlockDirs \cup LegDirs

\* What a builder works on is a task of vectorize or a part of assemble.
IsTask(t) ==
    \E c \in Cells, f \in Nat, n \in Nat :
        n > 0 /\ f + n <= Blocks[c] /\ t = Task(c, f, n)
IsPart(t) == \E c \in Cells : \E p \in PartsOf(c) : t = PartOf(c, p)

AtWork == Publishing \cup {"next", "stream", "failed"}

Disks ==
    /\ disk \in [Dirs -> {"absent", "torn", "whole"}]
    /\ marks \subseteq Dirs

Places ==
    /\ pc \in [Builders -> AtWork \cup {"idle", "dead"}]
    /\ todo \in [Builders -> Seq(Dirs)]
    /\ \A b \in Builders : pc[b] \in Publishing \cup {"stream"} => todo[b] # <<>>

Tasks ==
    /\ stage \in {"vectorize", "refused", "assemble", "indexed", "withheld"}
    /\ scen \in Scenario
    /\ \A t \in placed : IsTask(t) \/ IsPart(t)
    /\ settled \subseteq placed /\ waiting \subseteq placed
    /\ task \in [Builders -> placed \cup {NoTask}]
    /\ \A b \in Builders : pc[b] \in AtWork => task[b] \in placed

Lists ==
    /\ read \in [Builders -> SUBSET Nat]
    /\ held \in [LegDirs -> SUBSET Nat]

Types == Disks /\ Places /\ Tasks /\ Lists

\* The blocks whose passages a leg is to list.
Whole(d) == PartBlocksOf(d[2], d[4])

\* A leg is streamed whole before it is published.
StreamedBy(b) ==
    /\ pc[b] = "stream" => Target(b) \in LegDirs /\ read[b] \subseteq Whole(Target(b))
    /\ pc[b] \in Publishing \ {"mark"} /\ Target(b) \in LegDirs => read[b] = Whole(Target(b))
Streamed == \A b \in Builders : StreamedBy(b)

\* What has been listed once stays listed, also while the directory is replaced.
Filled ==
    \A d \in LegDirs :
        /\ held[d] \in {{}, Whole(d)}
        /\ disk[d] = "whole" => held[d] = Whole(d)

\* Assemble starts on a store without a hole.
Stored == stage \in {"assemble", "indexed", "withheld"} =>
    \A c \in Cells, l \in LegSet : \A k \in BlocksOf(c) : BlockDir(c, l, k) \in marks

\* A part in done/ has its legs, and a manifest has its parts.
Shelved ==
    \A c \in Cells : \A p \in PartsOf(c) :
        PartOf(c, p) \in settled => \A l \in LegSet : LegDir(c, l, p) \in marks

Manifest ==
    stage = "indexed" =>
        \A c \in Cells : \A p \in PartsOf(c) :
            /\ PartOf(c, p) \in settled
            /\ \A l \in LegSet : held[LegDir(c, l, p)] = PartBlocksOf(c, p)

IndexInv == Types /\ Streamed /\ Filled /\ Stored /\ Shelved /\ Manifest

-----------------------------------------------------------------------------
(* Directories and work lists.                                                *)

\* A block of a cell has a directory for each leg.
LEMMA BlockDirIn ==
    ASSUME NEW c \in Cells, NEW l \in LegSet, NEW k \in BlocksOf(c)
    PROVE  BlockDir(c, l, k) \in BlockDirs
BY DEF BlockDirs

\* A part of a cell has a directory for each leg.
LEMMA LegDirIn ==
    ASSUME NEW c \in Cells, NEW l \in LegSet, NEW p \in PartsOf(c)
    PROVE  LegDir(c, l, p) \in LegDirs
BY DEF LegDirs

\* The two stages never write to one directory.
LEMMA DirsApart ==
    /\ \A d \in BlockDirs : d[1] = "block"
    /\ \A d \in LegDirs : d[1] = "leg"
BY DEF BlockDirs, LegDirs, BlockDir, LegDir

\* The quotient of an index below n * w by w is below n.
LEMMA QuotientBelow ==
    ASSUME NEW i \in Nat, NEW n \in Nat, NEW w \in Nat \ {0}, i < n * w
    PROVE  i \div w \in 0 .. n - 1 /\ i % w \in 0 .. w - 1
<1>1. i \div w \in Int /\ i % w \in 0 .. w - 1 /\ i = w * (i \div w) + (i % w)
  OBVIOUS
<1> DEFINE q == i \div w
<1>2. w * q <= i /\ i < w * (q + 1)
  BY <1>1
<1>3. q < n
  <2> SUFFICES ASSUME q >= n PROVE FALSE
    BY <1>1
  <2>1. w * q >= w * n
    BY <1>1
  <2> QED
    BY <2>1, <1>2
<1>4. q >= 0
  <2> SUFFICES ASSUME q + 1 <= 0 PROVE FALSE
    BY <1>1
  <2>1. w * (q + 1) <= 0
    BY <1>1
  <2> QED
    BY <2>1, <1>2
<1> QED
  BY <1>1, <1>3, <1>4

\* Legs and blocks are numbered.
LEMMA LegsSeq == Legs \in Seq(LegSet) /\ Len(Legs) \in Nat /\ DOMAIN Legs = 1 .. Len(Legs)
BY StoreAssumption DEF StoreAssumption, LegSet

LEMMA BlocksOfNat == \A c \in Cells : Blocks[c] \in Nat \ {0} /\ BlocksOf(c) = 0 .. Blocks[c] - 1
BY StoreAssumption DEF StoreAssumption, BlocksOf

\* A task of vectorize lists directories of its own cell and its own blocks.
LEMMA DirsOfTask ==
    ASSUME NEW t, IsTask(t)
    PROVE  /\ DirsOf(t) \in Seq(BlockDirs)
           /\ \A i \in DOMAIN DirsOf(t) :
                 DirsOf(t)[i][2] = t.cell /\ DirsOf(t)[i][4] \in Covered(t)
<1>1. PICK c \in Cells, f \in Nat, n \in Nat :
            n > 0 /\ f + n <= Blocks[c] /\ t = Task(c, f, n)
  BY DEF IsTask
<1>2. t.cell = c /\ t.first = f /\ t.count = n /\ Covered(t) = f .. f + n - 1
  BY <1>1 DEF Task, Covered
<1> DEFINE w == Len(Legs)
           D(i) == BlockDir(c, Legs[1 + ((i - 1) % w)], f + (i - 1) \div w)
<1>3. w \in Nat /\ n * w \in Nat
  BY LegsSeq
<1>4. DirsOf(t) = [i \in 1 .. n * w |-> D(i)]
  BY <1>2 DEF DirsOf
<1>5. ASSUME NEW i \in 1 .. n * w
      PROVE  D(i) \in BlockDirs /\ D(i)[2] = c /\ D(i)[4] \in f .. f + n - 1
  <2>1. w # 0
    BY <1>3
  <2>2. i - 1 \in Nat /\ i - 1 < n * w
    BY <1>3
  <2>3. (i - 1) \div w \in 0 .. n - 1 /\ (i - 1) % w \in 0 .. w - 1
    BY <1>3, <2>1, <2>2, QuotientBelow
  <2> DEFINE q == (i - 1) \div w
             r == (i - 1) % w
  <2>4. f + q \in f .. f + n - 1 /\ f + q \in BlocksOf(c)
    BY <1>1, <2>3, BlocksOfNat
  <2>5. Legs[1 + r] \in LegSet
    BY <1>3, <2>3, LegsSeq
  <2> HIDE DEF q, r
  <2> QED
    BY <2>4, <2>5, BlockDirIn DEF BlockDir, q, r
<1> HIDE DEF w, D
<1>6. [i \in 1 .. n * w |-> D(i)] \in Seq(BlockDirs)
  BY <1>3, <1>5
<1> QED
  BY <1>2, <1>4, <1>5, <1>6

\* A part lists legs of its own.
LEMMA PendingOfPart ==
    ASSUME NEW t, IsPart(t), NEW g \in Pending(t),
           NEW s, s = [j \in DOMAIN g |-> LegDir(t.cell, Legs[g[j]], t.part)]
    PROVE  /\ s \in Seq(LegDirs)
           /\ \A i \in DOMAIN s : s[i][2] = t.cell /\ s[i][4] = t.part
<1>1. PICK c \in Cells : \E p \in PartsOf(c) : t = PartOf(c, p)
  BY DEF IsPart
<1>2. PICK p \in PartsOf(c) : t = PartOf(c, p)
  BY <1>1
<1>3. t.cell = c /\ t.part = p
  BY <1>2 DEF PartOf
<1> DEFINE left == {j \in DOMAIN Legs : ~IsDone(LegDir(t.cell, Legs[j], t.part))}
<1>4. g \in [1 .. Cardinality(left) -> left]
  BY DEF Pending
<1>5. left \subseteq 1 .. Len(Legs) /\ Len(Legs) \in Nat
  BY LegsSeq
<1>6. Cardinality(left) \in Nat
  <2> HIDE DEF left
  <2>1. IsFiniteSet(1 .. Len(Legs))
    BY <1>5, FS_Interval
  <2>2. IsFiniteSet(left)
    BY <1>5, <2>1, FS_Subset
  <2> QED
    BY <2>2, FS_CardinalityType
<1> DEFINE k == Cardinality(left)
<1>7. \A j \in 1 .. k : LegDir(c, Legs[g[j]], p) \in LegDirs
  BY <1>4, LegsSeq, LegDirIn
<1>8. s = [j \in 1 .. k |-> LegDir(c, Legs[g[j]], p)]
  BY <1>3, <1>4
<1> HIDE DEF k
<1>9. k \in Nat
  BY <1>6 DEF k
<1> QED
  BY <1>3, <1>7, <1>8, <1>9 DEF LegDir

-----------------------------------------------------------------------------
(* The invariant.                                                             *)

\* Nothing is queued, built or marked at the start.
LEMMA IndexInitial == Init => IndexInv
<1> SUFFICES ASSUME Init PROVE IndexInv
  OBVIOUS
<1> USE DEF Init, VectorizeInit
<1>1. Disks /\ Lists
  BY DEF Disks, Lists, Dirs
<1>2. Places
  BY DEF Places, AtWork, Publishing
<1>3. Tasks
  BY StoreAssumption DEF Tasks, StoreAssumption, AtWork, Publishing
<1>4. Streamed /\ Stored /\ Shelved /\ Manifest
  BY DEF Streamed, StreamedBy, Stored, Shelved, Manifest, Publishing
<1>5. Filled
  BY DEF Filled
<1> QED
  BY <1>1, <1>2, <1>3, <1>4, <1>5 DEF IndexInv, Types

\* A step of publishing one directory.
LEMMA PublishTyped ==
    ASSUME Disks, Places, NEW b \in Builders, Publish(b), todo[b] # <<>>
    PROVE  /\ Disks' /\ Places'
           /\ marks \subseteq marks'
           /\ pc[b] \in Publishing /\ pc'[b] \in AtWork
           /\ \A x \in Builders \ {b} : pc'[x] = pc[x]
<1> USE DEF Disks, Places, AtWork, At, Goto, Target, Publishing
<1>1. Head(todo[b]) \in Dirs /\ Tail(todo[b]) \in Seq(Dirs)
  OBVIOUS
<1>2. CASE Exists(b)
  BY <1>1, <1>2 DEF Exists
<1>3. CASE ReadMarker(b)
  BY <1>1, <1>3 DEF ReadMarker, Published
<1>4. CASE Clear(b)
  BY <1>1, <1>4 DEF Clear
<1>5. CASE Rmdir(b)
  BY <1>1, <1>5 DEF Rmdir
<1>6. CASE Replace(b)
  BY <1>1, <1>6 DEF Replace
<1>7. CASE Mark(b)
  BY <1>1, <1>7 DEF Mark, Published
<1> QED
  BY <1>2, <1>3, <1>4, <1>5, <1>6, <1>7 DEF Publish

\* The queue when a builder moves within its task.
LEMMA TasksKept ==
    ASSUME Tasks, NEW b \in Builders, pc[b] \in AtWork,
           \A x \in Builders \ {b} : pc'[x] = pc[x],
           UNCHANGED <<scen, stage, queue, task>>
    PROVE  Tasks'
BY DEF Tasks, queue

\* Every step keeps the variables in their ranges.
LEMMA TypesInductive == Types /\ [Next]_vars => Types'
<1> SUFFICES ASSUME Disks, Places, Tasks, Lists, [Next]_vars PROVE Types'
  BY DEF Types
<1> USE DEF AtWork, At, Goto, Publishing, store, queue, hands
<1>1. CASE SeedVectorize /\ UNCHANGED <<read, held>>
  <2>1. \A w \in Nat \ {0} : \A t \in TasksAt(w) : IsTask(t)
    <3> SUFFICES ASSUME NEW w \in Nat \ {0}, NEW c \in Cells, NEW f \in {k \in BlocksOf(c) : k % w = 0}
                 PROVE  IsTask(Task(c, f, IF Blocks[c] - f < w THEN Blocks[c] - f ELSE w))
      BY DEF TasksAt
    <3> QED
      BY BlocksOfNat DEF IsTask
  <2>2. scen.widths \in Seq(Nat \ {0}) /\ scen.widths # <<>>
    BY <1>1 DEF SeedVectorize, Scenario, Tasks
  <2>3. Head(scen.widths) \in Nat \ {0} /\ Tail(scen.widths) \in Seq(Nat \ {0})
    BY <2>2
  <2>4. scen' \in Scenario
    BY <1>1, <2>3 DEF SeedVectorize, Scenario, Tasks
  <2>5. PICK written \in SUBSET TasksAt(Head(scen.widths)) :
            placed' = placed \cup written /\ waiting' = waiting \cup written
    BY <1>1 DEF SeedVectorize
  <2>6. Tasks'
    BY <1>1, <2>1, <2>3, <2>4, <2>5 DEF SeedVectorize, Tasks
  <2>7. Disks' /\ Places' /\ Lists'
    BY <1>1 DEF SeedVectorize, Disks, Places, Lists
  <2> QED
    BY <2>6, <2>7 DEF Types
<1>2. CASE DriveVectorize
  <2>1. \A t : t \in UNION {{PartOf(c, p) : p \in PartsOf(c)} : c \in Cells} => IsPart(t)
    BY DEF IsPart
  <2>2. Tasks'
    BY <1>2, <2>1 DEF DriveVectorize, Tasks
  <2>3. Disks' /\ Places' /\ Lists'
    BY <1>2 DEF DriveVectorize, Disks, Places, Lists
  <2> QED
    BY <2>2, <2>3 DEF Types
<1>3. ASSUME NEW b \in Builders, NEW t \in waiting, NEW dirs \in Seq(Dirs), Claim(b, t, dirs), UNCHANGED <<read, held>>
      PROVE  Types'
  <2>1. Places'
    BY <1>3 DEF Claim, Places
  <2>2. Tasks'
    BY <1>3 DEF Claim, Tasks, Places
  <2>3. Disks' /\ Lists'
    BY <1>3 DEF Claim, Disks, Lists
  <2> QED
    BY <2>1, <2>2, <2>3 DEF Types
<1>4. ASSUME NEW b \in Builders, ClaimVectorize(b), UNCHANGED <<read, held>> PROVE Types'
  <2>1. PICK t \in waiting : t.of = "vectorize" /\ Claim(b, t, DirsOf(t))
    BY <1>4 DEF ClaimVectorize
  <2>2. IsTask(t)
    BY <2>1 DEF IsPart, PartOf, Tasks
  <2>3. DirsOf(t) \in Seq(Dirs)
    BY <2>2, DirsOfTask DEF Dirs
  <2> QED
    BY <1>3, <1>4, <2>1, <2>3
<1>5. ASSUME NEW b \in Builders, ClaimAssemble(b) PROVE Types'
  <2>1. PICK t \in waiting :
            /\ t.of = "assemble"
            /\ \E g \in Pending(t) :
                  Claim(b, t, [j \in DOMAIN g |-> LegDir(t.cell, Legs[g[j]], t.part)])
    BY <1>5 DEF ClaimAssemble
  <2>2. PICK g \in Pending(t) :
            Claim(b, t, [j \in DOMAIN g |-> LegDir(t.cell, Legs[g[j]], t.part)])
    BY <2>1
  <2>3. IsPart(t)
    BY <2>1 DEF IsTask, Task, Tasks
  <2>4. [j \in DOMAIN g |-> LegDir(t.cell, Legs[g[j]], t.part)] \in Seq(Dirs)
    BY <2>3, PendingOfPart DEF Dirs
  <2>5. UNCHANGED <<read, held>>
    BY <1>5 DEF ClaimAssemble
  <2> QED
    BY <1>3, <2>2, <2>4, <2>5
<1>6. ASSUME NEW b \in Builders, Encode(b), UNCHANGED <<read, held>> PROVE Types'
  <2>1. Tail(todo[b]) \in Seq(Dirs)
    BY <1>6 DEF Encode, Places
  <2>2. Places'
    BY <1>6, <2>1 DEF Encode, Published, Places
  <2>3. Tasks'
    BY <1>6, TasksKept DEF Encode, Published, Places
  <2>4. Disks' /\ Lists'
    BY <1>6 DEF Encode, Disks, Lists
  <2> QED
    BY <2>2, <2>3, <2>4 DEF Types
<1>7. ASSUME NEW b \in Builders, NEW valid, Settle(b, valid), task[b] # NoTask, UNCHANGED <<read, held>>
      PROVE  Types'
  <2>1. Places'
    BY <1>7 DEF Settle, Rest, Places
  <2>4. Tasks'
    <3>1. CASE ~valid
      <4>1. pc' = [pc EXCEPT ![b] = "failed"] /\ UNCHANGED <<scen, stage, queue, task>>
        BY <1>7, <3>1 DEF Settle
      <4>2. \A x \in Builders \ {b} : pc'[x] = pc[x]
        BY <4>1 DEF Places
      <4>3. pc[b] \in AtWork
        BY <1>7 DEF Settle
      <4> QED
        BY <4>1, <4>2, <4>3, TasksKept
    <3>2. CASE valid
      <4>1. /\ pc' = [pc EXCEPT ![b] = "idle"] /\ task' = [task EXCEPT ![b] = NoTask]
            /\ settled' \subseteq settled \cup {task[b]}
            /\ UNCHANGED <<scen, stage, placed, waiting>>
        BY <1>7, <3>2 DEF Settle, Rest
      <4>2. task[b] \in placed
        BY <1>7 DEF Settle, Tasks
      <4>3. settled' \subseteq placed /\ task' \in [Builders -> placed \cup {NoTask}]
        BY <4>1, <4>2 DEF Tasks
      <4>4. \A x \in Builders : pc'[x] \in AtWork => task'[x] \in placed
        BY <4>1 DEF Places, Tasks
      <4> QED
        BY <4>1, <4>3, <4>4 DEF Tasks
    <3> QED
      BY <3>1, <3>2
  <2>5. Disks' /\ Lists'
    BY <1>7 DEF Settle, Disks, Lists
  <2> QED
    BY <2>1, <2>4, <2>5 DEF Types
<1>8. ASSUME NEW b \in Builders, GiveUp(b), UNCHANGED <<read, held>> PROVE Types'
  <2>1. Places'
    BY <1>8 DEF GiveUp, Rest, Places
  <2>2. Tasks'
    BY <1>8 DEF GiveUp, GiveBack, Rest, Places, Tasks
  <2>3. Disks' /\ Lists'
    BY <1>8 DEF GiveUp, Disks, Lists
  <2> QED
    BY <2>1, <2>2, <2>3 DEF Types
<1>9. ASSUME NEW b \in Builders, Kill(b), UNCHANGED <<read, held>> PROVE Types'
  <2>1. Places'
    BY <1>9 DEF Kill, Rest, Places
  <2>2. task[b] \in placed
    BY <1>9 DEF Kill, Tasks, Places
  <2>3. scen' \in Scenario
    <3>1. scen \in Scenario /\ scen.kills - 1 \in Nat /\ scen' = [scen EXCEPT !.kills = scen.kills - 1]
      BY <1>9 DEF Kill, Tasks, Scenario
    <3> QED
      BY <3>1 DEF Scenario
  <2>4. Tasks'
    BY <1>9, <2>2, <2>3 DEF Kill, GiveBack, Rest, Places, Tasks
  <2>5. Disks' /\ Lists'
    BY <1>9 DEF Kill, Disks, Lists
  <2> QED
    BY <2>1, <2>4, <2>5 DEF Types
<1>10. ASSUME NEW b \in Builders, Yank(b), UNCHANGED <<read, held>> PROVE Types'
  <2>1. task[b] \in placed
    BY <1>10 DEF Yank, Tasks, Places
  <2>2. scen' \in Scenario
    <3>1. scen \in Scenario /\ scen.yanks - 1 \in Nat /\ scen' = [scen EXCEPT !.yanks = scen.yanks - 1]
      BY <1>10 DEF Yank, Tasks, Scenario
    <3> QED
      BY <3>1 DEF Scenario
  <2>3. Tasks'
    BY <1>10, <2>1, <2>2 DEF Yank, GiveBack, Tasks
  <2>4. Disks' /\ Places' /\ Lists'
    BY <1>10 DEF Yank, Disks, Places, Lists
  <2> QED
    BY <2>3, <2>4 DEF Types
<1>11. ASSUME NEW b \in Builders, todo[b] # <<>>, PublishBlock(b), UNCHANGED <<read, held>> PROVE Types'
  <2>1. Disks' /\ Places'
    BY <1>11, PublishTyped DEF PublishBlock
  <2>2. Tasks'
    BY <1>11, PublishTyped, TasksKept DEF PublishBlock
  <2>3. Lists'
    BY <1>11 DEF Lists
  <2> QED
    BY <2>1, <2>2, <2>3 DEF Types
<1>12. ASSUME NEW b \in Builders, OpenCell(b) PROVE Types'
  <2>1. Places'
    BY <1>12 DEF OpenCell, Places
  <2>2. Tasks'
    BY <1>12, TasksKept DEF OpenCell, Places
  <2>3. Disks' /\ Lists'
    BY <1>12 DEF OpenCell, Disks, Lists
  <2> QED
    BY <2>1, <2>2, <2>3 DEF Types
<1>13. ASSUME NEW b \in Builders, Stream(b) PROVE Types'
  <2> DEFINE left == PartBlocksOf(Target(b)[2], Target(b)[4]) \ read[b]
             k    == CHOOSE x \in left : \A y \in left : x <= y
  <2>1. left \subseteq Nat
    BY DEF PartBlocksOf, BlocksOf
  <2>2. left # {} => k \in Nat
    BY <2>1, LeastNat
  <2>3. Places'
    BY <1>13 DEF Stream, Places
  <2>4. Tasks'
    BY <1>13, TasksKept DEF Stream, Places
  <2>5. read' = read \/ (left # {} /\ read' = [read EXCEPT ![b] = @ \cup {k}])
    BY <1>13 DEF Stream
  <2>6. Lists'
    <3> HIDE DEF left, k
    <3> QED
      BY <1>13, <2>2, <2>5 DEF Stream, Lists
  <2>7. Disks'
    BY <1>13 DEF Stream, Disks
  <2> QED
    BY <2>3, <2>4, <2>6, <2>7 DEF Types
<1>14. ASSUME NEW b \in Builders, PublishLeg(b) PROVE Types'
  <2>1. Disks' /\ Places'
    BY <1>14, PublishTyped DEF PublishLeg
  <2>2. Tasks'
    BY <1>14, PublishTyped, TasksKept DEF PublishLeg
  <2>3. Lists'
    BY <1>14 DEF Lists, PublishLeg
  <2> QED
    BY <2>1, <2>2, <2>3 DEF Types
<1>15. CASE DriveAssemble
  <2>1. Tasks'
    BY <1>15 DEF DriveAssemble, Tasks
  <2>2. Disks' /\ Places' /\ Lists'
    BY <1>15 DEF DriveAssemble, Disks, Places, Lists
  <2> QED
    BY <2>1, <2>2 DEF Types
<1>16. CASE UNCHANGED vars
  BY <1>16 DEF vars, Types, Disks, Places, Tasks, Lists
<1> QED
  BY <1>1, <1>2, <1>4, <1>5, <1>6, <1>7, <1>8, <1>9, <1>10, <1>11, <1>12, <1>13, <1>14, <1>15, <1>16
  DEF Next, Vectorize, Assemble, SettleVectorize, SettleAssemble

\* What a step may do to the store, to done/ and to the stage.
LEMMA StoreSteps ==
    ASSUME [Next]_vars
    PROVE  \/ UNCHANGED <<disk, marks, held>>
           \/ \E b \in Builders : /\ todo[b] # <<>> /\ Target(b)[1] = "block"
                                  /\ PublishBlock(b) /\ UNCHANGED held
           \/ \E b \in Builders : PublishLeg(b)
BY DEF Next, vars, store, Vectorize, Assemble, SeedVectorize, ClaimVectorize, Claim, Encode,
       SettleVectorize, Settle, GiveUp, Kill, Yank, DriveVectorize, DriveAssemble,
       ClaimAssemble, OpenCell, Stream, SettleAssemble

\* Only a settled task enters done/.
LEMMA DoneSteps ==
    ASSUME [Next]_vars
    PROVE  \/ UNCHANGED settled
           \/ \E b \in Builders : SettleVectorize(b)
           \/ \E b \in Builders : SettleAssemble(b)
BY DEF Next, vars, queue, Vectorize, Assemble, SeedVectorize, ClaimVectorize, Claim, Encode,
       PublishBlock, GiveUp, Kill, Yank, DriveVectorize, DriveAssemble,
       ClaimAssemble, OpenCell, Stream, PublishLeg

\* The stage changes with a drive, or a seed run after a refused one.
LEMMA StageSteps ==
    ASSUME [Next]_vars
    PROVE  \/ UNCHANGED stage
           \/ SeedVectorize
           \/ DriveVectorize
           \/ DriveAssemble
BY DEF Next, vars, Vectorize, Assemble, ClaimVectorize, Claim, Encode,
       SettleVectorize, Settle, PublishBlock, GiveUp, Kill, Yank,
       ClaimAssemble, OpenCell, Stream, PublishLeg, SettleAssemble

\* A marker stays.
LEMMA MarksGrow == ASSUME [Next]_vars PROVE marks \subseteq marks'
BY StoreSteps DEF PublishBlock, PublishLeg, Publish, Exists, ReadMarker, Clear, Rmdir, Replace, Mark

\* What is done stays done.
LEMMA DoneGrows == ASSUME [Next]_vars PROVE settled \subseteq settled'
BY DoneSteps DEF SettleVectorize, SettleAssemble, Settle

\* What a step may do to a builder.
LEMMA HandSteps ==
    ASSUME Types, [Next]_vars, NEW x \in Builders
    PROVE  \/ UNCHANGED <<pc[x], todo[x], read[x]>>
           \/ pc'[x] \notin Publishing \cup {"stream"}
           \/ Target(x)[1] = "block" /\ todo'[x] = todo[x] /\ pc'[x] # "stream"
           \/ OpenCell(x)
           \/ Stream(x)
           \/ PublishLeg(x)
<1> USE DEF Types, Places, At, Goto, Publishing
<1> DEFINE Still == UNCHANGED <<pc[x], todo[x], read[x]>>
           Rests == pc'[x] \notin Publishing \cup {"stream"}
           Block == Target(x)[1] = "block" /\ todo'[x] = todo[x] /\ pc'[x] # "stream"
<1>1. CASE SeedVectorize /\ UNCHANGED read
  BY <1>1 DEF SeedVectorize, hands
<1>2. CASE DriveVectorize \/ DriveAssemble \/ UNCHANGED vars
  BY <1>2 DEF DriveVectorize, DriveAssemble, vars, hands
<1>3. ASSUME NEW b \in Builders, ClaimVectorize(b) \/ ClaimAssemble(b), UNCHANGED read
      PROVE  Still \/ Rests
  BY <1>3 DEF ClaimVectorize, ClaimAssemble, Claim
<1>4. ASSUME NEW b \in Builders, Encode(b), UNCHANGED read
      PROVE  Still \/ Rests \/ Block
  BY <1>4 DEF Encode, Published
<1>5. ASSUME NEW b \in Builders, SettleVectorize(b) \/ SettleAssemble(b), UNCHANGED read
      PROVE  Still \/ Rests
  BY <1>5 DEF SettleVectorize, SettleAssemble, Settle, Rest
<1>6. ASSUME NEW b \in Builders, GiveUp(b) \/ Kill(b), UNCHANGED read
      PROVE  Still \/ Rests
  BY <1>6 DEF GiveUp, Kill, Rest
<1>7. ASSUME NEW b \in Builders, Yank(b), UNCHANGED read PROVE Still
  BY <1>7 DEF Yank, hands
<1>8. ASSUME NEW b \in Builders, todo[b] # <<>>, Target(b)[1] = "block", PublishBlock(b), UNCHANGED read
      PROVE  Still \/ Rests \/ Block
  BY <1>8 DEF PublishBlock, Publish, Published, Exists, ReadMarker, Clear, Rmdir, Replace, Mark
<1>9. ASSUME NEW b \in Builders, b # x, OpenCell(b) \/ Stream(b) PROVE Still
  BY <1>9 DEF OpenCell, Stream, Lists
<1>10. ASSUME NEW b \in Builders, b # x, PublishLeg(b) PROVE Still
  BY <1>10 DEF PublishLeg, Publish, Published, Exists, ReadMarker, Clear, Rmdir, Replace, Mark
<1> HIDE DEF Types, Still, Rests, Block
<1>11. CASE Vectorize
  BY <1>1, <1>3, <1>4, <1>5, <1>6, <1>7, <1>8, <1>11 DEF Vectorize, Still, Rests, Block
<1>12. CASE Assemble
  BY <1>2, <1>3, <1>5, <1>9, <1>10, <1>12 DEF Assemble, ClaimAssemble, SettleAssemble, Still, Rests, Block
<1> QED
  BY <1>2, <1>11, <1>12 DEF Next

\* A leg is published with what was streamed for it.
LEMMA StreamedInductive ==
    ASSUME Types, Streamed, [Next]_vars
    PROVE  Streamed'
<1> SUFFICES ASSUME NEW x \in Builders PROVE StreamedBy(x)'
  BY DEF Streamed
<1> USE DEF At, Goto
<1>1. StreamedBy(x) /\ pc \in [Builders -> AtWork \cup {"idle", "dead"}]
  BY DEF Streamed, Types, Places
<1>2. CASE UNCHANGED <<pc[x], todo[x], read[x]>>
  BY <1>1, <1>2 DEF StreamedBy, Target
<1>3. CASE pc'[x] \notin Publishing \cup {"stream"}
  BY <1>3 DEF StreamedBy
<1>4. CASE Target(x)[1] = "block" /\ todo'[x] = todo[x] /\ pc'[x] # "stream"
  BY <1>4, DirsApart DEF StreamedBy, Target
<1>5. CASE OpenCell(x)
  <2>1. Target(x) \in LegDirs
    BY <1>5, DirsApart DEF OpenCell, Types, Places, Dirs, Target
  <2>2. pc'[x] \in {"stream", "failed"} /\ read'[x] = {} /\ todo' = todo
    BY <1>1, <1>5 DEF OpenCell, Types, Lists
  <2> QED
    BY <2>1, <2>2 DEF StreamedBy, Target, Publishing
<1>6. CASE Stream(x)
  <2> DEFINE left == PartBlocksOf(Target(x)[2], Target(x)[4]) \ read[x]
             k    == CHOOSE y \in left : \A z \in left : y <= z
  <2>1. Target(x) \in LegDirs /\ read[x] \subseteq Whole(Target(x)) /\ todo' = todo
    BY <1>1, <1>6 DEF Stream, StreamedBy
  <2>2. CASE left = {}
    <3>1. pc'[x] = "exists" /\ read'[x] = Whole(Target(x))
      BY <1>1, <1>6, <2>1, <2>2 DEF Stream, Whole
    <3> QED
      BY <2>1, <3>1 DEF StreamedBy, Target
  <2>3. CASE left # {}
    <3>1. left \subseteq Nat
      BY DEF PartBlocksOf, BlocksOf
    <3>2. k \in left
      <4> HIDE DEF left
      <4> QED
        BY <3>1, <2>3, LeastNat
    <3>3. \/ pc'[x] = "stream" /\ read'[x] = read[x] \cup {k}
          \/ pc'[x] = "failed"
      BY <1>1, <1>6, <2>3 DEF Stream, Types, Lists
    <3> HIDE DEF k
    <3> QED
      BY <2>1, <3>2, <3>3 DEF StreamedBy, Target, Whole, Publishing
  <2> QED
    BY <2>2, <2>3
<1>7. CASE PublishLeg(x)
  <2>1. \/ /\ pc[x] \in Publishing \ {"mark"} /\ pc'[x] # "stream"
           /\ todo'[x] = todo[x] /\ read'[x] = read[x]
        \/ pc'[x] \in {"next", "failed"}
    BY <1>1, <1>7 DEF PublishLeg, Publish, Published, Exists, ReadMarker, Clear, Rmdir, Replace, Mark, Publishing
  <2> QED
    BY <1>1, <2>1 DEF StreamedBy, Target, Publishing
<1> QED
  BY <1>2, <1>3, <1>4, <1>5, <1>6, <1>7, HandSteps

\* A step of publishing touches its own directory, and only Replace fills it.
LEMMA PublishFills ==
    ASSUME Disks, Places, NEW b \in Builders, todo[b] # <<>>, Publish(b), NEW d \in Dirs
    PROVE  /\ d # Target(b) => disk'[d] = disk[d]
           /\ disk'[d] = "whole" => disk[d] = "whole" \/ (At(b, "replace") /\ pc'[b] = "mark")
<1> USE DEF At, Goto
<1>1. CASE Exists(b) \/ ReadMarker(b) \/ Mark(b)
  BY <1>1 DEF Exists, ReadMarker, Mark
<1>2. CASE Clear(b)
  BY <1>2 DEF Clear, Disks
<1>3. CASE Rmdir(b)
  BY <1>3 DEF Rmdir, Disks
<1>4. CASE Replace(b)
  BY <1>4 DEF Replace, Disks, Places
<1> QED
  BY <1>1, <1>2, <1>3, <1>4 DEF Publish

\* A directory is filled with the blocks of its part, whoever fills it.
LEMMA FilledInductive ==
    ASSUME Types, Streamed, Filled, [Next]_vars
    PROVE  Filled'
<1>1. CASE UNCHANGED <<disk, marks, held>>
  BY <1>1 DEF Filled
<1>2. ASSUME NEW b \in Builders, todo[b] # <<>>, Target(b)[1] = "block", PublishBlock(b), UNCHANGED held
      PROVE  Filled'
  <2>1. \A d \in LegDirs : disk'[d] = disk[d]
    BY <1>2, DirsApart, PublishFills DEF PublishBlock, Types, Dirs
  <2> QED
    BY <1>2, <2>1 DEF Filled
<1>3. ASSUME NEW b \in Builders, PublishLeg(b)
      PROVE  Filled'
  <2> DEFINE t == Target(b)
  <2>1. t \in LegDirs
    BY <1>3, DirsApart DEF PublishLeg, Types, Places, Dirs, Target
  <2>2. At(b, "replace") => read[b] = Whole(t)
    BY <2>1 DEF At, Streamed, StreamedBy, Publishing
  <2>3. CASE At(b, "replace") /\ pc'[b] = "mark"
    <3>1. held' = [held EXCEPT ![t] = Whole(t)]
      BY <1>3, <2>2, <2>3 DEF PublishLeg
    <3>2. disk' = [disk EXCEPT ![t] = "whole"]
      BY <1>3, <2>3 DEF PublishLeg, Publish, Exists, ReadMarker, Clear, Rmdir, Replace, Mark, At, Goto, Types, Places, Published
    <3> HIDE DEF t
    <3> QED
      BY <3>1, <3>2 DEF Filled, Types, Lists, Disks
  <2>4. CASE ~(At(b, "replace") /\ pc'[b] = "mark")
    <3>1. held' = held
      BY <1>3, <2>4 DEF PublishLeg
    <3>2. \A d \in LegDirs : disk'[d] = "whole" => disk[d] = "whole"
      BY <1>3, <2>4, PublishFills DEF PublishLeg, Types, Dirs
    <3> QED
      BY <3>1, <3>2 DEF Filled
  <2> QED
    BY <2>3, <2>4
<1> QED
  BY <1>1, <1>2, <1>3, StoreSteps

\* The census of merge reads every marker, and none is removed after it.
LEMMA StoredInductive ==
    ASSUME Types, Stored, [Next]_vars
    PROVE  Stored'
<1>1. CASE stage' = stage \/ DriveAssemble
  BY <1>1, MarksGrow DEF Stored, DriveAssemble
<1>2. CASE SeedVectorize
  BY <1>2 DEF SeedVectorize, Stored
<1>3. CASE DriveVectorize
  <2>1. marks' = marks /\ (StoreAccepted \/ stage' = "refused")
    BY <1>3 DEF DriveVectorize, store
  <2> QED
    BY <2>1 DEF StoreAccepted, CensusHolds, IsDone, Stored
<1> QED
  BY <1>1, <1>2, <1>3, StageSteps

\* validate reads the markers of a part before it goes to done/.
LEMMA ShelvedInductive ==
    ASSUME Types, Shelved, [Next]_vars
    PROVE  Shelved'
<1>1. CASE UNCHANGED settled
  BY <1>1, MarksGrow DEF Shelved
<1>2. ASSUME NEW b \in Builders, SettleVectorize(b)
      PROVE  Shelved'
  <2>1. settled' \subseteq settled \cup {task[b]} /\ task[b].of = "vectorize"
    BY <1>2 DEF SettleVectorize, Settle
  <2>2. \A c \in Cells : \A p \in PartsOf(c) : PartOf(c, p) # task[b]
    BY <2>1 DEF PartOf
  <2> QED
    BY <2>1, <2>2, MarksGrow DEF Shelved
<1>3. ASSUME NEW b \in Builders, SettleAssemble(b)
      PROVE  Shelved'
  <2>1. CASE ValidPart(task[b])
    <3>1. settled' \subseteq settled \cup {task[b]}
      BY <1>3 DEF SettleAssemble, Settle
    <3>2. \A d \in ToSet(LegDirsOf(task[b])) : d \in marks
      BY <2>1 DEF ValidPart, IsDone
    <3>3. ASSUME NEW c \in Cells, NEW p \in PartsOf(c), PartOf(c, p) = task[b], NEW l \in LegSet
          PROVE  LegDir(c, l, p) \in ToSet(LegDirsOf(task[b]))
      <4>1. PICK j \in DOMAIN Legs : l = Legs[j]
        BY DEF LegSet
      <4>2. LegDirsOf(task[b]) = [i \in DOMAIN Legs |-> LegDir(c, Legs[i], p)]
        BY <3>3 DEF LegDirsOf, PartOf
      <4> QED
        BY <4>1, <4>2 DEF ToSet
    <3> QED
      BY <3>1, <3>2, <3>3, MarksGrow DEF Shelved
  <2>2. CASE ~ValidPart(task[b])
    <3>1. settled' = settled
      BY <1>3, <2>2 DEF SettleAssemble, Settle
    <3> QED
      BY <3>1, MarksGrow DEF Shelved
  <2> QED
    BY <2>1, <2>2
<1> QED
  BY <1>1, <1>2, <1>3, DoneSteps

\* What a leg in the manifest lists does not change.
LEMMA HeldStays ==
    ASSUME Types, Streamed, [Next]_vars, NEW d \in LegDirs, held[d] = Whole(d)
    PROVE  held'[d] = Whole(d)
<1>1. ASSUME NEW b \in Builders, PublishLeg(b)
      PROVE  held'[d] = Whole(d)
  <2>1. Target(b) \in LegDirs
    BY <1>1, DirsApart DEF PublishLeg, Types, Places, Dirs, Target
  <2>2. held' = held \/ (At(b, "replace") /\ held' = [held EXCEPT ![Target(b)] = read[b]])
    BY <1>1 DEF PublishLeg
  <2>3. At(b, "replace") => read[b] = Whole(Target(b))
    BY <2>1 DEF At, Streamed, StreamedBy, Publishing
  <2> QED
    BY <2>2, <2>3 DEF Types, Lists
<1> QED
  BY <1>1, StoreSteps

\* The manifest is written over parts that are done and whole.
LEMMA ManifestInductive ==
    ASSUME Types, Streamed, Filled, Manifest, [Next]_vars
    PROVE  Manifest'
<1>1. \A c \in Cells, l \in LegSet : \A p \in PartsOf(c) : Whole(LegDir(c, l, p)) = PartBlocksOf(c, p)
  BY DEF Whole, LegDir
<1>2. CASE stage' = stage
  BY <1>1, <1>2, HeldStays, DoneGrows, LegDirIn DEF Manifest
<1>3. CASE SeedVectorize \/ DriveVectorize
  BY <1>3 DEF Manifest, SeedVectorize, DriveVectorize
<1>4. CASE DriveAssemble
  <2>1. settled' = settled /\ held' = held
    BY <1>4 DEF DriveAssemble, queue
  <2>2. CASE \A c \in Cells : CellCovered(c)
    <3>1. ASSUME NEW c \in Cells, NEW p \in PartsOf(c)
          PROVE  /\ PartOf(c, p) \in settled
                 /\ \A l \in LegSet : disk[LegDir(c, l, p)] = "whole"
      BY <2>2 DEF CellCovered
    <3> QED
      BY <1>1, <2>1, <3>1, LegDirIn DEF Manifest, Filled
  <2>3. CASE ~\A c \in Cells : CellCovered(c)
    BY <1>4, <2>3 DEF DriveAssemble, Manifest
  <2> QED
    BY <2>2, <2>3
<1> QED
  BY <1>2, <1>3, <1>4, StageSteps

\* The parts of the invariant support each other: what is streamed fills a leg,
\* a filled leg is settled, and a settled part is named in the manifest.
LEMMA IndexInvariant == Spec => []IndexInv
<1>1. IndexInv /\ [Next]_vars => IndexInv'
  BY TypesInductive, StreamedInductive, FilledInductive, StoredInductive, ShelvedInductive, ManifestInductive
  DEF IndexInv
<1> QED
  BY <1>1, IndexInitial, PTL DEF Spec

\* Every directory, queue entry and builder stays in its range.
THEOREM IndexTypeCorrect == Spec => []TypeOK
<1>1. IndexInv => TypeOK
  BY DEF IndexInv, Types, Disks, Places, Tasks, TypeOK, Dirs, AtWork
<1> QED
  BY <1>1, IndexInvariant, PTL

\* No leg is built short and no manifest has a hole, whatever is removed from the
\* store while a leg is streamed and whatever seed runs left in the queue.
THEOREM NoLegShort == Spec => []IndexExact
<1>1. IndexInv => IndexExact
  <2> SUFFICES ASSUME IndexInv PROVE IndexExact
    OBVIOUS
  <2>1. \A c \in Cells, l \in LegSet : \A p \in PartsOf(c) : Whole(LegDir(c, l, p)) = PartBlocksOf(c, p)
    BY DEF Whole, LegDir
  <2>2. LegsExact
    BY <2>1, LegDirIn DEF IndexInv, Filled, LegsExact
  <2>3. ASSUME stage = "indexed", NEW c \in Cells, NEW l \in LegSet
        PROVE  /\ \A p \in PartsOf(c) : IsDone(LegDir(c, l, p))
               /\ UNION {held[LegDir(c, l, p)] : p \in PartsOf(c)} = BlocksOf(c)
    <3>1. \A p \in PartsOf(c) : /\ LegDir(c, l, p) \in marks
                                /\ held[LegDir(c, l, p)] = PartBlocksOf(c, p)
      BY <2>3 DEF IndexInv, Manifest, Shelved
    <3>2. UNION {PartBlocksOf(c, p) : p \in PartsOf(c)} = BlocksOf(c)
      BY DEF PartBlocksOf, PartsOf
    <3> QED
      BY <3>1, <3>2 DEF IsDone
  <2>4. NoHoles
    BY <2>3 DEF IndexInv, Stored, NoHoles, IsDone
  <2> QED
    BY <2>2, <2>4 DEF IndexExact
<1> QED
  BY <1>1, IndexInvariant, PTL

-----------------------------------------------------------------------------
(* What is marked is whole, or about to be again.  A killed builder loses the *)
(* directory it was replacing, which only shows when another one was at work  *)
(* on it: so either nobody is killed, or a task is never in two hands.        *)

Careful == \A s \in Scenarios : s.kills = 0 \/ (s.yanks = 0 /\ Len(s.widths) = 1)

Changing == {"clear", "rmdir", "replace", "mark"}

\* Nobody is killed: a directory that is being replaced has somebody at it.
Watched(d) ==
    /\ disk[d] = "torn" => \E b \in Builders : At(b, "rmdir") /\ Target(b) = d
    /\ disk[d] = "absent" /\ (d \in marks \/ \E b \in Builders : At(b, "mark") /\ Target(b) = d) =>
          \E b \in Builders : At(b, "replace") /\ Target(b) = d
Minded == scen.kills = 0 /\ \A d \in Dirs : Watched(d)

\* The directories of a task.
Owns(t, d) ==
    \/ t.of = "vectorize" /\ d[1] = "block" /\ d[2] = t.cell /\ d[4] \in Covered(t)
    \/ t.of = "assemble" /\ d[1] = "leg" /\ d[2] = t.cell /\ d[4] = t.part
Owned(t) == {d \in Dirs : Owns(t, d)}

\* One seed run and no reaper: a task is in one place, and no two share a directory.
Steady ==
    /\ scen.yanks = 0
    /\ scen.widths = <<>> \/ (Len(scen.widths) = 1 /\ placed = {})
    /\ stage \in {"vectorize", "refused"} => \A t \in placed : t.of = "vectorize"
OnePlace ==
    /\ waiting \cap settled = {}
    /\ \A b \in Builders : task[b] # NoTask => task[b] \notin waiting \cup settled
    /\ \A b, x \in Builders : b # x /\ task[b] # NoTask => task[b] # task[x]
Apart == \A t, u \in placed : \A d \in Dirs : Owns(t, d) /\ Owns(u, d) => t = u
Own == \A b \in Builders : pc[b] \in AtWork => todo[b] \in Seq(Owned(task[b]))

\* What is being replaced is not marked.
Untouched ==
    /\ \A b \in Builders : pc[b] \in {"clear", "rmdir", "replace"} => Target(b) \notin marks
    /\ \A b \in Builders : At(b, "mark") => disk[Target(b)] = "whole"
    /\ \A d \in marks : disk[d] = "whole"

Alone == Steady /\ OnePlace /\ Apart /\ Own /\ Untouched

\* A step publishes, or leaves the store and whoever is publishing alone.
LEMMA PublishSteps ==
    ASSUME Types, [Next]_vars
    PROVE  \/ \E b \in Builders : todo[b] # <<>> /\ Publish(b) /\ UNCHANGED <<scen, stage, queue, task>>
           \/ /\ UNCHANGED <<disk, marks>>
              /\ \A x \in Builders :
                    pc'[x] \in Changing \/ (pc[x] \in Changing /\ ~Kill(x)) => UNCHANGED <<pc[x], todo[x]>>
<1> USE DEF Types, Places, At, Goto, Publishing, Changing
<1> DEFINE Calm(x) == pc'[x] \in Changing \/ (pc[x] \in Changing /\ ~Kill(x)) => UNCHANGED <<pc[x], todo[x]>>
<1>1. CASE SeedVectorize \/ DriveVectorize \/ DriveAssemble \/ UNCHANGED vars
  BY <1>1 DEF SeedVectorize, DriveVectorize, DriveAssemble, vars, store, hands
<1>2. ASSUME NEW b \in Builders, ClaimVectorize(b) \/ ClaimAssemble(b)
      PROVE  UNCHANGED <<disk, marks>> /\ \A x \in Builders : Calm(x)
  BY <1>2 DEF ClaimVectorize, ClaimAssemble, Claim, store
<1>3. ASSUME NEW b \in Builders, Encode(b) \/ OpenCell(b) \/ Stream(b)
      PROVE  UNCHANGED <<disk, marks>> /\ \A x \in Builders : Calm(x)
  BY <1>3 DEF Encode, Published, OpenCell, Stream, store
<1>4. ASSUME NEW b \in Builders, SettleVectorize(b) \/ SettleAssemble(b)
      PROVE  UNCHANGED <<disk, marks>> /\ \A x \in Builders : Calm(x)
  BY <1>4 DEF SettleVectorize, SettleAssemble, Settle, Rest, store
<1>5. ASSUME NEW b \in Builders, GiveUp(b)
      PROVE  UNCHANGED <<disk, marks>> /\ \A x \in Builders : Calm(x)
  BY <1>5 DEF GiveUp, Rest, store
<1>6. ASSUME NEW b \in Builders, Kill(b)
      PROVE  UNCHANGED <<disk, marks>> /\ \A x \in Builders : Calm(x)
  <2>1. UNCHANGED <<disk, marks>> /\ pc' = [pc EXCEPT ![b] = "dead"] /\ todo' = [todo EXCEPT ![b] = <<>>]
    BY <1>6 DEF Kill, Rest, store
  <2> HIDE DEF At, Goto
  <2>2. \A x \in Builders \ {b} : UNCHANGED <<pc[x], todo[x]>>
    BY <2>1
  <2>3. pc'[b] \notin Changing
    BY <2>1
  <2> QED
    BY <1>6, <2>1, <2>2, <2>3
<1>7. ASSUME NEW b \in Builders, Yank(b)
      PROVE  UNCHANGED <<disk, marks>> /\ \A x \in Builders : Calm(x)
  BY <1>7 DEF Yank, store, hands
<1> HIDE DEF Types, Calm
<1>8. CASE Vectorize
  BY <1>1, <1>2, <1>3, <1>4, <1>5, <1>6, <1>7, <1>8 DEF Vectorize, PublishBlock, Calm
<1>9. CASE Assemble
  BY <1>1, <1>2, <1>3, <1>4, <1>9 DEF Assemble, PublishLeg, Calm
<1> QED
  BY <1>1, <1>8, <1>9 DEF Next, Calm

\* The scenario: only a kill, a yank and a seed run use it up.
LEMMA ScenarioSteps ==
    ASSUME Types, [Next]_vars
    PROVE  \/ UNCHANGED scen
           \/ SeedVectorize
           \/ \E b \in Builders : Kill(b) \/ Yank(b)
BY DEF Next, vars, Vectorize, Assemble, ClaimVectorize, Claim, Encode,
       SettleVectorize, Settle, PublishBlock, GiveUp, DriveVectorize, DriveAssemble,
       ClaimAssemble, OpenCell, Stream, PublishLeg, SettleAssemble

\* With nobody killed, whoever removes a directory puts it back.
LEMMA MindedInductive ==
    ASSUME Types, Minded, [Next]_vars
    PROVE  Minded'
<1>1. \A b \in Builders : ~Kill(b)
  BY DEF Kill, Minded
<1>2. scen'.kills = 0
  BY <1>1, ScenarioSteps DEF SeedVectorize, Yank, Minded, Types, Tasks, Scenario
<1>3. CASE /\ UNCHANGED <<disk, marks>>
           /\ \A x \in Builders : pc[x] \in Changing \/ pc'[x] \in Changing => UNCHANGED <<pc[x], todo[x]>>
  BY <1>2, <1>3 DEF Minded, Watched, At, Target, Changing
<1>4. ASSUME NEW b \in Builders, todo[b] # <<>>, Publish(b)
      PROVE  \A d \in Dirs : Watched(d)'
  <2> SUFFICES ASSUME NEW d \in Dirs PROVE Watched(d)'
    OBVIOUS
  <2> USE DEF At, Goto
  <2>0. Watched(d) /\ disk[d] \in {"absent", "torn", "whole"} /\ Target(b) \in Dirs
    BY <1>4 DEF Minded, Types, Disks, Places, Target
  <2>1. \A x \in Builders \ {b} : UNCHANGED <<pc[x], todo[x], Target(x)>>
    BY <1>4 DEF Publish, Exists, ReadMarker, Clear, Rmdir, Replace, Mark, Published, Types, Places, Target
  <2>2. CASE Exists(b) \/ ReadMarker(b)
    <3>1. UNCHANGED <<disk, marks>> /\ pc[b] \notin Changing /\ pc'[b] # "mark"
      BY <2>2 DEF Exists, ReadMarker, Published, Changing, Types, Places
    <3> QED
      BY <2>0, <2>1, <3>1 DEF Watched, Changing
  <2>3. CASE Clear(b)
    <3>1. pc[b] = "clear" /\ pc'[b] # "mark" /\ todo' = todo /\ marks' = marks
      BY <2>3 DEF Clear, Types, Places
    <3>2. CASE disk[Target(b)] = "absent"
      BY <2>0, <2>1, <2>3, <3>1, <3>2 DEF Clear, Watched
    <3>3. CASE disk[Target(b)] # "absent"
      <4>1. disk' = [disk EXCEPT ![Target(b)] = "torn"] /\ pc'[b] = "rmdir" /\ Target(b)' = Target(b)
        BY <2>3, <3>1, <3>3 DEF Clear, Types, Places, Target
      <4> QED
        BY <2>0, <2>1, <3>1, <4>1 DEF Watched, Types, Disks
    <3> QED
      BY <3>2, <3>3
  <2>4. CASE Rmdir(b)
    <3>1. pc[b] = "rmdir" /\ pc'[b] # "mark" /\ todo' = todo /\ marks' = marks
      BY <2>4 DEF Rmdir, Types, Places
    <3>2. CASE disk[Target(b)] # "torn"
      BY <2>0, <2>1, <2>4, <3>1, <3>2 DEF Rmdir, Watched
    <3>3. CASE disk[Target(b)] = "torn"
      <4>1. disk' = [disk EXCEPT ![Target(b)] = "absent"] /\ pc'[b] = "replace" /\ Target(b)' = Target(b)
        BY <2>4, <3>1, <3>3 DEF Rmdir, Types, Places, Target
      <4> QED
        BY <2>0, <2>1, <3>1, <4>1 DEF Watched, Types, Disks
    <3> QED
      BY <3>2, <3>3
  <2>5. CASE Replace(b)
    <3>1. pc[b] = "replace" /\ todo' = todo /\ marks' = marks /\ Target(b)' = Target(b)
      BY <2>5 DEF Replace, Target
    <3>2. CASE disk' = [disk EXCEPT ![Target(b)] = "whole"]
      BY <2>0, <2>1, <3>1, <3>2 DEF Watched, Types, Disks
    <3>3. CASE disk' = disk /\ disk[Target(b)] # "absent" /\ pc'[b] = "failed"
      BY <2>0, <2>1, <3>1, <3>3 DEF Watched
    <3> QED
      BY <2>5, <3>2, <3>3 DEF Replace, Types, Places
  <2>6. CASE Mark(b)
    <3>1. pc[b] = "mark" /\ pc'[b] = "next" /\ disk' = disk /\ marks' = marks \cup {Target(b)}
      BY <2>6 DEF Mark, Published, Types, Places
    <3> QED
      BY <2>0, <2>1, <3>1 DEF Watched
  <2> QED
    BY <1>4, <2>2, <2>3, <2>4, <2>5, <2>6 DEF Publish
<1> QED
  BY <1>1, <1>2, <1>3, <1>4, PublishSteps DEF Minded

\* Tasks of one width do not overlap.
LEMMA TasksApart ==
    ASSUME NEW w \in Nat \ {0}, NEW t \in TasksAt(w), NEW u \in TasksAt(w),
           t.cell = u.cell, NEW k \in Covered(t), k \in Covered(u)
    PROVE  t = u
<1> DEFINE Cut(c, f) == Task(c, f, IF Blocks[c] - f < w THEN Blocks[c] - f ELSE w)
<1>1. \A x \in TasksAt(w) : \E c \in Cells : \E f \in BlocksOf(c) : f % w = 0 /\ x = Cut(c, f)
  BY DEF TasksAt
<1>2. PICK c \in Cells : \E f \in BlocksOf(c) : f % w = 0 /\ t = Cut(c, f)
  BY <1>1
<1>3. PICK d \in Cells : \E g \in BlocksOf(d) : g % w = 0 /\ u = Cut(d, g)
  BY <1>1
<1>4. PICK f \in BlocksOf(c) : f % w = 0 /\ t = Cut(c, f)
  BY <1>2
<1>5. PICK g \in BlocksOf(d) : g % w = 0 /\ u = Cut(d, g)
  BY <1>3
<1>6. c = d
  BY <1>4, <1>5 DEF Task
<1>7. f \in Nat /\ g \in Nat /\ f % w = 0 /\ g % w = 0
  BY <1>4, <1>5 DEF BlocksOf
<1>8. k \in Nat /\ f <= k /\ k < f + w /\ g <= k /\ k < g + w
  BY <1>4, <1>5, BlocksOfNat DEF Task, Covered, BlocksOf
<1> DEFINE p == f \div w
           q == g \div w
<1>9. p \in Int /\ q \in Int /\ f = w * p /\ g = w * q
  BY <1>7
<1> HIDE DEF p, q
<1>10. ASSUME NEW i \in Int, NEW j \in Int, i < j, w * j < w * i + w PROVE FALSE
  <2>1. w * j >= w * (i + 1)
    BY <1>10
  <2> QED
    BY <1>10, <2>1
<1>11. p = q
  BY <1>8, <1>9, <1>10
<1> QED
  BY <1>4, <1>5, <1>6, <1>9, <1>11

\* A task is not the absence of one.
LEMMA TaskIsSomething == \A t : IsTask(t) \/ IsPart(t) => t # NoTask
BY DEF IsTask, IsPart, Task, PartOf, NoTask

\* A list of one has nothing after it.
LEMMA TailOfOne == ASSUME NEW S, NEW s \in Seq(S), Len(s) = 1 PROVE Tail(s) = <<>>
<1>1. s # <<>>
  BY EmptySeq
<1>2. Tail(s) \in Seq(S) /\ Len(Tail(s)) = 0
  BY <1>1, HeadTailProperties
<1> QED
  BY <1>2, EmptySeq

\* The one seed run is used up before there is a task.
LEMMA SteadyInductive ==
    ASSUME Types, Steady, [Next]_vars
    PROVE  Steady'
<1>0. scen \in Scenario /\ scen.yanks = 0
  BY DEF Types, Tasks, Steady
<1>1. scen'.yanks = 0 /\ (scen'.widths = scen.widths \/ SeedVectorize)
  <2>1. CASE SeedVectorize
    BY <1>0, <2>1 DEF SeedVectorize, Scenario
  <2>2. ASSUME NEW b \in Builders, Kill(b) PROVE scen'.yanks = 0 /\ scen'.widths = scen.widths
    BY <1>0, <2>2 DEF Kill, Scenario
  <2>3. ASSUME NEW b \in Builders, Yank(b) PROVE FALSE
    BY <1>0, <2>3 DEF Yank
  <2> QED
    BY <1>0, <2>1, <2>2, <2>3, ScenarioSteps
<1>2. CASE SeedVectorize
  <2>1. scen'.widths = <<>>
    <3>1. scen'.widths = Tail(scen.widths) /\ scen.widths \in Seq(Nat \ {0}) /\ scen.widths # <<>>
      BY <1>0, <1>2 DEF SeedVectorize, Scenario
    <3>2. Len(scen.widths) = 1
      BY <3>1 DEF Steady
    <3> QED
      BY <3>1, <3>2, TailOfOne
  <2>2. \A w : \A t \in TasksAt(w) : t.of = "vectorize"
    BY DEF TasksAt, Task
  <2>3. \A t \in placed' : t.of = "vectorize"
    BY <1>2, <2>2 DEF SeedVectorize, Steady
  <2> QED
    BY <1>1, <2>1, <2>3 DEF Steady
<1>3. CASE DriveVectorize
  <2>1. placed # {}
    BY <1>3 DEF DriveVectorize, Drained
  <2> QED
    BY <1>1, <1>3, <2>1 DEF DriveVectorize, Steady
<1>4. CASE placed' = placed /\ ~SeedVectorize
  BY <1>1, <1>4, StageSteps DEF Steady, DriveVectorize, DriveAssemble
<1>5. placed' = placed \/ SeedVectorize \/ DriveVectorize
  BY DEF Next, vars, queue, Vectorize, Assemble, ClaimVectorize, Claim, Encode,
       SettleVectorize, Settle, PublishBlock, GiveUp, Kill, Yank, DriveAssemble,
       ClaimAssemble, OpenCell, Stream, PublishLeg, SettleAssemble
<1> QED
  BY <1>2, <1>3, <1>4, <1>5

\* One seed run cuts a cell into tasks that do not overlap.
LEMMA ApartInductive ==
    ASSUME Types, Steady, Apart, [Next]_vars
    PROVE  Apart'
<1>1. CASE SeedVectorize
  <2>1. placed = {}
    BY <1>1 DEF SeedVectorize, Steady
  <2> DEFINE w == Head(scen.widths)
  <2>2. placed' \subseteq TasksAt(w)
    BY <1>1, <2>1 DEF SeedVectorize
  <2>3. w \in Nat \ {0}
    BY <1>1 DEF SeedVectorize, Types, Tasks, Scenario
  <2>4. \A t \in TasksAt(w) : t.of = "vectorize"
    BY DEF TasksAt, Task
  <2> HIDE DEF w
  <2>5. ASSUME NEW t \in placed', NEW u \in placed', NEW d \in Dirs, Owns(t, d), Owns(u, d)
        PROVE  t = u
    <3>1. t.cell = u.cell /\ d[4] \in Covered(t) /\ d[4] \in Covered(u)
      BY <2>2, <2>4, <2>5 DEF Owns
    <3> QED
      BY <2>2, <2>3, <3>1, TasksApart
  <2> QED
    BY <2>5 DEF Apart
<1>2. CASE DriveVectorize
  <2> DEFINE parts == UNION {{PartOf(c, p) : p \in PartsOf(c)} : c \in Cells}
  <2>1. placed' \subseteq placed \cup parts /\ \A t \in placed : t.of = "vectorize"
    BY <1>2 DEF DriveVectorize, Steady
  <2>2. \A t \in parts : t.of = "assemble" /\ t = PartOf(t.cell, t.part)
    BY DEF PartOf
  <2> HIDE DEF parts
  <2>3. ASSUME NEW t \in placed', NEW u \in placed', NEW d \in Dirs, Owns(t, d), Owns(u, d)
        PROVE  t = u
    BY <2>1, <2>2, <2>3 DEF Apart, Owns
  <2> QED
    BY <2>3 DEF Apart
<1>3. placed' = placed \/ SeedVectorize \/ DriveVectorize
  BY DEF Next, vars, queue, Vectorize, Assemble, ClaimVectorize, Claim, Encode,
       SettleVectorize, Settle, PublishBlock, GiveUp, Kill, Yank, DriveAssemble,
       ClaimAssemble, OpenCell, Stream, PublishLeg, SettleAssemble
<1> QED
  BY <1>1, <1>2, <1>3 DEF Apart

\* A task is written, claimed, settled or given back.
LEMMA QueueSteps ==
    ASSUME Types, [Next]_vars
    PROVE  \/ UNCHANGED <<waiting, settled, task>>
           \/ SeedVectorize \/ DriveVectorize
           \/ \E b \in Builders :
                 \/ Yank(b)
                 \/ \E t \in waiting :
                       waiting' = waiting \ {t} /\ task' = [task EXCEPT ![b] = t] /\ settled' = settled
                 \/ /\ task[b] \in placed /\ task' = [task EXCEPT ![b] = NoTask]
                    /\ \/ waiting' \subseteq waiting \cup {task[b]} /\ settled' = settled
                       \/ settled' \subseteq settled \cup {task[b]} /\ waiting' = waiting
<1> USE DEF AtWork, Publishing, At
<1>1. CASE DriveAssemble \/ UNCHANGED vars
  BY <1>1 DEF DriveAssemble, vars, queue, hands
<1>2. ASSUME NEW b \in Builders, Encode(b) \/ PublishBlock(b) \/ OpenCell(b) \/ Stream(b) \/ PublishLeg(b)
      PROVE  UNCHANGED <<waiting, settled, task>>
  BY <1>2 DEF Encode, PublishBlock, OpenCell, Stream, PublishLeg, queue
<1>3. ASSUME NEW b \in Builders, ClaimVectorize(b) \/ ClaimAssemble(b)
      PROVE  \E t \in waiting :
                waiting' = waiting \ {t} /\ task' = [task EXCEPT ![b] = t] /\ settled' = settled
  BY <1>3 DEF ClaimVectorize, ClaimAssemble, Claim
<1>4. ASSUME NEW b \in Builders, NEW valid, Settle(b, valid)
      PROVE  \/ UNCHANGED <<waiting, settled, task>>
             \/ /\ task[b] \in placed /\ task' = [task EXCEPT ![b] = NoTask]
                /\ settled' \subseteq settled \cup {task[b]} /\ waiting' = waiting
  BY <1>4 DEF Settle, Rest, Types, Tasks
<1>5. ASSUME NEW b \in Builders, GiveUp(b) \/ Kill(b)
      PROVE  /\ task[b] \in placed /\ task' = [task EXCEPT ![b] = NoTask]
             /\ waiting' \subseteq waiting \cup {task[b]} /\ settled' = settled
  <2>1. pc[b] \in AtWork
    BY <1>5 DEF GiveUp, Kill, Types, Places
  <2>2. waiting' \subseteq waiting \cup {task[b]}
    BY <1>5 DEF GiveUp, Kill, GiveBack
  <2> QED
    BY <1>5, <2>1, <2>2 DEF GiveUp, Kill, Rest, Types, Tasks
<1>6. CASE Vectorize
  BY <1>2, <1>3, <1>4, <1>5, <1>6 DEF Vectorize, SettleVectorize
<1>7. CASE Assemble
  BY <1>1, <1>2, <1>3, <1>4, <1>7 DEF Assemble, SettleAssemble
<1> QED
  BY <1>1, <1>6, <1>7 DEF Next

\* A task is waiting, in one hand, or done.
LEMMA OnePlaceInductive ==
    ASSUME Types, Steady, OnePlace, [Next]_vars
    PROVE  OnePlace'
<1>1. /\ \A t \in placed : t # NoTask
      /\ waiting \subseteq placed /\ settled \subseteq placed
      /\ task \in [Builders -> placed \cup {NoTask}]
  BY TaskIsSomething DEF Types, Tasks
<1>2. CASE UNCHANGED <<waiting, settled, task>>
  BY <1>2 DEF OnePlace
<1>3. CASE SeedVectorize
  <2>1. placed = {} /\ UNCHANGED <<settled, task>>
    BY <1>3 DEF SeedVectorize, Steady, hands
  <2> QED
    BY <1>1, <2>1 DEF OnePlace
<1>4. CASE DriveVectorize
  <2> DEFINE parts == UNION {{PartOf(c, p) : p \in PartsOf(c)} : c \in Cells}
  <2>1. waiting' \subseteq waiting \cup parts /\ UNCHANGED <<settled, task>>
    BY <1>4 DEF DriveVectorize, hands
  <2>2. \A t \in placed : t.of = "vectorize"
    BY <1>4 DEF DriveVectorize, Steady
  <2>3. \A t \in parts : t.of = "assemble"
    BY DEF PartOf
  <2> HIDE DEF parts
  <2>4. placed \cap parts = {}
    BY <2>2, <2>3
  <2> QED
    BY <1>1, <2>1, <2>4 DEF OnePlace
<1>5. ASSUME NEW b \in Builders, NEW t \in waiting,
             waiting' = waiting \ {t}, task' = [task EXCEPT ![b] = t], settled' = settled
      PROVE  OnePlace'
  BY <1>1, <1>5 DEF OnePlace
<1>6. ASSUME NEW b \in Builders, task[b] \in placed, task' = [task EXCEPT ![b] = NoTask],
             \/ waiting' \subseteq waiting \cup {task[b]} /\ settled' = settled
             \/ settled' \subseteq settled \cup {task[b]} /\ waiting' = waiting
      PROVE  OnePlace'
  <2>1. task[b] # NoTask /\ task[b] \notin waiting \cup settled
    BY <1>1, <1>6 DEF OnePlace
  <2>2. \A x \in Builders : task'[x] # NoTask => x # b /\ task'[x] = task[x] /\ task[x] # task[b]
    BY <1>1, <1>6, <2>1 DEF OnePlace
  <2> QED
    BY <1>6, <2>1, <2>2 DEF OnePlace
<1>7. \A b \in Builders : ~Yank(b)
  BY DEF Yank, Steady
<1> QED
  BY <1>2, <1>3, <1>4, <1>5, <1>6, <1>7, QueueSteps

\* A builder publishes directories of its task only.
LEMMA OwnInductive ==
    ASSUME Types, Own, [Next]_vars
    PROVE  Own'
<1> USE DEF AtWork, Publishing, At, Goto
<1> DEFINE OwnBy(x) == pc[x] \in AtWork => todo[x] \in Seq(Owned(task[x]))
<1>1. ASSUME NEW x \in Builders, UNCHANGED <<pc[x], todo[x], task[x]>> PROVE OwnBy(x)'
  BY <1>1 DEF Own
<1>2. ASSUME NEW x \in Builders, pc'[x] \notin AtWork PROVE OwnBy(x)'
  BY <1>2
<1>3. ASSUME NEW x \in Builders, pc[x] \in AtWork, task'[x] = task[x],
             todo'[x] = todo[x] \/ (todo[x] # <<>> /\ todo'[x] = Tail(todo[x]))
      PROVE  OwnBy(x)'
  <2>1. todo[x] \in Seq(Owned(task[x]))
    BY <1>3 DEF Own
  <2>2. todo[x] # <<>> => Tail(todo[x]) \in Seq(Owned(task[x]))
    BY <2>1, HeadTailProperties
  <2> QED
    BY <1>3, <2>1, <2>2
<1>4. ASSUME NEW b \in Builders, NEW t \in waiting, NEW dirs \in Seq(Owned(t)), Claim(b, t, dirs)
      PROVE  \A x \in Builders : OwnBy(x)'
  <2>1. \A x \in Builders \ {b} : UNCHANGED <<pc[x], todo[x], task[x]>>
    BY <1>4 DEF Claim, Types, Places, Tasks
  <2>2. todo'[b] = dirs /\ task'[b] = t
    BY <1>4 DEF Claim, Types, Places, Tasks
  <2> HIDE DEF AtWork
  <2> QED
    BY <1>1, <2>1, <2>2
<1>5. ASSUME NEW b \in Builders, ClaimVectorize(b)
      PROVE  \A x \in Builders : OwnBy(x)'
  <2>1. PICK t \in waiting : t.of = "vectorize" /\ Claim(b, t, DirsOf(t))
    BY <1>5 DEF ClaimVectorize
  <2>2. IsTask(t)
    BY <2>1 DEF IsPart, PartOf, Types, Tasks
  <2>3. DirsOf(t) \in Seq(BlockDirs) /\ \A i \in DOMAIN DirsOf(t) : DirsOf(t)[i] \in Owned(t)
    <3>1. DirsOf(t) \in Seq(BlockDirs)
      BY <2>2, DirsOfTask
    <3>2. \A i \in DOMAIN DirsOf(t) : DirsOf(t)[i] \in BlockDirs
      BY <3>1
    <3> QED
      BY <2>1, <2>2, <3>1, <3>2, DirsOfTask, DirsApart DEF Owned, Owns, Dirs
  <2>4. DirsOf(t) \in Seq(Owned(t))
    BY <2>3
  <2> QED
    BY <1>4, <2>1, <2>4
<1>6. ASSUME NEW b \in Builders, ClaimAssemble(b)
      PROVE  \A x \in Builders : OwnBy(x)'
  <2>1. PICK t \in waiting :
            /\ t.of = "assemble"
            /\ \E g \in Pending(t) :
                  Claim(b, t, [j \in DOMAIN g |-> LegDir(t.cell, Legs[g[j]], t.part)])
    BY <1>6 DEF ClaimAssemble
  <2>2. PICK g \in Pending(t) :
            Claim(b, t, [j \in DOMAIN g |-> LegDir(t.cell, Legs[g[j]], t.part)])
    BY <2>1
  <2>3. IsPart(t)
    BY <2>1 DEF IsTask, Task, Types, Tasks
  <2> DEFINE s == [j \in DOMAIN g |-> LegDir(t.cell, Legs[g[j]], t.part)]
  <2>4. s \in Seq(LegDirs) /\ \A i \in DOMAIN s : s[i][2] = t.cell /\ s[i][4] = t.part
    BY <2>3, PendingOfPart
  <2> HIDE DEF s
  <2>5. \A i \in DOMAIN s : s[i] \in Owned(t)
    <3>1. \A i \in DOMAIN s : s[i] \in LegDirs
      BY <2>4
    <3> QED
      BY <2>1, <2>4, <3>1, DirsApart DEF Owned, Owns, Dirs
  <2>6. s \in Seq(Owned(t))
    BY <2>4, <2>5
  <2> QED
    BY <1>4, <2>2, <2>6 DEF s
<1>7. CASE SeedVectorize \/ DriveVectorize \/ DriveAssemble \/ UNCHANGED vars
  <2>1. UNCHANGED <<pc, todo, task>>
    BY <1>7 DEF SeedVectorize, DriveVectorize, DriveAssemble, vars, hands
  <2> QED
    BY <1>1, <2>1 DEF Own
<1>8. ASSUME NEW b \in Builders, NEW valid, Settle(b, valid)
      PROVE  \A x \in Builders : OwnBy(x)'
  <2>1. \A x \in Builders \ {b} : UNCHANGED <<pc[x], todo[x], task[x]>>
    BY <1>8 DEF Settle, Rest, Types, Places, Tasks
  <2>2. \/ pc'[b] = "idle"
        \/ pc[b] = "next" /\ UNCHANGED <<todo[b], task[b]>>
    BY <1>8 DEF Settle, Types, Places
  <2> QED
    BY <1>1, <1>2, <1>3, <2>1, <2>2
<1>9. ASSUME NEW b \in Builders, GiveUp(b) \/ Kill(b)
      PROVE  \A x \in Builders : OwnBy(x)'
  <2>1. \A x \in Builders \ {b} : UNCHANGED <<pc[x], todo[x], task[x]>>
    BY <1>9 DEF GiveUp, Kill, Rest, Types, Places, Tasks
  <2>2. pc'[b] \in {"idle", "dead"}
    BY <1>9 DEF GiveUp, Kill, Types, Places
  <2> QED
    BY <1>1, <1>2, <2>1, <2>2
<1>10. ASSUME NEW b \in Builders, Yank(b)
       PROVE  \A x \in Builders : OwnBy(x)'
  BY <1>1, <1>10 DEF Yank, hands
<1>11. ASSUME NEW b \in Builders, Encode(b) \/ OpenCell(b) \/ Stream(b)
       PROVE  \A x \in Builders : OwnBy(x)'
  <2>1. \A x \in Builders \ {b} : UNCHANGED <<pc[x], todo[x], task[x]>>
    BY <1>11 DEF Encode, Published, OpenCell, Stream, Types, Places
  <2>2. /\ pc[b] \in AtWork /\ task'[b] = task[b]
        /\ todo'[b] = todo[b] \/ (todo[b] # <<>> /\ todo'[b] = Tail(todo[b]))
    BY <1>11 DEF Encode, Published, OpenCell, Stream, Types, Places
  <2> QED
    BY <1>1, <1>3, <2>1, <2>2
<1>12. ASSUME NEW b \in Builders, todo[b] # <<>>, Publish(b), UNCHANGED task
       PROVE  \A x \in Builders : OwnBy(x)'
  <2>1. \A x \in Builders \ {b} : UNCHANGED <<pc[x], todo[x], task[x]>>
    BY <1>12 DEF Publish, Published, Exists, ReadMarker, Clear, Rmdir, Replace, Mark, Types, Places
  <2>2. /\ pc[b] \in AtWork /\ task'[b] = task[b]
        /\ todo'[b] = todo[b] \/ (todo[b] # <<>> /\ todo'[b] = Tail(todo[b]))
    BY <1>12 DEF Publish, Published, Exists, ReadMarker, Clear, Rmdir, Replace, Mark, Types, Places
  <2> QED
    BY <1>1, <1>3, <2>1, <2>2
<1> HIDE DEF OwnBy, AtWork, Publishing, At, Goto
<1>13. CASE Vectorize
  BY <1>5, <1>7, <1>8, <1>9, <1>10, <1>11, <1>12, <1>13 DEF Vectorize, SettleVectorize, PublishBlock, Own, OwnBy
<1>14. CASE Assemble
  BY <1>6, <1>7, <1>8, <1>11, <1>12, <1>14 DEF Assemble, SettleAssemble, PublishLeg, Own, OwnBy
<1> QED
  BY <1>7, <1>13, <1>14 DEF Next, Own, OwnBy

\* Two builders are never at one directory.
LEMMA TargetsApart ==
    ASSUME Types, OnePlace, Apart, Own,
           NEW b \in Builders, NEW x \in Builders, b # x,
           pc[b] \in Publishing, pc[x] \in Publishing
    PROVE  Target(b) # Target(x)
<1>1. task[b] \in placed /\ task[x] \in placed /\ todo[b] # <<>> /\ todo[x] # <<>>
  BY DEF Types, Tasks, Places, AtWork
<1>2. todo[b] \in Seq(Owned(task[b])) /\ todo[x] \in Seq(Owned(task[x]))
  BY DEF Own, AtWork
<1>3. Target(b) \in Owned(task[b]) /\ Target(x) \in Owned(task[x])
  BY <1>1, <1>2 DEF Target
<1>4. task[b] # task[x]
  BY <1>1, TaskIsSomething DEF OnePlace, Types, Tasks
<1> QED
  BY <1>1, <1>3, <1>4 DEF Owned, Apart

\* What a builder marks is whole, and nobody else is at it.
LEMMA UntouchedInductive ==
    ASSUME Types, OnePlace, Apart, Own, Untouched, [Next]_vars
    PROVE  Untouched'
<1> USE DEF At, Goto
<1>1. CASE /\ UNCHANGED <<disk, marks>>
           /\ \A x \in Builders : pc'[x] \in Changing => UNCHANGED <<pc[x], todo[x]>>
  BY <1>1 DEF Untouched, Changing, Target
<1>2. ASSUME NEW b \in Builders, todo[b] # <<>>, Publish(b)
      PROVE  Untouched'
  <2>1. /\ \A x \in Builders \ {b} : UNCHANGED <<pc[x], todo[x], Target(x)>>
        /\ pc[b] \in Publishing /\ Target(b) \in Dirs
    BY <1>2 DEF Publish, Exists, ReadMarker, Clear, Rmdir, Replace, Mark, Published, Publishing,
                Types, Places, Target
  <2>2. \A x \in Builders \ {b} : pc[x] \in Changing => Target(x) # Target(b) /\ Target(x) \in Dirs
    BY <2>1, TargetsApart DEF Publishing, Changing, Types, Places, Target
  <2>3. /\ \A x \in Builders : pc[x] \in {"clear", "rmdir", "replace"} => Target(x) \notin marks
        /\ \A x \in Builders : pc[x] = "mark" => disk[Target(x)] = "whole"
        /\ \A d \in marks : disk[d] = "whole"
        /\ disk \in [Dirs -> {"absent", "torn", "whole"}] /\ marks \subseteq Dirs
        /\ pc \in [Builders -> AtWork \cup {"idle", "dead"}]
    BY DEF Untouched, Types, Disks, Places
  <2> HIDE DEF Publishing
  <2>4. CASE Exists(b)
    <3>1. /\ UNCHANGED <<disk, marks, todo>> /\ pc'[b] # "mark"
          /\ pc'[b] \in {"clear", "rmdir", "replace"} => disk[Target(b)] = "absent"
      BY <2>3, <2>4 DEF Exists
    <3> QED
      BY <2>1, <2>3, <3>1 DEF Untouched, Target
  <2>5. CASE ReadMarker(b)
    <3>1. /\ UNCHANGED <<disk, marks>> /\ pc'[b] # "mark"
          /\ pc'[b] \in {"clear", "rmdir", "replace"} => Target(b) \notin marks /\ todo' = todo
      BY <2>3, <2>5 DEF ReadMarker, Published, IsDone
    <3> QED
      BY <2>1, <2>3, <3>1 DEF Untouched, Target
  <2>6. CASE Clear(b) \/ Rmdir(b) \/ Replace(b)
    <3>1. /\ UNCHANGED <<marks, todo>> /\ Target(b) \notin marks
          /\ \A d \in Dirs \ {Target(b)} : disk'[d] = disk[d]
          /\ pc'[b] = "mark" => disk'[Target(b)] = "whole"
      BY <2>1, <2>3, <2>6 DEF Clear, Rmdir, Replace
    <3> QED
      BY <2>1, <2>2, <2>3, <3>1 DEF Untouched, Target, Changing
  <2>7. CASE Mark(b)
    <3>1. disk' = disk /\ marks' = marks \cup {Target(b)} /\ pc'[b] = "next" /\ disk[Target(b)] = "whole"
      BY <2>3, <2>7 DEF Mark, Published
    <3> QED
      BY <2>1, <2>2, <2>3, <3>1 DEF Untouched, Changing
  <2> QED
    BY <1>2, <2>4, <2>5, <2>6, <2>7 DEF Publish
<1> QED
  BY <1>1, <1>2, PublishSteps

\* A published directory is whole, or about to be put back, when nobody is killed;
\* and so it is with kills, when no task is ever in two hands.
THEOREM PublishedStays == Careful => (Spec => []MarkedWhole)
<1> SUFFICES ASSUME Careful PROVE Spec => []MarkedWhole
  OBVIOUS
<1>1. Init => Minded \/ Alone
  <2> SUFFICES ASSUME Init PROVE Minded \/ Alone
    OBVIOUS
  <2> USE DEF Init, VectorizeInit, At
  <2>1. CASE scen.kills = 0
    BY <2>1 DEF Minded, Watched, Dirs
  <2>2. CASE scen.kills # 0
    <3>1. scen.yanks = 0 /\ Len(scen.widths) = 1
      BY <2>2 DEF Careful
    <3> QED
      BY <3>1 DEF Alone, Steady, OnePlace, Apart, Own, Untouched, AtWork, Publishing
  <2> QED
    BY <2>1, <2>2
<1>2. IndexInv /\ (Minded \/ Alone) /\ [Next]_vars => (Minded \/ Alone)'
  BY MindedInductive, SteadyInductive, OnePlaceInductive, ApartInductive, OwnInductive, UntouchedInductive
  DEF IndexInv, Alone
<1>3. IndexInv /\ (Minded \/ Alone) => MarkedWhole
  <2>1. IndexInv /\ Minded => MarkedWhole
    BY DEF IndexInv, Types, Disks, Minded, Watched, MarkedWhole, InHand, At
  <2>2. Alone => MarkedWhole
    BY DEF Alone, Untouched, MarkedWhole
  <2> QED
    BY <2>1, <2>2
<1> QED
  BY <1>1, <1>2, <1>3, IndexInvariant, PTL DEF Spec

-----------------------------------------------------------------------------
(* FusedIndex                                                                 *)

\* As a record, a value has its fields.
Shaped ==
    /\ fqueue = [u \in Fused!Units |-> [at |-> fqueue[u].at, parts |-> fqueue[u].parts]]
    /\ leg = [x \in Fused!Units \X Fused!Range(FusedLegs) |-> leg[x]]
    /\ receipt = [u \in Fused!Units |-> receipt[u]]
    /\ fworker = [at |-> fworker.at, unit |-> fworker.unit, parts |-> fworker.parts, low |-> fworker.low,
                  high |-> fworker.high, items |-> fworker.items, next |-> fworker.next]

\* A unit is run by the worker that has it; a worker at rest has none.
Held ==
    /\ fworker.at = "off" => fworker = Fused!Off
    /\ fworker.at # "off" => fworker.unit \in Fused!Units /\ fqueue[fworker.unit].at = "run"
    /\ \A u \in Fused!Units : fqueue[u].at = "run" => fworker.at # "off" /\ fworker.unit = u

\* A unit with a receipt was seeded.
Seeded == \A u \in Fused!Units : receipt[u] # 0 => fqueue[u].at # "none"

\* The legs of a unit that is done hold the same passages, each once: whatever the
\* table is now, they were all compared with one slice.
Agreed ==
    \A u \in Fused!Units : fqueue[u].at = "done" =>
        \A l, k \in Fused!Range(FusedLegs) :
            /\ leg[<<u, l>>].marked /\ Fused!IsInjective(leg[<<u, l>>].ids)
            /\ Fused!Range(leg[<<u, l>>].ids) = Fused!Range(leg[<<u, k>>].ids)

FusedInv == Shaped /\ Held /\ Seeded /\ Agreed /\ Fused!ManifestExact

\* Before the first seed no unit is anything.
LEMMA FusedInitial == Fused!Init => FusedInv
<1> SUFFICES ASSUME Fused!Init PROVE FusedInv
  OBVIOUS
<1> USE DEF Fused!Init
<1>1. Shaped
  BY Zenon DEF Shaped, Fused!Off
<1>2. Held /\ Seeded /\ Agreed
  BY DEF Held, Seeded, Agreed, Fused!Off
<1>3. Fused!ManifestExact
  BY DEF Fused!ManifestExact
<1> QED
  BY <1>1, <1>2, <1>3 DEF FusedInv

\* What merge publishes is exact: its units are done, so what their legs have in
\* common is what each of them holds, and the checks of merge are about that.
LEMMA MergeExact == ASSUME FusedInv, Fused!Merge PROVE Fused!Exact(manifest')
<1> DEFINE ids(u, l) == Fused!Range(leg[<<u, l>>].ids)
<1>1. manifest' = [table |-> table, units |-> Fused!Specs, legs |-> leg]
  BY DEF Fused!Merge
<1>2. ASSUME NEW u \in Fused!Specs
      PROVE  u \in Fused!Units /\ fqueue[u].at = "done"
  <2>1. u \in Fused!Units /\ receipt[u] # 0
    BY DEF Fused!Merge, Fused!Specs
  <2> QED
    BY <2>1 DEF Fused!Merge, FusedInv, Seeded
<1>3. ASSUME NEW u \in Fused!Specs, NEW l \in Fused!Range(FusedLegs)
      PROVE  Fused!Common(u) = ids(u, l) /\ Fused!IsInjective(leg[<<u, l>>].ids)
  <2>1. FusedLegs[1] \in Fused!Range(FusedLegs)
    BY LegsAssumption DEF Fused!Range
  <2>2. \A k \in Fused!Range(FusedLegs) : ids(u, k) = ids(u, l) /\ Fused!IsInjective(leg[<<u, k>>].ids)
    BY <1>2 DEF FusedInv, Agreed
  <2> HIDE DEF ids
  <2>3. Fused!Common(u) = {p \in ids(u, FusedLegs[1]) : \A k \in Fused!Range(FusedLegs) : p \in ids(u, k)}
    BY DEF Fused!Common, ids
  <2>4. Fused!Common(u) = ids(u, l)
    BY <2>1, <2>2, <2>3
  <2> QED
    BY <2>2, <2>4
<1> DEFINE OfCells(r) == {u \in Fused!Specs : u[1][1] \in {r, "shared"}}
<1>4. ASSUME NEW r \in FusedRenderings, NEW l \in Fused!Range(FusedLegs)
      PROVE  UNION {ids(u, l) : u \in OfCells(r)} = Packings[table]
  <2>1. Fused!Covered(r) = Packings[table]
    BY DEF Fused!Merge
  <2>2. Fused!Covered(r) = UNION {Fused!Common(u) : u \in OfCells(r)}
    BY DEF Fused!Covered
  <2>3. \A u \in OfCells(r) : Fused!Common(u) = ids(u, l)
    BY <1>3
  <2> HIDE DEF ids, OfCells
  <2> QED
    BY <2>1, <2>2, <2>3
<1>5. ASSUME NEW u \in Fused!Specs, NEW v \in Fused!Specs, NEW l \in Fused!Range(FusedLegs),
             u[1] = v[1], u # v
      PROVE  ids(u, l) \cap ids(v, l) = {}
  <2>1. u[1] \in FusedCells /\ Fused!CellWhole(u[1])
    BY <1>2 DEF Fused!Merge, Fused!Units
  <2>2. u \in Fused!Dirs(u[1]) /\ v \in Fused!Dirs(u[1])
    <3>1. FusedLegs[1] \in Fused!Range(FusedLegs)
      BY LegsAssumption DEF Fused!Range
    <3>2. leg[<<u, FusedLegs[1]>>].marked /\ leg[<<v, FusedLegs[1]>>].marked
      BY <1>2, <3>1 DEF FusedInv, Agreed
    <3> QED
      BY <1>2, <1>5, <3>1, <3>2 DEF Fused!Dirs
  <2>3. Fused!Common(u) \cap Fused!Common(v) = {}
    BY <2>1, <2>2, <1>5 DEF Fused!CellWhole
  <2> QED
    BY <2>3, <1>3
<1>6. ASSUME NEW u \in Fused!Specs, NEW v \in Fused!Specs,
             NEW l \in Fused!Range(FusedLegs), NEW k \in Fused!Range(FusedLegs),
             u[1][2] = v[1][2], u[2] = v[2]
      PROVE  ids(u, l) = ids(v, k)
  <2>1. Fused!Common(u) = Fused!Common(v)
    BY <1>6 DEF Fused!Merge
  <2> QED
    BY <2>1, <1>3
<1>7. /\ manifest'.table = table /\ manifest'.units = Fused!Specs /\ manifest'.legs = leg
  BY <1>1
<1>8. \A r \in FusedRenderings, l \in Fused!Range(FusedLegs) :
          UNION {Fused!Range(manifest'.legs[<<u, l>>].ids) : u \in {w \in manifest'.units : w[1][1] \in {r, "shared"}}}
              = Packings[manifest'.table]
  BY <1>4, <1>7
<1>9. /\ \A u \in manifest'.units, l \in Fused!Range(FusedLegs) : Fused!IsInjective(manifest'.legs[<<u, l>>].ids)
      /\ \A u, v \in manifest'.units, l \in Fused!Range(FusedLegs) :
             u[1] = v[1] /\ u # v =>
                 Fused!Range(manifest'.legs[<<u, l>>].ids) \cap Fused!Range(manifest'.legs[<<v, l>>].ids) = {}
      /\ \A u, v \in manifest'.units, l, k \in Fused!Range(FusedLegs) :
             u[1][2] = v[1][2] /\ u[2] = v[2] =>
                 Fused!Range(manifest'.legs[<<u, l>>].ids) = Fused!Range(manifest'.legs[<<v, k>>].ids)
  BY <1>3, <1>5, <1>6, <1>7
<1> QED
  BY <1>8, <1>9 DEF Fused!Exact

\* A worker moves its own unit only; a step that moves no unit leaves the rest.
LEMMA FusedInductive == FusedInv /\ [Fused!Next]_fusedVars => FusedInv'
<1> SUFFICES ASSUME FusedInv, [Fused!Next]_fusedVars PROVE FusedInv'
  OBVIOUS
<1> USE DEF FusedInv
<1>a. ASSUME UNCHANGED manifest PROVE Fused!ManifestExact'
  <2>1. CASE manifest = Fused!NoManifest
    BY <1>a, <2>1 DEF Fused!ManifestExact, Fused!NoManifest
  <2>2. CASE manifest # Fused!NoManifest
    <3>1. Fused!Exact(manifest)
      BY <2>2 DEF Fused!ManifestExact
    <3>2. Fused!Exact(manifest')
      BY <1>a, <3>1
    <3> QED
      BY <3>2 DEF Fused!ManifestExact, Fused!Exact
  <2> QED
    BY <2>1, <2>2
<1>b. ASSUME UNCHANGED <<fqueue, leg, receipt, fworker>> PROVE Shaped' /\ Held' /\ Seeded' /\ Agreed'
  <2>1. Shaped'
    BY <1>b DEF Shaped
  <2>2. Held' /\ Seeded' /\ Agreed'
    BY <1>b DEF Held, Seeded, Agreed
  <2> QED
    BY <2>1, <2>2
<1>1. CASE Fused!Repack
  BY <1>1, <1>a, <1>b DEF Fused!Repack
<1>2. CASE Fused!Seed
  <2>1. /\ fqueue' = [u \in Fused!Units |-> IF u \in Fused!Specs /\ fqueue[u].at = "none"
                          THEN [at |-> "todo", parts |-> Fused!Implied(u[1][2])] ELSE fqueue[u]]
        /\ UNCHANGED <<table, leg, census, receipt, fworker, manifest, fkills>>
    BY <1>2 DEF Fused!Seed
  <2>2. \A u \in Fused!Units : \/ fqueue'[u] = fqueue[u]
                               \/ fqueue[u].at = "none" /\ fqueue'[u].at = "todo"
                                  /\ fqueue'[u] = [at |-> fqueue'[u].at, parts |-> fqueue'[u].parts]
    BY <2>1
  <2>3. Shaped'
    BY <2>1, <2>2 DEF Shaped
  <2>4. Held' /\ Seeded' /\ Agreed'
    BY <2>1, <2>2 DEF Held, Seeded, Agreed
  <2> QED
    BY <2>1, <2>3, <2>4, <1>a
<1>3. ASSUME NEW u \in Fused!Units, Fused!Claim(u) PROVE FusedInv'
  <2>1. /\ fworker = Fused!Off /\ fqueue[u].at = "todo" /\ fqueue' = [fqueue EXCEPT ![u].at = "run"]
        /\ fworker' = [Fused!Off EXCEPT !.at = "leg", !.unit = u, !.parts = fqueue[u].parts, !.next = 1]
        /\ UNCHANGED <<table, leg, census, receipt, manifest, fkills>>
    BY <1>3 DEF Fused!Claim
  <2>2. fworker' = [at |-> "leg", unit |-> u, parts |-> fqueue[u].parts, low |-> <<>>, high |-> <<>>,
                    items |-> <<>>, next |-> 1] /\ fworker.at = "off"
    BY <2>1 DEF Fused!Off
  <2>3. /\ fqueue' = [w \in Fused!Units |-> [at |-> fqueue'[w].at, parts |-> fqueue'[w].parts]]
        /\ fqueue'[u].at = "run" /\ \A w \in Fused!Units \ {u} : fqueue'[w] = fqueue[w]
    BY <2>1 DEF Shaped
  <2>4. Shaped'
    BY <2>1, <2>2, <2>3 DEF Shaped
  <2>5. Held' /\ Seeded' /\ Agreed'
    BY <2>1, <2>2, <2>3 DEF Held, Seeded, Agreed
  <2> QED
    BY <2>1, <2>4, <2>5, <1>a
<1>4. ASSUME Fused!Return, fworker.at # "off", UNCHANGED <<leg, receipt, manifest>>
      PROVE  FusedInv'
  <2>1. /\ fqueue' = [fqueue EXCEPT ![fworker.unit].at = "todo"] /\ fworker' = Fused!Off
        /\ fworker.unit \in Fused!Units /\ fqueue[fworker.unit].at = "run"
    BY <1>4 DEF Fused!Return, Held
  <2>2. /\ fqueue' = [w \in Fused!Units |-> [at |-> fqueue'[w].at, parts |-> fqueue'[w].parts]]
        /\ fqueue'[fworker.unit].at = "todo" /\ \A w \in Fused!Units \ {fworker.unit} : fqueue'[w] = fqueue[w]
    BY <2>1 DEF Shaped
  <2>3. Shaped'
    BY <2>1, <2>2, <1>4 DEF Shaped, Fused!Off
  <2>4. Held' /\ Seeded' /\ Agreed'
    BY <2>1, <2>2, <1>4 DEF Held, Seeded, Agreed, Fused!Off
  <2> QED
    BY <1>4, <2>3, <2>4, <1>a
<1>5. CASE Fused!Kill
  BY <1>4, <1>5 DEF Fused!Kill, Held
<1>6. ASSUME UNCHANGED <<fqueue, leg, receipt, manifest>>, fworker.at # "off", fworker'.at # "off",
             fworker'.unit = fworker.unit,
             fworker' = [at |-> fworker'.at, unit |-> fworker'.unit, parts |-> fworker'.parts,
                         low |-> fworker'.low, high |-> fworker'.high, items |-> fworker'.items,
                         next |-> fworker'.next]
      PROVE  FusedInv'
  <2>1. Shaped'
    BY <1>6 DEF Shaped
  <2>2. Held' /\ Seeded' /\ Agreed'
    BY <1>6 DEF Held, Seeded, Agreed
  <2> QED
    BY <1>a, <1>6, <2>1, <2>2
<1>7. CASE Fused!Skip
  BY <1>6, <1>7 DEF Fused!Skip, Shaped
<1>8. CASE Fused!Bounds
  <2>1. CASE fworker.parts = Fused!Implied(fworker.unit[1][2])
    BY <1>6, <1>8, <2>1 DEF Fused!Bounds, Shaped
  <2>2. CASE fworker.parts # Fused!Implied(fworker.unit[1][2])
    BY <1>4, <1>8, <2>2 DEF Fused!Bounds
  <2> QED
    BY <2>1, <2>2
<1>9. CASE Fused!Load
  BY <1>6, <1>9 DEF Fused!Load, Shaped
<1>10. CASE Fused!Census
  BY <1>6, <1>10 DEF Fused!Census, Shaped
<1>11. CASE Fused!BuildLeg
  <2> DEFINE here == Fused!Here(FusedLegs[fworker.next])
  <2>1. /\ fworker.at = "leg" /\ leg' = [leg EXCEPT ![here] = [ids |-> fworker.items, marked |-> TRUE]]
        /\ fworker' = [fworker EXCEPT !.next = @ + 1] /\ UNCHANGED <<fqueue, receipt, manifest>>
    BY <1>11 DEF Fused!BuildLeg
  <2>2. fworker'.at = "leg" /\ fworker'.unit = fworker.unit
        /\ fworker' = [at |-> fworker'.at, unit |-> fworker'.unit, parts |-> fworker'.parts,
                       low |-> fworker'.low, high |-> fworker'.high, items |-> fworker'.items,
                       next |-> fworker'.next]
    BY <2>1 DEF Shaped
  <2>3. /\ leg' = [x \in Fused!Units \X Fused!Range(FusedLegs) |-> leg'[x]]
        /\ \A u \in Fused!Units, l \in Fused!Range(FusedLegs) :
              u # fworker.unit => leg'[<<u, l>>] = leg[<<u, l>>]
    <3>1. \A u \in Fused!Units, l \in Fused!Range(FusedLegs) : u # fworker.unit => <<u, l>> # here
      BY DEF Fused!Here
    <3>2. leg = [x \in Fused!Units \X Fused!Range(FusedLegs) |-> leg[x]]
      BY DEF Shaped
    <3> HIDE DEF here
    <3> QED
      BY <2>1, <3>1, <3>2
  <2>4. Shaped' /\ Held' /\ Seeded'
    BY <2>1, <2>2, <2>3 DEF Shaped, Held, Seeded
  <2>5. Agreed'
    BY <2>1, <2>3 DEF Agreed, Held
  <2> QED
    BY <2>1, <2>4, <2>5, <1>a
<1>12. CASE Fused!Receipt
  <2>1. /\ fworker.at = "receipt" /\ receipt' = [receipt EXCEPT ![fworker.unit] = fworker.parts]
        /\ fworker' = [fworker EXCEPT !.at = "validate"] /\ UNCHANGED <<fqueue, leg, manifest>>
    BY <1>12 DEF Fused!Receipt
  <2>2. fworker'.at = "validate" /\ fworker'.unit = fworker.unit /\ Shaped'
    BY <2>1 DEF Shaped
  <2>3. \A u \in Fused!Units : u # fworker.unit => receipt'[u] = receipt[u]
    BY <2>1 DEF Shaped
  <2>4. Held' /\ Seeded' /\ Agreed'
    BY <2>1, <2>2, <2>3 DEF Held, Seeded, Agreed
  <2> QED
    BY <2>1, <2>2, <2>4, <1>a
<1>13. CASE Fused!Validate
  <2>1. CASE ~(receipt[fworker.unit] = Fused!Implied(fworker.unit[1][2]) /\ Fused!Holds(fworker.unit))
    BY <1>4, <1>13, <2>1 DEF Fused!Validate
  <2>2. CASE receipt[fworker.unit] = Fused!Implied(fworker.unit[1][2]) /\ Fused!Holds(fworker.unit)
    <3>1. /\ fworker.at = "validate" /\ fqueue' = [fqueue EXCEPT ![fworker.unit].at = "done"]
          /\ fworker' = Fused!Off /\ UNCHANGED <<leg, receipt, manifest>>
          /\ fworker.unit \in Fused!Units /\ fqueue[fworker.unit].at = "run"
      BY <1>13, <2>2 DEF Fused!Validate, Held
    <3>2. /\ fqueue' = [w \in Fused!Units |-> [at |-> fqueue'[w].at, parts |-> fqueue'[w].parts]]
          /\ fqueue'[fworker.unit].at = "done" /\ \A w \in Fused!Units \ {fworker.unit} : fqueue'[w] = fqueue[w]
      <4>1. fqueue = [w \in Fused!Units |-> [at |-> fqueue[w].at, parts |-> fqueue[w].parts]]
        BY DEF Shaped
      <4> QED
        BY <3>1, <4>1
    <3>3. Shaped' /\ Held' /\ Seeded'
      BY <3>1, <3>2 DEF Shaped, Held, Seeded, Fused!Off
    <3>4. \A l, k \in Fused!Range(FusedLegs) :
              /\ leg[<<fworker.unit, l>>].marked /\ Fused!IsInjective(leg[<<fworker.unit, l>>].ids)
              /\ Fused!Range(leg[<<fworker.unit, l>>].ids) = Fused!Range(leg[<<fworker.unit, k>>].ids)
      BY <2>2, Zenon DEF Fused!Holds
    <3>5. Agreed'
      BY <3>1, <3>2, <3>4 DEF Agreed
    <3> QED
      BY <3>1, <3>3, <3>5, <1>a
  <2> QED
    BY <2>1, <2>2
<1>14. CASE Fused!Merge
  <2>1. Fused!Exact(manifest')
    BY <1>14, MergeExact
  <2>2. Fused!ManifestExact'
    BY <2>1 DEF Fused!ManifestExact, Fused!Exact
  <2>3. UNCHANGED <<fqueue, leg, receipt, fworker>>
    BY <1>14 DEF Fused!Merge
  <2> QED
    BY <2>2, <2>3, <1>b
<1>15. CASE UNCHANGED fusedVars
  BY <1>15, <1>a, <1>b DEF fusedVars
<1> QED
  BY <1>1, <1>2, <1>3, <1>5, <1>7, <1>8, <1>9, <1>10, <1>11, <1>12, <1>13, <1>14, <1>15 DEF Fused!Next

\* A manifest is of the table it was merged under (IndexAdapter.merge), however
\* often the table was packed again under the build.
THEOREM ManifestIsExact == MCSpec => []ManifestExact
<1>1. MCInit => FusedInv
  BY FusedInitial DEF MCInit
<1>2. FusedInv /\ [MCNext]_<<machine, vars, docVars, shardVars, fusedVars, acceptVars, releaseVars>> => FusedInv'
  <2>1. [MCNext]_<<machine, vars, docVars, shardVars, fusedVars, acceptVars, releaseVars>> => [Fused!Next]_fusedVars
    BY DEF MCNext, IndexRuns, DocRuns, ShardRuns, FusedRuns, AcceptRuns, ReleaseRuns
  <2> QED
    BY <2>1, FusedInductive
<1>3. FusedInv => ManifestExact
  BY DEF FusedInv, ManifestExact
<1> QED
  BY <1>1, <1>2, <1>3, PTL DEF MCSpec
-----------------------------------------------------------------------------
(* Acceptance                                                                 *)

\* The least of a set of naturals, as Acceptance takes it.
LEMMA LeastOf ==
    ASSUME NEW T, T \subseteq Nat, T # {}
    PROVE  Accept!Min(T) \in T /\ \A y \in T : Accept!Min(T) <= y
<1>1. \E x \in T : \A y \in T : x <= y
  BY LeastNat
<1> QED
  BY <1>1 DEF Accept!Min

\* A vector scores highest against itself, and against nothing else.
LEMMA ScoreBound ==
    ASSUME NEW v \in Int, NEW w \in Int
    PROVE  Accept!Score(v, w) \in Int /\ Accept!Score(v, w) <= 100
<1>1. (v - w) * (v - w) \in Int /\ (v - w) * (v - w) >= 0
  <2> DEFINE d == v - w
  <2>1. d \in Int
    OBVIOUS
  <2> HIDE DEF d
  <2>2. d * d \in Int /\ d * d >= 0
    BY <2>1
  <2> QED
    BY <2>2 DEF d
<1> QED
  BY <1>1 DEF Accept!Score
LEMMA ScoreTop ==
    ASSUME NEW v \in Int, NEW w \in Int, Accept!Score(v, w) = 100
    PROVE  v = w
<1>1. (v - w) * (v - w) \in Int /\ (v - w) * (v - w) >= 0
  <2> DEFINE d == v - w
  <2>1. d \in Int
    OBVIOUS
  <2> HIDE DEF d
  <2>2. d * d \in Int /\ d * d >= 0
    BY <2>1
  <2> QED
    BY <2>2 DEF d
<1> QED
  BY <1>1 DEF Accept!Score
LEMMA ScoreSelf ==
    ASSUME NEW v \in Int
    PROVE  Accept!Score(v, v) = 100
BY DEF Accept!Score

\* An injection of the first n naturals into themselves reaches each of them.
Injects(t, n)  == \A i, j \in 1 .. n : t[i] = t[j] => i = j
Within(t, n) == t \in [1 .. n -> 1 .. n]
Reaches(t, n, r) == \E j \in 1 .. n : t[j] = r
LEMMA Permutes ==
    ASSUME NEW n \in Nat, NEW t, Within(t, n), Injects(t, n), NEW r \in 1 .. n
    PROVE  Reaches(t, n, r)
<1>1. IsFiniteSet(1 .. n)
  BY FS_Interval
<1>2. t \in Injection(1 .. n, 1 .. n)
  BY DEF Injection, IsInjective, Injects, Within
<1>3. t \in Surjection(1 .. n, 1 .. n)
  BY <1>1, <1>2, FS_Injection
<1> QED
  BY <1>3 DEF Surjection, Reaches

\* What descends from place to place descends from any place to a later one.
LEMMA Descends ==
    ASSUME NEW n \in Nat, NEW f \in [1 .. n -> Int], \A i \in 1 .. n - 1 : f[i] >= f[i + 1],
           NEW i \in 1 .. n, NEW j \in 1 .. n, i <= j
    PROVE  f[i] >= f[j]
<1> DEFINE T == {k \in 1 .. n : i <= k /\ f[i] < f[k]}
<1> SUFFICES ASSUME f[i] < f[j] PROVE FALSE
  OBVIOUS
<1>1. T \subseteq Nat /\ j \in T
  OBVIOUS
<1>2. PICK k \in T : \A y \in T : k <= y
  BY <1>1, LeastNat
<1>3. k \in 1 .. n /\ i < k /\ f[i] < f[k]
  BY <1>2
<1>4. k - 1 \in 1 .. n - 1 /\ k - 1 \notin T /\ i <= k - 1
  BY <1>2, <1>3
<1>5. f[k - 1] >= f[k] /\ f[i] >= f[k - 1]
  <2>1. f[k - 1] >= f[(k - 1) + 1] /\ (k - 1) + 1 = k
    BY <1>3, <1>4
  <2> QED
    BY <1>3, <1>4, <2>1
<1> QED
  BY <1>3, <1>5, <1>4

\* The instance counts as the library does.
LEMMA SameSizes == \A S : Accept!Cardinality(S) = Cardinality(S)
BY DEF Accept!Cardinality, Cardinality

LEMMA Sizes == TopK \in Nat \ {0} /\ TreePart \in Nat \ {0} /\ PassagesPerPart \in Nat /\ PartsPerCell \in Nat
BY TreesAssumption

\* The window of a search: rows of the part, each once, by falling score, and a
\* row it leaves out scores no better than any in it.
ScoresOf(part, v) == [r \in 1 .. Len(part.vectors) |-> Accept!Score(v, part.vectors[r])]
Width(n) == IF TopK <= n THEN TopK ELSE n
Window(hits, n, score) ==
    /\ hits \in Seq(1 .. n) /\ Len(hits) = Width(n)
    /\ Injects(hits, Width(n))
    /\ \A i, j \in 1 .. Width(n) : i <= j => score[hits[i]] >= score[hits[j]]
    /\ \A r \in 1 .. n : \/ \E i \in 1 .. Width(n) : hits[i] = r
                         \/ \A i \in 1 .. Width(n) : score[hits[i]] >= score[r]
LEMMA ScoresType ==
    ASSUME NEW part, part.vectors \in Seq(Int), NEW v \in Int
    PROVE  ScoresOf(part, v) \in [1 .. Len(part.vectors) -> Int]
<1>1. ASSUME NEW r \in 1 .. Len(part.vectors) PROVE Accept!Score(v, part.vectors[r]) \in Int
  <2>1. part.vectors[r] \in Int
    OBVIOUS
  <2> QED
    BY <2>1, ScoreBound
<1> QED
  BY <1>1 DEF ScoresOf

LEMMA Windows ==
    ASSUME NEW part, part.vectors \in Seq(Int), NEW v \in Int, NEW hits \in Accept!Hits(part, v)
    PROVE  Window(hits, Len(part.vectors), ScoresOf(part, v))
<1> DEFINE n == Len(part.vectors)
           score == ScoresOf(part, v)
<1>1. n \in Nat /\ part.vectors \in [1 .. n -> Int] /\ TopK \in Nat \ {0}
  BY Sizes, LenProperties
<1>2. score \in [1 .. n -> Int] /\ \A r \in 1 .. n : score[r] = Accept!Score(v, part.vectors[r])
  BY ScoresType DEF ScoresOf
<1>0. n = Len(part.vectors)
  OBVIOUS
<1> HIDE DEF n, score
<1> DEFINE m == Width(n)
<1>3. m \in 0 .. n /\ m = (IF TopK <= n THEN TopK ELSE n)
  BY <1>1 DEF Width
<1>4. Accept!Min({TopK, n}) = m
  <2>1. {TopK, n} \subseteq Nat /\ {TopK, n} # {}
    BY <1>1
  <2>2. Accept!Min({TopK, n}) \in {TopK, n} /\ \A y \in {TopK, n} : Accept!Min({TopK, n}) <= y
    BY <2>1, LeastOf
  <2> QED
    BY <2>2, <1>1, <1>3
<1>5. PICK t \in [1 .. n -> 1 .. n] :
          /\ Accept!IsInjective(t) /\ hits = SubSeq(t, 1, Accept!Min({TopK, Len(t)}))
          /\ \A i \in 1 .. Len(t) - 1 : score[t[i]] >= score[t[i + 1]]
  <2>1. PICK t \in [1 .. n -> 1 .. n] :
          /\ Accept!IsInjective(t) /\ hits = SubSeq(t, 1, Accept!Min({TopK, Len(t)}))
          /\ \A i \in 1 .. Len(t) - 1 :
                Accept!Score(v, part.vectors[t[i]]) >= Accept!Score(v, part.vectors[t[i + 1]])
    BY <1>0, <1>1 DEF Accept!Hits
  <2>2. Len(t) = n
    BY <1>1, FunIsSeq
  <2>3. \A i \in 1 .. n - 1 : t[i] \in 1 .. n /\ t[i + 1] \in 1 .. n
    <3>1. \A i \in 1 .. n - 1 : i \in 1 .. n /\ i + 1 \in 1 .. n
      BY <1>1
    <3> QED
      BY <3>1
  <2>4. \A i \in 1 .. n - 1 : score[t[i]] >= score[t[i + 1]]
    BY <2>1, <2>2, <2>3, <1>2
  <2> QED
    BY <2>1, <2>2, <2>4
<1>6. t \in Seq(1 .. n) /\ Len(t) = n /\ DOMAIN t = 1 .. n
  BY <1>1, FunIsSeq
<1> HIDE DEF m
<1>7. /\ hits \in Seq(1 .. n) /\ Len(hits) = m /\ \A i \in 1 .. m : hits[i] = t[i] /\ i \in 1 .. n
  <2>1. hits = SubSeq(t, 1, m)
    BY <1>4, <1>5, <1>6
  <2>2. \A i \in 1 .. m : i \in 1 .. n
    BY <1>3, <1>1
  <2>3. m \in Int /\ 1 \in Int /\ \A i \in 1 .. m : t[i] \in 1 .. n
    BY <1>3, <2>2
  <2>4. /\ SubSeq(t, 1, m) \in Seq(1 .. n) /\ Len(SubSeq(t, 1, m)) = IF 1 <= m THEN m - 1 + 1 ELSE 0
        /\ \A i \in 1 .. m - 1 + 1 : SubSeq(t, 1, m)[i] = t[1 + i - 1]
    BY <2>3, SubSeqProperties
  <2>5. (IF 1 <= m THEN m - 1 + 1 ELSE 0) = m
    BY <1>3, <1>1
  <2>7. Len(hits) = m /\ hits \in Seq(1 .. n)
    BY <2>1, <2>4, <2>5
  <2>6. \A i \in 1 .. m : hits[i] = t[i]
    <3> TAKE i \in 1 .. m
    <3>1. i \in 1 .. m - 1 + 1 /\ 1 + i - 1 = i
      BY <1>3
    <3> QED
      BY <2>1, <2>4, <3>1
  <2> QED
    BY <2>2, <2>7, <2>6
<1>8. Injects(t, n)
  BY <1>5, <1>6 DEF Accept!IsInjective, Injects
<1>9. \A i, j \in 1 .. n : i <= j => score[t[i]] >= score[t[j]]
  <2> DEFINE f == [i \in 1 .. n |-> score[t[i]]]
  <2>1. f \in [1 .. n -> Int] /\ \A i \in 1 .. n : f[i] = score[t[i]]
    BY <1>2, <1>6
  <2>2. \A i \in 1 .. n - 1 : f[i] >= f[i + 1]
    <3> TAKE i \in 1 .. n - 1
    <3>1. i \in 1 .. n /\ i + 1 \in 1 .. n
      BY <1>1
    <3> QED
      BY <3>1, <2>1, <1>5, <1>6
  <2> HIDE DEF f
  <2>3. \A i, j \in 1 .. n : i <= j => f[i] >= f[j]
    BY <1>1, <2>1, <2>2, Descends
  <2> QED
    BY <2>1, <2>3
<1>10. ASSUME NEW r \in 1 .. n, ~ \E i \in 1 .. m : hits[i] = r
       PROVE  \A i \in 1 .. m : score[hits[i]] >= score[r]
  <2>1. PICK j \in 1 .. n : t[j] = r
    <3>1. Within(t, n)
      BY DEF Within
    <3>2. Reaches(t, n, r)
      BY <3>1, <1>1, <1>8, Permutes
    <3> QED
      BY <3>2 DEF Reaches
  <2>2. j \notin 1 .. m
    BY <1>7, <1>10, <2>1
  <2>3. \A i \in 1 .. m : i <= j
    BY <2>2, <1>1, <1>3
  <2> QED
    BY <2>1, <2>3, <1>7, <1>9
<1>11. Injects(hits, m) /\ \A i, j \in 1 .. m : i <= j => score[hits[i]] >= score[hits[j]]
  BY <1>7, <1>8, <1>9 DEF Injects
<1> QED
  BY <1>7, <1>10, <1>11 DEF m, n, score, Window

\* The rows that score highest, when there are any and fewer than a window holds,
\* come first; and a window that shows nothing else shows the whole part.
Scores(score, n) == score \in [1 .. n -> Int] /\ \A r \in 1 .. n : score[r] <= 100
Topped(hits, n, score) == \A i \in 1 .. Width(n) : score[hits[i]] = 100
Best(score, n) == {r \in 1 .. n : score[r] = 100}
LEMMA BestSize ==
    ASSUME NEW n \in Nat, NEW score
    PROVE  IsFiniteSet(Best(score, n)) /\ Cardinality(Best(score, n)) \in Nat
<1>1. IsFiniteSet(1 .. n)
  BY FS_Interval
<1>2. Best(score, n) \subseteq 1 .. n
  BY DEF Best
<1>3. IsFiniteSet(Best(score, n))
  BY <1>1, <1>2, FS_Subset
<1> QED
  BY <1>3, FS_CardinalityType

LEMMA BestFirst ==
    ASSUME NEW n \in Nat, NEW score, Scores(score, n), NEW hits, Window(hits, n, score), Best(score, n) # {}
    PROVE  1 \in 1 .. Width(n) /\ hits[1] \in 1 .. n /\ score[hits[1]] = 100
<1>1. PICK r \in 1 .. n : score[r] = 100
  BY DEF Best
<1>2. 1 \in 1 .. Width(n) /\ Width(n) \in Nat
  BY <1>1, Sizes DEF Width
<1>3. hits[1] \in 1 .. n
  <2>1. hits \in Seq(1 .. n) /\ Len(hits) = Width(n)
    BY DEF Window
  <2> QED
    BY <2>1, <1>2
<1>5. \A q \in 1 .. n : score[q] \in Int /\ score[q] <= 100
  BY DEF Scores
<1>4. score[hits[1]] >= score[r]
  <2>1. CASE \E i \in 1 .. Width(n) : hits[i] = r
    <3>1. PICK i \in 1 .. Width(n) : hits[i] = r
      BY <2>1
    <3>2. 1 <= i
      BY <1>2
    <3>3. score[hits[1]] >= score[hits[i]]
      BY <1>2, <3>1, <3>2 DEF Window
    <3> QED
      BY <3>1, <3>3
  <2>2. CASE \A i \in 1 .. Width(n) : score[hits[i]] >= score[r]
    BY <2>2, <1>2
  <2> QED
    BY <2>1, <2>2 DEF Window
<1> QED
  BY <1>1, <1>2, <1>3, <1>4, <1>5

LEMMA BestAlone ==
    ASSUME NEW n \in Nat, NEW score, Scores(score, n), NEW hits, Window(hits, n, score),
           Cardinality(Best(score, n)) < TopK, Topped(hits, n, score), NEW r \in 1 .. n
    PROVE  Reaches(hits, Width(n), r)
<1> DEFINE m == Width(n)
<1>1. m \in Nat /\ m = (IF TopK <= n THEN TopK ELSE n) /\ TopK \in Nat
  BY Sizes DEF Width
<1>2. /\ hits \in Seq(1 .. n) /\ Len(hits) = m /\ Injects(hits, m)
      /\ \A i \in 1 .. m : score[hits[i]] = 100
  BY DEF Window, Topped
<1> HIDE DEF m
<1>3. hits \in [1 .. m -> 1 .. n]
  BY <1>2, LenProperties
<1>4. m # TopK
  <2> SUFFICES ASSUME m = TopK PROVE FALSE
    OBVIOUS
  <2>1. hits \in [1 .. m -> Best(score, n)]
    BY <1>2, <1>3 DEF Best
  <2>2. IsFiniteSet(1 .. m) /\ Cardinality(1 .. m) = m
    <3>1. 1 \in Int /\ m \in Int
      BY <1>1
    <3>2. IsFiniteSet(1 .. m) /\ Cardinality(1 .. m) = IF 1 > m THEN 0 ELSE m - 1 + 1
      BY <3>1, FS_Interval
    <3>3. (IF 1 > m THEN 0 ELSE m - 1 + 1) = m
      BY <1>1
    <3> QED
      BY <3>2, <3>3
  <2>3. IsFiniteSet(Best(score, n)) /\ Cardinality(Best(score, n)) < Cardinality(1 .. m)
    BY <2>2, BestSize
  <2>4. \E x, y \in 1 .. m : x # y /\ hits[x] = hits[y]
    <3> DEFINE S == 1 .. m
               B == Best(score, n)
    <3>1. IsFiniteSet(S) /\ IsFiniteSet(B) /\ Cardinality(B) < Cardinality(S) /\ hits \in [S -> B]
      BY <2>1, <2>2, <2>3
    <3> HIDE DEF S, B
    <3>2. \E x, y \in S : x # y /\ hits[x] = hits[y]
      BY <3>1, FS_PigeonHole
    <3> QED
      BY <3>2 DEF S
  <2> QED
    BY <2>4, <1>2 DEF Injects
<1>5. m = n
  BY <1>1, <1>4
<1>6. Within(hits, n) /\ Injects(hits, n)
  BY <1>2, <1>3, <1>5 DEF Within
<1>7. Reaches(hits, n, r)
  BY <1>6, Permutes
<1> QED
  BY <1>7, <1>5 DEF m

\* An explained probe: the passage's vector is under its own id, or no row of the
\* part has it, or as many as the window holds.
LEMMA ProbeTells ==
    ASSUME NEW part, part.vectors \in Seq(Int), Len(part.vectors) = Len(part.ids["dense"]),
           part.ids["dense"] \in Seq(Nat), NEW id \in Accept!Range(part.ids["dense"]), NEW v \in Int,
           NEW hits \in Accept!Hits(part, v), Accept!Explained(part, id, v, hits),
           Accept!Twins(part, v) \in 1 .. TopK - 1
    PROVE  \E i \in DOMAIN part.vectors : part.ids["dense"][i] = id /\ part.vectors[i] = v
<1> DEFINE n == Len(part.vectors)
           score == ScoresOf(part, v)
           k == Width(n)
           named == {i \in DOMAIN hits : part.ids["dense"][hits[i]] = id}
<1>1. n \in Nat /\ score \in [1 .. n -> Int] /\ Window(hits, n, score) /\ TopK \in Nat \ {0}
  BY Sizes, ScoresType, Windows, LenProperties
<1>2. k \in Nat /\ Len(hits) = k /\ hits \in Seq(1 .. n)
  BY <1>1 DEF Width, Window
<1>3. DOMAIN part.vectors = 1 .. n /\ DOMAIN part.ids["dense"] = 1 .. n /\ DOMAIN hits = 1 .. k
      /\ (\A i \in 1 .. k : hits[i] \in 1 .. n) /\ \A r \in 1 .. n : part.vectors[r] \in Int
  <2>1. DOMAIN part.vectors = 1 .. n /\ DOMAIN part.ids["dense"] = 1 .. n
    BY LenProperties
  <2>2. \A r \in 1 .. n : part.vectors[r] \in Int
    OBVIOUS
  <2>3. DOMAIN hits = 1 .. k /\ \A i \in 1 .. k : hits[i] \in 1 .. n
    <3>1. DOMAIN hits = 1 .. Len(hits) /\ \A i \in 1 .. Len(hits) : hits[i] \in 1 .. n
      BY <1>2, LenProperties, ElementOfSeq
    <3> QED
      BY <3>1, <1>2
  <2> QED
    BY <2>1, <2>2, <2>3
<1>4. \A r \in 1 .. n : score[r] = Accept!Score(v, part.vectors[r])
  BY <1>3 DEF ScoresOf
<1>0. score = ScoresOf(part, v)
  OBVIOUS
<1> HIDE DEF n, score
<1>5. \A r \in 1 .. n : score[r] <= 100 /\ (score[r] = 100 => part.vectors[r] = v)
                        /\ (part.vectors[r] = v => score[r] = 100)
  <2> TAKE r \in 1 .. n
  <2>1. part.vectors[r] \in Int /\ score[r] = Accept!Score(v, part.vectors[r])
    BY <1>3, <1>4
  <2>2. score[r] <= 100
    BY <2>1, ScoreBound
  <2>3. ASSUME score[r] = 100 PROVE part.vectors[r] = v
    <3>1. Accept!Score(v, part.vectors[r]) = 100 /\ part.vectors[r] \in Int
      BY <2>1, <2>3
    <3>2. v = part.vectors[r]
      BY <3>1, ScoreTop
    <3> QED
      BY <3>2
  <2>4. ASSUME part.vectors[r] = v PROVE score[r] = 100
    BY <2>1, <2>4, ScoreSelf
  <2> QED
    BY <2>2, <2>3, <2>4
<1>6. Best(score, n) = {r \in DOMAIN part.vectors : part.vectors[r] = v}
  BY <1>3, <1>5 DEF Best
<1>7. Cardinality(Best(score, n)) \in 1 .. TopK - 1
  <2>1. Accept!Twins(part, v) = Cardinality(Best(score, n))
    <3>1. Accept!Twins(part, v) = Cardinality({r \in DOMAIN part.vectors : part.vectors[r] = v})
      BY SameSizes DEF Accept!Twins
    <3> QED
      BY <3>1, <1>6
  <2> QED
    BY <2>1
<1>8. Best(score, n) # {} /\ Cardinality(Best(score, n)) < TopK
  <2>1. Cardinality({}) = 0
    BY FS_EmptySet
  <2>2. \A c \in 1 .. TopK - 1 : c # 0 /\ c < TopK
    BY <1>1
  <2>3. Cardinality(Best(score, n)) # 0 /\ Cardinality(Best(score, n)) < TopK
    BY <2>2, <1>7
  <2> QED
    BY <2>1, <2>3
<1>9. 1 \in 1 .. k /\ score[hits[1]] = 100
  <2>1. Scores(score, n)
    BY <1>1, <1>5 DEF Scores
  <2> QED
    BY <2>1, <1>1, <1>8, BestFirst
<1> DEFINE upTo == IF named = {} THEN k ELSE Accept!Min(named)
<1>10. named \subseteq 1 .. k /\ named \subseteq Nat /\ (named # {} => Accept!Min(named) \in named)
  <2>1. named \subseteq 1 .. k /\ named \subseteq Nat
    BY <1>3, <1>2
  <2> QED
    BY <2>1, LeastOf
<1>11. upTo \in 1 .. k
  <2>1. k \in 1 .. k
    BY <1>9, <1>2
  <2>2. named # {} => Accept!Min(named) \in 1 .. k
    BY <1>10
  <2> QED
    BY <2>1, <2>2
<1>12. ASSUME NEW i \in named, score[hits[i]] = 100
       PROVE  \E j \in DOMAIN part.vectors : part.ids["dense"][j] = id /\ part.vectors[j] = v
  <2>1. i \in 1 .. k /\ hits[i] \in 1 .. n /\ part.ids["dense"][hits[i]] = id
    BY <1>10, <1>3
  <2>2. part.vectors[hits[i]] = v
    BY <2>1, <1>12, <1>5
  <2> QED
    BY <2>1, <2>2, <1>3
<1>13. /\ (named = {} => upTo = k) /\ (named # {} => upTo = Accept!Min(named))
       /\ \/ named # {} /\ Accept!Min(named) = 1
          \/ Accept!TieExplains([i \in 1 .. upTo |-> Accept!Score(v, part.vectors[hits[i]])])
  BY <1>2 DEF Accept!Explained
<1> HIDE DEF named, upTo, k
<1>14. CASE named # {} /\ Accept!Min(named) = 1
  BY <1>14, <1>9, <1>10, <1>12
<1>15. CASE Accept!TieExplains([i \in 1 .. upTo |-> Accept!Score(v, part.vectors[hits[i]])])
  <2>1. \A i \in 1 .. upTo : score[hits[i]] = 100
    <3> DEFINE scores == [i \in 1 .. upTo |-> Accept!Score(v, part.vectors[hits[i]])]
    <3>1. \A i \in DOMAIN scores : scores[i] = scores[1]
      BY <1>15 DEF Accept!TieExplains
    <3>2. DOMAIN scores = 1 .. upTo /\ 1 \in 1 .. upTo /\ \A i \in 1 .. upTo : i \in 1 .. k
      BY <1>2, <1>11
    <3>3. \A i \in 1 .. upTo : scores[i] = score[hits[i]]
      BY <3>2, <1>3, <1>4
    <3> HIDE DEF scores
    <3>4. \A i \in 1 .. upTo : score[hits[i]] = score[hits[1]]
      BY <3>1, <3>2, <3>3
    <3> QED
      BY <3>4, <1>9
  <2>2. CASE named # {}
    <3>1. upTo \in named /\ upTo \in 1 .. upTo
      BY <1>10, <1>11, <1>2, <2>2, <1>13
    <3> QED
      BY <3>1, <2>1, <1>12
  <2>3. CASE named = {}
    <3>1. Topped(hits, n, score) /\ Scores(score, n)
      BY <2>3, <2>1, <1>1, <1>5, <1>13 DEF k, Topped, Scores
    <3>2. PICK q \in 1 .. n : part.ids["dense"][q] = id
      BY <1>3 DEF Accept!Range
    <3>3. Reaches(hits, Width(n), q)
      BY <1>1, <1>8, <3>1, BestAlone
    <3>4. PICK i \in 1 .. k : hits[i] = q
      BY <3>3 DEF k, Reaches
    <3>5. i \in named
      BY <3>2, <3>4, <1>3 DEF named
    <3> QED
      BY <3>5, <2>3
  <2> QED
    BY <2>2, <2>3
<1> QED
  BY <1>13, <1>14, <1>15

\* What a tree is, cell by cell.
LEMMA TreeShape ==
    ASSUME tree \in Trees, NEW c \in Accept!CellKeys
    PROVE  /\ Accept!Parts(c) \in Seq(PartFiles)
           /\ c[2] \in DOMAIN tree.rows /\ tree.rows[c[2]] \in Seq(Nat) /\ IsInjective(tree.rows[c[2]])
           /\ \A o \in DOMAIN tree.rows[c[2]] : tree.vector[tree.rows[c[2]][o]] \in Int
           /\ \A p \in DOMAIN Accept!Parts(c) :
                 Len(Accept!Parts(c)[p].vectors) = Len(Accept!Parts(c)[p].ids["dense"])
<1> DEFINE Keys(t) == {<<"shared", "en">>} \cup TreeRenderings \X (DOMAIN t.rows \ {"en"})
<1>1. c \in Keys(tree)
  BY DEF Accept!CellKeys, Accept!Langs, Accept!Shared
<1>2. "en" \in DOMAIN tree.rows
  BY TreesAssumption
<1>3. c[2] \in DOMAIN tree.rows
  BY <1>1, <1>2
<1>4. /\ tree.rows[c[2]] \in Seq(Nat) /\ IsInjective(tree.rows[c[2]])
      /\ \A o \in DOMAIN tree.rows[c[2]] : tree.vector[tree.rows[c[2]][o]] \in Int
  BY <1>3, TreesAssumption
<1>5. /\ tree.cell[c] \in Seq(PartFiles)
      /\ \A p \in DOMAIN tree.cell[c] : Len(tree.cell[c][p].vectors) = Len(tree.cell[c][p].ids["dense"])
  BY <1>1, TreesAssumption
<1> QED
  BY <1>3, <1>4, <1>5 DEF Accept!Parts

\* What a part's files are.
LEMMA PartShape ==
    ASSUME tree \in Trees, NEW c \in Accept!CellKeys, NEW p \in DOMAIN Accept!Parts(c)
    PROVE  /\ Accept!Parts(c)[p].vectors \in Seq(Int)
           /\ Accept!Parts(c)[p].ids["dense"] \in Seq(Nat)
           /\ Accept!Parts(c)[p].stated.count \in Nat
<1>1. Accept!Parts(c)[p] \in PartFiles
  BY TreeShape
<1> QED
  BY <1>1 DEF PartFiles

\* A slice of the table: rows of it, each with a vector.
LEMMA SliceShape ==
    ASSUME tree \in Trees, NEW c \in Accept!CellKeys, NEW p \in Nat \ {0}
    PROVE  /\ Accept!Slice(c[2], p) \in Seq(Nat)
           /\ \A o \in 1 .. Len(Accept!Slice(c[2], p)) : tree.vector[Accept!Slice(c[2], p)[o]] \in Int
<1> DEFINE rows == tree.rows[c[2]]
           low  == (p - 1) * TreePart + 1
           high == Accept!Min({p * TreePart, Len(rows)})
<1>1. rows \in Seq(Nat) /\ (\A o \in DOMAIN rows : tree.vector[rows[o]] \in Int) /\ Len(rows) \in Nat
      /\ DOMAIN rows = 1 .. Len(rows)
  BY TreeShape, LenProperties
<1>2. (p - 1) * TreePart \in Nat /\ p * TreePart \in Nat
  <2> DEFINE a == p - 1
  <2>1. a \in Nat /\ TreePart \in Nat
    BY Sizes
  <2> HIDE DEF a
  <2>2. a * TreePart \in Nat /\ p * TreePart \in Nat
    BY <2>1
  <2> QED
    BY <2>2 DEF a
<1> HIDE DEF rows
<1>3. low \in Nat \ {0} /\ high \in Nat /\ high <= Len(rows)
  <2>1. {p * TreePart, Len(rows)} \subseteq Nat /\ {p * TreePart, Len(rows)} # {}
    BY <1>1, <1>2
  <2>2. high \in {p * TreePart, Len(rows)} /\ \A y \in {p * TreePart, Len(rows)} : high <= y
    BY <2>1, LeastOf
  <2> QED
    BY <2>1, <2>2, <1>2
<1>4. Accept!Slice(c[2], p) = SubSeq(rows, low, high)
  BY DEF Accept!Slice, rows
<1> HIDE DEF low, high
<1>5. \A i \in low .. high : i \in 1 .. Len(rows) /\ rows[i] \in Nat /\ tree.vector[rows[i]] \in Int
  <2>1. \A i \in low .. high : i \in 1 .. Len(rows)
    BY <1>1, <1>3
  <2> QED
    BY <2>1, <1>1
<1>6. /\ SubSeq(rows, low, high) \in Seq(Nat)
      /\ Len(SubSeq(rows, low, high)) = IF low <= high THEN high - low + 1 ELSE 0
      /\ \A i \in 1 .. high - low + 1 : SubSeq(rows, low, high)[i] = rows[low + i - 1]
  <2>1. low \in Int /\ high \in Int /\ \A i \in low .. high : rows[i] \in Nat
    BY <1>3, <1>5
  <2> QED
    BY <2>1, SubSeqProperties
<1>7. ASSUME NEW o \in 1 .. Len(SubSeq(rows, low, high))
      PROVE  tree.vector[SubSeq(rows, low, high)[o]] \in Int
  <2>1. o \in 1 .. high - low + 1 /\ low + o - 1 \in low .. high
    BY <1>6, <1>3
  <2> QED
    BY <2>1, <1>5, <1>6
<1> QED
  BY <1>4, <1>6, <1>7

\* The check of phase A, as one formula.
Checked ==
    /\ \A c \in Accept!CellKeys : Accept!Complete(c) /\ \A p \in DOMAIN Accept!Parts(c) : Accept!IdsMatch(c, p)
    /\ \A lang \in Accept!Langs : \A p \in 1 .. Len(tree.rows[lang]) : Accept!SameAcross(lang, p)

\* The probe of a row can be explained; and it is of every row of a part that is
\* asked for whole, at both ends of a cell.
Explains(c, p, o) ==
    o <= Len(Accept!Stored(c, p)) =>
        LET id == Accept!Stored(c, p)[o]
        IN \E hits \in Accept!Hits(Accept!Parts(c)[p], tree.vector[id]) :
              Accept!Explained(Accept!Parts(c)[p], id, tree.vector[id], hits)
Told(c) ==
    \A p \in {1, Len(Accept!Parts(c))} :
        Accept!Parts(c)[p].stated.count <= PassagesPerPart =>
            \A o \in 1 .. Accept!Parts(c)[p].stated.count : Explains(c, p, o)

LEMMA CheckedHolds ==
    ASSUME Checked, NEW c \in Accept!CellKeys
    PROVE  /\ Len(Accept!Parts(c)) = Accept!PartsOf(Len(tree.rows[c[2]]))
           /\ \A p \in DOMAIN Accept!Parts(c), l \in Accept!Kinds :
                 Accept!Range(Accept!Parts(c)[p].ids[l]) = Accept!Range(Accept!Slice(c[2], p))
<1>1. Len(Accept!Parts(c)) = Accept!PartsOf(Len(tree.rows[c[2]]))
  BY DEF Checked, Accept!Complete
<1>2. ASSUME NEW p \in DOMAIN Accept!Parts(c), NEW l \in Accept!Kinds
      PROVE  Accept!Range(Accept!Parts(c)[p].ids[l]) = Accept!Range(Accept!Slice(c[2], p))
  <2>1. Accept!IdsMatch(c, p)
    BY DEF Checked
  <2> QED
    BY <2>1 DEF Accept!IdsMatch, Accept!Kinds
<1> QED
  BY <1>1, <1>2

LEMMA EndsTold ==
    ASSUME tree \in Trees, Checked, NEW c \in Accept!CellKeys, Told(c),
           NEW p \in DOMAIN Accept!Parts(c), p \in {1, Len(Accept!Parts(c))}
    PROVE  Accept!Faithful(c, p)
<1> DEFINE part == Accept!Parts(c)[p]
<1>1. part.vectors \in Seq(Int) /\ part.ids["dense"] \in Seq(Nat) /\ part.stated.count \in Nat
      /\ Len(part.vectors) = Len(part.ids["dense"])
  BY PartShape, TreeShape
<1>2. p \in Nat \ {0}
  <2>1. Accept!Parts(c) \in Seq(PartFiles)
    BY TreeShape
  <2> QED
    BY <2>1
<1>3. /\ Accept!Stored(c, p) = Accept!Slice(c[2], p) /\ Accept!Slice(c[2], p) \in Seq(Nat)
      /\ \A o \in 1 .. Len(Accept!Slice(c[2], p)) : tree.vector[Accept!Slice(c[2], p)[o]] \in Int
  BY <1>2, SliceShape DEF Accept!Stored
<1>4. Accept!Range(part.ids["dense"]) = Accept!Range(Accept!Slice(c[2], p))
  BY CheckedHolds DEF Accept!Kinds
<1>5. part = Accept!Parts(c)[p]
  OBVIOUS
<1> HIDE DEF part
<1>6. ASSUME Len(Accept!Stored(c, p)) <= part.stated.count, part.stated.count <= PassagesPerPart,
             NEW id \in Accept!Range(part.ids["dense"]), Accept!Twins(part, tree.vector[id]) \in 1 .. TopK - 1
      PROVE  \E i \in DOMAIN part.vectors : part.ids["dense"][i] = id /\ part.vectors[i] = tree.vector[id]
  <2>1. PICK o \in DOMAIN Accept!Slice(c[2], p) : Accept!Slice(c[2], p)[o] = id
    BY <1>4, <1>6 DEF Accept!Range
  <2>2. o \in 1 .. Len(Accept!Stored(c, p)) /\ o \in 1 .. part.stated.count
    BY <1>1, <1>3, <1>6, LenProperties
  <2>3. Explains(c, p, o)
    BY <1>5, <1>6, <2>2 DEF Told
  <2>4. PICK hits \in Accept!Hits(part, tree.vector[id]) : Accept!Explained(part, id, tree.vector[id], hits)
    BY <1>3, <1>5, <2>1, <2>2, <2>3 DEF Explains
  <2>5. tree.vector[id] \in Int
    BY <1>3, <2>1, <2>2
  <2> QED
    BY <1>1, <1>6, <2>4, <2>5, ProbeTells
<1> QED
  BY <1>5, <1>6 DEF Accept!Faithful

\* What is asked in no order is asked all the same.
LEMMA SeqOfSet ==
    ASSUME NEW S, IsFiniteSet(S)
    PROVE  Accept!SetToSeq(S) \in Seq(S) /\ Accept!Range(Accept!SetToSeq(S)) = S
<1> DEFINE n == Cardinality(S)
           Good(f) == f \in [1 .. n -> S] /\ IsInjective(f)
<1>1. n \in Nat /\ ExistsBijection(1 .. n, S)
  BY FS_CardinalityType
<1>2. \E f : Good(f)
  BY <1>1 DEF ExistsBijection, Bijection, Injection
<1>3. Accept!SetToSeq(S) = CHOOSE f \in [1 .. n -> S] : IsInjective(f)
  BY SameSizes DEF Accept!SetToSeq, Accept!IsInjective, IsInjective
<1> DEFINE s == Accept!SetToSeq(S)
<1>4. s \in [1 .. n -> S] /\ IsInjective(s)
  BY <1>2, <1>3
<1>0. s = Accept!SetToSeq(S) /\ n = Cardinality(S)
  OBVIOUS
<1> HIDE DEF s, n
<1>5. s \in Surjection(1 .. n, S)
  <2>1. IsFiniteSet(1 .. n) /\ Cardinality(1 .. n) = n
    <3>1. 1 \in Int /\ n \in Int
      BY <1>1
    <3>2. IsFiniteSet(1 .. n) /\ Cardinality(1 .. n) = IF 1 > n THEN 0 ELSE n - 1 + 1
      BY <3>1, FS_Interval
    <3>3. (IF 1 > n THEN 0 ELSE n - 1 + 1) = n
      BY <1>1
    <3> QED
      BY <3>2, <3>3
  <2>2. s \in Injection(1 .. n, S)
    BY <1>4 DEF Injection
  <2> DEFINE D == 1 .. n
  <2>3. IsFiniteSet(D) /\ Cardinality(D) = Cardinality(S) /\ s \in Injection(D, S)
    BY <2>1, <2>2, <1>0
  <2> HIDE DEF D
  <2>4. s \in Surjection(D, S)
    BY <2>3, FS_Injection
  <2> QED
    BY <2>4 DEF D
<1>6. s \in Seq(S) /\ DOMAIN s = 1 .. n
  BY <1>1, <1>4, FunIsSeq
<1>7. Accept!Range(s) = S
  BY <1>4, <1>5, <1>6 DEF Accept!Range, Surjection
<1> QED
  BY <1>0, <1>6, <1>7

Telling(c, left) ==
    \A p \in {1, Len(Accept!Parts(c))} :
        Accept!Parts(c)[p].stated.count <= PassagesPerPart =>
            \A o \in 1 .. Accept!Parts(c)[p].stated.count : Explains(c, p, o) \/ <<p, o>> \in Accept!Range(left)

\* The tree is never written.
LEMMA TreeStays ==
    ASSUME tree' = tree
    PROVE  /\ Accept!CellKeys' = Accept!CellKeys /\ Accept!Jobs' = Accept!Jobs
           /\ Checked' = Checked /\ Accept!Assembled' = Accept!Assembled
           /\ \A c : Accept!Parts(c)' = Accept!Parts(c) /\ Told(c)' = Told(c)
           /\ \A c, left : Telling(c, left)' = Telling(c, left)
<1>1. /\ Accept!Langs' = Accept!Langs /\ Accept!CellKeys' = Accept!CellKeys /\ Accept!Jobs' = Accept!Jobs
      /\ \A c : Accept!Parts(c)' = Accept!Parts(c) 
  BY Zenon DEF Accept!CellKeys, Accept!Langs, Accept!Jobs, Accept!Parts
<1>2. \A lang, p : Accept!Slice(lang, p)' = Accept!Slice(lang, p)
  BY Zenon DEF Accept!Slice
<1>3. \A c, p : Accept!Stored(c, p)' = Accept!Stored(c, p)
  BY <1>2, Zenon DEF Accept!Stored
<1>4. \A c, p, o : Explains(c, p, o)' = Explains(c, p, o)
  BY <1>1, <1>3, Zenon DEF Explains
<1>5. \A c : Told(c)' = Told(c)
  BY <1>1, <1>4, Zenon DEF Told
<1>6. \A c, left : Telling(c, left)' = Telling(c, left)
  BY <1>1, <1>4, Zenon DEF Telling
<1>7. \A c : Accept!Witnessed(c)' = Accept!Witnessed(c)
  BY <1>1, Zenon DEF Accept!Witnessed
<1>8. \A c : Accept!Complete(c)' = Accept!Complete(c)
  BY <1>1, <1>7, Zenon DEF Accept!Complete
<1>9. \A c, p : Accept!IdsMatch(c, p)' = Accept!IdsMatch(c, p)
  BY <1>1, <1>2, Zenon DEF Accept!IdsMatch
<1>10. \A lang : Accept!CellsOf(lang)' = Accept!CellsOf(lang)
  BY <1>1, Zenon DEF Accept!CellsOf
<1>11. \A lang, p : Accept!SameAcross(lang, p)' = Accept!SameAcross(lang, p)
  BY <1>1, <1>10, Zenon DEF Accept!SameAcross
<1>12. Checked' = Checked
  BY <1>1, <1>8, <1>9, <1>11, Zenon DEF Checked
<1>13. Accept!Assembled' = Accept!Assembled
  BY <1>1, <1>2, Zenon DEF Accept!Assembled
<1> QED
  BY <1>1, <1>5, <1>6, <1>12, <1>13

ProbePlaces == (Nat \ {0}) \X (Nat \ {0})
Asking == [on : BOOLEAN, left : Seq(ProbePlaces), bad : BOOLEAN]
JobShape ==
    /\ tree \in Trees /\ fragment = [j \in Accept!Jobs |-> fragment[j]]
    /\ probing \in [Accept!Jobs -> Asking]

\* A cell is probed after its job found parts in it; what it has not been asked is
\* left to ask, until it fails.
Probes ==
    \A c \in Accept!CellKeys :
        /\ fragment[c] \in {"step0", "passed"} => Accept!Parts(c) # <<>>
        /\ probing[c].on => fragment[c] = "step0"
        /\ probing[c].on /\ ~probing[c].bad => Telling(c, probing[c].left)
        /\ fragment[c] = "passed" => Told(c)

VerdictInv == JobShape /\ Probes /\ (fragment[Accept!All] = "passed" => Checked)

LEMMA AllApart == Accept!All \in Accept!Jobs /\ Accept!All \notin Accept!CellKeys
                  /\ Accept!CellKeys \subseteq Accept!Jobs
BY TreesAssumption DEF Accept!All, Accept!Jobs, Accept!CellKeys

LEMMA VerdictInitial == Accept!Init => VerdictInv
<1> SUFFICES ASSUME Accept!Init PROVE VerdictInv
  OBVIOUS
<1>1. tree \in Trees /\ fragment = [j \in Accept!Jobs |-> "none"]
      /\ probing = [j \in Accept!Jobs |-> [on |-> FALSE, left |-> <<>>, bad |-> FALSE]]
  BY DEF Accept!Init, Accept!Off
<1>2. JobShape
  <2>1. [on |-> FALSE, left |-> <<>>, bad |-> FALSE] \in Asking
    BY DEF Asking
  <2>2. fragment = [j \in Accept!Jobs |-> fragment[j]]
    BY <1>1
  <2> QED
    BY <1>1, <2>1, <2>2 DEF JobShape
<1>3. Probes
  BY <1>1, AllApart DEF Probes
<1>4. fragment[Accept!All] # "passed"
  BY <1>1, AllApart
<1> QED
  BY <1>2, <1>3, <1>4 DEF VerdictInv

\* What is sampled of a cell: the ends, and of a small part every row.
LEMMA SamplesTell ==
    ASSUME VerdictInv, NEW c \in Accept!CellKeys, Accept!ProbeCell(c)
    PROVE  /\ fragment[c] = "step0"
           /\ \E r \in Asking : r.on /\ ~r.bad /\ Telling(c, r.left) /\ probing' = [probing EXCEPT ![c] = r]
<1> DEFINE n == Len(Accept!Parts(c))
           count(p) == Accept!Parts(c)[p].stated.count
<1>1. /\ fragment[c] = "step0" /\ tree \in Trees /\ Accept!Parts(c) # <<>>
  BY AllApart DEF Accept!ProbeCell, VerdictInv, JobShape, Probes
<1>2. n \in Nat \ {0} /\ 1 \in 1 .. n /\ n \in 1 .. n /\ DOMAIN Accept!Parts(c) = 1 .. n
  <2>1. Accept!Parts(c) \in Seq(PartFiles)
    BY <1>1, TreeShape
  <2> QED
    BY <2>1, <1>1, EmptySeq, LenProperties
<1>3. PICK parts \in Accept!PartSamples(n) :
        \E rows \in {f \in [parts -> SUBSET (1 .. TreePart)] :
                        \A p \in parts : f[p] \in Accept!RowSamples(count(p))} :
          probing' = [probing EXCEPT ![c] = [Accept!Off EXCEPT !.on = TRUE,
                         !.left = Accept!SetToSeq(UNION {{p} \X rows[p] : p \in parts})]]
  BY DEF Accept!ProbeCell
<1>4. PICK rows \in [parts -> SUBSET (1 .. TreePart)] :
        /\ \A p \in parts : rows[p] \in Accept!RowSamples(count(p))
        /\ probing' = [probing EXCEPT ![c] = [Accept!Off EXCEPT !.on = TRUE,
                         !.left = Accept!SetToSeq(UNION {{p} \X rows[p] : p \in parts})]]
  BY <1>3
<1>5. parts \subseteq 1 .. n /\ 1 \in parts /\ n \in parts
  BY <1>2 DEF Accept!PartSamples
<1> DEFINE wanted == UNION {{p} \X rows[p] : p \in parts}
<1>6. wanted \subseteq (1 .. n) \X (1 .. TreePart)
  BY <1>5
<1>7. IsFiniteSet(wanted)
  <2>1. IsFiniteSet(1 .. n) /\ IsFiniteSet(1 .. TreePart)
    BY <1>2, Sizes, FS_Interval
  <2> DEFINE A == 1 .. n
             B == 1 .. TreePart
  <2>2. IsFiniteSet(A) /\ IsFiniteSet(B) /\ wanted \subseteq A \X B
    BY <2>1, <1>6
  <2> HIDE DEF A, B, wanted
  <2>3. IsFiniteSet(A \X B)
    BY <2>2, FS_Product
  <2> QED
    BY <2>2, <2>3, FS_Subset
<1> DEFINE left == Accept!SetToSeq(wanted)
           r    == [Accept!Off EXCEPT !.on = TRUE, !.left = left]
<1>8. probing' = [probing EXCEPT ![c] = r]
  BY <1>4
<1> HIDE DEF wanted
<1>9. left \in Seq(wanted) /\ Accept!Range(left) = wanted
  BY <1>7, SeqOfSet
<1> HIDE DEF left
<1>10. left \in Seq(ProbePlaces)
  <2>1. wanted \subseteq ProbePlaces
    BY <1>6 DEF ProbePlaces
  <2> QED
    BY <2>1, <1>9
<1>11. ASSUME NEW p \in {1, n}, count(p) <= PassagesPerPart, NEW o \in 1 .. count(p)
       PROVE  <<p, o>> \in Accept!Range(left)
  <2>1. p \in parts
    BY <1>5
  <2>2. rows[p] = 1 .. count(p)
    BY <2>1, <1>4, <1>11 DEF Accept!RowSamples
  <2>3. <<p, o>> \in {p} \X rows[p]
    BY <2>2
  <2>4. <<p, o>> \in wanted
    BY <2>1, <2>3 DEF wanted
  <2> QED
    BY <2>4, <1>9
<1>12. Telling(c, left)
  BY <1>11 DEF Telling
<1>13. r \in Asking /\ r.on = TRUE /\ r.bad = FALSE /\ r.left = left
  BY <1>10 DEF Accept!Off, Asking
<1> QED
  BY <1>1, <1>8, <1>12, <1>13

\* A probe asked is off the list, and what it is off the list for is explained.
LEMMA ProbeTold ==
    ASSUME VerdictInv, NEW c \in Accept!CellKeys, Accept!Probe(c)
    PROVE  \E r \in Asking : /\ probing' = [probing EXCEPT ![c] = r] /\ r.on = probing[c].on
                             /\ probing[c].bad => r.bad
                             /\ r.on /\ ~r.bad => Telling(c, r.left)
<1> DEFINE left == probing[c].left
           p == Head(left)[1]
           o == Head(left)[2]
<1>1. /\ probing \in [Accept!Jobs -> Asking] /\ c \in Accept!Jobs /\ probing[c] \in Asking
      /\ left \in Seq(ProbePlaces) /\ left # <<>> /\ probing[c].bad \in BOOLEAN
  BY AllApart DEF VerdictInv, JobShape, Accept!Probe, Asking
<1>2. PICK miss \in BOOLEAN :
        /\ probing' = [probing EXCEPT ![c].left = Tail(@), ![c].bad = @ \/ miss]
        /\ ~miss => Explains(c, p, o)
  <2>1. CASE o > Len(Accept!Stored(c, p))
            /\ probing' = [probing EXCEPT ![c].left = Tail(@), ![c].bad = @ \/ FALSE]
    <3>1. p \in Nat \ {0} /\ o \in Nat
      <4>1. Head(left) \in ProbePlaces
        BY <1>1, HeadTailProperties
      <4> QED
        BY <4>1 DEF ProbePlaces
    <3>2. Len(Accept!Stored(c, p)) \in Nat
      <4>1. Accept!Slice(c[2], p) \in Seq(Nat)
        BY <3>1, SliceShape DEF VerdictInv, JobShape
      <4> QED
        BY <4>1, LenProperties DEF Accept!Stored
    <3> HIDE DEF p, o
    <3>3. Explains(c, p, o)
      BY <2>1, <3>1, <3>2 DEF Explains
    <3> QED
      BY <2>1, <3>3
  <2>2. CASE \E hits \in Accept!Hits(Accept!Parts(c)[p], tree.vector[Accept!Stored(c, p)[o]]) :
                probing' = [probing EXCEPT ![c].left = Tail(@), ![c].bad = @ \/
                    ~Accept!Explained(Accept!Parts(c)[p], Accept!Stored(c, p)[o],
                                      tree.vector[Accept!Stored(c, p)[o]], hits)]
    <3>1. PICK hits \in Accept!Hits(Accept!Parts(c)[p], tree.vector[Accept!Stored(c, p)[o]]) :
                probing' = [probing EXCEPT ![c].left = Tail(@), ![c].bad = @ \/
                    ~Accept!Explained(Accept!Parts(c)[p], Accept!Stored(c, p)[o],
                                      tree.vector[Accept!Stored(c, p)[o]], hits)]
      BY <2>2
    <3>2. CASE Accept!Explained(Accept!Parts(c)[p], Accept!Stored(c, p)[o],
                                      tree.vector[Accept!Stored(c, p)[o]], hits)
      <4>1. Explains(c, p, o)
        BY <3>2 DEF Explains
      <4> QED
        BY <4>1, <3>1, <3>2
    <3>3. CASE ~Accept!Explained(Accept!Parts(c)[p], Accept!Stored(c, p)[o],
                                      tree.vector[Accept!Stored(c, p)[o]], hits)
      BY <3>1, <3>3
    <3> QED
      BY <3>2, <3>3
  <2> QED
    BY <2>1, <2>2 DEF Accept!Probe
<1> DEFINE r == [probing[c] EXCEPT !.left = Tail(left), !.bad = probing[c].bad \/ miss]
<1>3. probing' = [probing EXCEPT ![c] = r]
  BY <1>1, <1>2
<1>4. Tail(left) \in Seq(ProbePlaces) /\ Accept!Range(left) \subseteq Accept!Range(Tail(left)) \cup {Head(left)}
      /\ Head(left) = <<p, o>>
  <2> DEFINE S == ProbePlaces
             s == left
  <2>1. s \in Seq(S) /\ s # <<>>
    BY <1>1
  <2>2. Head(s) \in S
    BY <2>1, HeadTailProperties
  <2>3. Head(s) = <<p, o>>
    BY <2>2 DEF ProbePlaces
  <2> HIDE DEF S, s
  <2>4. /\ Tail(s) \in Seq(S) /\ Len(Tail(s)) = Len(s) - 1 /\ Len(s) \in Nat /\ DOMAIN s = 1 .. Len(s)
        /\ DOMAIN Tail(s) = 1 .. Len(Tail(s)) /\ \A i \in 1 .. Len(Tail(s)) : Tail(s)[i] = s[i + 1]
    BY <2>1, HeadTailProperties, LenProperties
  <2>5. Head(s) = s[1]
    BY <2>1
  <2>6. ASSUME NEW i \in 1 .. Len(s) PROVE s[i] \in Accept!Range(Tail(s)) \cup {Head(s)}
    <3>1. CASE i = 1
      BY <3>1, <2>5
    <3>2. CASE i # 1
      <4>1. i - 1 \in 1 .. Len(Tail(s)) /\ (i - 1) + 1 = i
        BY <3>2, <2>4
      <4>2. Tail(s)[i - 1] = s[i]
        BY <4>1, <2>4
      <4> QED
        BY <4>1, <4>2, <2>4 DEF Accept!Range
    <3> QED
      BY <3>1, <3>2
  <2>7. Accept!Range(s) \subseteq Accept!Range(Tail(s)) \cup {Head(s)}
    BY <2>4, <2>6 DEF Accept!Range
  <2> QED
    BY <2>3, <2>4, <2>7 DEF s, S
<1>5. ASSUME probing[c].on, ~probing[c].bad, ~miss PROVE Telling(c, Tail(left))
  <2>1. Telling(c, left)
    BY <1>5 DEF VerdictInv, Probes
  <2>2. Explains(c, p, o)
    BY <1>2, <1>5
  <2> HIDE DEF left, p, o
  <2>3. \A q, k : <<q, k>> \in Accept!Range(left) => <<q, k>> \in Accept!Range(Tail(left)) \/ (q = p /\ k = o)
    BY <1>4
  <2> QED
    BY <2>1, <2>2, <2>3 DEF Telling
<1>6. r \in Asking /\ r.on = probing[c].on /\ r.left = Tail(left) /\ r.bad = (probing[c].bad \/ miss)
  BY <1>1, <1>4 DEF Asking
<1> HIDE DEF r
<1> QED
  BY <1>1, <1>3, <1>5, <1>6

LEMMA TreeKept == [Accept!Next]_acceptVars => tree' = tree
BY DEF Accept!Next, acceptVars, Accept!PhaseA, Accept!Step0, Accept!Walltime, Accept!ProbeCell,
       Accept!Probe, Accept!Probed

LEMMA VerdictInductive == VerdictInv /\ [Accept!Next]_acceptVars => VerdictInv'
<1> SUFFICES ASSUME VerdictInv, [Accept!Next]_acceptVars PROVE VerdictInv'
  OBVIOUS
<1>1. tree' = tree
  BY TreeKept
<1>2. /\ Accept!CellKeys' = Accept!CellKeys /\ Accept!Jobs' = Accept!Jobs /\ Checked' = Checked
      /\ \A c : Accept!Parts(c)' = Accept!Parts(c) /\ Told(c)' = Told(c)
      /\ \A c, left : Telling(c, left)' = Telling(c, left)
  BY <1>1, TreeStays
<1>3. /\ tree \in Trees /\ fragment = [j \in Accept!Jobs |-> fragment[j]]
      /\ probing \in [Accept!Jobs -> Asking]
      /\ \A c \in Accept!CellKeys :
            /\ fragment[c] \in {"step0", "passed"} => Accept!Parts(c) # <<>>
            /\ probing[c].on => fragment[c] = "step0"
            /\ probing[c].on /\ ~probing[c].bad => Telling(c, probing[c].left)
            /\ fragment[c] = "passed" => Told(c)
      /\ fragment[Accept!All] = "passed" => Checked
  BY DEF VerdictInv, JobShape, Probes
\* A step that replaces one job's fragment and probing keeps what is said of the others.
<1>4. ASSUME NEW j \in Accept!Jobs, NEW f, NEW r \in Asking,
             fragment' = [fragment EXCEPT ![j] = f], probing' = [probing EXCEPT ![j] = r],
             j = Accept!All /\ f = "passed" => Checked,
             j \in Accept!CellKeys => /\ f \in {"step0", "passed"} => Accept!Parts(j) # <<>>
                                      /\ r.on => f = "step0"
                                      /\ r.on /\ ~r.bad => Telling(j, r.left)
                                      /\ f = "passed" => Told(j)
      PROVE  VerdictInv'
  <2>1. /\ fragment'[j] = f /\ probing'[j] = r
        /\ \A k \in Accept!Jobs \ {j} : fragment'[k] = fragment[k] /\ probing'[k] = probing[k]
    BY <1>3, <1>4
  <2>2. JobShape'
    <3>1. fragment' = [k \in Accept!Jobs |-> fragment'[k]]
      BY <1>3, <1>4
    <3>2. probing' \in [Accept!Jobs -> Asking]
      BY <1>3, <1>4
    <3> QED
      BY <3>1, <3>2, <1>1, <1>2, <1>3 DEF JobShape
  <2>3. Probes'
    <3> SUFFICES ASSUME NEW c \in Accept!CellKeys
                 PROVE  /\ fragment'[c] \in {"step0", "passed"} => Accept!Parts(c) # <<>>
                        /\ probing'[c].on => fragment'[c] = "step0"
                        /\ probing'[c].on /\ ~probing'[c].bad => Telling(c, probing'[c].left)
                        /\ fragment'[c] = "passed" => Told(c)
      BY <1>2 DEF Probes
    <3>1. CASE c = j
      BY <3>1, <2>1, <1>4
    <3>2. CASE c # j
      BY <3>2, <2>1, <1>3, AllApart
    <3> QED
      BY <3>1, <3>2
  <2>4. fragment'[Accept!All] = "passed" => Checked
    BY <2>1, <1>3, <1>4, AllApart
  <2>5. Accept!All' = Accept!All
    BY DEF Accept!All
  <2> QED
    BY <2>2, <2>3, <2>4, <2>5, <1>2 DEF VerdictInv
<1>a. \A j \in Accept!Jobs : /\ probing = [probing EXCEPT ![j] = probing[j]] /\ probing[j] \in Asking
                             /\ fragment = [fragment EXCEPT ![j] = fragment[j]]
  BY <1>3
<1>5. CASE Accept!PhaseA
  <2>1. fragment' = [fragment EXCEPT ![Accept!All] = IF Checked THEN "passed" ELSE "failed"]
        /\ probing' = probing
    BY <1>5 DEF Accept!PhaseA, Accept!Write, Checked
  <2>2. Accept!All \in Accept!Jobs /\ probing' = [probing EXCEPT ![Accept!All] = probing[Accept!All]]
    BY <2>1, <1>a, AllApart
  <2> DEFINE f == IF Checked THEN "passed" ELSE "failed"
  <2>3. f = "passed" => Checked
    OBVIOUS
  <2>4. fragment' = [fragment EXCEPT ![Accept!All] = f]
    BY <2>1
  <2> HIDE DEF f
  <2> QED
    BY <2>2, <2>3, <2>4, <1>a, <1>4, AllApart
<1>6. ASSUME NEW j \in Accept!Jobs, Accept!Step0(j) PROVE VerdictInv'
  <2> DEFINE f == IF Accept!Precondition THEN "step0" ELSE "failed"
  <2>1. ~probing[j].on /\ probing' = probing /\ fragment' = [fragment EXCEPT ![j] = f]
    BY <1>6 DEF Accept!Step0, Accept!Write
  <2>2. probing' = [probing EXCEPT ![j] = probing[j]] /\ probing[j] \in Asking
    BY <2>1, <1>a
  <2>3. j \in Accept!CellKeys /\ f = "step0" => Accept!Parts(j) # <<>>
    BY DEF Accept!Precondition, Accept!CensusHolds
  <2>4. f # "passed"
    OBVIOUS
  <2> HIDE DEF f
  <2> QED
    BY <2>1, <2>2, <2>3, <2>4, <1>4
<1>7. ASSUME NEW j \in Accept!Jobs, Accept!Walltime(j) PROVE VerdictInv'
  <2>1. probing' = [probing EXCEPT ![j] = Accept!Off] /\ fragment' = fragment
    BY <1>7 DEF Accept!Walltime
  <2>2. Accept!Off \in Asking /\ Accept!Off.on = FALSE
    BY DEF Accept!Off, Asking
  <2>3. fragment' = [fragment EXCEPT ![j] = fragment[j]]
    BY <2>1, <1>a
  <2> QED
    BY <2>1, <2>2, <2>3, <1>3, <1>4
<1>8. ASSUME NEW c \in Accept!CellKeys, Accept!ProbeCell(c) PROVE VerdictInv'
  <2>1. PICK r \in Asking : r.on /\ ~r.bad /\ Telling(c, r.left) /\ probing' = [probing EXCEPT ![c] = r]
    BY <1>8, SamplesTell
  <2>2. c \in Accept!Jobs /\ c # Accept!All /\ fragment[c] = "step0" /\ Accept!Parts(c) # <<>>
    BY <1>8, <1>3, AllApart DEF Accept!ProbeCell
  <2>3. fragment' = [fragment EXCEPT ![c] = fragment[c]]
    BY <1>8, <1>a, <2>2 DEF Accept!ProbeCell
  <2> QED
    BY <2>1, <2>2, <2>3, <1>4
<1>9. ASSUME NEW c \in Accept!CellKeys, Accept!Probe(c) PROVE VerdictInv'
  <2>1. PICK r \in Asking : /\ probing' = [probing EXCEPT ![c] = r] /\ r.on = probing[c].on
                            /\ r.on /\ ~r.bad => Telling(c, r.left)
    BY <1>9, ProbeTold
  <2>2. c \in Accept!Jobs /\ c # Accept!All
    BY AllApart
  <2>3. fragment' = [fragment EXCEPT ![c] = fragment[c]]
    BY <1>9, <1>a, <2>2 DEF Accept!Probe
  <2> QED
    BY <2>1, <2>2, <2>3, <1>3, <1>4
<1>10. ASSUME NEW c \in Accept!CellKeys, Accept!Probed(c) PROVE VerdictInv'
  <2> DEFINE f == IF probing[c].bad THEN "failed" ELSE "passed"
  <2>1. /\ probing[c].on /\ probing[c].left = <<>>
        /\ fragment' = [fragment EXCEPT ![c] = f] /\ probing' = [probing EXCEPT ![c] = Accept!Off]
    BY <1>10 DEF Accept!Probed, Accept!Write
  <2>2. Telling(c, <<>>) => Told(c)
    BY DEF Telling, Told, Accept!Range
  <2>3. Accept!Parts(c) # <<>> /\ (f = "passed" => Told(c)) /\ f # "step0"
    BY <2>1, <2>2, <1>3
  <2>4. Accept!Off \in Asking /\ Accept!Off.on = FALSE
    BY DEF Accept!Off, Asking
  <2>5. c \in Accept!Jobs /\ c # Accept!All
    BY AllApart
  <2> HIDE DEF f
  <2> QED
    BY <2>1, <2>3, <2>4, <2>5, <1>4
<1>11. CASE UNCHANGED acceptVars
  BY <1>11, <1>2, <1>3 DEF acceptVars, VerdictInv, JobShape, Probes, Accept!All
<1> QED
  BY <1>5, <1>6, <1>7, <1>8, <1>9, <1>10, <1>11 DEF Accept!Next

LEMMA VerdictSays == VerdictInv => Accept!HoldsTable /\ Accept!EndsFaithful
<1> SUFFICES ASSUME VerdictInv, Accept!Accepted
             PROVE  \A c \in Accept!CellKeys :
                      /\ Len(Accept!Parts(c)) = Accept!PartsOf(Len(tree.rows[c[2]]))
                      /\ \A p \in DOMAIN Accept!Parts(c), l \in Accept!Kinds :
                            Accept!Range(Accept!Parts(c)[p].ids[l]) = Accept!Range(Accept!Slice(c[2], p))
                      /\ Accept!Faithful(c, 1) /\ Accept!Faithful(c, Len(Accept!Parts(c)))
  BY DEF Accept!HoldsTable, Accept!EndsFaithful
<1>1. Checked /\ tree \in Trees
  BY AllApart DEF Accept!Accepted, VerdictInv, JobShape
<1> TAKE c \in Accept!CellKeys
<1>2. Told(c) /\ Accept!Parts(c) # <<>>
  BY AllApart DEF Accept!Accepted, VerdictInv, Probes
<1>3. 1 \in DOMAIN Accept!Parts(c) /\ Len(Accept!Parts(c)) \in DOMAIN Accept!Parts(c)
  <2>1. Accept!Parts(c) \in Seq(PartFiles)
    BY <1>1, TreeShape
  <2> QED
    BY <2>1, <1>2, EmptySeq, LenProperties
<1>4. Accept!Faithful(c, 1) /\ Accept!Faithful(c, Len(Accept!Parts(c)))
  BY <1>1, <1>2, <1>3, EndsTold
<1> QED
  BY <1>1, <1>4, CheckedHolds

\* A passage's own row comes first, or only rows as good as it do.
LEMMA SoundTells ==
    ASSUME NEW part, part.vectors \in Seq(Int), Len(part.vectors) = Len(part.ids["dense"]),
           part.ids["dense"] \in Seq(Nat), NEW id, NEW v \in Int, NEW hits \in Accept!Hits(part, v),
           NEW q \in 1 .. Len(part.vectors), part.vectors[q] = v, part.ids["dense"][q] = id,
           \A r \in 1 .. Len(part.vectors) : part.ids["dense"][r] = id => r = q
    PROVE  Accept!Explained(part, id, v, hits)
<1> DEFINE n == Len(part.vectors)
           score == ScoresOf(part, v)
           k == Width(n)
           named == {i \in DOMAIN hits : part.ids["dense"][hits[i]] = id}
<1>1. n \in Nat /\ score \in [1 .. n -> Int] /\ Window(hits, n, score) /\ TopK \in Nat \ {0}
  BY Sizes, ScoresType, Windows, LenProperties
<1>2. k \in Nat /\ Len(hits) = k /\ hits \in Seq(1 .. n)
  BY <1>1 DEF Width, Window
<1>3. DOMAIN hits = 1 .. k /\ (\A i \in 1 .. k : hits[i] \in 1 .. n) /\ \A r \in 1 .. n : part.vectors[r] \in Int
  <2>1. \A r \in 1 .. n : part.vectors[r] \in Int
    OBVIOUS
  <2>2. DOMAIN hits = 1 .. Len(hits) /\ \A i \in 1 .. Len(hits) : hits[i] \in 1 .. n
    BY <1>2, LenProperties, ElementOfSeq
  <2> QED
    BY <2>1, <2>2, <1>2
<1>4. \A r \in 1 .. n : score[r] = Accept!Score(v, part.vectors[r])
  BY <1>3 DEF ScoresOf
<1>0. q \in 1 .. n /\ \A r \in 1 .. n : part.ids["dense"][r] = id => r = q
  OBVIOUS
<1> HIDE DEF n, score
<1>5. (\A r \in 1 .. n : score[r] <= 100) /\ score[q] = 100
  <2>1. ASSUME NEW r \in 1 .. n PROVE score[r] <= 100
    <3>1. part.vectors[r] \in Int /\ score[r] = Accept!Score(v, part.vectors[r])
      BY <1>3, <1>4
    <3> QED
      BY <3>1, ScoreBound
  <2>2. score[q] = 100
    BY <1>0, <1>4, ScoreSelf
  <2> QED
    BY <2>1, <2>2
<1>6. Scores(score, n) /\ Best(score, n) # {}
  BY <1>0, <1>1, <1>5 DEF Scores, Best
<1>7. 1 \in 1 .. k /\ score[hits[1]] = 100
  BY <1>1, <1>6, BestFirst
<1> DEFINE upTo == IF named = {} THEN k ELSE Accept!Min(named)
<1>8. named \subseteq 1 .. k /\ named \subseteq Nat /\ (named # {} => Accept!Min(named) \in named)
  <2>1. named \subseteq 1 .. k /\ named \subseteq Nat
    BY <1>3, <1>2
  <2> QED
    BY <2>1, LeastOf
<1>9. upTo \in 1 .. k /\ (named = {} => upTo = k) /\ (named # {} => upTo \in named)
  <2>1. k \in 1 .. k
    BY <1>7, <1>2
  <2>2. named # {} => Accept!Min(named) \in 1 .. k
    BY <1>8
  <2> QED
    BY <2>1, <2>2, <1>8
<1>10. Accept!TieExplains([i \in 1 .. upTo |-> Accept!Score(v, part.vectors[hits[i]])])
          => Accept!Explained(part, id, v, hits)
  BY <1>2 DEF Accept!Explained
<1>11. \A i \in named : hits[i] = q
  BY <1>0, <1>3
<1> HIDE DEF named, upTo, k
<1>12. \A i \in 1 .. upTo : i \in 1 .. k /\ score[hits[i]] >= 100
  <2>1. \A i \in 1 .. upTo : i \in 1 .. k
    BY <1>9, <1>2
  <2>2. CASE named # {}
    <3>1. score[hits[upTo]] = 100 /\ upTo \in 1 .. k
      BY <2>2, <1>9, <1>11, <1>5
    <3>2. \A i, j \in 1 .. k : i <= j => score[hits[i]] >= score[hits[j]]
      BY <1>1 DEF Window, k
    <3> QED
      BY <2>1, <3>1, <3>2
  <2>3. CASE named = {}
    <3>1. ~ \E i \in 1 .. k : hits[i] = q
      <4> SUFFICES ASSUME NEW i \in 1 .. k, hits[i] = q PROVE FALSE
        OBVIOUS
      <4>1. i \in named
        BY <1>3 DEF named
      <4> QED
        BY <4>1, <2>3
    <3>2. \A i \in 1 .. k : score[hits[i]] >= score[q]
      BY <3>1, <1>0, <1>1 DEF Window, k
    <3> QED
      BY <2>1, <3>2, <1>5
  <2> QED
    BY <2>2, <2>3
<1>13. \A i \in 1 .. upTo : Accept!Score(v, part.vectors[hits[i]]) = 100
  <2> TAKE i \in 1 .. upTo
  <2>1. i \in 1 .. k /\ hits[i] \in 1 .. n /\ score[hits[i]] >= 100
    BY <1>12, <1>3
  <2>2. score[hits[i]] = Accept!Score(v, part.vectors[hits[i]]) /\ score[hits[i]] <= 100 /\ score[hits[i]] \in Int
    BY <2>1, <1>1, <1>4, <1>5
  <2> QED
    BY <2>1, <2>2
<1> DEFINE scores == [i \in 1 .. upTo |-> Accept!Score(v, part.vectors[hits[i]])]
<1>14. 1 \in 1 .. upTo /\ DOMAIN scores = 1 .. upTo /\ \A i \in 1 .. upTo : scores[i] = 100
  <2>1. 1 \in 1 .. upTo
    BY <1>2, <1>9
  <2>2. \A i \in 1 .. upTo : scores[i] = 100
    BY <1>13
  <2> QED
    BY <2>1, <2>2
<1>15. Accept!TieExplains(scores)
  <2> HIDE DEF scores
  <2>1. scores # <<>>
    <3> SUFFICES ASSUME scores = <<>> PROVE FALSE
      OBVIOUS
    <3>1. DOMAIN <<>> = {}
      OBVIOUS
    <3>2. 1 \in DOMAIN scores
      BY <1>14
    <3> QED
      BY <3>1, <3>2, Zenon
  <2> QED
    BY <2>1, <1>14 DEF Accept!TieExplains
<1> QED
  BY <1>10, <1>15

-----------------------------------------------------------------------------
\* Numbers cut into runs of one size.
LEMMA Runs ==
    ASSUME NEW n \in Nat, NEW s \in Nat \ {0}, NEW m, m = IF n = 0 THEN 1 ELSE (n + s - 1) \div s
    PROVE  m \in Nat \ {0} /\ n <= m * s
<1>1. CASE n = 0
  <2>1. m = 1
    BY <1>1
  <2> QED
    BY <2>1, <1>1
<1>2. CASE n # 0
  <2> DEFINE a == n + s - 1
  <2>1. a \in Nat /\ a >= s /\ m = a \div s /\ n + s = a + 1
    BY <1>2
  <2> HIDE DEF a
  <2>2. m \in Nat /\ m * s <= a /\ a < m * s + s
    BY <2>1
  <2>3. m # 0
    BY <2>1, <2>2
  <2> QED
    BY <2>1, <2>2, <2>3
<1> QED
  BY <1>1, <1>2

\* Each number up to a run's end is in a run that starts before it.
LEMMA InARun ==
    ASSUME NEW s \in Nat \ {0}, NEW m \in Nat, NEW o \in 1 .. m * s
    PROVE  \E p \in 1 .. m : (p - 1) * s < o /\ o <= p * s
<1> DEFINE T == {p \in Nat : o <= p * s}
<1>1. T \subseteq Nat /\ m \in T
  BY Products
<1>2. PICK p \in T : \A y \in T : p <= y
  BY <1>1, LeastNat
<1>3. p \in Nat /\ o <= p * s /\ p <= m /\ o \in Nat /\ o >= 1
  BY <1>1, <1>2, Products
<1>4. p # 0
  <2> SUFFICES ASSUME p = 0 PROVE FALSE
    OBVIOUS
  <2>1. p * s = 0
    OBVIOUS
  <2> QED
    BY <2>1, <1>3
<1>5. p - 1 \in Nat /\ p - 1 \notin T
  BY <1>2, <1>3, <1>4
<1>6. (p - 1) * s \in Nat /\ ~(o <= (p - 1) * s)
  BY <1>5, Products
<1> QED
  BY <1>3, <1>4, <1>6

\* A slice is the run of the rows after the first a, up to b, each of them at its place.
Placed(slice, rows, a, b) ==
    /\ slice \in Seq(Nat) /\ Len(slice) \in Nat /\ DOMAIN slice = 1 .. Len(slice)
    /\ \A i \in 1 .. Len(slice) : a + i \in 1 .. Len(rows) /\ a + i <= b /\ slice[i] = rows[a + i]
    /\ \A o \in 1 .. Len(rows) : a < o /\ o <= b => o - a \in 1 .. Len(slice)
LEMMA SliceRows ==
    ASSUME tree \in Trees, NEW c \in Accept!CellKeys, NEW p \in Nat \ {0}
    PROVE  Placed(Accept!Slice(c[2], p), tree.rows[c[2]], (p - 1) * TreePart, p * TreePart)
<1> DEFINE slice == Accept!Slice(c[2], p)
           rows == tree.rows[c[2]]
           a == (p - 1) * TreePart
           b == p * TreePart
           low == a + 1
           high == Accept!Min({b, Len(rows)})
<1>1. rows \in Seq(Nat) /\ Len(rows) \in Nat
  BY TreeShape, LenProperties
<1>2. a \in Nat /\ b \in Nat
  <2>1. p - 1 \in Nat /\ TreePart \in Nat \ {0}
    BY Sizes
  <2> QED
    BY <2>1, Products
<1>3. slice = SubSeq(rows, low, high)
  BY DEF Accept!Slice
<1> HIDE DEF a, b, slice, rows
<1>4. low \in Nat \ {0} /\ high \in Nat /\ high <= Len(rows) /\ high <= b /\ (high = b \/ high = Len(rows))
  <2>1. {b, Len(rows)} \subseteq Nat /\ {b, Len(rows)} # {}
    BY <1>1, <1>2
  <2>2. high \in {b, Len(rows)} /\ \A y \in {b, Len(rows)} : high <= y
    BY <2>1, LeastOf
  <2> QED
    BY <2>1, <2>2, <1>2
<1>a. low = a + 1
  OBVIOUS
<1> HIDE DEF low, high
<1>5. \A i \in low .. high : i \in 1 .. Len(rows) /\ rows[i] \in Nat
  <2>1. \A i \in low .. high : i \in 1 .. Len(rows)
    BY <1>1, <1>4
  <2> QED
    BY <2>1, <1>1
<1>6. /\ slice \in Seq(Nat)
      /\ Len(slice) = IF low <= high THEN high - low + 1 ELSE 0
      /\ \A i \in 1 .. high - low + 1 : slice[i] = rows[low + i - 1]
  <2>1. low \in Int /\ high \in Int /\ \A i \in low .. high : rows[i] \in Nat
    BY <1>4, <1>5
  <2> QED
    BY <2>1, <1>3, SubSeqProperties
<1>7. Len(slice) \in Nat /\ DOMAIN slice = 1 .. Len(slice)
  BY <1>6, LenProperties
<1>8. ASSUME NEW i \in 1 .. Len(slice)
      PROVE  a + i \in 1 .. Len(rows) /\ a + i <= b /\ slice[i] = rows[a + i]
  <2>1. i \in 1 .. high - low + 1 /\ low + i - 1 = a + i
    BY <1>2, <1>4, <1>6, <1>a
  <2>2. a + i \in low .. high
    BY <2>1, <1>2, <1>4, <1>a
  <2>3. a + i \in 1 .. Len(rows) /\ slice[i] = rows[a + i]
    BY <2>1, <2>2, <1>5, <1>6
  <2>4. a + i <= b
    BY <2>2, <1>2, <1>4
  <2> QED
    BY <2>3, <2>4
<1>9. ASSUME NEW o \in 1 .. Len(rows), a < o, o <= b
      PROVE  o - a \in 1 .. Len(slice)
  BY <1>1, <1>2, <1>4, <1>6, <1>9, <1>a
<1> QED
  BY <1>6, <1>7, <1>8, <1>9 DEF Placed, a, b, slice, rows

\* Slices of different parts share no row, and no row is twice in one.
LEMMA SlicesApart ==
    ASSUME tree \in Trees, NEW c \in Accept!CellKeys, NEW p \in Nat \ {0}, NEW q \in Nat \ {0},
           NEW i \in 1 .. Len(Accept!Slice(c[2], p)), NEW j \in 1 .. Len(Accept!Slice(c[2], q)),
           Accept!Slice(c[2], p)[i] = Accept!Slice(c[2], q)[j]
    PROVE  p = q /\ i = j
<1> DEFINE rows == tree.rows[c[2]]
           a == (p - 1) * TreePart
           b == p * TreePart
           d == (q - 1) * TreePart
           e == q * TreePart
           x == Accept!Slice(c[2], p)
           y == Accept!Slice(c[2], q)
<1>1. Placed(x, rows, a, b) /\ Placed(y, rows, d, e)
  BY SliceRows
<1>2. IsInjective(rows) /\ DOMAIN rows = 1 .. Len(rows)
  BY TreeShape, LenProperties
<1>3. TreePart \in Nat \ {0} /\ p - 1 \in Nat /\ q - 1 \in Nat
  BY Sizes
<1>4. a \in Nat /\ b \in Nat /\ d \in Nat /\ e \in Nat
  BY <1>3, Products
<1>5. (p <= q - 1 => b <= d) /\ (q <= p - 1 => e <= a)
  BY <1>3, Products
<1>6. i \in 1 .. Len(x) /\ j \in 1 .. Len(y) /\ x[i] = y[j] /\ (p = q => a = d)
  OBVIOUS
<1> HIDE DEF rows, a, b, d, e, x, y
<1>7. a + i = d + j /\ a + i <= b /\ d + j <= e /\ i \in Nat \ {0} /\ j \in Nat \ {0}
  <2>1. /\ a + i \in 1 .. Len(rows) /\ a + i <= b /\ x[i] = rows[a + i]
        /\ d + j \in 1 .. Len(rows) /\ d + j <= e /\ y[j] = rows[d + j]
        /\ Len(x) \in Nat /\ Len(y) \in Nat
    BY <1>1, <1>6 DEF Placed
  <2>2. a + i = d + j
    BY <2>1, <1>2, <1>6 DEF IsInjective
  <2> QED
    BY <2>1, <2>2, <1>6
<1>8. p = q
  <2>1. ~(p <= q - 1)
    BY <1>4, <1>5, <1>7
  <2>2. ~(q <= p - 1)
    BY <1>4, <1>5, <1>7
  <2> QED
    BY <2>1, <2>2
<1> QED
  BY <1>4, <1>6, <1>7, <1>8

\* The slices of all parts are the rows.
LEMMA SlicesCover ==
    ASSUME tree \in Trees, NEW c \in Accept!CellKeys, NEW m, m = Accept!PartsOf(Len(tree.rows[c[2]]))
    PROVE  /\ m \in Nat \ {0}
           /\ UNION {Range(Accept!Slice(c[2], p)) : p \in 1 .. m} = Range(tree.rows[c[2]])
           /\ \A p \in Nat \ {0} : p \notin 1 .. m => Len(Accept!Slice(c[2], p)) = 0
<1> DEFINE rows == tree.rows[c[2]]
           n == Len(rows)
           s == TreePart
<1>1. rows \in Seq(Nat) /\ n \in Nat /\ DOMAIN rows = 1 .. n /\ s \in Nat \ {0}
  BY TreeShape, LenProperties, Sizes
<1>2. m \in Nat \ {0} /\ n <= m * s
  <2>1. m = IF n = 0 THEN 1 ELSE (n + s - 1) \div s
    BY DEF Accept!PartsOf
  <2> HIDE DEF n, s
  <2> QED
    BY <2>1, <1>1, Runs
<1>3. m * s \in Nat
  BY <1>1, <1>2, Products
<1>4. ASSUME NEW p \in 1 .. m, NEW x \in Range(Accept!Slice(c[2], p)) PROVE x \in Range(rows)
  <2>1. p \in Nat \ {0}
    BY <1>2
  <2>2. PICK i \in DOMAIN Accept!Slice(c[2], p) : Accept!Slice(c[2], p)[i] = x
    BY DEF Range
  <2>3. Placed(Accept!Slice(c[2], p), rows, (p - 1) * s, p * s)
    BY <2>1, SliceRows
  <2>4. (p - 1) * s + i \in 1 .. n /\ x = rows[(p - 1) * s + i]
    BY <2>2, <2>3 DEF Placed
  <2> QED
    BY <2>4, <1>1 DEF Range
<1>5. ASSUME NEW x \in Range(rows) PROVE \E p \in 1 .. m : x \in Range(Accept!Slice(c[2], p))
  <2>1. PICK o \in 1 .. n : rows[o] = x
    BY <1>1 DEF Range
  <2>2. o \in 1 .. m * s
    BY <1>1, <1>2, <1>3
  <2> HIDE DEF s, n
  <2>3. PICK p \in 1 .. m : (p - 1) * s < o /\ o <= p * s
    BY <2>2, <1>1, <1>2, InARun
  <2>4. p \in Nat \ {0} /\ (p - 1) * s \in Nat
    <3>1. p \in Nat \ {0} /\ p - 1 \in Nat
      BY <1>2
    <3> QED
      BY <3>1, <1>1, Products
  <2> DEFINE a == (p - 1) * s
             slice == Accept!Slice(c[2], p)
  <2>5. Placed(slice, rows, a, p * s) /\ a < o /\ o <= p * s
    BY <2>3, <2>4, SliceRows DEF s
  <2>6. a \in Nat /\ o \in 1 .. Len(rows)
    BY <2>4 DEF n
  <2> HIDE DEF a, slice, rows
  <2>7. o - a \in 1 .. Len(slice) /\ DOMAIN slice = 1 .. Len(slice)
    BY <2>5, <2>6 DEF Placed
  <2>8. slice[o - a] = rows[a + (o - a)] /\ a + (o - a) = o
    BY <2>5, <2>6, <2>7 DEF Placed
  <2>9. x \in Range(slice)
    BY <2>1, <2>7, <2>8 DEF Range
  <2> QED
    BY <2>9 DEF slice
<1>6. ASSUME NEW p \in Nat \ {0}, p \notin 1 .. m PROVE Len(Accept!Slice(c[2], p)) = 0
  <2> SUFFICES ASSUME Len(Accept!Slice(c[2], p)) # 0 PROVE FALSE
    OBVIOUS
  <2>1. Placed(Accept!Slice(c[2], p), rows, (p - 1) * s, p * s)
    BY SliceRows
  <2>2. (p - 1) * s + 1 \in 1 .. n
    <3>1. 1 \in 1 .. Len(Accept!Slice(c[2], p))
      BY <2>1 DEF Placed
    <3> QED
      BY <3>1, <2>1 DEF Placed
  <2>3. p - 1 \in Nat /\ m <= p - 1
    BY <1>2, <1>6
  <2>4. m * s <= (p - 1) * s /\ (p - 1) * s \in Nat
    BY <2>3, <1>1, <1>2, Products
  <2> QED
    BY <2>2, <2>4, <1>1, <1>2, <1>3
<1> QED
  BY <1>2, <1>4, <1>5, <1>6

LEMMA SameRange == \A f : Accept!Range(f) = Range(f)
BY DEF Accept!Range, Range

\* A tree as the stages before leave it, part by part.
LEMMA WholeCell ==
    ASSUME tree \in Trees, Accept!Assembled, NEW c \in Accept!CellKeys
    PROVE  LET m == Accept!PartsOf(Len(tree.rows[c[2]]))
           IN Len(Accept!Parts(c)) = m /\ DOMAIN Accept!Parts(c) = 1 .. m /\ m \in Nat \ {0}
<1> DEFINE m == Accept!PartsOf(Len(tree.rows[c[2]]))
<1>1. m \in Nat \ {0}
  BY SlicesCover
<1>2. Accept!Parts(c) \in Seq(PartFiles)
  BY TreeShape
<1>3. Len(Accept!Parts(c)) = m
  BY DEF Accept!Assembled
<1> QED
  BY <1>1, <1>2, <1>3, LenProperties

RowsWhole(c, p) ==
    /\ \A l \in Accept!Kinds : Accept!Parts(c)[p].ids[l] = Accept!Slice(c[2], p)
    /\ Accept!Parts(c)[p].vectors =
           [i \in DOMAIN Accept!Slice(c[2], p) |-> tree.vector[Accept!Slice(c[2], p)[i]]]
    /\ Accept!Parts(c)[p].stated.part = p /\ Accept!Parts(c)[p].stated.parts = Len(Accept!Parts(c))
    /\ Accept!Parts(c)[p].stated.count = Len(Accept!Slice(c[2], p))
LEMMA WholePart ==
    ASSUME tree \in Trees, Accept!Assembled, NEW c \in Accept!CellKeys, NEW p \in DOMAIN Accept!Parts(c)
    PROVE  RowsWhole(c, p)
<1> DEFINE slice == Accept!Slice(c[2], p)
           a == [l \in Accept!Kinds |-> slice]
           b == [i \in DOMAIN slice |-> tree.vector[slice[i]]]
           d == [part |-> p, parts |-> Len(Accept!Parts(c)), count |-> Len(slice)]
           part == Accept!Parts(c)[p]
<1>1. part = [ids |-> a, vectors |-> b, stated |-> d]
  BY DEF Accept!Assembled
<1>2. d.part = p /\ d.parts = Len(Accept!Parts(c)) /\ d.count = Len(slice)
  OBVIOUS
<1>3. \A l \in Accept!Kinds : a[l] = slice
  OBVIOUS
<1> HIDE DEF a, d, part, slice
<1>4. part.ids = a /\ part.vectors = b /\ part.stated = d
  <2> HIDE DEF b
  <2> QED
    BY <1>1
<1> QED
  BY <1>2, <1>3, <1>4 DEF part, slice, RowsWhole

\* The sum of a function is the fold of its domain, and of sizes that of the union.
LEMMA PlusIsSum ==
    ASSUME NEW f, IsFiniteSet(DOMAIN f)
    PROVE  \E g : SumOver(g, f, DOMAIN f) /\ Accept!Plus(f) = g[DOMAIN f]
<1>1. PICK g : SumOver(g, f, DOMAIN f)
  BY SumExists
<1>2. \A h : SumOver(h, f, DOMAIN f) => h = g
  BY <1>1, SumUnique
<1>3. Accept!Plus(f) = g[DOMAIN f]
  BY <1>1, <1>2 DEF Accept!Plus, Accept!FoldFunction, Accept!FoldFunctionOnSet, Accept!MapThenFoldSet, SumOver, Taken
<1> QED
  BY <1>1, <1>3

LEMMA PlusOfSizes ==
    ASSUME NEW S, IsFiniteSet(S), NEW H, \A p \in S : IsFiniteSet(H[p]),
           \A p, q \in S : p # q => H[p] \cap H[q] = {}
    PROVE  Accept!Plus([p \in S |-> Cardinality(H[p])]) = Cardinality(UNION {H[p] : p \in S})
<1> DEFINE f == [p \in S |-> Cardinality(H[p])]
<1>1. DOMAIN f = S /\ \A p \in S : f[p] = Cardinality(H[p])
  OBVIOUS
<1> HIDE DEF f
<1>2. PICK g : SumOver(g, f, S) /\ Accept!Plus(f) = g[S]
  BY <1>1, PlusIsSum
<1>3. g[S] = Cardinality(UNION {H[p] : p \in S})
  BY <1>1, <1>2, SumOfSizes
<1> QED
  BY <1>2, <1>3 DEF f

\* What the parts' files count is what the table has.
LEMMA Counted ==
    ASSUME tree \in Trees, Accept!Assembled, NEW c \in Accept!CellKeys
    PROVE  LET rows == tree.rows[c[2]]
               m    == Accept!PartsOf(Len(rows))
               whole == UNION {Accept!Range(Accept!Parts(c)[p].ids["dense"]) : p \in 1 .. m}
           IN /\ Accept!Witnessed(c) = Len(rows)
              /\ whole = Accept!Range(rows)
              /\ Accept!Plus([p \in 1 .. m |-> Cardinality(Accept!Range(Accept!Parts(c)[p].ids["dense"]))])
                    = Cardinality(whole)
<1> DEFINE rows == tree.rows[c[2]]
           m    == Accept!PartsOf(Len(rows))
           H(p) == Range(Accept!Parts(c)[p].ids["dense"])
           whole == UNION {H(p) : p \in 1 .. m}
<1>1. DOMAIN Accept!Parts(c) = 1 .. m /\ m \in Nat \ {0}
  BY WholeCell
<1>2. \A p \in 1 .. m : /\ Accept!Parts(c)[p].ids["dense"] = Accept!Slice(c[2], p) /\ p \in Nat \ {0}
                        /\ Accept!Parts(c)[p].stated.count = Len(Accept!Slice(c[2], p))
  <2> TAKE p \in 1 .. m
  <2>1. p \in DOMAIN Accept!Parts(c) /\ "dense" \in Accept!Kinds
    BY <1>1 DEF Accept!Kinds
  <2>2. RowsWhole(c, p)
    BY <2>1, WholePart
  <2>3. p \in Nat \ {0}
    BY <1>1
  <2> QED
    BY <2>1, <2>2, <2>3 DEF RowsWhole
<1>3. \A p \in 1 .. m : H(p) = Range(Accept!Slice(c[2], p))
  BY <1>2
<1>4. whole = Range(rows)
  <2>1. whole = UNION {Range(Accept!Slice(c[2], p)) : p \in 1 .. m}
    BY <1>3
  <2> QED
    BY <2>1, SlicesCover
<1>5. ASSUME NEW p \in 1 .. m, NEW q \in 1 .. m, p # q PROVE H(p) \cap H(q) = {}
  <2> SUFFICES ASSUME NEW x \in H(p), x \in H(q) PROVE FALSE
    OBVIOUS
  <2> DEFINE y == Accept!Slice(c[2], p)
             z == Accept!Slice(c[2], q)
  <2>1. x \in Range(y) /\ x \in Range(z) /\ p \in Nat \ {0} /\ q \in Nat \ {0}
    BY <1>2, <1>3
  <2>2. DOMAIN y = 1 .. Len(y) /\ DOMAIN z = 1 .. Len(z)
    BY <2>1, SliceRows DEF Placed
  <2>3. PICK i \in 1 .. Len(y) : y[i] = x
    BY <2>1, <2>2 DEF Range
  <2>4. PICK j \in 1 .. Len(z) : z[j] = x
    BY <2>1, <2>2 DEF Range
  <2> QED
    BY <2>1, <2>3, <2>4, <1>5, SlicesApart
<1>6. ASSUME NEW p \in 1 .. m
      PROVE  Cardinality(H(p)) = Accept!Parts(c)[p].stated.count /\ IsFiniteSet(H(p))
  <2> DEFINE y == Accept!Slice(c[2], p)
  <2>1. p \in Nat \ {0} /\ H(p) = Range(y) /\ Accept!Parts(c)[p].stated.count = Len(y)
    BY <1>1, <1>2, <1>3
  <2>2. y \in Seq(Nat) /\ DOMAIN y = 1 .. Len(y)
    BY <2>1, SliceRows DEF Placed
  <2>3. \A i, j \in 1 .. Len(y) : y[i] = y[j] => i = j
    BY <2>1, SlicesApart
  <2>4. IsInjective(y)
    BY <2>2, <2>3 DEF IsInjective
  <2> HIDE DEF y
  <2> QED
    BY <2>1, <2>2, <2>4, InjectiveCount
<1>7. Accept!Plus([p \in 1 .. m |-> Cardinality(H(p))]) = Cardinality(whole)
  <2> DEFINE G == [p \in 1 .. m |-> H(p)]
  <2>1. IsFiniteSet(1 .. m)
    BY <1>1, FS_Interval
  <2>2. \A p \in 1 .. m : IsFiniteSet(G[p])
    BY <1>6
  <2>3. \A p, q \in 1 .. m : p # q => G[p] \cap G[q] = {}
    BY <1>5
  <2>4. [p \in 1 .. m |-> Cardinality(G[p])] = [p \in 1 .. m |-> Cardinality(H(p))]
        /\ UNION {G[p] : p \in 1 .. m} = UNION {H(p) : p \in 1 .. m}
    OBVIOUS
  <2> HIDE DEF G
  <2>5. Accept!Plus([p \in 1 .. m |-> Cardinality(G[p])]) = Cardinality(UNION {G[p] : p \in 1 .. m})
    BY <2>1, <2>2, <2>3, PlusOfSizes
  <2> QED
    BY <2>4, <2>5
<1>8. Cardinality(whole) = Len(rows)
  <2>1. rows \in Seq(Nat) /\ IsInjective(rows)
    BY TreeShape
  <2> HIDE DEF rows, whole
  <2> QED
    BY <2>1, <1>4, InjectiveCount
<1>9. Accept!Witnessed(c) = Len(rows)
  <2>1. [p \in DOMAIN Accept!Parts(c) |-> Accept!Parts(c)[p].stated.count] = [p \in 1 .. m |-> Cardinality(H(p))]
    BY <1>1, <1>6
  <2> QED
    BY <2>1, <1>7, <1>8 DEF Accept!Witnessed
<1> QED
  BY <1>4, <1>7, <1>9, SameRange

\* Such a tree is let through by step 0, and by phase A.
LEMMA WholeStarts == ASSUME tree \in Trees, Accept!Assembled PROVE Accept!Precondition
<1>1. \A c \in Accept!CellKeys : Accept!Witnessed(c) = Len(tree.rows[c[2]])
  BY Counted
<1>2. ASSUME NEW c \in Accept!CellKeys PROVE Accept!CensusHolds(c)
  <2>1. Accept!Parts(c) # <<>>
    <3>1. Len(Accept!Parts(c)) \in Nat \ {0}
      BY WholeCell
    <3> QED
      BY <3>1
  <2>2. \A p \in DOMAIN Accept!Parts(c) : Accept!Parts(c)[p].stated.part = p
                                          /\ Accept!Parts(c)[p].stated.parts = Len(Accept!Parts(c))
    BY WholePart DEF RowsWhole
  <2> QED
    BY <2>1, <2>2 DEF Accept!CensusHolds
<1>3. \A lang \in Accept!Langs : \A c \in Accept!CellsOf(lang) : Accept!Witnessed(c) = Len(tree.rows[lang])
  BY <1>1 DEF Accept!CellsOf
<1>4. ASSUME NEW lang \in Accept!Langs PROVE \E c \in Accept!CellsOf(lang) : TRUE
  <2>1. CASE lang = Accept!Shared
    <3>1. <<"shared", Accept!Shared>> \in Accept!CellsOf(lang)
      BY <2>1 DEF Accept!CellsOf, Accept!CellKeys
    <3> QED
      BY <3>1
  <2>2. CASE lang # Accept!Shared
    <3>1. PICK r \in TreeRenderings : TRUE
      BY TreesAssumption
    <3>2. <<r, lang>> \in Accept!CellsOf(lang)
      BY <2>2 DEF Accept!CellsOf, Accept!CellKeys
    <3> QED
      BY <3>2
  <2> QED
    BY <2>1, <2>2
<1>5. \A lang \in Accept!Langs :
          Accept!Witnessed(CHOOSE c \in Accept!CellsOf(lang) : TRUE) = Len(tree.rows[lang])
  <2> TAKE lang \in Accept!Langs
  <2>1. (CHOOSE c \in Accept!CellsOf(lang) : TRUE) \in Accept!CellsOf(lang)
    BY <1>4
  <2> QED
    BY <2>1, <1>3
<1>6. [lang \in Accept!Langs |-> Accept!Witnessed(CHOOSE c \in Accept!CellsOf(lang) : TRUE)]
         = [lang \in Accept!Langs |-> Len(tree.rows[lang])]
  BY <1>5
<1>7. Accept!Plus([lang \in Accept!Langs |-> Accept!Witnessed(CHOOSE c \in Accept!CellsOf(lang) : TRUE)])
         \in Floor .. Ceiling
  BY <1>6 DEF Accept!Assembled
<1>8. \A lang \in Accept!Langs : \A c, d \in Accept!CellsOf(lang) : Accept!Witnessed(c) = Accept!Witnessed(d)
  BY <1>3
<1> QED
  BY <1>2, <1>7, <1>8 DEF Accept!Precondition, Accept!Assembled

LEMMA WholeIsChecked == ASSUME tree \in Trees, Accept!Assembled PROVE Checked
<1>1. ASSUME NEW c \in Accept!CellKeys, NEW p \in DOMAIN Accept!Parts(c)
      PROVE  Accept!IdsMatch(c, p) /\ Accept!Range(Accept!Parts(c)[p].ids["dense"]) = Accept!Range(Accept!Slice(c[2], p))
  <2>1. \A l \in Accept!Kinds : Accept!Parts(c)[p].ids[l] = Accept!Slice(c[2], p)
    BY WholePart DEF RowsWhole
  <2>2. "dense" \in Accept!Kinds
    BY DEF Accept!Kinds
  <2> QED
    BY <2>1, <2>2 DEF Accept!IdsMatch
<1>2. ASSUME NEW c \in Accept!CellKeys PROVE Accept!Complete(c)
  <2> DEFINE m == Accept!PartsOf(Len(tree.rows[c[2]]))
             whole == UNION {Accept!Range(Accept!Parts(c)[p].ids["dense"]) : p \in 1 .. m}
  <2>1. Len(Accept!Parts(c)) = m
    BY WholeCell
  <2>2. /\ Accept!Witnessed(c) = Len(tree.rows[c[2]]) /\ whole = Accept!Range(tree.rows[c[2]])
        /\ Accept!Plus([p \in 1 .. m |-> Cardinality(Accept!Range(Accept!Parts(c)[p].ids["dense"]))])
              = Cardinality(whole)
    BY Counted
  <2>3. Accept!Plus([p \in 1 .. m |-> Accept!Cardinality(Accept!Range(Accept!Parts(c)[p].ids["dense"]))])
              = Accept!Cardinality(whole)
    BY <2>2, SameSizes
  <2> QED
    BY <2>1, <2>2, <2>3 DEF Accept!Complete
<1>3. ASSUME NEW lang \in Accept!Langs, NEW p PROVE Accept!SameAcross(lang, p)
  BY <1>1 DEF Accept!SameAcross, Accept!CellsOf
<1> QED
  BY <1>1, <1>2, <1>3 DEF Checked

\* And each of its probes is explained.
LEMMA WholeExplained ==
    ASSUME tree \in Trees, Accept!Assembled, NEW c \in Accept!CellKeys, NEW p \in Nat \ {0},
           NEW o \in Nat \ {0}, o <= Len(Accept!Stored(c, p)),
           NEW hits \in Accept!Hits(Accept!Parts(c)[p], tree.vector[Accept!Stored(c, p)[o]])
    PROVE  Accept!Explained(Accept!Parts(c)[p], Accept!Stored(c, p)[o], tree.vector[Accept!Stored(c, p)[o]], hits)
<1> DEFINE slice == Accept!Slice(c[2], p)
           part  == Accept!Parts(c)[p]
           id    == slice[o]
           v     == tree.vector[id]
<1>1. Accept!Stored(c, p) = slice
  BY DEF Accept!Stored
<1>2. slice \in Seq(Nat) /\ Len(slice) \in Nat /\ DOMAIN slice = 1 .. Len(slice)
  BY SliceRows DEF Placed
<1>3. o \in 1 .. Len(slice)
  BY <1>1, <1>2
<1>4. p \in DOMAIN Accept!Parts(c)
  <2>1. Len(slice) # 0
    BY <1>2, <1>3
  <2>2. p \in 1 .. Accept!PartsOf(Len(tree.rows[c[2]]))
    BY <2>1, SlicesCover
  <2> QED
    BY <2>2, WholeCell
<1>5. part.ids["dense"] = slice /\ part.vectors = [i \in DOMAIN slice |-> tree.vector[slice[i]]]
  <2>1. "dense" \in Accept!Kinds
    BY DEF Accept!Kinds
  <2> QED
    BY <1>4, <2>1, WholePart DEF RowsWhole
<1>6. \A i, j \in 1 .. Len(slice) : slice[i] = slice[j] => i = j
  BY SlicesApart
<1>7. \A i \in 1 .. Len(slice) : tree.vector[slice[i]] \in Int
  BY SliceShape
<1>8. hits \in Accept!Hits(part, v)
  BY <1>1
<1> HIDE DEF slice, part, id, v
<1>9. part.vectors \in Seq(Int) /\ Len(part.vectors) = Len(slice)
  <2>1. part.vectors \in [1 .. Len(slice) -> Int]
    BY <1>2, <1>5, <1>7
  <2> QED
    BY <2>1, <1>2, FunIsSeq
<1>10. id = slice[o] /\ v = tree.vector[id]
  BY DEF id, v
<1>11. v \in Int /\ part.vectors[o] = v /\ part.ids["dense"][o] = id /\ o \in 1 .. Len(part.vectors)
  BY <1>2, <1>3, <1>5, <1>7, <1>9, <1>10
<1>12. \A r \in 1 .. Len(part.vectors) : part.ids["dense"][r] = id => r = o
  BY <1>3, <1>5, <1>6, <1>9, <1>10
<1>13. part.ids["dense"] \in Seq(Nat) /\ Len(part.vectors) = Len(part.ids["dense"])
  BY <1>2, <1>5, <1>9
<1>14. Accept!Explained(part, id, v, hits)
  BY <1>8, <1>9, <1>11, <1>12, <1>13, SoundTells
<1> QED
  BY <1>14, <1>1 DEF part, id, v, slice

\* A whole tree has failed no job, and no probe of it missed.
Sound == Accept!Assembled => \A j \in Accept!Jobs : fragment[j] # "failed" /\ ~probing[j].bad

LEMMA SoundInitial == Accept!Init => Sound
BY DEF Accept!Init, Sound, Accept!Off

LEMMA SoundInductive == VerdictInv /\ Sound /\ [Accept!Next]_acceptVars => Sound'
<1> SUFFICES ASSUME VerdictInv, Sound, [Accept!Next]_acceptVars PROVE Sound'
  OBVIOUS
<1> SUFFICES ASSUME Accept!Assembled, NEW k \in Accept!Jobs
             PROVE  fragment'[k] # "failed" /\ ~probing'[k].bad
  <2>1. tree' = tree
    BY TreeKept
  <2>2. Accept!Jobs' = Accept!Jobs /\ Accept!Assembled' = Accept!Assembled
    BY <2>1, TreeStays
  <2> QED
    BY <2>2 DEF Sound
<1>1. /\ tree \in Trees /\ fragment = [j \in Accept!Jobs |-> fragment[j]]
      /\ probing \in [Accept!Jobs -> Asking] /\ fragment[k] # "failed" /\ ~probing[k].bad
  BY DEF VerdictInv, JobShape, Sound
\* A step that replaces one job's fragment and probing by such as have not failed.
<1>2. ASSUME NEW j \in Accept!Jobs, NEW f, NEW r, f # "failed", ~r.bad,
             fragment' = [fragment EXCEPT ![j] = f], probing' = [probing EXCEPT ![j] = r]
      PROVE  fragment'[k] # "failed" /\ ~probing'[k].bad
  <2>1. (k = j => fragment'[k] = f /\ probing'[k] = r)
        /\ (k # j => fragment'[k] = fragment[k] /\ probing'[k] = probing[k])
    BY <1>1, <1>2
  <2> QED
    BY <2>1, <1>1, <1>2
<1>3. \A j \in Accept!Jobs : /\ probing = [probing EXCEPT ![j] = probing[j]]
                             /\ fragment = [fragment EXCEPT ![j] = fragment[j]]
                             /\ ~probing[j].bad /\ fragment[j] # "failed"
  BY <1>1 DEF Sound
<1>4. CASE Accept!PhaseA
  <2>1. fragment' = [fragment EXCEPT ![Accept!All] = IF Checked THEN "passed" ELSE "failed"]
        /\ probing' = probing
    BY <1>4 DEF Accept!PhaseA, Accept!Write, Checked
  <2>2. fragment' = [fragment EXCEPT ![Accept!All] = "passed"]
    BY <2>1, <1>1, WholeIsChecked
  <2>3. Accept!All \in Accept!Jobs
    BY AllApart
  <2> QED
    BY <2>1, <2>2, <2>3, <1>2, <1>3
<1>5. ASSUME NEW j \in Accept!Jobs, Accept!Step0(j) PROVE fragment'[k] # "failed" /\ ~probing'[k].bad
  <2>1. /\ probing' = probing
        /\ fragment' = [fragment EXCEPT ![j] = IF Accept!Precondition THEN "step0" ELSE "failed"]
    BY <1>5 DEF Accept!Step0, Accept!Write
  <2>2. fragment' = [fragment EXCEPT ![j] = "step0"]
    BY <2>1, <1>1, WholeStarts
  <2> QED
    BY <2>1, <2>2, <1>2, <1>3
<1>6. ASSUME NEW j \in Accept!Jobs, Accept!Walltime(j) PROVE fragment'[k] # "failed" /\ ~probing'[k].bad
  <2>1. probing' = [probing EXCEPT ![j] = Accept!Off] /\ fragment' = fragment /\ ~Accept!Off.bad
    BY <1>6 DEF Accept!Walltime, Accept!Off
  <2> QED
    BY <2>1, <1>2, <1>3
<1>7. ASSUME NEW c \in Accept!CellKeys, Accept!ProbeCell(c) PROVE fragment'[k] # "failed" /\ ~probing'[k].bad
  <2>1. PICK r \in Asking : ~r.bad /\ probing' = [probing EXCEPT ![c] = r]
    BY <1>7, SamplesTell
  <2>2. fragment' = fragment /\ c \in Accept!Jobs
    BY <1>7, AllApart DEF Accept!ProbeCell
  <2> QED
    BY <2>1, <2>2, <1>2, <1>3
<1>8. ASSUME NEW c \in Accept!CellKeys, Accept!Probe(c) PROVE fragment'[k] # "failed" /\ ~probing'[k].bad
  <2> DEFINE left == probing[c].left
             p == Head(left)[1]
             o == Head(left)[2]
  <2>1. /\ c \in Accept!Jobs /\ probing[c] \in Asking /\ ~probing[c].bad /\ left \in Seq(ProbePlaces) /\ left # <<>>
        /\ fragment' = fragment
    BY <1>1, <1>3, <1>8, AllApart DEF Asking, Accept!Probe
  <2>2. p \in Nat \ {0} /\ o \in Nat \ {0}
    <3>1. Head(left) \in ProbePlaces
      BY <2>1, HeadTailProperties
    <3> QED
      BY <3>1 DEF ProbePlaces
  <2>3. probing' = [probing EXCEPT ![c].left = Tail(@), ![c].bad = @ \/ FALSE]
    <3>1. CASE o > Len(Accept!Stored(c, p))
                  /\ probing' = [probing EXCEPT ![c].left = Tail(@), ![c].bad = @ \/ FALSE]
      BY <3>1
    <3>2. CASE /\ o <= Len(Accept!Stored(c, p))
               /\ \E hits \in Accept!Hits(Accept!Parts(c)[p], tree.vector[Accept!Stored(c, p)[o]]) :
                     probing' = [probing EXCEPT ![c].left = Tail(@), ![c].bad = @ \/
                         ~Accept!Explained(Accept!Parts(c)[p], Accept!Stored(c, p)[o],
                                           tree.vector[Accept!Stored(c, p)[o]], hits)]
      <4>1. PICK hits \in Accept!Hits(Accept!Parts(c)[p], tree.vector[Accept!Stored(c, p)[o]]) :
                     probing' = [probing EXCEPT ![c].left = Tail(@), ![c].bad = @ \/
                         ~Accept!Explained(Accept!Parts(c)[p], Accept!Stored(c, p)[o],
                                           tree.vector[Accept!Stored(c, p)[o]], hits)]
        BY <3>2
      <4>2. Accept!Explained(Accept!Parts(c)[p], Accept!Stored(c, p)[o],
                             tree.vector[Accept!Stored(c, p)[o]], hits)
        <5> HIDE DEF p, o
        <5> QED
          BY <3>2, <2>2, <1>1, WholeExplained
      <4> QED
        BY <4>1, <4>2
    <3> QED
      BY <3>1, <3>2, <1>8 DEF Accept!Probe
  <2> DEFINE r == [probing[c] EXCEPT !.left = Tail(left), !.bad = probing[c].bad \/ FALSE]
  <2>4. probing' = [probing EXCEPT ![c] = r]
    BY <2>3, <2>1, <1>1
  <2>5. Tail(left) \in Seq(ProbePlaces)
    BY <2>1, HeadTailProperties
  <2>6. r.bad = FALSE
    BY <2>1, <2>5 DEF Asking
  <2> HIDE DEF r
  <2> QED
    BY <2>1, <2>4, <2>6, <1>2, <1>3
<1>9. ASSUME NEW c \in Accept!CellKeys, Accept!Probed(c) PROVE fragment'[k] # "failed" /\ ~probing'[k].bad
  <2>1. c \in Accept!Jobs /\ ~probing[c].bad
    BY <1>3, AllApart
  <2>2. fragment' = [fragment EXCEPT ![c] = "passed"] /\ probing' = [probing EXCEPT ![c] = Accept!Off]
    BY <1>9, <2>1 DEF Accept!Probed, Accept!Write
  <2>3. ~Accept!Off.bad
    BY DEF Accept!Off
  <2> QED
    BY <2>1, <2>2, <2>3, <1>2
<1>10. CASE UNCHANGED acceptVars
  BY <1>10, <1>1 DEF acceptVars
<1> QED
  BY <1>4, <1>5, <1>6, <1>7, <1>8, <1>9, <1>10 DEF Accept!Next

\* The acceptance pass takes no index that is not the table's, and fails none that
\* was assembled right (acceptance.py), however its jobs are stopped and sent again.
THEOREM VerdictIsTrue == MCSpec => []Verdict
<1> DEFINE Inv == machine = "accept" => VerdictInv /\ Sound
<1>1. MCInit => Inv
  BY VerdictInitial, SoundInitial DEF MCInit
<1>2. Inv /\ [MCNext]_<<machine, vars, docVars, shardVars, fusedVars, acceptVars, releaseVars>> => Inv'
  <2>1. [MCNext]_<<machine, vars, docVars, shardVars, fusedVars, acceptVars, releaseVars>> =>
            (machine' = "accept" => machine = "accept" /\ [Accept!Next]_acceptVars)
    BY DEF MCNext, IndexRuns, DocRuns, ShardRuns, FusedRuns, AcceptRuns, ReleaseRuns
  <2> QED
    BY <2>1, VerdictInductive, SoundInductive
<1>3. Inv => Verdict
  <2>1. Sound => Accept!SoundPasses
    BY DEF Sound, Accept!SoundPasses
  <2> QED
    BY <2>1, VerdictSays DEF Verdict, Accept!Verdict
<1> QED
  BY <1>1, <1>2, <1>3, PTL DEF MCSpec
=============================================================================
