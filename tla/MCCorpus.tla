------------------------------ MODULE MCCorpus ------------------------------
(* The corpus side: the assembly of the index, a document through the text    *)
(* stages, the shard plan, the fused index build, the acceptance pass and the *)
(* dataset release. The six share no state; a behaviour runs the one its      *)
(* first state picks while the others stand still. Bounds and inputs of each  *)
(* are given here.                                                            *)
EXTENDS IndexAssembly, TLC

CONSTANTS fr, en, dense, late, b1, b2

VARIABLE machine   \* "index", "doc", "shard", "fused", "accept" or "release"

-----------------------------------------------------------------------------
(* IndexAssembly: a cell of two blocks and one of one block, two legs, two    *)
(* builders. Kills, or two builders on one directory, never both.             *)

TwoCells  == fr :> 2 @@ en :> 1
TwoLegs   == <<dense, late>>

Quiet == [widths |-> <<2>>, torn |-> FALSE, kills |-> 0, yanks |-> 0]
Kept  == {[Quiet EXCEPT !.widths = <<1>>, !.kills = 1],
          [Quiet EXCEPT !.yanks = 1],
          [Quiet EXCEPT !.widths = <<2, 1>>],
          [Quiet EXCEPT !.widths = <<1, 2>>, !.torn = TRUE]}

-----------------------------------------------------------------------------
(* DocumentPipeline: documents of four sentences.                             *)

CONSTANTS Texts, MinTokens, UnitCap, MayCross, MaySplit, Faults, MaxDamaged, Budget, NearFull, PackOverlap, Growths
ASSUME TextsAssumption ==
    /\ MayCross \in BOOLEAN /\ MaySplit \in BOOLEAN
    /\ MinTokens \in Nat /\ UnitCap \in Nat /\ MaxDamaged \in Nat
    /\ Budget \in Nat \ {0} /\ NearFull \in Nat /\ PackOverlap \in Nat /\ Growths \subseteq Nat

VARIABLES doc, dstage, units, unit, raw, expect, finals, lens, cur, fill, passages, dstore

Tokens(counts, joint) ==
    [span \in (1 .. Len(counts)) \X (1 .. Len(counts)) |->
        FoldLeft(LAMBDA sum, s : sum + s, 0, SubSeq(counts, span[1], span[2]))
        - joint * (IF span[2] > span[1] THEN span[2] - span[1] ELSE 0)]

Text(english, para, counts, marked, joint) ==
    [english |-> english, para |-> para, tokens |-> Tokens(counts, joint), marked |-> marked]

\* Two paragraphs of two sentences, or a heading between two paragraphs; short,
\* fair and long sentences; a source that carries the marker; a tokenizer that
\* joins what it counts together.
SomeDocs ==
    {Text(FALSE, <<0, 1, 2, 2>>, c, {}, 0) : c \in [1 .. 4 -> {1, 2, 4}]}
    \cup {Text(FALSE, <<0, 0, 1, 1>>, c, {2}, 0) : c \in [1 .. 4 -> {1, 2, 4}]}
    \cup {Text(FALSE, <<0, 0, 1, 1>>, c, {}, 1) : c \in [1 .. 4 -> {1, 4}]}
    \cup {Text(TRUE, <<0, 0, 1, 1>>, c, {2}, 0) : c \in [1 .. 4 -> {1, 4, 7}]}

Doc == INSTANCE DocumentPipeline
    WITH Docs <- Texts, Floor <- MinTokens, Cap <- UnitCap, Crossing <- MayCross, SplitBack <- MaySplit,
         MTFaults <- Faults, Near <- NearFull, Overlap <- PackOverlap, Growth <- Growths,
         stage <- dstage, store <- dstore

-----------------------------------------------------------------------------
(* ShardPlan: up to three documents, any of which one table may lack.         *)

CONSTANTS StageTables, ShardNumbers, RowGroups

\* A stage is asked for a shard at least, a row group holds a row at least, and the
\* second table of a stage has rows only of documents that the work table has.
ASSUME TablesAssumption ==
    /\ StageTables \subseteq Seq([work : Nat, sub : Nat])
    /\ \A c \in StageTables : \A d \in DOMAIN c : c[d].work = 0 => c[d].sub = 0
    /\ ShardNumbers \subseteq Nat \ {0} /\ RowGroups \subseteq Nat \ {0}

VARIABLES corpus, asked, parent, group, phase, at, ranges, target, docFrom, subFrom, docsRead, worker

SomeCorpora ==
    UNION {[1 .. n -> {d \in [work : 0 .. 5 - n, sub : 0 .. 2] : d.work = 0 => d.sub = 0}] : n \in 1 .. 3}

Shard == INSTANCE ShardPlan
    WITH Corpora <- StageTables, ShardCounts <- ShardNumbers, Groups <- RowGroups, i <- at

-----------------------------------------------------------------------------
(* FusedIndex: shared English of two parts and a language of one in two       *)
(* renderings; the table is packed again with other English passages, then    *)
(* with one fewer, which leaves one part.                                     *)

CONSTANTS Packings, FusedCells, FusedRenderings, FusedLegs, FusedPart, MaxParts, FusedKills
ASSUME LegsAssumption == 1 \in DOMAIN FusedLegs

VARIABLES table, fqueue, leg, census, receipt, fworker, manifest, fkills

Passage(id, lang, tokens) == [id |-> id, lang |-> lang, tokens |-> tokens]
Packed(ids) == {Passage(k, "en", 1) : k \in ids} \cup {Passage(9, "fr", 1)}
ThreePackings  == <<Packed({0, 1}), Packed({1, 2}), Packed({1})>>
FrenchTwice    == {<<"original", "fr">>, <<"mt", "fr">>, <<"shared", "en">>}
BothRenderings == {"original", "mt"}
DenseLate      == <<"dense", "late">>

Fused == INSTANCE FusedIndex
    WITH Tables <- Packings, Cells <- FusedCells, Renderings <- FusedRenderings, Legs <- FusedLegs,
         PartSize <- FusedPart, MaxKills <- FusedKills,
         queue <- fqueue, worker <- fworker, kills <- fkills

-----------------------------------------------------------------------------
(* Acceptance: a language of four passages in two renderings, cut into parts  *)
(* of three, with equal vectors or not; whole, or damaged in one place.       *)

CONSTANTS Trees, TreeRenderings, TreePart, Floor, Ceiling, PartsPerCell, PassagesPerPart, TopK

\* What a part's files say of it, by type.
PartFiles ==
    [ids : [{"dense", "sparse", "late"} -> Seq(Nat)], vectors : Seq(Int),
     stated : [part : Nat, parts : Nat, count : Nat]]
ASSUME TreesAssumption ==
    /\ \A t \in Trees :
          /\ "en" \in DOMAIN t.rows
          /\ \A lang \in DOMAIN t.rows :
                /\ t.rows[lang] \in Seq(Nat) /\ IsInjective(t.rows[lang])
                /\ \A o \in DOMAIN t.rows[lang] : t.vector[t.rows[lang][o]] \in Int
          /\ \A c \in {<<"shared", "en">>} \cup TreeRenderings \X (DOMAIN t.rows \ {"en"}) :
                /\ c \in DOMAIN t.cell /\ t.cell[c] \in Seq(PartFiles)
                /\ \A p \in DOMAIN t.cell[c] : Len(t.cell[c][p].vectors) = Len(t.cell[c][p].ids["dense"])
    /\ TreeRenderings # {} /\ "every cell" \notin TreeRenderings   \* Acceptance!All
    /\ TreePart \in Nat \ {0} /\ PassagesPerPart \in Nat /\ PartsPerCell \in Nat /\ TopK \in Nat \ {0}

VARIABLES tree, fragment, probing, alarms

AccCells == {<<"shared", "en">>, <<"omt", "fr">>, <<"opus", "fr">>}
AccLegs  == {"dense", "sparse", "late"}
AccRows  == "en" :> <<1>> @@ "fr" :> <<2, 3, 4, 5>>

CellPart(ids, v, p, n) ==
    [ids |-> [l \in AccLegs |-> ids], vectors |-> [r \in DOMAIN ids |-> v[ids[r]]],
     stated |-> [part |-> p, parts |-> n, count |-> Len(ids)]]
CellParts(ids, v, size) ==
    LET n == (Len(ids) + size - 1) \div size
    IN [p \in 1 .. n |->
            CellPart(SubSeq(ids, (p - 1) * size + 1, IF p = n THEN Len(ids) ELSE p * size), v, p, n)]
Tree(v) ==
    [rows |-> AccRows, vector |-> v, config |-> TRUE, signals |-> 1,
     cell |-> [c \in AccCells |-> CellParts(AccRows[c[2]], v, 3)]]

Swapped(s, r, t) == [s EXCEPT ![r] = s[t], ![t] = s[r]]
AccOne == <<"omt", "fr">>
\* A leg in another order, a leg or its census without its first row, a part
\* that repeats a passage of another, other bounds, a row missing from every
\* rendering, a vector of no passage, a part missing or written twice, another
\* config's manifest.
Damaged(t) ==
    LET first == t.cell[AccOne][1] IN
    {[t EXCEPT !.cell[AccOne][1].ids[l] = Swapped(@, 1, r)] : l \in AccLegs, r \in {2, 3}}
    \cup {[t EXCEPT !.cell[AccOne][1] = [first EXCEPT !.ids[l] = Tail(@), !.stated.count = n,
                !.vectors = IF l = "dense" THEN Tail(@) ELSE @]] : l \in AccLegs, n \in {2, 3}}
    \cup {[t EXCEPT !.cell[AccOne][2] = CellPart(<<2>>, t.vector, 2, 2)],
          [t EXCEPT !.cell = [c \in AccCells |-> CellParts(AccRows[c[2]], t.vector, 2)]],
          [t EXCEPT !.cell[AccOne] = CellParts(<<2, 4, 3, 5>>, t.vector, 3)],
          [t EXCEPT !.cell[AccOne] = CellParts(<<2, 3, 4>>, t.vector, 3),
                    !.cell[<<"opus", "fr">>] = CellParts(<<2, 3, 4>>, t.vector, 3)],
          [t EXCEPT !.cell[AccOne][1].vectors[1] = 9],
          [t EXCEPT !.cell[AccOne] = <<first>>],
          [t EXCEPT !.cell[AccOne] = <<first, first>>],
          [t EXCEPT !.config = FALSE]}

SomeTrees ==
    UNION {{Tree(v)} \cup {[t EXCEPT !.signals = 0] : t \in Damaged(Tree(v))} :
              v \in {<<1, 1, 1, 1, 1>>, <<1, 1, 1, 2, 2>>, <<1, 1, 2, 3, 4>>, <<1, 1, 2, 1, 2>>}}

TwoMT == {"omt", "opus"}

Accept == INSTANCE Acceptance WITH Renderings <- TreeRenderings, PartSize <- TreePart

-----------------------------------------------------------------------------
(* DatasetRelease: a table of sentences and one of passages. Commands in any  *)
(* order over two documents, then the plan alone over three.                  *)

VARIABLES rscen, plan, files, receipts, card, rtask, push, outgoing, hub

Release(split, bytes, sentences, passes, foreign, array, kills, forced) ==
    [split |-> split, bytesTo |-> bytes,
     table |-> [c \in {"sentences", "passages"} |-> IF c = "sentences" THEN sentences ELSE passes],
     foreign |-> foreign, tasks |-> array, kills |-> kills, forced |-> forced]
\* Documents repeated as often as they have rows; bytes before each document.
RowsOf(counts) == FlattenSeq([d \in DOMAIN counts |-> [r \in 1 .. counts[d] |-> d]])
Sums(sizes) == [d \in 1 .. Len(sizes) + 1 |-> FoldLeft(LAMBDA x, y : x + y, 0, SubSeq(sizes, 1, d - 1))]

SomeReleases ==
    {Release(<<1, 1>>, <<0, 2, 3>>, <<1, 2>>, <<>>, FALSE, 2, 1, 0),
     Release(<<1, 1>>, <<0, 2, 3>>, <<1, 2>>, <<>>, FALSE, 2, 0, 1),
     Release(<<1, 2>>, <<0, 2, 3>>, <<1, 2>>, <<1>>, TRUE, 1, 1, 0),
     Release(<<1, 1>>, <<0, 2, 3>>, <<1, 2>>, <<>>, TRUE, 2, 1, 0),
     Release(<<1>>, <<0, 2>>, <<1>>, <<1>>, FALSE, 1, 1, 1)}
    \cup {Release(split, Sums(sizes), RowsOf(s), RowsOf(p), FALSE, 0, 0, 0) :
            split \in {<<1, 1, 1>>, <<1, 1, 2>>, <<1, 2, 1>>}, sizes \in [1 .. 3 -> {1, 2}],
            s \in [1 .. 3 -> 0 .. 2], p \in {<<1, 1, 1>>, <<0, 2, 3>>}}

Dataset == INSTANCE DatasetRelease
    WITH Configs <- <<"sentences", "passages">>, Cap <- 2, Scenarios <- SomeReleases,
         scen <- rscen, task <- rtask

-----------------------------------------------------------------------------
docVars     == <<doc, dstage, units, unit, raw, expect, finals, lens, cur, fill, passages, dstore>>
shardVars   ==
    <<corpus, asked, parent, group, phase, at, ranges, target, docFrom, subFrom, docsRead, worker>>
fusedVars   == <<table, fqueue, leg, census, receipt, fworker, manifest, fkills>>
acceptVars  == <<tree, fragment, probing, alarms>>
releaseVars == <<rscen, plan, files, receipts, card, rtask, push, outgoing, hub>>

DocIdle ==
    /\ doc = "idle" /\ dstage = "idle" /\ units = "idle" /\ unit = "idle" /\ raw = "idle" /\ expect = "idle"
    /\ finals = "idle" /\ lens = "idle" /\ cur = "idle" /\ fill = "idle" /\ passages = "idle" /\ dstore = "idle"
ShardIdle ==
    /\ corpus = "idle" /\ asked = "idle" /\ parent = "idle" /\ group = "idle" /\ phase = "idle" /\ at = "idle"
    /\ ranges = "idle" /\ target = "idle" /\ docFrom = "idle" /\ subFrom = "idle" /\ docsRead = "idle" /\ worker = "idle"
AcceptIdle == tree = "idle" /\ fragment = "idle" /\ probing = "idle" /\ alarms = "idle"
ReleaseIdle ==
    /\ rscen = "idle" /\ plan = "idle" /\ files = "idle" /\ receipts = "idle" /\ card = "idle"
    /\ rtask = "idle" /\ push = "idle" /\ outgoing = "idle" /\ hub = "idle"

MCInit ==
    /\ machine \in {"index", "doc", "shard", "fused", "accept", "release"}
    /\ Init /\ Fused!Init
    /\ machine = "index" \/ scen = [Quiet EXCEPT !.yanks = 1]
    /\ IF machine = "doc" THEN Doc!Init ELSE DocIdle
    /\ IF machine = "shard" THEN Shard!Init ELSE ShardIdle
    /\ IF machine = "accept" THEN Accept!Init ELSE AcceptIdle
    /\ IF machine = "release" THEN Dataset!Init ELSE ReleaseIdle

IndexRuns ==
    /\ machine = "index" /\ Next
    /\ UNCHANGED <<machine, docVars, shardVars, fusedVars, acceptVars, releaseVars>>
DocRuns ==
    /\ machine = "doc" /\ Doc!Next
    /\ UNCHANGED <<machine, vars, shardVars, fusedVars, acceptVars, releaseVars>>
ShardRuns ==
    /\ machine = "shard" /\ Shard!Next
    /\ UNCHANGED <<machine, vars, docVars, fusedVars, acceptVars, releaseVars>>
FusedRuns ==
    /\ machine = "fused" /\ Fused!Next
    /\ UNCHANGED <<machine, vars, docVars, shardVars, acceptVars, releaseVars>>
AcceptRuns ==
    /\ machine = "accept" /\ Accept!Next
    /\ UNCHANGED <<machine, vars, docVars, shardVars, fusedVars, releaseVars>>
ReleaseRuns ==
    /\ machine = "release" /\ Dataset!Next
    /\ UNCHANGED <<machine, vars, docVars, shardVars, fusedVars, acceptVars>>

MCNext == IndexRuns \/ DocRuns \/ ShardRuns \/ FusedRuns \/ AcceptRuns \/ ReleaseRuns

\* The fairness of IndexAssembly!FairSpec.
IndexFair ==
    /\ WF_vars(machine = "index" /\ SeedVectorize /\ UNCHANGED <<read, held>>)
    /\ WF_vars(machine = "index" /\ (DriveVectorize \/ DriveAssemble))
    /\ \A b \in Builders : WF_vars(machine = "index" /\ Steps(b))

MCSpec ==
    /\ MCInit
    /\ [][MCNext]_<<machine, vars, docVars, shardVars, fusedVars, acceptVars, releaseVars>>
    /\ IndexFair

-----------------------------------------------------------------------------
(* Properties: those of the machine that runs, as its own module states them; *)
(* MarkedWhole and IndexExact are IndexAssembly's.                            *)

\* The build comes to an end.
IndexEnds == machine = "index" => BuildEnds

\* A translation unit crosses a paragraph boundary only by a whole paragraph.
MergeLocal == machine = "doc" => Doc!MergeLocal

\* English text is of the spine sentences it is filed under, or absent.
EnglishOwn == machine = "doc" => Doc!EnglishOwn

\* Passages cover the document, overlap only at their edges and fit the budget,
\* and no stage refuses what the stages before it made.
CitableWhole == machine = "doc" => Doc!CitableWhole /\ Doc!NeverRefused

\* A sharded stage writes the table that one worker would, in no more shards than
\* asked for.
ShardFree == machine = "shard" => Shard!ShardFree /\ Shard!PlanHolds

\* A manifest names legs that are the table it was merged under.
ManifestExact == machine = "fused" => Fused!ManifestExact

\* An accepted index is the table's, and a sound one fails no job.
Verdict == machine = "accept" => Accept!Verdict

\* Release shards are whole documents of one language and all the rows, and what
\* push leaves on the Hub holds every row, and once while the names of a split agree
\* on its number of files.
ReleaseExact == machine = "release" => Dataset!PlanExact /\ Dataset!HubWhole
=============================================================================
