--------------------------- MODULE DatasetRelease ---------------------------
(* The release of the sentence collection (analysis/upload_dataset.py): plan  *)
(* cuts every source table into shards, one task per shard writes one file    *)
(* and its receipt, card checks what is staged, push sends what the Hub does  *)
(* not hold. Tasks run side by side and are killed; every command may be run  *)
(* again. Rows are numbered from 0.                                           *)
EXTENDS Integers, FiniteSets, Sequences, SequencesExt, FiniteSetsExt, Functions, Folds

CONSTANTS
    Configs,     \* published tables, in order; the first slices text out of documents
    Cap,         \* SHARD_CAP_RAW_BYTES
    Scenarios    \* what is released: see Scenario

\* The source: the language of each document, the bytes of the document table
\* before each of them, and for every table the document of each row; foreign: a
\* set of files built by something else is staged; tasks: conversions that run side
\* by side; kills, forced: tasks killed, tasks started with --force.
Scenario ==
    [split : Seq(Nat), bytesTo : Seq(Nat), table : [Range(Configs) -> Seq(Nat)],
     foreign : BOOLEAN, tasks : Nat, kills : Nat, forced : Nat]

VARIABLES
    scen,
    plan,      \* plan.json: shards in the order of their indices, or NoPlan
    files,     \* staging directory: path -> rows the file holds
    receipts,  \* _state: path -> what was in the file
    card,      \* README.md is staged
    task,      \* task -> [at, shard]
    push,      \* "idle", "send" or "done"
    outgoing,  \* paths push has still to send
    hub        \* the repository: path -> rows the file holds

vars == <<scen, plan, files, receipts, card, task, push, outgoing, hub>>

Tasks  == 1 .. scen.tasks
NoPlan == <<>>
NoTask == [at |-> "idle", shard |-> <<>>]
Without(f, p)  == [q \in DOMAIN f \ {p} |-> f[q]]
With(f, p, v)  == [q \in DOMAIN f \cup {p} |-> IF q = p THEN v ELSE f[q]]

-----------------------------------------------------------------------------
(* plan_config                                                                *)

Splits      == Range(scen.split)
Needs(c)    == c = Configs[1]
Total(c)    == Len(scen.table[c])
DocOf(c, r) == scen.table[c][r + 1]

\* document_starts: rows at which a new document begins.
Starts(c) == {r \in 0 .. Total(c) - 1 : r = 0 \/ DocOf(c, r) # DocOf(c, r - 1)}
\* bisect_right(starts, row) - 1
StartIndex(c, r) == Cardinality({x \in Starts(c) : x <= r}) - 1

\* split_runs: the block of each language; two blocks of one are refused.
RowsIn(c, s)   == {r \in 0 .. Total(c) - 1 : scen.split[DocOf(c, r)] = s}
RunStart(c, s) == Min(RowsIn(c, s))
RunEnd(c, s)   == Max(RowsIn(c, s)) + 1
Contiguous(c)  == \A s \in Splits : RowsIn(c, s) # {} => RowsIn(c, s) = RunStart(c, s) .. RunEnd(c, s) - 1

\* For the table whose text is in the documents, a row stands for the document of
\* the same number among those that have rows; else a byte a row.
BudgetAt(c, r) == IF Needs(c) THEN scen.bytesTo[StartIndex(c, r) + 1] ELSE r

Cut(c, acc, r) ==
    IF BudgetAt(c, r) - acc.anchor >= Cap
    THEN [cuts |-> Append(acc.cuts, r), anchor |-> BudgetAt(c, r)]
    ELSE acc

Cuts(c, s) ==
    LET inner == SetToSortSeq({x \in Starts(c) : RunStart(c, s) < x /\ x < RunEnd(c, s)}, <)
        start == [cuts |-> <<RunStart(c, s)>>, anchor |-> BudgetAt(c, RunStart(c, s))]
    IN Append(FoldLeft(LAMBDA acc, r : Cut(c, acc, r), start, inner).cuts, RunEnd(c, s))

Bug_DocumentStart(c, from) == StartIndex(c, from) + 1

\* document_start: where the reader of the document table begins, counted from 0.
DocumentStart(c, from) == StartIndex(c, from)

\* A name carries the number of files of its split.
ShardsOf(c, s) ==
    LET cuts == Cuts(c, s)
        n    == Len(cuts) - 1
    IN [i \in 1 .. n |->
          [path |-> <<c, s, i - 1, n>>, rows |-> cuts[i + 1] - cuts[i],
           from |-> cuts[i], to |-> cuts[i + 1],
           reader |-> DocumentStart(c, cuts[i]), adopted |-> FALSE]]

InOrder(S) == SetToSortSeq(S, <)
PlanConfig(c) ==
    FlattenSeq([i \in 1 .. Cardinality({s \in Splits : RowsIn(c, s) # {}}) |->
                  ShardsOf(c, InOrder({s \in Splits : RowsIn(c, s) # {}})[i])])

\* adopt_built: a complete set of files is taken as it stands: the names agree on
\* how many there are, no ordinal is missing, and the rows sum to the source's.
Staged(c) == {p \in DOMAIN files : p[1] = c}
Count(f)  == f.to - f.from
NamesAgree(paths) == \A p, q \in paths : p[2] = q[2] => p[4] = q[4]
Adoptable(c) ==
    /\ Staged(c) # {} /\ NamesAgree(Staged(c))
    /\ \A p \in Staged(c) : \A i \in 0 .. p[4] - 1 : <<c, p[2], i, p[4]>> \in Staged(c)
    /\ FoldFunction(+, 0, [p \in Staged(c) |-> Count(files[p])]) = Total(c)
PathBefore(p, q) == p[2] < q[2] \/ (p[2] = q[2] /\ p[3] < q[3])
Adopted(c) ==
    LET paths == SetToSortSeq(Staged(c), PathBefore)
    IN [i \in DOMAIN paths |->
          [path |-> paths[i], rows |-> Count(files[paths[i]]),
           from |-> 0, to |-> 0, reader |-> 0, adopted |-> TRUE]]

Planned(p) == \E i \in DOMAIN plan : plan[i].path = p
Carried(c) == SelectSeq(plan, LAMBDA s : s.path[1] = c)

\* cmd_plan; a config that is not replanned keeps what the plan had. adopt: the
\* command was given without --no-adopt.
Plan(only, adopt) ==
    LET taken(c) == adopt /\ Adoptable(c) IN
    /\ \A c \in only : taken(c) \/ Contiguous(c)
    /\ plan' = FlattenSeq([i \in DOMAIN Configs |->
                  LET c == Configs[i] IN
                  IF c \notin only THEN Carried(c)
                  ELSE IF taken(c) THEN Adopted(c) ELSE PlanConfig(c)])
    /\ UNCHANGED <<scen, files, receipts, card, task, push, outgoing, hub>>

-----------------------------------------------------------------------------
(* cmd_convert                                                                *)

Size(f) == Count(f)   \* files of different rows may be of one size

\* already_built: a receipt whose size matches the file's.
AlreadyBuilt(p) ==
    p \in DOMAIN receipts /\ p \in DOMAIN files /\ Size(receipts[p]) = Size(files[p])

At(t, place) == task[t].at = place
Move(t, place) == task' = [task EXCEPT ![t].at = place]

Start(t) ==
    /\ At(t, "idle") /\ plan # NoPlan
    /\ \E i \in DOMAIN plan, forced \in BOOLEAN :
          /\ forced => scen.forced > 0
          /\ scen' = IF forced THEN [scen EXCEPT !.forced = @ - 1] ELSE scen
          /\ forced \/ ~AlreadyBuilt(plan[i].path)
          /\ task' = [task EXCEPT ![t] =
                [at |-> IF plan[i].adopted THEN "receipt" ELSE "write", shard |-> plan[i]]]
    /\ UNCHANGED <<plan, files, receipts, card, push, outgoing, hub>>


\* ShardWriter: a temporary beside the destination. convert_sentences advances
\* the document reader until it meets the document of the row.
Write(t) ==
    LET s == task[t].shard
        found == Needs(s.path[1]) =>
                    \A r \in s.from .. s.to - 1 : DocOf(s.path[1], r) - 1 >= s.reader
    IN
    /\ At(t, "write")
    /\ IF found THEN Move(t, "replace") ELSE task' = [task EXCEPT ![t] = NoTask]
    /\ UNCHANGED <<scen, plan, files, receipts, card, push, outgoing, hub>>

Replace(t) ==
    LET s == task[t].shard IN
    /\ At(t, "replace")
    /\ files' = With(files, s.path, [of |-> s.path[1], from |-> s.from, to |-> s.to])
    /\ Move(t, "receipt")
    /\ UNCHANGED <<scen, plan, receipts, card, push, outgoing, hub>>

\* write_receipt describes the file as it is on disk; an adopted file may be gone.
Receipt(t) ==
    LET p == task[t].shard.path IN
    /\ At(t, "receipt")
    /\ receipts' = IF p \in DOMAIN files THEN With(receipts, p, files[p]) ELSE receipts
    /\ task' = [task EXCEPT ![t] = NoTask]
    /\ UNCHANGED <<scen, plan, files, card, push, outgoing, hub>>

Kill(t) ==
    /\ ~At(t, "idle") /\ scen.kills > 0
    /\ scen' = [scen EXCEPT !.kills = @ - 1]
    /\ task' = [task EXCEPT ![t] = NoTask]
    /\ UNCHANGED <<plan, files, receipts, card, push, outgoing, hub>>

-----------------------------------------------------------------------------
(* cmd_card, cmd_push                                                         *)

\* staged_rows: a split whose names agree and are all there must hold the rows
\* the card declares, any other at most as many.
CardHolds(c, s) ==
    LET mine == {p \in Staged(c) : p[2] = s}
        held == FoldFunction(+, 0, [p \in mine |-> Count(files[p])])
        whole == \A p, q \in mine : p[4] = q[4] /\ Cardinality(mine) = p[4]
        declared == Cardinality(RowsIn(c, s))
    IN mine # {} => IF whole THEN held = declared ELSE held <= declared

Card ==
    /\ ~card
    /\ \A c \in Range(Configs), s \in Splits : CardHolds(c, s)
    /\ card' = TRUE
    /\ UNCHANGED <<scen, plan, files, receipts, task, push, outgoing, hub>>

\* Compared by checksum where there is a receipt, by size otherwise.
Unchanged(p) ==
    /\ p \in DOMAIN hub
    /\ IF p \in DOMAIN receipts THEN hub[p] = receipts[p] ELSE Size(hub[p]) = Size(files[p])

\* A partial release is refused.
PushReady ==
    /\ plan # NoPlan /\ card
    /\ \A i \in DOMAIN plan : plan[i].path \in DOMAIN files

\* A repository that cannot be read is taken for an empty one.
PushStart ==
    /\ push # "send" /\ PushReady
    /\ push' = "send"
    /\ LET paths == {p \in DOMAIN files : Planned(p)}
       IN outgoing' \in {{p \in paths : ~Unchanged(p)}, paths}
    /\ UNCHANGED <<scen, plan, files, receipts, card, task, hub>>

\* upload_folder commits in several batches.
PushFile ==
    /\ push = "send"
    /\ \E p \in outgoing :
          /\ outgoing' = outgoing \ {p}
          /\ hub' = With(hub, p, files[p])
    /\ UNCHANGED <<scen, plan, files, receipts, card, task, push>>

PushEnds ==
    /\ push = "send" /\ outgoing = {}
    /\ push' = "done"
    /\ UNCHANGED <<scen, plan, files, receipts, card, task, outgoing, hub>>

PushBreaks ==
    /\ push = "send" /\ outgoing # {} /\ scen.kills > 0
    /\ scen' = [scen EXCEPT !.kills = @ - 1]
    /\ push' = "idle" /\ outgoing' = {}
    /\ UNCHANGED <<plan, files, receipts, card, task, hub>>

-----------------------------------------------------------------------------
\* Files built by something else: the first table, one file per language.
Foreign ==
    LET c == Configs[1]
        names == {<<c, s, 0, 1>> : s \in {x \in Splits : RowsIn(c, x) # {}}}
    IN [p \in names |-> [of |-> c, from |-> RunStart(c, p[2]), to |-> RunEnd(c, p[2])]]

Empty == [p \in {} |-> <<>>]

Init ==
    /\ scen \in Scenarios
    /\ plan = NoPlan
    /\ files = IF scen.foreign THEN Foreign ELSE Empty
    /\ receipts = Empty /\ hub = Empty
    /\ card = FALSE
    /\ task = [t \in Tasks |-> NoTask]
    /\ push = "idle" /\ outgoing = {}

Next ==
    \/ \E only \in SUBSET Range(Configs) : only # {} /\ \E adopt \in BOOLEAN : Plan(only, adopt)
    \/ \E t \in Tasks : Start(t) \/ Write(t) \/ Replace(t) \/ Receipt(t) \/ Kill(t)
    \/ Card \/ PushStart \/ PushFile \/ PushEnds \/ PushBreaks

Spec == Init /\ [][Next]_vars

-----------------------------------------------------------------------------
(* Properties.                                                                *)

\* A shard is a run of whole documents of one language, the shards of a table are
\* all its rows, once, and the reader of the document table starts at or before
\* the first document a shard needs, whatever documents have no sentences
\* (plan_config, convert_sentences).
PlanExact ==
    plan # NoPlan =>
        /\ \A i \in DOMAIN plan :
              LET s == plan[i]
                  c == s.path[1]
              IN ~s.adopted =>
                    /\ s.from \in Starts(c)
                    /\ s.to \in Starts(c) \cup {Total(c)}
                    /\ \A r \in s.from .. s.to - 1 :
                          /\ scen.split[DocOf(c, r)] = s.path[2]
                          /\ Needs(c) => DocOf(c, r) - 1 >= s.reader
        /\ \A c \in Range(Configs) :
              (\E i \in DOMAIN plan : plan[i].path[1] = c) =>
                  FoldFunction(+, 0, [i \in {j \in DOMAIN plan : plan[j].path[1] = c} |-> plan[i].rows])
                      = Total(c)

\* After a push that ended, every row of every table on the Hub is in one of its
\* files: in exactly one, through killed conversions, two tasks on one shard,
\* broken pushes, replans of some tables and adopted files, unless the names of a
\* split count its files in two ways. A replan with --no-adopt may rename what was
\* pushed, and push deletes no file.
HubWhole ==
    push = "done" =>
        \A c \in Range(Configs) :
            LET mine == {p \in DOMAIN hub : p[1] = c}
                holding(r) == {p \in mine : hub[p].from <= r /\ r < hub[p].to}
            IN mine # {} =>
                  \A r \in 0 .. Total(c) - 1 :
                      /\ holding(r) # {}
                      /\ NamesAgree(mine) => Cardinality(holding(r)) = 1
=============================================================================
