------------------------------ MODULE ShardPlan ------------------------------
(* How a corpus stage is cut into shards and put together again               *)
(* (preprocess/spine.py, reconcile.py, len_max.py, common/io.py). One scan    *)
(* cuts the work table into row ranges at document changes; one forward walk  *)
(* finds the range of every shard in a second table, which holds rows of only *)
(* some of the documents; each worker then streams its two ranges together,   *)
(* and the parts are concatenated by name. Rows are numbered from 0.          *)
EXTENDS Integers, Sequences, SequencesExt, FiniteSets

CONSTANTS
    Corpora,     \* sequences of documents [work, sub]: their rows in each table
    ShardCounts, \* numbers of shards asked for
    Groups       \* rows per row group of a parquet file

VARIABLES
    corpus,
    asked,     \* the number of shards asked for
    parent,    \* the table ordinals count in: "documents" or "work"
    group,     \* rows per row group
    phase,
    i,         \* the row the scan in hand is at
    ranges,    \* plan_shards: the row ranges, each [from, to]
    target,    \* the row after which the next range may start
    docFrom,   \* align_documents: where each range starts in documents.parquet
    subFrom,   \* align_document_rows: where each range starts in the sub-table
    docsRead,  \* documents the walk has taken from the parent
    worker     \* per shard: [at, sub, out, done], its two streams and its part

vars == <<corpus, asked, parent, group, phase, i, ranges, target, docFrom, subFrom, docsRead, worker>>
inputs == <<corpus, asked, parent, group>>

Documents == DOMAIN corpus
Rows(field) == FlattenSeq([d \in Documents |-> [k \in 1 .. corpus[d][field] |-> d]])
Work      == Rows("work")
Sub       == Rows("sub")
Doc(table, row) == table[row + 1]
Sum(counts) == FoldLeft(LAMBDA sum, rows : rows + sum, 0, counts)

Init ==
    /\ corpus \in Corpora /\ asked \in ShardCounts
    /\ parent \in {"documents", "work"} /\ group \in Groups
    /\ phase = "plan" /\ i = 0 /\ ranges = <<>> /\ target = 0
    /\ docFrom = <<>> /\ subFrom = <<>> /\ docsRead = 0
    /\ worker = <<>>

-----------------------------------------------------------------------------
(* plan_shards: one row of the work table at a time.                          *)

Total == Len(Work)
Ceil(a, b) == (a + b - 1) \div b
Per   == IF Ceil(Total, asked) > 1 THEN Ceil(Total, asked) ELSE 1

Bug_CutsAtTarget(row) == row >= target /\ row > 0
\* A boundary is due, and a document starts here.
Cuts(row) == row >= target /\ row > 0 /\ Doc(Work, row) # Doc(Work, row - 1)

PlanRow ==
    /\ phase = "plan" /\ i < Total
    /\ IF i = 0 THEN ranges' = <<[from |-> 0, to |-> Total]>> /\ target' = Per
       ELSE IF Cuts(i)
       THEN /\ ranges' = [ranges EXCEPT ![Len(ranges)].to = i] \o <<[from |-> i, to |-> Total]>>
            /\ target' = i + Per
       ELSE UNCHANGED <<ranges, target>>
    /\ i' = i + 1
    /\ UNCHANGED <<inputs, phase, docFrom, subFrom, docsRead, worker>>

\* An empty table has no shard and nothing to align.
PlanEnd ==
    /\ phase = "plan" /\ i = Total
    /\ phase' = IF ranges = <<>> THEN "merge" ELSE IF parent = "documents" THEN "align" ELSE "walk"
    /\ i' = 0
    /\ UNCHANGED <<inputs, ranges, target, docFrom, subFrom, docsRead, worker>>

Opener(k) == Doc(Work, ranges[k].from)

-----------------------------------------------------------------------------
(* align_documents: one document at a time until every opening one is found.  *)

AlignDocument ==
    /\ phase = "align" /\ Len(docFrom) < Len(ranges) /\ i < Len(corpus)
    /\ docFrom' = IF i + 1 = Opener(Len(docFrom) + 1) THEN Append(docFrom, i) ELSE docFrom
    /\ i' = i + 1
    /\ UNCHANGED <<inputs, phase, ranges, target, subFrom, docsRead, worker>>

AlignEnd ==
    /\ phase = "align"
    /\ Len(docFrom) = Len(ranges) \/ i = Len(corpus)
    /\ phase' = IF Len(docFrom) = Len(ranges) THEN "walk" ELSE "refused"
    /\ i' = 0
    /\ UNCHANGED <<inputs, ranges, target, docFrom, subFrom, docsRead, worker>>

-----------------------------------------------------------------------------
(* align_document_rows: one sub-table row at a time against the parent.       *)

Boundary(k) == IF parent = "documents" THEN docFrom[k] ELSE ranges[k].from

\* The ordinal of a document: the first row the parent has for it.
Ordinal(d) ==
    IF parent = "documents" THEN d - 1 ELSE Sum([e \in 1 .. d - 1 |-> corpus[e].work])
InParent(d) == parent = "documents" \/ corpus[d].work > 0

\* The boundaries a document of the sub-table is at or past.
ReachedBy(d) == {k \in DOMAIN ranges : k > Len(subFrom) /\ Boundary(k) <= Ordinal(d)}

\* The walk is forward-only: a document it has passed is not found again.
WalkRow ==
    /\ phase = "walk" /\ i < Len(Sub) /\ Len(subFrom) < Len(ranges)
    /\ LET d == Doc(Sub, i)
       IN IF d < docsRead \/ ~InParent(d) THEN phase' = "refused" /\ UNCHANGED <<subFrom, docsRead, i>>
          ELSE /\ docsRead' = d
               /\ subFrom' = subFrom \o [k \in 1 .. Cardinality(ReachedBy(d)) |-> i]
               /\ i' = i + 1 /\ UNCHANGED phase
    /\ UNCHANGED <<inputs, ranges, target, docFrom, worker>>

\* Trailing boundaries own no rows; the work queue is seeded.
WalkEnd ==
    /\ phase = "walk" /\ (i = Len(Sub) \/ Len(subFrom) = Len(ranges))
    /\ LET starts == [k \in DOMAIN ranges |-> IF k <= Len(subFrom) THEN subFrom[k] ELSE Len(Sub)]
       IN /\ subFrom' = starts
          /\ worker' = [k \in DOMAIN ranges |->
                [at |-> ranges[k].from, sub |-> starts[k], out |-> <<>>, done |-> FALSE]]
    /\ phase' = "work"
    /\ UNCHANGED <<inputs, i, ranges, target, docFrom, docsRead>>

-----------------------------------------------------------------------------
(* The workers: two streams consumed together, document by document.          *)

\* iter_parquet_range and parquet_row_group_span: whole row groups are read and
\* the rows before and after the range are dropped.
RowsOf(table, from, to) ==
    LET inGroups == {row \in 0 .. Len(table) - 1 :
                        \E g \in 0 .. Len(table) \div group :
                            /\ g * group <= row /\ row < (g + 1) * group
                            /\ (g + 1) * group > from /\ g * group < to}
    IN {row \in inGroups : from <= row /\ row < to}

SubTo(k) == IF k = Len(ranges) THEN Len(Sub) ELSE subFrom[k + 1]
DocTo(k) == IF k = Len(ranges) THEN Len(corpus) ELSE docFrom[k + 1]

\* The rows a stream has left, and those of its head that are of one document.
Left(table, from, to)     == RowsOf(table, from, to)
HeadOf(table, from, to)   == Doc(table, from)
RunOf(table, from, to, d) ==
    {row \in Left(table, from, to) : \A r \in from .. row : Doc(table, r) = d}

\* load_document_texts: only the reconcile workers read texts.
TextLoaded(k, d) == parent = "documents" => d - 1 \in docFrom[k] .. DocTo(k) - 1

\* The next document of a shard: its work rows, and its rows of the sub-table when
\* they are next in that stream.
TakeDocument(k) ==
    /\ phase = "work" /\ ~worker[k].done
    /\ Left(Work, worker[k].at, ranges[k].to) # {}
    /\ LET d    == HeadOf(Work, worker[k].at, ranges[k].to)
           rows == RunOf(Work, worker[k].at, ranges[k].to, d)
           subs == RunOf(Sub, worker[k].sub, SubTo(k), d)
       IN IF ~TextLoaded(k, d) THEN phase' = "refused" /\ UNCHANGED worker
          ELSE /\ worker' = [worker EXCEPT
                     ![k].at = @ + Cardinality(rows),
                     ![k].sub = @ + Cardinality(subs),
                     ![k].out = Append(@, [doc |-> d, work |-> rows, sub |-> subs])]
               /\ UNCHANGED phase
    /\ UNCHANGED <<inputs, i, ranges, target, docFrom, subFrom, docsRead>>

\* A row of the sub-table left over refuses the shard.
WorkEnd(k) ==
    /\ phase = "work" /\ ~worker[k].done
    /\ Left(Work, worker[k].at, ranges[k].to) = {}
    /\ IF Left(Sub, worker[k].sub, SubTo(k)) # {} THEN phase' = "refused" /\ UNCHANGED worker
       ELSE worker' = [worker EXCEPT ![k].done = TRUE] /\ UNCHANGED phase
    /\ UNCHANGED <<inputs, i, ranges, target, docFrom, subFrom, docsRead>>

\* merge: the parts in the order of their zero-padded names.
Merge ==
    /\ phase = "work" /\ \A k \in DOMAIN ranges : worker[k].done
    /\ phase' = "merge"
    /\ UNCHANGED <<inputs, i, ranges, target, docFrom, subFrom, docsRead, worker>>

Table == FlattenSeq([k \in DOMAIN ranges |-> worker[k].out])

Next ==
    \/ PlanRow \/ PlanEnd \/ AlignDocument \/ AlignEnd \/ WalkRow \/ WalkEnd \/ Merge
    \/ \E k \in DOMAIN ranges : TakeDocument(k) \/ WorkEnd(k)

Spec == Init /\ [][Next]_vars

-----------------------------------------------------------------------------
(* Properties.                                                                *)

TypeOK ==
    /\ phase \in {"plan", "align", "walk", "work", "merge", "refused"}
    /\ i \in Nat /\ target \in Nat /\ docsRead \in Nat
    /\ ranges \in Seq([from : Nat, to : Nat])
    /\ docFrom \in Seq(Nat) /\ subFrom \in Seq(Nat)

\* What one worker over the whole corpus writes.
RowsOfDoc(field, d) ==
    LET before == Sum([e \in 1 .. d - 1 |-> corpus[e][field]])
    IN before .. before + corpus[d][field] - 1
Unsharded ==
    [n \in 1 .. Cardinality({d \in Documents : corpus[d].work > 0}) |->
        LET d == CHOOSE e \in Documents :
                    corpus[e].work > 0 /\ Cardinality({f \in 1 .. e : corpus[f].work > 0}) = n
        IN [doc |-> d, work |-> RowsOfDoc("work", d), sub |-> RowsOfDoc("sub", d)]]

\* The table a sharded stage writes does not depend on the number of shards: each
\* document comes once, in corpus order, with its rows of both tables and no
\* other's, whatever documents the second table lacks.
ShardFree == phase = "merge" => Table = Unsharded

\* The tables of one build are never refused, and never more shards than asked.
PlanHolds == phase # "refused" /\ Len(ranges) <= asked
=============================================================================
