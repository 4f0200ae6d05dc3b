------------------------------ MODULE Chunking ------------------------------
(* The chunk substage (preprocess/chunk.py ChunkAdapter and _ChunkPool,       *)
(* preprocess/corpus.py): the seed names ranges of documents and cuts a slice *)
(* file for each, a worker segments a range over a pool of processes, and the *)
(* merge writes the two tables of the spine. The queue is WorkQueue's, with   *)
(* one worker process at a time and without its files and clocks.             *)
EXTENDS Integers, FiniteSets, Sequences, SequencesExt

CONSTANTS
    Corpora,    \* what may be there: see below
    Batch,      \* documents of a pool task: chunk_batch_size
    Children,   \* processes of the pool: chunk_workers
    KMax

\* A scenario: the native files in name order, each the number of sentences of its
\* documents (none is a document of boilerplate alone); documents whose spans do
\* not fit; corpus_shards of each launch of the seed; and what may go wrong.
VARIABLES
    scen,
    slices,     \* ranges with a finished slice file
    seed,       \* the seed at work: ranges to cut, ranges to post
    launches, seeded,   \* launches, and whether one of them has posted every shard
    pending, attempts, failed,
    outs,       \* range -> the records of its output file
    worker,     \* the worker process and the shard in its hands
    job,        \* imap calls made on the pool
    tasks,      \* the pool's task queue
    child,      \* child -> the task it has, or Idle
    results,    \* what children have returned
    lost,       \* jobs of which a child died with a task
    spine,      \* the tables, Unset until written, and the outputs drive merges
    sealed      \* _DONE

queue == <<pending, attempts, failed, outs>>
pool  == <<tasks, child, results, lost>>
vars  == <<scen, slices, seed, launches, seeded, queue, worker, job, pool, spine, sealed>>

Idle   == <<>>
Unset  == <<Idle>>
NoSeed == [cut |-> <<>>, post |-> <<>>]
Rested == [pc |-> "idle", shard |-> <<>>, next |-> 1, got |-> <<>>]

Files == DOMAIN scen.files
Spend(what) == scen[what] > 0 /\ scen' = [scen EXCEPT ![what] = @ - 1]

-----------------------------------------------------------------------------
(* Seed                                                                       *)

\* The documents, file after file.
Corpus == FlattenSeq([f \in Files |-> [d \in 1 .. Len(scen.files[f]) |-> <<f, d>>]])

\* _shard_slices: contiguous ranges within a file, of at most one budget each.
Ranges(width) ==
    LET total == Len(Corpus)
        per   == IF total <= width THEN 1 ELSE (total + width - 1) \div width
        Of(f) == LET n == Len(scen.files[f])
                 IN [k \in 1 .. (n + per - 1) \div per |->
                        <<f, (k - 1) * per, IF k * per < n THEN k * per ELSE n>>]
    IN FlattenSeq([f \in Files |-> Of(f)])

\* saturate.seed, up to the first shard: nothing once the stage is done.
Launch ==
    /\ seed = NoSeed /\ ~sealed /\ launches < Len(scen.widths)
    /\ launches' = launches + 1
    /\ LET specs == Ranges(scen.widths[launches + 1]) IN seed' = [cut |-> specs, post |-> specs]
    /\ UNCHANGED <<scen, slices, seeded, queue, worker, job, pool, spine, sealed>>

\* write_native_slices publishes slice after slice and passes over finished ones.
CutSlice ==
    /\ seed.cut # <<>>
    /\ slices' = slices \cup {Head(seed.cut)}
    /\ seed' = [seed EXCEPT !.cut = Tail(@)]
    /\ UNCHANGED <<scen, launches, seeded, queue, worker, job, pool, spine, sealed>>

\* presplit gives up on a file that cannot be split, and goes on with the next.
CutFails ==
    /\ seed.cut # <<>> /\ Head(seed.cut) \notin slices
    /\ Spend("errors")
    /\ seed' = [seed EXCEPT !.cut = SelectSeq(@, LAMBDA r : r[1] # Head(seed.cut)[1])]
    /\ UNCHANGED <<slices, launches, seeded, queue, worker, job, pool, spine, sealed>>

\* A shard is written unless it is pending: one that is done comes again.
Post ==
    /\ seed.cut = <<>> /\ seed.post # <<>>
    /\ pending' = pending \cup {Head(seed.post)}
    /\ seed' = [seed EXCEPT !.post = Tail(@)]
    /\ seeded' = (seeded \/ Len(seed.post) = 1)
    /\ UNCHANGED <<scen, slices, launches, attempts, failed, outs, worker, job, pool, spine, sealed>>

SeedKilled ==
    /\ seed # NoSeed /\ Spend("kills")
    /\ seed' = NoSeed
    /\ UNCHANGED <<slices, launches, seeded, queue, worker, job, pool, spine, sealed>>

-----------------------------------------------------------------------------
(* A worker and its pool                                                      *)

\* _shard_docs: the slice, or the range of the whole file.
DocsOf(r) == [d \in 1 .. r[3] - r[2] |-> <<r[1], r[2] + d>>]
Sentences(doc) == scen.files[doc[1]][doc[2]]

\* segment_documents: a record for each document with sentences, in order; spans
\* that do not fit raise.
Raises(docs)  == ToSet(docs) \cap scen.torn # {}
Segment(docs) ==
    FlattenSeq([k \in DOMAIN docs |-> IF Sentences(docs[k]) > 0 THEN <<docs[k]>> ELSE <<>>])

Batches(docs) ==
    [b \in 1 .. (Len(docs) + Batch - 1) \div Batch |->
        SubSeq(docs, (b - 1) * Batch + 1, IF b * Batch < Len(docs) THEN b * Batch ELSE Len(docs))]

\* The array waits for a seed that succeeded. _ChunkPool.segment_documents: imap
\* feeds all batches to the pool, in order.
Claim(r) ==
    /\ worker = Rested /\ seeded /\ ~sealed /\ r \in pending
    /\ LET batches == Batches(DocsOf(r)) IN
       /\ worker' = [Rested EXCEPT !.pc = "wait", !.shard = r]
       /\ tasks' = tasks \o [b \in DOMAIN batches |-> [job |-> job + 1, at |-> b, docs |-> batches[b]]]
    /\ pending' = pending \ {r} /\ job' = job + 1
    /\ UNCHANGED <<scen, slices, seed, launches, seeded, attempts, failed, outs, child, results, lost, spine, sealed>>

\* _pool_segment_batch: an exception travels back in place of the records.
Take(c) ==
    /\ child[c] = Idle /\ tasks # <<>>
    /\ child' = [child EXCEPT ![c] = Head(tasks)] /\ tasks' = Tail(tasks)
    /\ UNCHANGED <<scen, slices, seed, launches, seeded, queue, worker, job, results, lost, spine, sealed>>

Put(c) ==
    /\ child[c] # Idle
    /\ results' = results \cup
          {[job |-> child[c].job, at |-> child[c].at, bad |-> Raises(child[c].docs),
            recs |-> Segment(child[c].docs)]}
    /\ child' = [child EXCEPT ![c] = Idle]
    /\ UNCHANGED <<scen, slices, seed, launches, seeded, queue, worker, job, tasks, lost, spine, sealed>>

\* The pool starts another child, and nobody has the task.
ChildDies(c) ==
    /\ child[c] # Idle /\ Spend("deaths")
    /\ lost' = lost \cup {child[c].job}
    /\ child' = [child EXCEPT ![c] = Idle]
    /\ UNCHANGED <<slices, seed, launches, seeded, queue, worker, job, tasks, results, spine, sealed>>

Bug_AnyArrived == {res \in results : res.job = job}

\* it.next(): results come in the order of their batches.
Arrived == {res \in results : res.job = job /\ res.at = worker.next}
Left    == Len(Batches(DocsOf(worker.shard))) >= worker.next

Collect ==
    /\ worker.pc = "wait" /\ Left
    /\ \E res \in Arrived :
          /\ ~res.bad
          /\ worker' = [worker EXCEPT !.next = @ + 1, !.got = @ \o res.recs]
          /\ results' = results \ {res}
    /\ UNCHANGED <<scen, slices, seed, launches, seeded, queue, job, tasks, child, lost, spine, sealed>>

\* workqueue.fail
Fails ==
    /\ attempts' = [attempts EXCEPT ![worker.shard] = @ + 1]
    /\ IF attempts[worker.shard] + 1 < KMax
       THEN pending' = pending \cup {worker.shard} /\ UNCHANGED failed
       ELSE failed' = failed \cup {worker.shard} /\ UNCHANGED pending
    /\ worker' = Rested

\* A batch raised; the rest of the job stays with the pool.
CollectRaises ==
    /\ worker.pc = "wait" /\ \E res \in Arrived : res.bad
    /\ Fails
    /\ UNCHANGED <<scen, slices, seed, launches, seeded, outs, job, pool, spine, sealed>>

\* PoolStalledError: no result in time, because a child died with the task or
\* because it is slow.
Stall ==
    /\ worker.pc = "wait" /\ Left /\ Arrived = {}
    /\ IF job \in lost THEN UNCHANGED scen ELSE Spend("slow")
    /\ Fails
    /\ UNCHANGED <<slices, seed, launches, seeded, outs, job, pool, spine, sealed>>

\* The output file is there before validate looks at its size.
WorkDone ==
    /\ worker.pc = "wait" /\ ~Left
    /\ outs' = [r \in DOMAIN outs \cup {worker.shard} |-> IF r = worker.shard THEN worker.got ELSE outs[r]]
    /\ IF worker.got # <<>> THEN worker' = Rested /\ UNCHANGED <<pending, attempts, failed>> ELSE Fails
    /\ UNCHANGED <<scen, slices, seed, launches, seeded, job, pool, spine, sealed>>

\* The queue is drained. At exit close() joins the pool, which stays up while it
\* waits for a result of any job.
Drained ==
    /\ worker = Rested /\ seeded /\ (pending = {} \/ sealed)
    /\ worker' = [Rested EXCEPT !.pc = "join"]
    /\ UNCHANGED <<scen, slices, seed, launches, seeded, queue, job, pool, spine, sealed>>
Joined ==
    /\ worker.pc = "join"
    /\ tasks = <<>> /\ lost = {} /\ \A c \in Children : child[c] = Idle
    /\ worker' = [Rested EXCEPT !.pc = "gone"] /\ results' = {}
    /\ UNCHANGED <<scen, slices, seed, launches, seeded, queue, job, tasks, child, lost, spine, sealed>>

\* A worker that is killed takes its pool along, and its shard is reaped.
Killed ==
    /\ worker.pc \in {"wait", "join"} /\ Spend("kills")
    /\ pending' = IF worker.pc = "wait" THEN pending \cup {worker.shard} ELSE pending
    /\ worker' = [Rested EXCEPT !.pc = "gone"]
    /\ tasks' = <<>> /\ child' = [c \in Children |-> Idle] /\ results' = {} /\ lost' = {}
    /\ UNCHANGED <<slices, seed, launches, seeded, attempts, failed, outs, job, spine, sealed>>

\* The next worker of the array finds work (bringup).
Bringup ==
    /\ worker.pc = "gone" /\ pending # {} /\ ~sealed
    /\ worker' = Rested
    /\ UNCHANGED <<scen, slices, seed, launches, seeded, queue, job, pool, spine, sealed>>

-----------------------------------------------------------------------------
(* Drive                                                                      *)

\* By name: the file, then the offsets, which are padded.
Before(r, q) ==
    \/ r[1] < q[1]
    \/ r[1] = q[1] /\ r[2] < q[2]
    \/ r[1] = q[1] /\ r[2] = q[2] /\ r[3] < q[3]
InOrder(shards) ==
    CHOOSE order \in [1 .. Cardinality(shards) -> shards] :
        \A i, k \in DOMAIN order : i < k => Before(order[i], order[k])
Records(shards) == FlattenSeq([k \in DOMAIN shards |-> outs[shards[k]]])
SentencesOf(recs) ==
    FlattenSeq([k \in DOMAIN recs |-> [s \in 1 .. Sentences(recs[k]) |-> <<recs[k], s>>]])

\* drive finds the queue empty, and merges the outputs it finds: each table
\* unless it is there. A drive that is killed is launched again.
Drive ==
    /\ worker.pc = "gone" /\ ~sealed /\ spine.merging = Unset
    /\ pending = {} /\ failed = {}
    /\ spine' = [spine EXCEPT !.merging = InOrder(DOMAIN outs)]
    /\ UNCHANGED <<scen, slices, seed, launches, seeded, queue, worker, job, pool, sealed>>
DocumentRows ==
    /\ spine.merging # Unset /\ spine.documents = Unset
    /\ spine' = [spine EXCEPT !.documents = Records(spine.merging)]
    /\ UNCHANGED <<scen, slices, seed, launches, seeded, queue, worker, job, pool, sealed>>
SentenceRows ==
    /\ spine.merging # Unset /\ spine.documents # Unset /\ spine.sentences = Unset
    /\ spine' = [spine EXCEPT !.sentences = SentencesOf(Records(spine.merging))]
    /\ UNCHANGED <<scen, slices, seed, launches, seeded, queue, worker, job, pool, sealed>>
Seal ==
    /\ spine.merging # Unset /\ spine.sentences # Unset /\ ~sealed
    /\ sealed' = TRUE
    /\ UNCHANGED <<scen, slices, seed, launches, seeded, queue, worker, job, pool, spine>>
DriveKilled ==
    /\ spine.merging # Unset /\ ~sealed /\ Spend("kills")
    /\ spine' = [spine EXCEPT !.merging = Unset]
    /\ UNCHANGED <<slices, seed, launches, seeded, queue, worker, job, pool, sealed>>

-----------------------------------------------------------------------------
Init ==
    /\ scen \in Corpora
    /\ slices = {} /\ seed = NoSeed /\ launches = 0 /\ seeded = FALSE
    /\ pending = {} /\ failed = {} /\ outs = <<>>
    /\ attempts = [r \in UNION {ToSet(Ranges(scen.widths[n])) : n \in DOMAIN scen.widths} |-> 0]
    /\ worker = Rested /\ job = 0
    /\ tasks = <<>> /\ child = [c \in Children |-> Idle] /\ results = {} /\ lost = {}
    /\ spine = [documents |-> Unset, sentences |-> Unset, merging |-> Unset]
    /\ sealed = FALSE

Seeding == Launch \/ CutSlice \/ CutFails \/ Post \/ SeedKilled
Working ==
    \/ \E r \in pending : Claim(r)
    \/ \E c \in Children : Take(c) \/ Put(c) \/ ChildDies(c)
    \/ Collect \/ CollectRaises \/ Stall \/ WorkDone \/ Drained \/ Joined \/ Killed \/ Bringup
Driving == Drive \/ DocumentRows \/ SentenceRows \/ Seal \/ DriveKilled

Next == Seeding \/ Working \/ Driving
Spec == Init /\ [][Next]_vars

-----------------------------------------------------------------------------
(* Properties                                                                 *)

\* Seeded at one width, the spine is what one process would make of the corpus:
\* every document that has a sentence, once and in order, and its sentences, the
\* two tables alike (ChunkAdapter.merge), whoever was killed, retried or late.
OneWidth == \A n \in DOMAIN scen.widths : scen.widths[n] = scen.widths[1]
SpineExact ==
    OneWidth =>
        /\ spine.documents \in {Unset, Segment(Corpus)}
        /\ spine.sentences \in {Unset, SentencesOf(Segment(Corpus))}

\* However wide the seeds, no document is in the spine twice.
NoRepeat == spine.documents # Unset => IsInjective(spine.documents)

-----------------------------------------------------------------------------
(* For TLC: one launch of the seed at each of two widths over one corpus.     *)

Plain == [files |-> <<<<2, 1>>, <<1>>>>, torn |-> {}, widths |-> <<3, 1>>,
          errors |-> 0, kills |-> 0, deaths |-> 0, slow |-> 0]
TwoWidths == {Plain, [Plain EXCEPT !.widths = <<1, 3>>]}
=============================================================================
