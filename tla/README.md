# A TLA+ model of the RAGTIME 2026 pipeline

The repository is a batch system: a corpus is preprocessed by arrays of workers,
retrieval indexes are built from it, and an agentic pipeline answers report
requests ("topics") against them on leased GPU pairs. There is no database and no
message broker. Every coordination between processes goes through a shared file
system: `os.rename`, `os.link`, temp-then-replace, marker files and heartbeat files.
What is hard in this code is therefore the order of file-system calls of several
processes, and what a killed process leaves behind. That is what this project
models.

Paths below are relative to `src/src/ragtime/` unless they start with `slurm/`
(`src/slurm/`).

## Inventory

| Component | State it keeps | Operations | Talks to | What makes it correct |
|---|---|---|---|---|
| File work queue `orchestration/slurm/workqueue.py` | `pending/ running/ done/ failed/ meta/` (heartbeat and attempt sidecars) | `claim`, `requeue`, `heartbeat`, `reap_stale`, `fail`, `mark_done` | every role that shards work; the vLLM registry | no shard lost or in two places; done only behind a valid output; poison only after `k_max` failures; settled is final |
| Saturate `orchestration/saturate.py` | the queue, the `_DONE` sentinel | `seed`, `run_worker`, `drive` | the stage adapters | `drive` publishes a complete corpus or raises; the chain ends |
| vLLM registry `serving/vllm_registry.py`, `slurm/vllm_service.sbatch` | descriptors in `free/` and `leased/`, their heartbeats | `publish`, `beat`, `unpublish`; `claim_endpoint`, `release_endpoint` | service jobs on one side, fleet workers on the other | a pair is exclusive to one worker; it is never lost to the fleet; a dead worker's lease comes back |
| Topic fleet `pipeline/topic_fleet.py` | its lease, the claimed topic | `bringup`, `work`, `validate`, release at exit | queue, registry, driver | one pair per worker, a lane is one GPU architecture |
| Round 0 `pipeline/round_loop.py` `_round_zero`, `decompose/bank.py` | shared seed bank and marker, each arm's `round_0` | decompose, `publish_seed_bank`, resume | the other arms of the family | all arms of one (topic, seed) work from the same bank |
| Coverage loop `pipeline/round_loop.py`, `pipeline/driver.py`, `pipeline/records.py` | round banks and markers, loop records, `_SUCCESS` | fan, record, audit, stop, sweep, complete, resume | RAG loop, bank, select and serialize | a crash is invisible in the tree; no nugget left unattempted; every bank answer has its loop record |
| Nugget bank `decompose/{bank,coverage_audit,dedup,saturation}.py` | the bank | mint, attach, close, prune, merge, stop predicate | coverage loop | ids denote one question for ever; settled nuggets are never touched |
| RAG loop `pipeline/rag_loop/` | one conversation, counters, committed claims | search, submit claim, submit answer, abstain, forced terminal | LLM, retrieval | always ends; answers only what it committed; abstains only without evidence |
| Select and serialize `pipeline/select_serialize/`, `slurm/serialize_parallel.py` | per topic: the merged bank, three projections; per arm: deliverables, markers, fragments, run files | merge questions and answers, cap, project, check, publish, concatenate | coverage loop, citation scores | no answer or citation is lost in a merge; every sentence is cited; a run file is one projection, of topics that passed the gate |
| Citation scoring `pipeline/citation_scoring/` | `scores.jsonl` | one pass per topic | select and serialize | additive, best effort |
| Retrieval client `retrieval/` | descriptors of services with heartbeats, a request and a reply directory per service | `live_services`, `ask_service`, `_hits_of` | RAG loop, resident services | hits come from the configured rendering and build; a service that is gone is noticed |
| Resident service `devkit/rsvc.py` | accepted requests in turn order, a pool of forked replicas, per stack cell workers and rerank instances behind pipes | accept, dispatch, harvest, reply; scatter, late leg, gather, fuse, rerank | spool directory, pipes | a reply is made of its request's own results; no request starves; a dead process is noticed |
| A search `retrieval/{context,service,query_batch}.py`, `common/fusion.py`; a leg of a cell `preprocess/index.py` | the lists of the legs; parts of a cell | fan over threads, search, truncate, merge, fuse, rerank | cell workers, resident services | the ranking does not depend on threads, parts, widths or arrival |
| Chunking `preprocess/{chunk,corpus}.py` | slice files, a pool of processes with task and result queues, the two tables of the spine | seed ranges, segment, retry, merge | queue | the spine is what one process would write |
| Passage store `common/passage_store.py`, `retrieval/store_mirror.py`, `preprocess/passage_store_build.py` | a directory with its marker; one table of open environments per process | build, publish, mirror, open, drop | queue, contexts | a handle reads a published store; nothing stays open |
| Acceptance `preprocess/acceptance.py` | one fragment per job | census and id checks, self-retrieval probes | indexes | passes exactly the indexes that are sound |
| Dataset release `analysis/upload_dataset.py` | plan, staged files, receipts, the Hub | plan, adopt, convert, card, push | Hub | every row is on the Hub once |
| Corpus chain `orchestration/{cli,plan}.py`, `orchestration/slurm/` | SLURM jobs and their dependencies, the queue and artifact of every substage | submit, seed, worker array, drive, online half | queue, SLURM | the pipeline starts only over whole artifacts; no submission hangs |
| Corpus documents `preprocess/{merge,translate_omt,merge_join,reconcile,len_max,packing,chunk}.py`, `common/passage_store.py` | sentences, units, translations, final sentences, passages, store records | join short sentences, translate, split back, measure, pack, compose | queue | English stays with its sentence; every passage fits every rendering; a passage says the same sentences in all of them |
| Shard plan `preprocess/spine.py`, `common/io.py` | row ranges of two tables | one scan, one walk, two streams, concatenation | queue | the output is independent of the sharding |
| Vectors and indexes `preprocess/{vectors,vectorize,assemble}.py` | block and leg directories, their markers, the manifest | encode, publish, census, stream, build, merge | queue | a marker means a whole directory; no leg is short; no manifest has a hole |
| vLLM node `serving/node/vllm_server.py` | a server's process group, `_ACTIVE`, a signal handler | `bringup`, `teardown` | gates; the production launcher takes the argv only | teardown stops every process of the server |
| Atomic IO `common/io.py` | artifact and its `_SUCCESS` companion | `write_jsonl`, `is_done` | everything | a marker implies a complete artifact |
| Config, layout, schemas, ids, fusion | none | validation, hashing, path building, pure functions | everything | not concurrent |

How they interact: `cli` submits *seed*, an array of *workers* and *drive* per stage
and chains them (`afterok`, `afterany`), or launches the three roles of the pipeline
stage side by side (the fleet). A fleet worker leases a vLLM pair from the registry at
bring-up, claims topic shards from the queue, and runs `driver.drive` on each; `drive`
runs the coverage loop, whose round 0 is agreed with the other arms through the shared
seed bank. Each loop asks a resident retrieval service through its spool directory; the
service hands the queries of all accepted requests to replicas, each of which fans one
query over cell workers and rerank instances. Select and serialize reads the finished
trees.

The behaviours that are hard, and that the properties aim at (the full list, by line,
is the `hazards` list of PROJECT.json): a rename decided on an earlier reading; a
second holder of a shard whose claim was taken away; temp files in directories that
are globbed; check-then-write of the registry; kills between a file and its marker;
a resume that does not see what the killed process kept in memory; counters of one
process compared with the state of the tree; messages that stay in a pipe after an
exception; two builders on one directory; two runs of a chain over one queue; boundaries
of row ranges, token budgets and markers.

## Modules

| Module | Models | State and actions against the code |
|---|---|---|
| `FileQueue` | the primitives shared by the queue and the registry | `pending`, `running` are directories as sets of names; `sidecar`, `age` are `meta/<name>.hb`. `ClaimMove`, `Requeue`, `Heartbeat`, `Stale`, `Aging` are `claim`'s rename, `requeue`, `heartbeat`, the reaper's test and the clock. |
| `WorkQueue` (extends `FileQueue`) | queue and the roles `seed`, `run_worker`, `drive` | one action per file-system call or branch of `run_worker` (`pc`, `shard`, `n`), `seed` (`spc`, `todo`, `writing`) and `drive` (`dpc`) |
| `WorkPool` | what a stage promises: offered, completed, poisoned, published | abstract; `WorkQueue!PoolSpec` is the refinement |
| `EndpointRegistry` (extends `FileQueue`) | registry, service jobs, fleet workers | `job` is the place in the supervise loop of `vllm_service.sbatch`; `pc, cur, held, lease` are `claim_endpoint` and the lease; `pending` is `free/`, `running` is `leased/` |
| `SeedBank` | round 0 of the arms of a family | `shared`, `own` and their markers; `Link` is `os.link`, first wins |
| `NuggetBank` | the bank and its pure operations | a bank is a function from ordinals of ids to nuggets; `Attach`, `Close`, `Prune`, `Mint`, `Merges`, `NetNew`, `Saturated` are the functions of that name |
| `CoverageLoop` | what the loop of a topic promises with no files and no crash | abstract; `Cell!LoopSpec` is the refinement |
| `Cell` (extends `NuggetBank`) | `run_rounds` in `drive` on the files of one topic, and what `load.py` reads from the result | `bankFile`, `marked`, `rows`, `success` are files; `r, bank, novelty, computed` the locals of `run_rounds` (`computed` is `len(rounds)`) |
| `RagLoop` | `run_loop` for one nugget, and the guard of `run_round` around it | `iters, searches, failed, tokens` are `LoopState`; `menu` the grammar of the turn; `retrieved, shown` the `Trail`; `pc` is at the head of a turn, before its generation, or in a claim's re-decode; `status, closedBy, answers` the `LoopResult` |
| `AnswerService` | what a resident service promises: a request is consumed once and gets at most one reply, an error or its own results | abstract; `ResidentService!PromiseSpec` is the refinement |
| `ResidentService` | `_serve_multiplexed`, `_accept`, `_reply`, `_run_exclusive`, `ReplicaPool` | `pc` is the place in the serve loop; `live` the turn order, `nxt`, `results`, `failed` the fields of `_Live`; `idle`, `busy`, `poisoned` those of the pool; `job`, `card` what each replica works on |
| `QueryStack` | `Service.query` over `CellPool` and `RerankPool` | `ask`, `answer` are the pipes; a message is the number of its query; one action per send, receive and check |
| `RetrievalLane` | `ServiceBackend`, `ask_service`, `rsvc_registry`, `Service.serve` as its clients see it | `desc`, `fresh` the descriptor; `inbox`, `taken`, `outbox` the spool; `place` the poll loop |
| `PartFan` | `search_cell_with_rep`, `part_slices`, `_cell_loop`, `merge_slices` | parts with scored passages, the slices of the workers, the replies, the merged list |
| `StageDag` | `_submit_dag`, `_submit_corpus`, `_run_preprocess` and the launcher | job states per submission and substage; the queue of a substage as sets (its files and clocks are `WorkQueue`); `TaskLook`, `TaskLeave` are the two listings of `_has_work` by a worker, the places of `driveJob` those of `drive`, in its order: list `pending/`, list `running/`, `failed/`, list both again, merge |
| `NodeLifecycle` | `bringup` and `teardown` of `serving/node/vllm_server.py` | `pc` is the caller; `frames` the calls of `teardown` stacked by the signal handler; `leader`, `engine` the server's processes; `active` is `_ACTIVE` |
| `Ranking` | `Context` bring-up, `retrieve`, the leg fan of `retrieval/service.py`, `rrf`, the rerank | `hands` are the threads and the leg each searches, `lists` what came back; fusion adds weights that are rounded as floats are |
| `DirPublish` | `_publish_block_dir` and `_publish_dir` | `disk` directories, `marks` their markers; one action per file-system call |
| `VectorStore` (extends `DirPublish`) | the vectorize stage | `task` per builder, `placed`, `waiting`, `settled` the queue by names |
| `IndexAssembly` (extends `VectorStore`) | the assemble stage over that store | `read` the blocks a builder streamed, `held` what a leg lists |
| `FusedIndex` | the index substage in one piece (`IndexAdapter`) | `table` packed again under a build; `leg`, `census`, `receipt`, `manifest` as on disk |
| `PassageStore` (extends `DirPublish`) | `passage_store_build.py`, `PassageStore` with its shared environments, the mirror | a thread's place in `_acquire_env` and `_release_env`; `envs` open environments by inode, `shared` the table, `lock` its lock |
| `Chunking` | `ChunkAdapter`, `_ChunkPool`, `corpus.py` | `seed`, `worker`, the pool's `tasks`, `child`, `results`; `spine` the two tables |
| `Reconciliation` | one document through `merge.py`, `translate_omt.py`, `merge_join.py`, `reconcile.py` | sentences and token counts are numbers; the loops of the code are steps |
| `DocumentPipeline` (extends `Reconciliation`) | the same document through `len_max.py`, `packing.py`, `chunk.py`, `passage_store.py` | a document goes from one stage to the next |
| `ShardPlan` | `plan_shards`, `align_documents`, the worker's two streams, the concatenation | row ranges and the two cursors of the walk |
| `Acceptance` | `acceptance.py`: step 0, phase A, the dense gate of phase B1 | `tree` is what is on disk, whole or damaged; one job per cell, `fragment` per job |
| `DatasetRelease` | `upload_dataset.py` | `plan`, `files`, `receipts`, `hub`; commands in any order |
| `Projection`, with its topics in `ProjectionTopics` | the two merges, caps, three task projections and self-check of a topic | `bank` shrinks by merges and caps; `rows` are Task 2's lines, `report` Task 1's sentences |
| `Submission` | `serialize_parallel.py` over `project()` | `cell` the deliverables of a topic, `marked`, `fragment`, `file`; the driver and its pool |
| `StageDag_proof` | theorems about `StageDag` | |
| `DataLemmas` | induction over naturals, sequences and finite sets, stated of a set; what it says of flattening, of sums, of folds and of sorting | used by the proofs of machines that compute over data (spine, shards, tables, slices, rankings, merges) |
| `MCServing_proof` | theorems about `EndpointRegistry`, about `ResidentService` over `AnswerService`, and about `NodeLifecycle`, as the machines of `MCServing` | its constants are open: the values of `serving.cfg` are one instance |
| `MCPieces_proof` | theorems about `SeedBank`, `RetrievalLane`, `PartFan`, `QueryStack`, `Ranking`, `Projection`, `Submission` and `RagLoop`, as the machines of `MCPieces` | its constants are open: the values of `pieces.cfg` are one instance |
| `MCWorkQueue_proof` | theorems about `WorkQueue` over `WorkPool`, about `Chunking`, about `PassageStore`, and about `Cell` over `CoverageLoop`, as the machines of `MCWorkQueue` | its constants are open: the values of `queue_chain.cfg` are one instance |
| `MCCorpus_proof` | theorems about `IndexAssembly`, `FusedIndex` and `Acceptance`, as machines of `MCCorpus` | its constants are open: the values of `corpus.cfg` are one instance |
| `MCDocument_proof` | theorems about `Reconciliation` and `DocumentPipeline`, as the document machine of `MCCorpus` | likewise |
| `MCShard_proof` | theorems about `ShardPlan`, as the shard machine of `MCCorpus` | likewise |
| `MCWorkQueue`, `MCServing`, `MCCorpus`, `MCPieces` | several machines side by side for one run of TLC (see Runs) | finite sets, inputs, symmetry |

Definitions whose name starts with `Bug_` are mutants: the definition they precede,
changed the way a plausible bug would. No specification uses them; each is there to
show that a property notices the bug.

Abstractions, by name:

- **A directory is a set of names, a rename is one step.** Between two file-system
  calls of one process every other process may move. Listing a directory and acting on
  an entry are separate steps where the entry can be stale (`ReapCheck`/`ReapMove`,
  `DrivePoll`, `Recheck`). `claim` tries each listed name until a rename succeeds, so
  its effect is one step: some present name moves, or none is present.
- **A temp file is a name of its own** (`Temp(f)`), because `pathlib`'s `glob("*")`
  lists dot files and a claim can take it.
- **Time** is a count of ticks since a stamp, cut off just past `MaxAge`. A tick is a
  fraction of the reaper's window and many heartbeat intervals long, so the forked
  child of a worker inside `work` has stamped within it. With `Stalls` a live process
  may spend a whole window between two calls and its child may miss it (a suspended
  node, a hung mount); without, it does not. The registry has no stalls.
- **The reaper's pass** ends when no file it can see is stale (`ReapEnd`). The code
  lists once; a file that goes stale between listing and end is caught by the next pass.
- **`adapter.work`** succeeds or fails, freely; `out` is the set of names whose output
  validates. `mark_done` may fail after its rename (the result row cannot be written).
- **The attempt counter** is kept up to `KMax`, beyond which the code only compares.
  `fails` is a history variable of the calls of `fail`.
- **`raced`** (registry) is a history variable: the endpoints one of the named races has
  happened to. It lets the properties say that the races are the *only* way things go
  wrong; `registry_double` shows that they do happen.
- **An answer** is named by the question its loop was asked (the id and the round that
  minted it), since an id can come to name two questions; one answer per question.
- **A loop of the RAG agent** is one step of `Cell` (`RagLoop` is the loop itself): it commits an answer or not (`hits`). An
  abstention after a commit is admitted (`AttachSweep` closes any subset of `hits`).
- **Judge, admission gate and paraphrase gate** answer freely within what the code
  accepts: only an answered nugget is closed, only an unanswered one pruned, only open
  ones merged, into older ones. The paraphrase gate is a sampled call over all open
  nuggets at every audit, so any of them may merge away at any round, a nugget kept at
  one round included (`Audit` picks any `gone \subseteq Open(grown)`).
- **The model of a loop** (`RagLoop`) picks any action of the menu, and any claim. A span
  is verbatim or not; a claim whose passage was shown may commit or be rejected, one whose
  passage was not is rejected. A search returns any passages, some of them within the
  character budget and so shown. The conversation is a size that only grows, kept up to
  `TokenBudget`. The closing warning adds a message and is left out. A generation may
  overrun, never validate, or raise what `run_loop` does not catch; each is one more call.
- **`calls`** (`RagLoop`) is a history variable, kept up to one past `CallLimit`.
- **`Cell` starts from `SeedBank`'s promise**: every resume meets the same seed bank.
- **A result of a replica** is the job it was made for, and a message in a pipe the query
  it is of. What a query finds is abstract; whose it is, is not. `made` (`QueryStack`) and
  `passed` (`ResidentService`) are history variables.
- **What a scenario allows** (`ResidentService`, `VectorStore`, `Chunking`, `DatasetRelease`, `Acceptance`, `NodeLifecycle`'s `weather`) is fixed by the initial
  state: which requests are refused, own the fleet or meet a query that raises; whether
  replicas die; the widths of the seed runs, kills and lost tasks. This keeps faults that
  have nothing to do with each other out of one behaviour.
- **A descriptor, request and reply of `RetrievalLane`** are one file each, written by
  rename. A reply carries the index it was made from, as in the code.
- **A passage of `PartFan`** has a number and a score; scores may be equal. `torch.topk` on
  a GPU may break ties in any order.
- **A text** (`Reconciliation`, `DocumentPipeline`) is the sequence of its
  sentences; a translated text is a set of texts MT may return for it, with markers
  kept, lost, moved or added. A tokenizer is a table of counts of joined spans, which may
  be smaller than the sum.
- **A directory of a block or a leg** is absent, torn (`rmtree` is under way) or whole;
  the temporary directory a builder fills is private to it. What is in a leg is the set
  of blocks its id map lists.
- **A SLURM job** is held, runs, and ends well or badly. A file of a substage's queue is
  in one of four sets; its clocks, counters and temp files are `WorkQueue`'s. A failure of
  a worker returns the shard or poisons it, as its `plan` has retries and poisonings left;
  a shard of a dead task may be reaped at once, a live one keeps its claim fresh (yanked
  claims are `WorkQueue`'s `Stalls`). Whoever lists a directory between another's
  two renames may miss a shard: `misled` and `stray` are history variables of the drives
  and the tasks past whose listings a shard has gone back, `late` of the seeds that raised
  and were taken to have succeeded.
- **Scores** are small numbers with every pattern of ties the code distinguishes. Where the
  code rounds (the fused sums of `Ranking`, the printed scores of `Projection`) the model
  rounds, at its own small precision.
- **Similarity** of questions, answers and sentences (`Projection`) is any symmetric
  relation; the paraphrase judge agrees on any part of it.
- **An LMDB environment** (`PassageStore`) is the inode it was opened on; a directory that
  is replaced has a new one. The garbage collector may drop an unreachable handle at any
  step of its process.
- **A server** (`NodeLifecycle`) is its API server and its engines. It may exit by itself
  or ignore a SIGTERM, as the `weather` says; a process that was waited for has no group
  that can be looked up.

## Plan

The order is that of importance, and every step is done.

1. The queue and what promises what: `FileQueue`, `WorkPool`, `WorkQueue`, with proofs.
2. The registry of pairs: `EndpointRegistry`, with proofs.
3. A topic: `SeedBank` with its proof, `NuggetBank`, `CoverageLoop`, `Cell`.
4. The agent: `RagLoop`, with proofs.
5. Retrieval: `RetrievalLane`, `ResidentService` over `AnswerService`, `QueryStack`,
   `PartFan`, `Ranking`.
6. The corpus chain: `StageDag`, with its proof.
7. Preprocess: documents, shard plan, chunking, block and leg directories, the fused
   build, the passage store, acceptance.
8. What leaves the system: `Projection`, `Submission`, `DatasetRelease`.
9. `NodeLifecycle`.

Open: two processes in one `Cell`.

A run whose question a theorem settles for every constant gave way to one about a later
module: the types of the queue, the registry, the loop and the chain, `OneDirectory`,
`DoneValidated`, `PoisonEarned`, `SettledStays`, `LeasedAccounted`, `Advertised`,
`CommittedReturned`, `AbstentionEarned` and `GenerationsBounded` have theorems and no run.

## Runs

Four configurations check several machines that share no state: the first state picks the
one that runs and the others stand still, so TLC explores the sum, not the product, of
their states. Each property speaks of one machine. The other runs check one module.

| Run | Machine | Bounds | Properties |
|---|---|---|---|
| `queue_chain` | queue: `WorkQueue`, the chained deployment | 2 shards, 2 workers, `KMax` 2, 1 kill, 2 launches of seed, stalls | `NoShardLost`, `MergeComplete`, `PoolSpec` |
| | chunk: `Chunking` | 2 files of documents of 0 to 2 sentences, batches of 1, 2 pool processes, `KMax` 2; two launches of one width with a kill, a dead child and a wait that runs out, a dead child and a kill, an error in the segmenter and a kill, a torn document, a shard of boilerplate only | `SpineExact` |
| | store: `PassageStore` | 2 threads, 2 attempts to build, a mirror that is whole or short, 2 opens a thread, 1 handle left to the collector | `FreshRead`, `NoLeak` |
| | cell: `Cell` | 3 rounds, 2 seeds and a third id, 1 gap an audit, 2 kills, any merges at any audit | `RecordsWhole`, `LoopSpec` |
| `serving` | registry: `EndpointRegistry` | 1 pair, 2 workers, with and without a lane mismatch, 2 announcements, 1 kill | `BookedOnce`, `ScanEnds` |
| | fleet: `ResidentService` | 3 requests (3, 1 and 1 queries; widths 2, 2 and 5), 2 replicas, six scenarios | `OwnAnswers`, `Served`, `PromiseSpec` |
| | node: `NodeLifecycle` | 2 bring-ups, 1 signal, a server that exits, or is deaf, or neither, a caller outside the main thread | `TornDown`, `NodeEnds` |
| `dag` | `StageDag` | three plans: `Once` (2 substages, 2 tasks, 2 shards, submitted once; 2 kills, 1 seed that raises, 2 retries, 1 poisoned shard), `Longer` (2 substages, 1 task, 1 shard, submitted twice; 1 kill, 1 retry, 1 poisoned shard), `Wider` (1 substage, 2 tasks, 1 shard, submitted twice; 1 kill, 1 seed that raises, 1 retry) | `Gated`, `ChainEnds` |
| `corpus` | index: `IndexAssembly` | 2 cells of 2 and 1 blocks, 2 legs, 2 builders; seed runs of two widths, a torn seed, a kill, or a builder that lost its task | `MarkedWhole`, `IndexExact`, `IndexEnds` |
| | doc: `DocumentPipeline` | 4 sentences in two paragraphs or around a heading, each of 1, 2, 4 or 7 tokens; one damaged translation (a stray marker, or none at all); `Budget` 6, `Overlap` 3, `Near` 4 | `MergeLocal`, `EnglishOwn`, `CitableWhole` |
| | shard: `ShardPlan` | up to 3 documents, of up to 4, 3 or 2 rows as they are one, two or three; a second table that lacks any of them, 1 to 3 shards | `ShardFree` |
| | fused: `FusedIndex` | two English passages and one French in 3 cells (the French in two renderings), 2 legs, parts of 1; the table is packed again with other English passages, then with one only, which leaves one part; 1 kill | `ManifestExact` |
| | accept: `Acceptance` | 4 passages in 2 renderings and 1 English one, parts of 3, `TopK` 2, four vector tables with and without ties, whole or damaged in one of twenty places; a walltime signal on a whole one | `Verdict` |
| | release: `DatasetRelease` | a table of sentences and one of passages, a cap of 2 bytes; commands in any order over 2 documents, 1 kill or a forced conversion, with and without staged files of another origin, adopted or not; the plan alone over 3 documents | `ReleaseExact` |
| `pieces` | bank: `SeedBank` | 3 arms, 2 possible banks, 2 kills | `OneSeed` |
| | queue: `WorkQueue` | 1 shard, 2 workers, 1 kill, restarts | `DriveEnds` |
| | lane: `RetrievalLane` | 2 clients of different builds, 1 service launched twice over any of 3 indexes | `RightLane`, `NobodyWaits` |
| | fan: `PartFan` | 5 passages in 3 parts, every pattern of ties, 1 to 3 processes | `SliceFree` |
| | stack: `QueryStack` | 2 queries, 2 cell workers, 2 rerank instances, 1 death | `OwnResults`, `NobodyWaits` |
| | rank: `Ranking` | 3 legs, 1 or 2 cells, strings that repeat or are blank, ties, by a service and without, a leg that is lost, an index that is not published, 1 to 3 threads | `WidthFree` |
| | topic: `Projection` | three families of topics: duplicates, budgets, rankings; `KT3` 2, `AnswersCap` 2, 3 documents | `EvidenceKept`, `ReportHonest`, `RunPublishable` |
| | loop: `RagLoop` | 2 passages, 2 values, `MinSearches` 2, `MaxSearches` 3, `MaxIters` 5, `TokenBudget` 2, `MaxRetries` 1 | `Grounded`, `LoopEnds` |
| | submit: `Submission` | 2 topics, Tasks 1 and 3, 2 workers, 2 launches, 1 kill | `OneProjection` |
| `registry_double` | `EndpointRegistry` | 1 pair, 2 workers, no kill | **violates** `Exclusive` |
| `cell_swept` | `Cell` | 3 rounds, 1 seed, 3 ids, up to 2 gaps an audit, 1 kill | **violates** `AllServed` |
| `stack_splice` | `QueryStack` | 3 queries | **violates** `LegsOwn` |
| `projection_drift` | `Projection`, in `MCPieces` | the families above | **violates** `NoDrift` |
| `chunk_widths` | `Chunking` | the corpus seeded at widths 3 and 1, or 1 and 3 | **violates** `NoRepeat` |
| `store_shared` | `PassageStore` | 2 threads, 1 build, no mirror | **violates** `Absorbed` |
| `node_orphan` | `NodeLifecycle` | 1 bring-up, no signal | **violates** `TreeSignalled` |

What the passing properties say:

- **Queue.** `NoShardLost`: after seed every shard is in the queue, whatever is killed.
  `MergeComplete`: `drive` publishes only over every shard, validated. `PoolSpec`: the queue
  implements `WorkPool`. `DriveEnds`: a launched chain publishes or raises.
- **Chunk and store.** `SpineExact`: the two tables are what one process would write,
  whatever the pool loses, delays or repeats. `FreshRead`: a handle reads the store that was
  published when it asked. `NoLeak`: no environment outlives its handles.
- **Topic.** `RecordsWhole`: after any kills, and whatever the paraphrase gate merges away at
  whichever round, every answer of the bank is recorded before its round under the nugget
  whose loop committed it (`Recorded`), and an id changes its question only through a bank
  that lacks it (`IdReleased`). In a tree whose banks have kept every nugget of the banks
  before them (`Retained`) more holds: ids denote one question, an answer's record is under
  its own nugget, nothing is left unattempted, and a topic solved in one go serves all its
  answers. `Retained` is a hypothesis about what the gate did, not about the model: the runs
  have both kinds of trees, and Findings
  says what happens in the others. `LoopSpec`: the tree is that of an
  uninterrupted `CoverageLoop`. `OneSeed`: the arms of a family start from one bank.
- **Serving.** `BookedOnce`: outside the named races a pair has one holder. `ScanEnds`: a
  scan gives back what it held out. `OwnAnswers`, `Served`, `PromiseSpec`: an answer is made
  of its request's own results, comes in a fair turn, and comes once. `TornDown`: unless an
  API server exits by itself, teardown reaches all its processes, whoever interrupts whom.
  `NodeEnds`: bringup and teardown end, and the card is given back.
- **Corpus.** `Gated`: the online half starts only over whole artifacts, whoever is killed,
  retried, poisoned or submitted twice, with two exceptions that the property names: a seed
  that raised and was taken to have succeeded, and, of a chain submitted twice, a drive past
  whose two listings a shard went back. `ChainEnds`: every submission ends, with the online
  half or at a drive that refuses, as long as `Intact`: no seed fails, and every array keeps
  a task that is neither killed nor has left early, because a shard went back between its
  own two listings. The last clause is needed: such a task exits well, and if the one that
  took the shard is killed then, nobody reaps it and `drive` polls for ever.
  `MarkedWhole`: a marker stands for a whole directory. `IndexExact`:
  no leg is short, no manifest has a hole. `MergeLocal`, `EnglishOwn`, `CitableWhole`: merges
  respect paragraphs, a sentence gets its own English, every passage fits every rendering and
  cites whole sentences. `ShardFree`: the output does not depend on the sharding.
  `ManifestExact`: whatever was packed while a part was built, a manifest of the fused
  build is of the table it was merged under: every leg of a rendering holds that table,
  each passage once, and a part holds the same passages in all its legs and renderings.
  Which passages a part holds is not promised, as `validate` compares them with the slice
  of its own time. `Verdict` has three parts. `HoldsTable`: in an index that every job
  accepts, each leg of each part holds the ids of the part's slice and no other.
  `EndsFaithful`: in the first and the last part of a cell (the sampled parts always
  include them), when every row is probed, a passage's vector is under its own id, unless
  no row has that vector or too many have it to show in the window. `SoundPasses`: an
  index as the build assembles it fails no job, whatever duplicates it has. `ReleaseExact`:
  release shards are cut between documents, and after a push the Hub holds every row, and
  holds it once as long as the names of each split agree on how many files it has. A replan
  with `--no-adopt` may change that number, and push deletes no file (see Findings).
- **Online.** `RightLane`: hits come from the configured build. `SliceFree`, `WidthFree`: a
  ranking does not depend on parts, processes, threads or depth. `OwnResults`: no query is
  scored by another's results. `NobodyWaits`: every query comes back, and a client of a
  service that is gone is told. `Grounded`, `LoopEnds`: a loop cites what it was shown, and
  ends. `EvidenceKept`, `ReportHonest`, `RunPublishable`: no evidence is lost in a merge, the
  report fills its budget in order with cited sentences, Task 2's printed scores keep its
  order. `OneProjection`: a run file is one projection, of topics that passed.

Why the bounds are enough. Two workers are a holder and whoever takes the shard from
it, the only sharing in the protocol; two shards are one to settle and one to race on;
`KMax` 2 separates a retriable failure from the last one, and lets an update be lost.
`MaxAge` 0 makes one tick the whole window, so a stamp can be fresh, old, and past. One
kill per behaviour leaves a shard in any place, and a second process to meet it; two
launches of seed meet every state of the queue the first one leaves. For the registry one
pair is enough, since descriptors of different pairs only meet in `held`; two
announcements give an unpublish and a republish around a live lease. `cell` needs three
rounds (a resumed, a computed and a following one), three ids (a seed that keeps, one that is
merged into it at any audit, one minted, merged away and minted again) and two kills (a resume of a resume). `loop` has the fewest
turns in which each of the three budgets can be the one that is spent, a failed answer
followed by the floor and a commit, two claims of one value, and a re-decode that succeeds
or is the last. `fleet` has a batch that would fill every replica and two requests that
must get past it; with two replicas results come back in either order. `stack` needs a
query that leaves something behind and one that meets it (three for the splice to be
handed on). `chunk` needs two processes for results out of order, and a shard that comes
back while a batch of its first try is in the pool. `store` needs a thread that closes and
one that opens; two builders, since the queue may give the one shard twice. `index` needs a
cell of two blocks for a part that may be short and for tasks of different widths, and two
builders on one directory; `fused` a cell that loses a part between two packings. `doc`
needs a sentence with neighbours on both sides of a paragraph, and a passage whose overlap
leaves no room. `accept` needs a part with a successor and two equal vectors in one part.
`release` needs a document that crosses the cap. `topic` needs three nuggets, so that a
merge can meet a nugget that was merged into. `submit` needs two deliverables of one topic,
one published and one refused. `dag` needs two substages (one to gate the next), two tasks
(one to lose, or one to leave early and one to be killed with the shard) and two
submissions, of which the second brings live workers beside the first's drive; the three
plans meet these two at a time. `node` needs a signal in the middle of a teardown and a
bring-up after it. Where a theorem covers the property the run only needs to have met it.

The bounds are constants named in the modules (`MaxCrashes`, `MaxSeeds`, `MaxPublish`,
`MaxIds`, `MaxGaps`, `MaxDeaths`, `MaxLaunches`, `MaxSubmits`, `MaxKills`, `MaxDamaged`, `MaxOpens`, `MaxDropped`, `MaxBringups`, `MaxSignals`;
`CallLimit` caps a history variable) or fields of a scenario or of a plan; they appear in guards
only. Budgets and floors are constants of the code. Symmetry is used in the run without
liveness properties. Deadlock is not checked: chains, topics, arms and requests really
end, and so does a registry whose processes were all killed.

### Fairness

`WorkQueue!Fairness` and `EndpointRegistry!Fairness` are weak fairness only: a process
that is not killed takes its next step; the supervisor (`slurm/pipeline_workers.sh`)
restarts a dead worker; a seed that did not succeed is launched again; time passes. A
claim that goes on losing its race is not a lack of fairness, since another claim
succeeded. Nothing obliges a fleet worker to finish or an engine to stop. `DriveEnds` has
one escape, stated in it: a reaper that takes live claims again and again, because a
reap counts no attempt. `ScanEnds` excludes behaviours with a race, in which a scan may
meet copies of descriptors for ever.

`RagLoop!FairSpec` is weak fairness of the loop as a whole: every generation is cut off by
`llm.call_timeout_s` and a search by its own limits; nothing is assumed of what the model
answers. `ResidentService!FairSpec` and `QueryStack!FairSpec`: the serving thread runs
and a live replica, worker or instance finishes what it holds. A process that hangs for
ever is outside them, since the code has no timeout against it. `RetrievalLane!FairSpec`:
clients poll, a running service answers, a descriptor nobody renews grows old; there is
none for the deadline, so a client that learns its service has left learns it from the
heartbeat. `IndexAssembly!FairSpec`: builders and drives run on. `StageDag!FairSpec`: SLURM starts what may start, and what
runs runs on: a task, and a reaper of a shard whose job is gone, since its heartbeat ages.
`NodeLifecycle!FairSpec`: the calling process runs on, and a server that was
told to go does, unless the scenario makes it deaf. The MC modules repeat the fairness of
the machines whose liveness they check; `Chunking`, `PassageStore`, `Cell`, `Projection`,
`Submission`, `Acceptance` and `DatasetRelease` state none, since only their safety is
checked.

## Proofs

TLAPS checks the following for every value of the constants. The assumptions are those
stated in the modules, and TLC evaluates each of them in a run: numbers are naturals and
sizes positive; a temp name is no name of a shard or of an endpoint (`NamesAssumption`,
`DescriptorsAssumption`); the weathers of a node are among those the code can meet
(`NodeAssumption`); an absent file is no bank and no inode (`SeedBankAssumption`,
`OpenersAssumption`); a plan of the chain has a task in its arrays (`DagAssumption`); a
fleet has a worker, a lane and a task, a cell a process, what is searched for are strings,
and the room left above a printed score shows in print (`PiecesAssumption`); the nuggets of
a topic have distinct ids (`TopicsAssumption`); a bank starts with a nugget and a saturation
looks at a round at least (`BankAssumption`); a fused index has a leg (`LegsAssumption`); a
tree has the files and the types its readers expect (`TreesAssumption`); a batch holds a document, a seed asks for a range and is launched at
least once (`ChunkAssumption`); floors, caps, overlaps and what a translation adds are
naturals, and a passage has a budget (`TextsAssumption`); a stage is asked for a shard, a
row group holds a row, and the second table of a stage has rows only of documents that its
work table has (`TablesAssumption`). An inductive invariant was checked by TLC before it was proved, on the
instances named below where they are larger than those of the runs.

- `QueueTypeCorrect`, and the per-shard theorems in both deployments.
  - `QueueLosesNoShard` by `Kept`: what seed has dealt with so far is in a directory.
    `NoShardLost` alone is not inductive, as it says nothing before seed returns, nor of a
    seed that is relaunched. `PlacedGrows` is the lemma behind it: no step of any process
    takes a shard out of the queue.
  - `QueueDoneValidated` by `Validated`: a worker about to rename into `done/` holds a
    name with a validated output, whether or not it still holds the file.
  - `QueuePoisonEarned` by `Tallied`: neither the persisted counter nor the copy a worker
    is about to write exceeds the failures that happened. Lost updates only lower it.
  - `QueueSettledStays` step by step: every move out of a directory is out of `pending/`
    or `running/`.
- `QueueOneDirectory`, `QueueMergeComplete` and `QueueImplementsPool`, for the chained
  deployment, by `OneAtATime`: `Phases` (nothing but seed moves before seed has returned,
  nothing but drive after drive has started, so what drive read stays true) together with
  `OneDirectory`. Outside a chain `MergeComplete` is false and a relaunched seed re-offers
  names, so the hypothesis `Chained` is needed. The refinement is the safety specification
  of `WorkPool`; neither side has fairness.
- `RegistryTypeCorrect`, and `RegistryBooksOnce`, `RegistryAccountsForLeases`,
  `RegistryKeepsAdvertised` by `Booked`, which says of every endpoint no race has
  touched where its descriptor and its temp file can be at each place of its job.
- `SeedBankShared` (stated in `MCPieces_proof`) by `Adopted`: from the link on a bank is
  published, from the read on an arm holds that bank, and whatever it has marked is a copy
  of it.
- `HitsFromTheRightLane` by `LaneInv`: a reply carries the index it was made from, and the
  client compares it with its own before it takes it, so nothing has to be known of which
  service is up. That is the point: the check at the end carries the guarantee, not the
  discovery before it.
- `AnswersAreOwn`, for every number of queries, cell workers, rerank instances and deaths,
  by `StackInv`: `Queued` (queries come one at a time), `Piped` (what is in each pair of
  pipes belongs to the open query, as long as no query was cut short), `Gathered`,
  `ScoredOwn` and `OwnLegs`. `Piped` speaks of the pipes of *live* workers only, and is
  what a death in the middle of a query has to be argued about: the query ends in an error
  and the stack is poisoned, so nobody reads what is left. (TLC: 3 queries, 2 deaths,
  479,003 states.)
- `SlicingIsFree`, for any cell, parts, ties, processes and k, by `FanInv`: a slice has, once
  each, what the parts it has searched returned (`FanListed`), and a reply is the best k of
  what its slice was dealt, or says that its leg raised (`FanReplied`). `SlicesCover`
  (division, by `RunsCover`) says that every part is searched by one slice and by no other;
  a device leg by the first. Then nothing of the k best of the whole is lost on the way: in
  a sorted part nothing comes later than in the whole (`PartLater`), so it is among the k
  of its slice (`TopsHold`). That the scores are those of the cell is `ScoresSame`: a part
  that leaves something out returns k, none of them worse. Which of several equal passages
  a part returns is its engine's choice, so only the scores are compared. Sorting is by
  rank, and `RankSorts` says that it sorts. (TLC: `FanInv` on the 297,714 states of
  `pieces.cfg`.)
- `SubmissionIsOne` by `SubmitInv`: the last mark of a topic makes all its deliverables
  those of one projection (`LastIsWhole`), a topic that has it is never run again
  (`NotAgain`), and the driver joins only topics that have it (`Joined`). (TLC: 3 launches,
  2 kills, 6,492,498 states.)
- `IndexTypeCorrect`, `NoLegShort` and `PublishedStays` by `IndexInv`, for any cells, legs,
  parts and builders. Two tasks never share a directory (`TasksApart`, from arithmetic on
  part widths), a leg's manifest is written by the drive from legs that were marked when it
  looked and marks are only added (`ManifestInductive`, `MarksGrow`). `PublishedStays` has
  the hypothesis `Careful`: nobody is killed, or no builder loses its task to another. It
  is needed: with a kill *and* two builders on one directory, the second removes what the
  first has marked and may be killed before it has put its own there.
- `ManifestIsExact`, for any packings, cells, renderings, legs, part sizes and kills, by
  `FusedInv`. The table a leg was built from is not remembered, so nothing can be said of it;
  what is kept is `Agreed`: the legs of a unit that is done hold the same passages, each
  once, because `validate` compared them all with one slice. `Held` (a unit is run by the
  worker that has it) keeps a finished leg from being written, and `Seeded` a receipt from
  a unit that is in no queue. The rest is what `merge` looks at: `Agreed` turns what all
  the legs have in common into what each of them holds.
- `VerdictIsTrue`, for any trees, whole or damaged, and any samples, by `VerdictInv`: the
  whole-corpus job passes only what phase A checks (`Checked`); what a cell has been asked
  was explained, and what it was not is left to ask (`Telling`), so a cell that passed was
  told every row of its sampled ends (`Told`). `ProbeTells` is the lemma that makes
  `EndsFaithful` of it: if a window in order of score shows the passage first, or after
  ties only, the row with its vector is its own, or no row has that vector, or so many
  have that they fill the window. `SoundPasses` needs the other direction:
  `Placed`, `SlicesApart` and `SlicesCover` (arithmetic of a table cut at multiples of
  `PartSize`) say that the parts of a whole cell are apart and are the table, `WholeIsChecked`
  that phase A therefore passes, and `WholeExplained` that every probe is explained: no score
  beats that of a vector against itself, and what ties with it is a duplicate.
  The sizes of the parts add up by `SumOfSizes` of `DataLemmas`. (TLC: `FusedInv` and
  `VerdictInv` on the 105,715 states of the two machines.)
- `SpineHolds`, for every corpus, batch size, number of pool children and seeds of one
  width, by `Chunked`: a slice file holds the range its name says or is one the next seed
  writes again; whatever is in the pool, in a result or in `out/` under a shard's name is
  the segmentation of that shard's range, torn ones excepted, which no validation passes;
  and `drive` starts only when every range of the seed is settled. That the ranges of one
  width are the corpus, and the parts in order of their start the two tables, is
  `FlatConcat` and `SortedUnique`. (TLC: 52,044 states.)
- `MergeIsLocal`, `EnglishIsOwn` and `CitableIsWhole`, for any document, floor, cap, budget
  and overlap, by `DocInv`. `Merged`: the units follow each other from the first sentence
  on and cross a paragraph only by a whole one; a boundary the forward step crosses ends a
  paragraph that lies in the unit, one the backward step crosses opens a paragraph that
  ends with it, which needs that paragraphs are numbered in order (`chunk.py:251`, `:273`).
  `Translated`: what is still to be reconciled is the document from `expect` on, each row
  with a text of its own sentences, and a row of several is a unit of the map, so
  `reconcile` refuses nothing. A split takes the text apart at its markers: a text in order
  with as many segments as sentences has each sentence in its own segment (`Staircase`),
  so one sentence torn by a marker is what breaks it, and `EnglishIsOwn` has the hypothesis
  that MT tears none. `Packs`: every passage closed is a run within the budget and goes on
  from the one before, and together with the run in hand they hold every sentence so far;
  the length packed by is at least that of either rendering (`LengthOver`, `FillNat`).
  (TLC: `DocInv` on 11,966 states of the texts of `corpus.cfg`.)
- `ShardingIsFree`, for every corpus, second table, number of shards and size of a row
  group, by `ShardInv`. `Planned`: the ranges follow each other from the first row to the
  last, each from the start of a document on, and the k-th not before row (k - 1) times the
  width of a range, so there are no more than were asked for. `Aligned` and `Walked`: what
  the two forward walks have found is where the opening documents start in the second
  table, and what they have not is still ahead, so they refuse nothing. `Working`: each
  worker stands, in both tables, at the start of the same document and has listed the
  documents of its shard before that one, each once and in order. A run of a stream is then
  exactly a document's rows, whichever row groups hold them, and the parts in a row are the
  list that one worker writes. Rows, starts of documents and their sums are flattening and
  folds, by `DataLemmas`. (TLC: `ShardInv` on 50,328 states.)
- `ServedOwn` and `ServicePromises` by `FleetInv`, for any requests, queries, replicas and
  scenarios: `QueueShaped`, `PoolShaped` (a replica is idle, busy or gone, and a busy one
  has a key), `Waiting` (a live request has no reply and lacks results), `Keyed` (whatever
  comes back under a key was made for it) and `Placed` (where the job of an exclusive batch
  stands). `ServicePromises` is the refinement of `AnswerService`, step by step. The
  hypothesis `Tame` says of each scenario that at most one request owns the fleet, or no
  such request raises and no replica dies; it is needed because of the bare indices that
  an exclusive batch ending in an error leaves behind (see Findings). (TLC: `FleetInv` on
  129,518 states, and on 81,107 over every tame scenario of 2 requests.)
- `TurnsAreFair`, the safety half of `Served`, with no hypothesis, by `TurnInv`: whoever
  was served since a request was last served stands behind it in `live`. It takes lemmas
  about the order of a sequence under append, tail and removal, and the first position of
  an element, which is the minimum of a set of naturals.
- `TeardownReaches`, for any number of bring-ups and signals and every weather, by
  `NodeInv`: `Grouped` (what a group still contains), `Signalled` (a process the teardown on
  top of the stack has passed was signalled) and `Held` (what the frames below it remember
  when the handler interrupts them). A handler's teardown runs to its end before the
  interrupted one moves on, so the stack needs no induction: a step changes its top only.
  (TLC: 3 bring-ups, 2 signals, 99,958 states.)
- `HandlesReadFresh` and `NoneOutlives`, for any threads, builds and mirrors, by `StoreInv`.
  `Numbered` and `Seen`: an inode is published once, so an entry of the table keyed by
  path and inode cannot come to stand for another build, and a thread that found one saw
  that inode under the path. `Counted`: the count of an entry is the number of its handles,
  those in garbage included, so whoever takes the last one closes the environment; the
  thread between the two lock regions of `_release_env` is in `closing`. `Locked` says who
  is inside `_ENV_LOCK`. (TLC: 3 opens, 3,145,384 states.)
- `TreeAccounts` and `ResumesInvisible`, for every `R_max`, saturation rule, bank, number
  of kills and whatever the paraphrase gate merges away at any audit, by `TopicInv`: for
  some `m`, the first `m` rounds carry a marker and are a chain of audits none of which
  comes after a saturation (`Banked`); the process is where a loop that read or wrote
  exactly these rounds would be (`Solving`); every answer of the last bank has its row,
  below round `m`, under the nugget it was committed to, which may be gone (`Told`), and one
  the round at work attaches has its row in the records of its own fan (`Recorded`); and,
  for a topic no kill has met, a committed answer is in the last bank or is one of the
  sweep (`Unbroken`). `Told` and `SameQuestions` (an id that is in every bank from one
  round to another keeps its question, as only the ordinal above the highest is minted)
  need no hypothesis. That a record is of the question its nugget still asks, that
  an answer is its own nugget's, and the served answers of `Unbroken` are kept under
  `Unmerged`, or `Upheld` when a bank is about to be written: no nugget of the chain has
  been merged away since. This is where the hypothesis `Retained` of `RecordsWhole` comes
  from, and it is needed (see Findings). `ResumesInvisible` is the refinement of
  `CoverageLoop`: only a marker and the completion show in the tree, a marker is `Start` or
  `Grow`. That the bank of the sweep is never written (its round is complete, see Findings)
  is part of the argument.
- `LoopTypeCorrect`, `ClaimsGrounded`, `LoopReturnsCommitted`, `LoopEarnsAbstention` and
  `LoopBoundsGenerations` by `LoopInv`: `MenuLegal` (a turn has the phase menu and is within
  `MaxIters`, or has the forced menu and a spent budget, which is why only a forced turn
  can be the last one), `WithinBudget` (generations of the turns so far), `LoopRecorded` (the
  record is the fan-in of what was committed) and `LoopLed`: every value has a first claim.
  `LoopLed` takes the place of an induction over the claims; a commit keeps it (`CommitLed`).
- `DagTypeCorrect`, and `DagGated`, for every number of substages, tasks, shards and
  submissions and every budget of kills, retries and poisonings, by `DagInv`: `Fed` (what a
  seed has written is somewhere in the queue, unless the substage is finished), `Ordered`
  (a drive is past its array, an array past its seed, a seed past the substages before),
  `Settled` (what the listings have shown the drive at each of its places: after
  `pending/` every shard is in `running/`, `done/` or `failed/`, after `running/` every shard
  is done or something has failed, after `failed/` every shard is done; what is done stays
  done, and what has failed stays failed, while the substage is open), `Merged` (a sentinel
  stands for an artifact over every shard) and `Alone`
  (no drive of a chain submitted once is misled, since its tasks are over when it starts).
  `Settled` and `Merged` except the drives of `late` and `misled`, as `Gated` does, and no
  others; both exceptions are needed (see Findings).
- `RankingIsWidthFree`, for every index, table of scores, set of legs, k, number of threads
  and rounding of sums, by `RankInv`: whatever thread searched a unit, its list is what one
  thread would have got (`RankFetched`), and lists are collected in the order of the units,
  not of their arrival (`RankShaped`, `RankRight`), so the float sums are made in one order
  and need no law of addition. No answer is made while a leg is lost (`RankGated`).
- `TiesAreSeparated` about `_separate_tied_groups` and `RankedRunsArePublishable` about the
  ranked list, for every bank, table of scores, resolution and headroom: the first is an
  induction over the groups of equal print, from the top (each group is spread
  downward from its first row over the room above the group below, or the whole raises),
  and `Publishing` carries what it yields through the self-check. `MergingKeepsEvidence`, for every bank and every verdict of
  embeddings and judge, by `Standing`: a merge of questions joins components of the relation
  of duplicates, a merge of answers keeps of each document the best score, and what
  an answer cited is cited under the nugget that stands for its question, unless
  an earlier answer said the same word for word.

Only model-checked: liveness (`DriveEnds`, `ScanEnds`, the second half of `Served`,
`NobodyWaits`, `LoopEnds`, `IndexEnds`, `ChainEnds`, `NodeEnds`), which needs fairness and
ENABLED; `ReleaseExact` and `ReportHonest`, which compute over tables and over the three
caps and the budget of a report, and have no proof yet; and of course the violated
properties. The induction
theorems of the library take a predicate and cannot be cited; `DataLemmas` derives from
well-foundedness induction over a *set*, which can, and with it folds, sorting and
flattening become provable.

## Findings

The seven violated runs each show a place where the code does something else than one of
its own comments says; PROJECT.json quotes both sides.

1. `beat` and `publish_endpoint` check and then write: a leased pair can be leased a
   second time (`serving/vllm_registry.py:176`).
2. After a resume the final sweep numbers its records too low and its answers are not
   served (`pipeline/round_loop.py:402`).
3. The query is sent to the cell workers before the late-interaction leg and received
   after it; an exception in between gives the next query the lists of this one
   (`devkit/rsvc.py:2362`).
4. Task 2 merges answers before it ranks, and looks scores up under the merged names:
   scores of absorbed answers are not found (`select_serialize/task2_claims.py:128`).
5. Two seeds of different width work on one chunk queue, and the merge writes documents
   twice (`orchestration/saturate.py:417`).
6. `_release_env` closes outside the lock: a thread that opens the store in between is
   refused instead of sharing (`common/passage_store.py:838`).
7. `teardown` cannot signal the group of a server whose API process was already waited
   for, and leaves its engines (`serving/node/vllm_server.py:430`).

More of the kind, met while modelling. The first group can be seen in the models by
another choice of constants or scenarios.

- `next_index` counts from the highest ordinal of the bank in hand, so the id of the
  newest nugget is minted again after the sampled gate (`grow_nuggets.py:539-546`) has
  merged it away at a later round, while its loop records and the banks before still hold
  the old question (`pipeline/decompose/bank.py:132`). The docs say "ids are monotone" and
  that a merged-away id "never resurfaces on a different question" (`bank.py:123-125`,
  `dedup.py:17`). `IdKept` is violated in `cell`,
  without any kill; `IdReleased` says how
  far it holds.
- An open nugget may hold an answer (its loop abstained after a commit). When it is merged,
  the survivor inherits the answer (`dedup.py:105-106`), but the loop record stays under the
  id that is gone, and `assemble_bank` looks under the survivor's: it raises, or drops the
  answer (`pipeline/select_serialize/load.py:168`). No id is minted twice for this.
  `TwinEvidence` is violated in `cell`, without any kill; `Recorded` says where the record is.
- The drive of a chain that was submitted a second time polls beside the workers of the
  second submission. A shard that a worker returns between its listings of `pending/` and
  `running/` is in neither; if that happens at both of its tests, or the shard is claimed
  again and poisoned before the second has listed `running/`, the drive merges a partial corpus and the
  online half starts (`orchestration/saturate.py:400-417`), against "the pipeline starts only
  once the whole chain is merged" (`cli.py:946`). Plan `Longer` of `dag` has it: without its
  second exception, `misled`, `Gated` fails after 38 steps.
- A worker lists `pending/`, another returns a shard, the first lists `running/` and leaves
  with success; if the other takes the shard again and is killed, no reaper is left and
  `drive` polls for ever, although one task of the array was never touched
  (`orchestration/saturate.py:341-343`; `stray` in `dag`, excluded by `Intact`).
- The vLLM job goes on beating the lease of a dead worker, so no reaper returns the pair
  (`slurm/vllm_service.sbatch:277`).
- The effort floor outlives the state it is about: a loop may abstain on committed claims
  (`pipeline/rag_loop/state.py:104`).
- An exclusive batch with a query that raises leaves its other jobs in `_busy` under bare
  indices. The next exclusive batch collects them as its own results, and a multiplexed
  request ends the service on a `TypeError` (`devkit/rsvc.py:1532-1571`). The scenarios
  of `fleet` contain one request that may do this, and none after it.
- `_publish_dir` says that a leg is "either fully published or absent"
  (`preprocess/index.py:3036-3043`): of two live builders one may remove what the other
  is about to mark, and a kill then leaves a marker without a directory. `MarkedWhole`
  holds while the remover finishes; the scenarios of `index` never add a kill to two
  builders.
- A seed job that raises after its walltime warning ends well (the `trap`), and the chain
  goes on over an unseeded queue (`late` in `dag`, the first exception of `Gated`). Cancelling the array of a seed
  that failed, as SLURM's `kill_invalid_depend` does, lets `drive` run over it as well
  (`orchestration/saturate.py:400`).
- A chain submitted again seeds a drained queue anew; the work is repeated, the artifact kept.
- `_ChunkPool.close()` joins a pool whose child was killed and may wait for ever
  (`chunk.py:796`); `Chunking` reaches the place and stays there. A shard whose documents
  are all boilerplate writes an empty file, is refused `KMax` times and ends as poison, and
  `drive` refuses (`chunk.py:1189`).
- A SIGUSR1 before the handler is installed ends the process of `bringup` and leaves its
  server, which has a session of its own (`vllm_server.py:382`; pc `killed`). Engines that
  outlive their API server after a SIGTERM are never sent a SIGKILL.

The rest follows from reading alone.

- `reap_stale` may requeue a shard that a live worker has just claimed again, because its
  sidecar carries the old stamp (`workqueue.py:365`), although a live claim is "never
  requeued mid-flight" (`saturate.py:313-314`).
- A loop may generate `max_iters * (1 + max_retries) + 1` times, one more than
  `loop.py:334-335` says.
- `search_batch` checks only the rendering of a reply; the service's own fusion constant and
  reranker are neither sent nor compared, and its scores are rounded to five digits.
  `merge_slices` and `query_lang_leg` promise the result of a whole cell, which a score tie
  on the last place breaks on a GPU.
- `.tmp-{pid}` names are not unique across nodes. The fallbacks of the passage store take an
  empty translation for a missing one. `_acquire_env` finds an environment and counts itself
  afterwards; a collection in between may close it.
- The walltime trap of the acceptance job exits 0 with a fragment that holds step 0 only, and
  a second run overwrites a finished fragment. The excuse for equal scores never compares the
  best score with that of the vector itself, and ranks of the other two legs decide nothing.
- A release shard is cut at the first document that starts at or past the cap, so it may be
  larger than `SHARD_CAP_RAW_BYTES`. `push` never deletes names of an earlier plan: after
  adopt, push, `plan --no-adopt`, convert, push, files of both plans are on the Hub, since
  the names carry the number of files (`analysis/upload_dataset.py:844`). `DatasetRelease`
  has these commands; `HubWhole` promises each row once only while the names of a split
  agree on that number, and each row at least once always.
- An answered nugget that is merged into an earlier, unanswered one is missing from Task 1
  (`dedup.py:179`, `task1.py:105`); an exact duplicate claim of another question drops its
  documents. Task 1 may be published before Task 3 is refused, and the gate of Task 2 sees
  topics, never the concatenated file.
- `vllm_service.sbatch` announces an engine whose readiness it gave up waiting for.

## Not modelled

The components with status `not_modelled` in PROJECT.json, each with its reason: prompts and
weights of the decomposition; citation scoring, which adds files the loop never reads;
config, layout, schemas, ids; the clients of LLM, MT, encoders and reranker; download and
sampling; probes, benches and analysis scripts other than the release. Within the modelled
ones: the text of prompts, questions and answers; the lane inference of a fleet worker (a
constant assignment here); `live_endpoints`, which only reads; the restart of a dead engine
inside `vllm_service.sbatch` beyond unpublish and publish; a second process on the same
topic, which a lost claim makes possible; staged files of a release that were built by
something else, other than one file per language (a second set of cuts under the same names
could be adopted: only names and row counts are compared); a replica whose death does not
show in its pipe: its forked cell workers (`devkit/rsvc.py:2192-2201`) inherit the
connection and may outlive a SIGKILL, so that `harvest` sees no end of file
(`rsvc.py:1520-1527`) and `Served` and `NobodyWaits` hold for a death that is seen only; the HTTP gateway in front of a resident service;
what the index engines (FAISS, Seismic, PLAID) compute, and the training of their centroids;
phase B2 of acceptance; node discovery (`serving/node/discovery.py`), which parses scheduler
output; `drive` launched by hand before any seed; file systems that reorder renames.
