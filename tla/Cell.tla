-------------------------------- MODULE Cell --------------------------------
(* One topic of one cell: pipeline/round_loop.py run_rounds inside            *)
(* pipeline/driver.py drive, on the files of Layout, killed at any step and   *)
(* started again on what it left; and what select_serialize/load.py makes of  *)
(* the finished tree.  Round 0 is the bank the family agreed on (SeedBank).   *)
EXTENDS NuggetBank

CONSTANTS
    None,        \* no file
    MaxGaps,     \* bound: gaps one audit admits
    MaxCrashes   \* bound: processes killed

VARIABLES
    bankFile, marked,  \* decompose/round_{r}.jsonl, rounds with a _SUCCESS companion
    rows,              \* rag_loop/{nugget_id}.jsonl: its rows, {} when there is no file
    success,           \* <run>/_SUCCESS
    pc,
    r, bank, novelty,  \* run_rounds: round, bank in memory, novelty per round
    computed,          \* len(rounds): fans of this process, resumed rounds excluded
    hits, left, rowNo, \* the fan: which loops committed an answer, nuggets whose record
                       \* is not written yet, the round number of those records
    target, back,      \* write_bank: the round written, where the code goes on
    crashes

disk   == <<bankFile, marked, rows, success>>
fan    == <<hits, left, rowNo>>
memory == <<r, bank, novelty, computed, fan, target, back>>
vars   == <<disk, pc, memory, crashes>>

\* A record row: the fan it belongs to, the question it answers, and whether its
\* loop committed an answer.
Rows == [round : 1 .. RMax + 1, origin : Rounds, hit : BOOLEAN]

Places == {"off", "round", "record", "write", "mark", "stop", "sweep", "finish", "done"}

TypeOK ==
    /\ DOMAIN bankFile = Rounds
    /\ \A k \in Rounds : bankFile[k] = None \/ IsBank(bankFile[k])
    /\ \E n \in 0 .. RMax + 1 : marked = 0 .. n - 1 /\ \A k \in marked : bankFile[k] # None
    /\ rows \in [Ids -> SUBSET Rows]
    /\ success \in BOOLEAN
    /\ pc \in Places
    /\ r \in 0 .. RMax + 1
    /\ IsBank(bank)
    /\ Len(novelty) <= RMax
    /\ computed \in 0 .. RMax + 1
    /\ hits \subseteq DOMAIN bank /\ left \subseteq DOMAIN bank
    /\ rowNo \in 0 .. RMax + 1
    /\ target \in Rounds
    /\ back \in {"round", "stop", "finish"}
    /\ crashes \in 0 .. MaxCrashes

Init ==
    /\ bankFile = [k \in Rounds |-> None]
    /\ marked = {}
    /\ rows = [i \in Ids |-> {}]
    /\ success = FALSE
    /\ pc = "off"
    /\ r = 0 /\ bank = Seed /\ novelty = <<>>
    /\ computed = 0
    /\ hits = {} /\ left = {} /\ rowNo = 0
    /\ target = 0 /\ back = "round"
    /\ crashes = 0

-----------------------------------------------------------------------------
(* write_bank: write_jsonl with its skip-if-done.                             *)

Persist(k, next) ==
    /\ target' = k
    /\ back' = next
    /\ pc' = "write"

\* A round that carries its marker is left untouched; otherwise the file is
\* replaced by rename.
WriteBank ==
    /\ pc = "write"
    /\ IF target \in marked
       THEN pc' = back /\ UNCHANGED bankFile
       ELSE pc' = "mark" /\ bankFile' = [bankFile EXCEPT ![target] = bank]
    /\ UNCHANGED <<marked, rows, success, memory, crashes>>

MarkBank ==
    /\ pc = "mark"
    /\ marked' = marked \cup {target}
    /\ pc' = back
    /\ UNCHANGED <<bankFile, rows, success, memory, crashes>>

-----------------------------------------------------------------------------
(* drive and run_rounds.                                                      *)

\* A topic with its _SUCCESS is a no-op.
Noop ==
    /\ pc = "off"
    /\ success
    /\ pc' = "done"
    /\ UNCHANGED <<disk, memory, crashes>>

\* _round_zero: read back when complete, else the shared seed bank is copied.
RoundZero ==
    /\ pc = "off"
    /\ ~success
    /\ r' = 1
    /\ IF 0 \in marked
       THEN /\ bank' = bankFile[0]
            /\ pc' = "round"
            /\ UNCHANGED <<target, back>>
       ELSE /\ bank' = Seed
            /\ Persist(0, "round")
    /\ UNCHANGED <<disk, novelty, computed, fan, crashes>>

\* Mutant: a resumed round is not counted as a novelty observation.
Bug_ResumeUncounted ==
    /\ pc = "round"
    /\ r \in marked
    /\ bank' = bankFile[r]
    /\ pc' = "stop"
    /\ UNCHANGED <<disk, r, novelty, computed, fan, target, back, crashes>>

\* A complete round is read back, its novelty recovered from its bank.
Resume ==
    /\ pc = "round"
    /\ r \in marked
    /\ bank' = bankFile[r]
    /\ novelty' = Append(novelty, NetNew(bank', r))
    /\ pc' = "stop"
    /\ UNCHANGED <<disk, r, computed, fan, target, back, crashes>>

\* run_round over the nuggets in among: every loop returns a result, at worst an
\* empty one, and the fan is appended to rounds.
FanOut(among, no) ==
    /\ \E h \in SUBSET among : hits' = h
    /\ left' = among
    /\ rowNo' = no
    /\ computed' = computed + 1
    /\ pc' = "record"

Fan ==
    /\ pc = "round"
    /\ r \in Rounds \ marked
    /\ FanOut(Open(bank), r)
    /\ back' = "stop"
    /\ UNCHANGED <<disk, r, bank, novelty, target, crashes>>

\* Mutant: the rows of earlier rounds are not carried over.
Bug_RecordOverwrites ==
    /\ pc = "record"
    /\ left # {}
    /\ LET i == Min(left) IN
        /\ rows' = [rows EXCEPT ![i] =
                       {[round |-> rowNo, origin |-> bank[i].origin, hit |-> i \in hits]}]
        /\ left' = left \ {i}
    /\ UNCHANGED <<bankFile, marked, success, pc, r, bank, novelty, computed,
                   hits, rowNo, target, back, crashes>>

\* write_loop_record, one nugget at a time in bank order: the row of this round
\* is replaced, the others are kept.
Record ==
    /\ pc = "record"
    /\ left # {}
    /\ LET i == Min(left) IN
        /\ rows' = [rows EXCEPT ![i] =
                       {w \in @ : w.round # rowNo} \cup
                       {[round |-> rowNo, origin |-> bank[i].origin, hit |-> i \in hits]}]
        /\ left' = left \ {i}
    /\ UNCHANGED <<bankFile, marked, success, pc, r, bank, novelty, computed,
                   hits, rowNo, target, back, crashes>>

\* grow_nuggets at round r: attach the evidence, close only what has an answer,
\* prune only what has none, add the admitted gaps, merge duplicates. The gate is
\* sampled at every audit: any open nugget may merge into an older one.
Audit ==
    /\ pc = "record" /\ left = {} /\ back = "stop"
    /\ LET tagged == Attach(bank, hits)
           answered == {i \in DOMAIN tagged : tagged[i].answers # {}}
       IN \E full \in SUBSET (answered \cap Open(tagged)),
             cut \in SUBSET (DOMAIN tagged \ answered),
             n \in 0 .. MaxGaps :
            LET grown == Mint(Prune(Close(tagged, full), cut), n, r)
            IN /\ DOMAIN grown \subseteq Ids
               /\ \E gone \in SUBSET Open(grown) :
                    \E into \in Merges(grown, gone) : bank' = Merged(grown, into)
    /\ novelty' = Append(novelty, NetNew(bank', r))
    /\ hits' = {}
    /\ Persist(r, "stop")
    /\ UNCHANGED <<disk, r, computed, left, rowNo, crashes>>

\* The saturation break, or the next round.
Stop ==
    /\ pc = "stop"
    /\ IF Saturated(novelty)
       THEN pc' = "sweep" /\ UNCHANGED r
       ELSE pc' = "round" /\ r' = r + 1
    /\ UNCHANGED <<disk, bank, novelty, computed, fan, target, back, crashes>>

\* The range of rounds is exhausted without saturation.
Exhausted ==
    /\ pc = "round"
    /\ r > RMax
    /\ pc' = "sweep"
    /\ UNCHANGED <<disk, memory, crashes>>

\* Open nuggets no loop has left a record for.
Unattempted == {i \in Open(bank) : rows[i] = {}}

NothingToSweep ==
    /\ pc = "sweep"
    /\ Unattempted = {}
    /\ pc' = "finish"
    /\ UNCHANGED <<disk, memory, crashes>>

\* The sweep: its records are numbered after the fans of this process.
Sweep ==
    /\ pc = "sweep"
    /\ Unattempted # {}
    /\ FanOut(Unattempted, computed + 1)
    /\ back' = "finish"
    /\ UNCHANGED <<disk, r, bank, novelty, target, crashes>>

\* Its evidence is attached and answered nuggets are closed, without an audit (a
\* loop that abstained after a commit stays open); the bank is written for the
\* round before its records'.
AttachSweep ==
    /\ pc = "record" /\ left = {} /\ back = "finish"
    /\ \E answered \in SUBSET hits : bank' = Close(Attach(bank, hits), answered)
    /\ hits' = {}
    /\ Persist(computed - 1, "finish")
    /\ UNCHANGED <<disk, r, novelty, computed, left, rowNo, crashes>>

\* Citation scoring and the counters read the tree or add to it beside these
\* files; _mark_complete comes last.
Complete ==
    /\ pc = "finish"
    /\ success' = TRUE
    /\ pc' = "done"
    /\ UNCHANGED <<bankFile, marked, rows, memory, crashes>>

\* Preempted, killed, or an exception out of an audit: the topic is retried on
\* the tree as it is.  A kill after drive has returned, before the topic's shard
\* is marked done, offers a finished topic again.
Crash ==
    /\ pc # "off"
    /\ crashes < MaxCrashes
    /\ crashes' = crashes + 1
    /\ pc' = "off"
    /\ r' = 0 /\ bank' = Seed /\ novelty' = <<>>
    /\ computed' = 0
    /\ hits' = {} /\ left' = {} /\ rowNo' = 0
    /\ target' = 0 /\ back' = "round"
    /\ UNCHANGED disk

Next ==
    \/ Noop \/ RoundZero \/ Resume \/ Fan \/ Record \/ Audit \/ Stop \/ Exhausted
    \/ NothingToSweep \/ Sweep \/ AttachSweep \/ WriteBank \/ MarkBank
    \/ Complete \/ Crash

Spec == Init /\ [][Next]_vars

-----------------------------------------------------------------------------
(* select_serialize/load.py on the tree.                                      *)

\* last_complete_round, and the bank it makes authoritative.
Through == Max(marked)
Final == bankFile[Through]

Evidence(i, ws) == {<<i, w.origin>> : w \in {v \in ws : v.hit}}

\* loop_evidence and _swept_answers: rows up to the authoritative round, and
\* rows past it.
LoopEvidence(i) == Evidence(i, {w \in rows[i] : w.round <= Through})
SweptAnswers(i) == Evidence(i, {w \in rows[i] : w.round > Through})

\* assemble_bank's answers of one nugget, orphans dropped.
Served(i) ==
    IF Final[i].answers = {} THEN SweptAnswers(i) ELSE Final[i].answers \cap LoopEvidence(i)

-----------------------------------------------------------------------------
(* Properties.                                                                *)

\* A crash at any step and any number of resumes are invisible in the tree: the
\* rounds that carry a marker are those of an uninterrupted coverage loop, which
\* stops at the same round.
Loop == INSTANCE CoverageLoop WITH
            banks <- [k \in 1 .. Cardinality(marked) |-> bankFile[k - 1]],
            solved <- success

LoopSpec == Loop!Spec

\* Every answer of the authoritative bank is recorded before its round under the
\* nugget whose loop committed it: an inherited one under the nugget merged away.
Recorded ==
    marked # {} => \A i \in DOMAIN Final : \A a \in Final[i].answers : a \in LoopEvidence(a[1])

\* An id comes to name another question only through a bank that lacks it.
IdReleased ==
    \A j, k \in marked : \A i \in DOMAIN bankFile[j] :
        j <= k /\ (\A l \in j .. k : i \in DOMAIN bankFile[l]) =>
            bankFile[k][i].origin = bankFile[j][i].origin

\* No nugget of a written bank has been merged away since.
Retained == \A j, k \in marked : j <= k => DOMAIN bankFile[j] \subseteq DOMAIN bankFile[k]

\* No nugget reaches Task 3 unattempted: every nugget left open in the bank of a
\* finished topic has a record of a loop that was asked its question.
Attempted ==
    success => \A i \in Open(Final) : \E w \in rows[i] : w.origin = Final[i].origin

\* Every answer of the authoritative bank has its twin in the loop records of its
\* own nugget, so assemble_bank never meets MissingLoopEvidence.
TwinEvidence ==
    marked # {} => \A i \in DOMAIN Final : Final[i].answers \subseteq LoopEvidence(i)

\* A nugget id denotes one question in the whole tree, once merged away it never
\* resurfaces on a different one.
IdKept ==
    \A k \in marked : \A i \in DOMAIN bankFile[k] :
        /\ \A w \in rows[i] : w.origin = bankFile[k][i].origin
        /\ \A m \in marked : i \in DOMAIN bankFile[m] =>
              bankFile[m][i].origin = bankFile[k][i].origin

\* The records of the tree account for the bank, whatever rounds were resumed: its
\* answers are recorded and its ids keep their questions while they are there; and
\* as long as the gate has merged away no nugget of an earlier round's bank, ids,
\* answers and attempts agree in the whole tree.
RecordsWhole ==
    /\ Recorded /\ IdReleased
    /\ Retained => Attempted /\ TwinEvidence /\ IdKept

\* Every answer a loop committed to a nugget of the final bank is served, when no
\* nugget of an earlier bank was merged away.
AllServed ==
    success /\ Retained => \A i \in DOMAIN Final : Evidence(i, rows[i]) \subseteq Served(i)

\* So it is for a topic solved by one process from start to end.
UninterruptedServed == crashes = 0 => AllServed
=============================================================================
