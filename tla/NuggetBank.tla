----------------------------- MODULE NuggetBank -----------------------------
(* The nugget bank and what one round does to it: pipeline/decompose/bank.py, *)
(* coverage_audit.py, dedup.py and saturation.py.  A bank is a function from  *)
(* the ordinals of its nugget ids; its order is the order of the ordinals.    *)
EXTENDS Naturals, FiniteSets, Sequences, FiniteSetsExt

CONSTANTS
    SeedSize,   \* nuggets of the round-0 bank
    RMax,       \* decomposition.R_max
    MinNew,     \* decomposition.min_new
    LowStreak,  \* decomposition.low_streak
    MaxIds      \* bound: nugget ids in a behaviour

ASSUME BankAssumption ==
    /\ SeedSize \in Nat \ {0}
    /\ RMax \in Nat
    /\ MinNew \in Nat
    /\ LowStreak \in Nat \ {0}
    /\ MaxIds \in Nat /\ SeedSize <= MaxIds

Ids == 0 .. MaxIds - 1
Rounds == 0 .. RMax

\* An answer is named after the question whose loop committed it: the id and
\* the round that minted it, since an id alone may come to name two questions.
Answers == Ids \X Rounds

Nuggets == [status: {"unanswered", "answered", "pruned"}, origin: Rounds, answers: SUBSET Answers]

IsBank(b) == DOMAIN b \subseteq Ids /\ \A i \in DOMAIN b : b[i] \in Nuggets

Fresh(r) == [status |-> "unanswered", origin |-> r, answers |-> {}]

Seed == [i \in 0 .. SeedSize - 1 |-> Fresh(0)]

Open(b) == {i \in DOMAIN b : b[i].status = "unanswered"}

\* The question of nugget i of bank b, as an answer to it is named.
Committed(b, i) == <<i, b[i].origin>>

\* attach_evidence: append, never replace, keyed by the answer.
Attach(b, hits) ==
    [i \in DOMAIN b |-> IF i \in hits
                        THEN [b[i] EXCEPT !.answers = @ \cup {Committed(b, i)}] ELSE b[i]]

Close(b, ids) ==
    [i \in DOMAIN b |-> IF i \in ids /\ b[i].status # "pruned"
                        THEN [b[i] EXCEPT !.status = "answered"] ELSE b[i]]

Prune(b, ids) ==
    [i \in DOMAIN b |-> IF i \in ids THEN [b[i] EXCEPT !.status = "pruned"] ELSE b[i]]

\* The highest ordinal in the bank plus one.
NextIndex(b) == IF DOMAIN b = {} THEN 0 ELSE Max(DOMAIN b) + 1

\* mint and add of the admitted gaps: n new open nuggets of round r.
Mint(b, n, r) ==
    [i \in DOMAIN b \cup (NextIndex(b) .. NextIndex(b) + n - 1) |->
        IF i \in DOMAIN b THEN b[i] ELSE Fresh(r)]

\* What the gate may answer: each nugget of gone is a duplicate of an older
\* survivor.  Only open nuggets are merged, and only into open ones.
Merges(b, gone) ==
    {into \in [gone -> Open(b) \ gone] : \A g \in gone : into[g] < g}

\* _absorb: the survivor keeps its identity and inherits the answers.
Merged(b, into) ==
    [i \in DOMAIN b \ DOMAIN into |->
        [b[i] EXCEPT !.answers =
            @ \cup UNION {b[g].answers : g \in {h \in DOMAIN into : into[h] = i}}]]

\* _net_new: nuggets minted in round r that survived.
NetNew(b, r) == Cardinality({i \in DOMAIN b : b[i].origin = r})

Saturated(novelty) ==
    /\ Len(novelty) >= LowStreak
    /\ \A k \in Len(novelty) - LowStreak + 1 .. Len(novelty) : novelty[k] <= MinNew
=============================================================================
