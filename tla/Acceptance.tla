----------------------------- MODULE Acceptance -----------------------------
(* The acceptance pass over a built index (preprocess/acceptance.py): one job *)
(* compares every id map with the passage table (phase A), one job per cell   *)
(* asks the dense leg for passages by their own stored vectors (phase B1).    *)
(* Each job checks the manifest and every census first, and leaves a fragment *)
(* that says so before it has a result. A part is three legs; phase B2 and    *)
(* the other two legs' ranks are measurements that decide nothing.            *)
EXTENDS Integers, FiniteSets, Sequences, SequencesExt, FiniteSetsExt, Functions, Folds

CONSTANTS
    Trees,        \* what may be on disk: see below
    Renderings,
    PartSize,     \* plaid_part_passages
    Floor, Ceiling,   \* MIN_CORPUS_PASSAGES, MAX_CORPUS_PASSAGES
    PartsPerCell, PassagesPerPart,   \* sample sizes
    TopK

\* A tree: the passage table [language -> sequence of ids], the vector of each
\* passage, whether the manifest is the config's, and the parts of every cell:
\* sequences of [ids, vectors, stated] with the ids of each leg, the vectors of the
\* dense leg and [part, parts, count] as the part's file states it.
VARIABLES
    tree,
    fragment,   \* job -> "none", "step0", "passed", "failed"
    probing,    \* job -> [on, left, bad]: probes left to ask, a miss unexplained
    alarms      \* walltime signals and second submissions still to come

vars == <<tree, fragment, probing, alarms>>

Kinds  == {"dense", "sparse", "late"}
Shared == "en"
Langs  == DOMAIN tree.rows
CellKeys  == {<<"shared", Shared>>} \cup (Renderings \X (Langs \ {Shared}))
CellsOf(lang) == {c \in CellKeys : c[2] = lang}
All    == <<"every cell", "A">>
Jobs   == {All} \cup CellKeys
Off    == [on |-> FALSE, left |-> <<>>, bad |-> FALSE]

Plus(f) == FoldFunction(+, 0, f)
Parts(c)   == tree.cell[c]
\* BlockPlan.part_bounds, and the row-order cut of _row_order_lang_ids.
PartsOf(n) == IF n = 0 THEN 1 ELSE (n + PartSize - 1) \div PartSize
Slice(lang, p) ==
    LET rows == tree.rows[lang]
    IN SubSeq(rows, (p - 1) * PartSize + 1, Min({p * PartSize, Len(rows)}))

-----------------------------------------------------------------------------
(* Step 0                                                                     *)

\* read_shard_parts: the parts agree on how many they are, and are all there.
CensusHolds(c) ==
    /\ Parts(c) # <<>>
    /\ \A p \in DOMAIN Parts(c) :
          Parts(c)[p].stated.part = p /\ Parts(c)[p].stated.parts = Len(Parts(c))
Witnessed(c) == Plus([p \in DOMAIN Parts(c) |-> Parts(c)[p].stated.count])

\* step0_precondition
Precondition ==
    /\ tree.config
    /\ \A c \in CellKeys : CensusHolds(c)
    /\ \A lang \in Langs : \A c, d \in CellsOf(lang) : Witnessed(c) = Witnessed(d)
    /\ Plus([lang \in Langs |-> Witnessed(CHOOSE c \in CellsOf(lang) : TRUE)]) \in Floor .. Ceiling

Write(j, text) == fragment' = [fragment EXCEPT ![j] = text]

-----------------------------------------------------------------------------
(* Phase A                                                                    *)

\* FA02: the legs of a part hold one set of ids, the part's slice of the table,
\* the same in every rendering.
IdsMatch(c, p) ==
    LET sets == [l \in Kinds |-> Range(Parts(c)[p].ids[l])]
    IN /\ \A l \in Kinds : sets[l] = sets["dense"]
       /\ sets["dense"] = Range(Slice(c[2], p))
SameAcross(lang, p) ==
    \A c, d \in CellsOf(lang) :
        p \in DOMAIN Parts(c) /\ p \in DOMAIN Parts(d) =>
            Range(Parts(c)[p].ids["dense"]) = Range(Parts(d)[p].ids["dense"])

\* FA06: the parts are as many as the table implies, disjoint, and cover it, and
\* the census agrees.
Complete(c) ==
    LET n    == Len(Parts(c))
        held == UNION {Range(Parts(c)[p].ids["dense"]) : p \in 1 .. n}
    IN /\ n = PartsOf(Len(tree.rows[c[2]]))
       /\ Witnessed(c) = Len(tree.rows[c[2]])
       /\ Plus([p \in 1 .. n |-> Cardinality(Range(Parts(c)[p].ids["dense"]))]) = Cardinality(held)
       /\ held = Range(tree.rows[c[2]])

PhaseA ==
    /\ fragment[All] = "step0"
    /\ Write(All, IF /\ \A c \in CellKeys : Complete(c) /\ \A p \in DOMAIN Parts(c) : IdsMatch(c, p)
                     /\ \A lang \in Langs : \A p \in 1 .. Len(tree.rows[lang]) : SameAcross(lang, p)
                  THEN "passed" ELSE "failed")
    /\ UNCHANGED <<tree, probing, alarms>>

-----------------------------------------------------------------------------
(* Phase B1                                                                   *)

\* sample_parts: the first and the last are always taken.
PartSamples(n) ==
    IF n <= PartsPerCell THEN {1 .. n}
    ELSE {s \in SUBSET (1 .. n) : {1, n} \subseteq s /\ Cardinality(s) = PartsPerCell}
\* sample_ordinals
RowSamples(n) ==
    IF n <= PassagesPerPart THEN {1 .. n} ELSE {s \in SUBSET (1 .. n) : Cardinality(s) = PassagesPerPart}

\* The stored representations of a part: the table's rows, each with its vector.
Stored(c, p) == Slice(c[2], p)

ProbeCell(c) ==
    /\ fragment[c] = "step0" /\ probing[c] = Off
    /\ \E parts \in PartSamples(Len(Parts(c))) :
       \E rows \in {f \in [parts -> SUBSET (1 .. PartSize)] :
                       \A p \in parts : f[p] \in RowSamples(Parts(c)[p].stated.count)} :
          probing' = [probing EXCEPT ![c] =
              [Off EXCEPT !.on = TRUE, !.left = SetToSeq(UNION {{p} \X rows[p] : p \in parts})]]
    /\ UNCHANGED <<tree, fragment, alarms>>

\* The inner product of unit vectors is largest for equal ones.
Score(v, w) == IF v = w THEN 100 ELSE 0 - (v - w) * (v - w)

\* search_with_rep over an exact index: best first, equal scores in any order.
Hits(part, v) ==
    {SubSeq(s, 1, Min({TopK, Len(s)})) :
        s \in {t \in [1 .. Len(part.vectors) -> 1 .. Len(part.vectors)] :
                  /\ IsInjective(t)
                  /\ \A i \in 1 .. Len(t) - 1 :
                        Score(v, part.vectors[t[i]]) >= Score(v, part.vectors[t[i + 1]])}}

Bug_TieExplains(scores) == scores # <<>>

\* duplicate_tie_explains_miss: all that came before the probe, or instead of
\* it, score as the first does.
TieExplains(scores) ==
    scores # <<>> /\ \A i \in DOMAIN scores : scores[i] = scores[1]

\* The rank of the probe's own id, and what the gate makes of it.
Explained(part, id, v, hits) ==
    LET named == {i \in DOMAIN hits : part.ids["dense"][hits[i]] = id}
        upTo  == IF named = {} THEN Len(hits) ELSE Min(named)
        first == named # {} /\ Min(named) = 1
    IN first \/ TieExplains([i \in 1 .. upTo |-> Score(v, part.vectors[hits[i]])])

\* An ordinal that the stored part does not have yields no probe.
Probe(c) ==
    /\ probing[c].left # <<>>
    /\ LET p    == Head(probing[c].left)[1]
           o    == Head(probing[c].left)[2]
           Asked(miss) == probing' = [probing EXCEPT ![c].left = Tail(@), ![c].bad = @ \/ miss]
       IN \/ o > Len(Stored(c, p)) /\ Asked(FALSE)
          \/ /\ o <= Len(Stored(c, p))
             /\ LET id == Stored(c, p)[o]
                    v  == tree.vector[id]
                IN \E hits \in Hits(Parts(c)[p], v) : Asked(~Explained(Parts(c)[p], id, v, hits))
    /\ UNCHANGED <<tree, fragment, alarms>>

Probed(c) ==
    /\ probing[c].on /\ probing[c].left = <<>>
    /\ Write(c, IF probing[c].bad THEN "failed" ELSE "passed")
    /\ probing' = [probing EXCEPT ![c] = Off]
    /\ UNCHANGED <<tree, alarms>>

-----------------------------------------------------------------------------
\* A job starts, or is submitted once more: its fragment is written over before
\* any check, with what step 0 found alone.
Step0(j) ==
    /\ ~probing[j].on
    /\ \/ fragment[j] = "none" /\ UNCHANGED alarms
       \/ fragment[j] # "none" /\ alarms > 0 /\ alarms' = alarms - 1
    /\ Write(j, IF Precondition THEN "step0" ELSE "failed")
    /\ UNCHANGED <<tree, probing>>

\* The walltime signal ends a job, with an exit status of success.
Walltime(j) ==
    /\ probing[j].on /\ alarms > 0 /\ alarms' = alarms - 1
    /\ probing' = [probing EXCEPT ![j] = Off]
    /\ UNCHANGED <<tree, fragment>>

Init ==
    /\ tree \in Trees /\ alarms = tree.signals
    /\ fragment = [j \in Jobs |-> "none"] /\ probing = [j \in Jobs |-> Off]

Next ==
    \/ PhaseA
    \/ \E j \in Jobs : Step0(j) \/ Walltime(j)
    \/ \E c \in CellKeys : ProbeCell(c) \/ Probe(c) \/ Probed(c)

Spec == Init /\ [][Next]_vars

-----------------------------------------------------------------------------
(* Properties                                                                 *)

\* An index that every job accepts is the table's: each leg of each part holds
\* the part's passages and no other.
Accepted == \A j \in Jobs : fragment[j] = "passed"
HoldsTable ==
    Accepted => \A c \in CellKeys :
        /\ Len(Parts(c)) = PartsOf(Len(tree.rows[c[2]]))
        /\ \A p \in DOMAIN Parts(c), l \in Kinds : Range(Parts(c)[p].ids[l]) = Range(Slice(c[2], p))

\* In the parts that are always sampled, when every row is asked for, the dense
\* vector of a passage is under its own id; unless no row has that vector, which
\* no search by it can tell, or so many do that the window could not show them all.
Twins(part, v) == Cardinality({i \in DOMAIN part.vectors : part.vectors[i] = v})
Faithful(c, p) ==
    LET part == Parts(c)[p]
    IN Len(Stored(c, p)) <= part.stated.count /\ part.stated.count <= PassagesPerPart =>
          \A id \in Range(part.ids["dense"]) :
              \/ \E i \in DOMAIN part.vectors : part.ids["dense"][i] = id /\ part.vectors[i] = tree.vector[id]
              \/ Twins(part, tree.vector[id]) \notin 1 .. TopK - 1
EndsFaithful == Accepted => \A c \in CellKeys : Faithful(c, 1) /\ Faithful(c, Len(Parts(c)))

\* What the stages before leave: each part its slice, in row order, in every leg,
\* with the vectors of its passages and a true census, of a corpus as large as the
\* pass expects.
Assembled ==
    /\ tree.config /\ Plus([lang \in Langs |-> Len(tree.rows[lang])]) \in Floor .. Ceiling
    /\ \A c \in CellKeys :
          /\ Len(Parts(c)) = PartsOf(Len(tree.rows[c[2]]))
          /\ \A p \in DOMAIN Parts(c) :
                LET slice == Slice(c[2], p)
                IN Parts(c)[p] = [ids |-> [l \in Kinds |-> slice],
                                  vectors |-> [i \in DOMAIN slice |-> tree.vector[slice[i]]],
                                  stated |-> [part |-> p, parts |-> Len(Parts(c)), count |-> Len(slice)]]

\* An index that was assembled right fails no job, whatever duplicates the corpus has.
SoundPasses == Assembled => \A j \in Jobs : fragment[j] # "failed"

Verdict == HoldsTable /\ EndsFaithful /\ SoundPasses
=============================================================================
