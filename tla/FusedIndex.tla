----------------------------- MODULE FusedIndex -----------------------------
(* The index substage in one piece (preprocess/index.py IndexAdapter): seed   *)
(* cuts every rendering of every language into parts, a worker builds the     *)
(* legs of a part one by one, validate checks the receipt, merge publishes    *)
(* one manifest. A part is a slice of the passage table, and the table may be *)
(* packed again under a build that has begun. Publication of one directory is *)
(* DirPublish's subject and is one step here; so is the queue's claim.        *)
EXTENDS Integers, FiniteSets, Sequences, SequencesExt, FiniteSetsExt

CONSTANTS
    Tables,      \* the tables packed one after the other: sets of passages
                 \* [id, lang, tokens]
    Cells,       \* <<rendering, language>>; the shared English is one cell
    Renderings,
    Legs,        \* sequence of the legs
    PartSize,    \* plaid_part_passages
    MaxParts,    \* bound on the parts of a cell
    MaxKills

VARIABLES
    table,     \* which of Tables is on disk
    queue,     \* [<<cell, part>> -> [at, parts]], at "none", "todo", "run", "done"
    leg,       \* [<<cell, part>>, leg -> published passages in ordinal order], or NoLeg
    census,    \* [<<cell, part>> -> parts of the plan it was built under], 0 for none
    receipt,   \* the <<cell, part>> with a finished receipt, and its parts
    worker,    \* [at, unit, low, high, items, next]
    manifest,  \* what merge published: [table, units, legs], or NoManifest
    kills

vars == <<table, queue, leg, census, receipt, worker, manifest, kills>>

Units      == Cells \X (0 .. MaxParts - 1)
NoLeg      == [ids |-> <<>>, marked |-> FALSE]
NoManifest == [table |-> 0, units |-> {}, legs |-> <<>>]
Off        == [at |-> "off", unit |-> <<>>, parts |-> 0, low |-> <<>>, high |-> <<>>, items |-> <<>>, next |-> 0]

Rows(lang) == {p \in Tables[table] : p.lang = lang}
\* parts_for
PartsOf(n) == IF n = 0 THEN 1 ELSE (n + PartSize - 1) \div PartSize
Implied(lang) == PartsOf(Cardinality(Rows(lang)))
\* shard_specs
Specs == {u \in Units : u[2] < Implied(u[1][2])}

\* The pinned order: token count, then name.
Before(p, q) == p.tokens < q.tokens \/ (p.tokens = q.tokens /\ p.id < q.id)
\* _ordered_lang_keys
Ordered(lang) == SetToSortSeq(Rows(lang), Before)
Top == [id |-> 0, lang |-> "", tokens |-> 1000]
Key(seq, i) == IF i <= Len(seq) THEN seq[i] ELSE Top

Init ==
    /\ table = 1
    /\ queue = [u \in Units |-> [at |-> "none", parts |-> 0]]
    /\ leg = [x \in Units \X Range(Legs) |-> NoLeg]
    /\ census = [u \in Units |-> 0] /\ receipt = [u \in Units |-> 0]
    /\ worker = Off /\ manifest = NoManifest /\ kills = MaxKills

-----------------------------------------------------------------------------
Repack ==
    /\ table < Len(Tables) /\ table' = table + 1
    /\ UNCHANGED <<queue, leg, census, receipt, worker, manifest, kills>>

\* shards: a unit is seeded once; its name says nothing of the number of parts.
Seed ==
    /\ queue' = [u \in Units |-> IF u \in Specs /\ queue[u].at = "none"
                                 THEN [at |-> "todo", parts |-> Implied(u[1][2])] ELSE queue[u]]
    /\ UNCHANGED <<table, leg, census, receipt, worker, manifest, kills>>

\* work: claimed, with the legs that are not published yet.
Claim(u) ==
    /\ worker = Off /\ queue[u].at = "todo"
    /\ queue' = [queue EXCEPT ![u].at = "run"]
    /\ worker' = [Off EXCEPT !.at = "leg", !.unit = u, !.parts = queue[u].parts, !.next = 1]
    /\ UNCHANGED <<table, leg, census, receipt, manifest, kills>>

Return == /\ queue' = [queue EXCEPT ![worker.unit].at = "todo"]
          /\ worker' = Off

Kill ==
    /\ worker # Off /\ kills > 0 /\ kills' = kills - 1 /\ Return
    /\ UNCHANGED <<table, leg, census, receipt, manifest>>

Here(l) == <<worker.unit, l>>

Skip ==
    /\ worker.at = "leg" /\ worker.next <= Len(Legs) /\ leg[Here(Legs[worker.next])].marked
    /\ worker' = [worker EXCEPT !.next = @ + 1]
    /\ UNCHANGED <<table, queue, leg, census, receipt, manifest, kills>>

\* part_bounds: the table must still imply the plan's parts.
Bounds ==
    LET u == worker.unit  keys == Ordered(u[1][2])
    IN /\ worker.at = "leg" /\ worker.next <= Len(Legs) /\ ~leg[Here(Legs[worker.next])].marked
       /\ worker.low = <<>>
       /\ IF worker.parts = Implied(u[1][2])
          THEN /\ worker' = [worker EXCEPT !.at = "load", !.low = Key(keys, u[2] * PartSize + 1),
                                           !.high = Key(keys, (u[2] + 1) * PartSize + 1)]
               /\ UNCHANGED queue
          ELSE Return
       /\ UNCHANGED <<table, leg, census, receipt, manifest, kills>>

\* load_shard: a second pass over the table, once for all the legs.
Load ==
    /\ worker.at = "load"
    /\ worker' = [worker EXCEPT !.at = "leg",
           !.items = SetToSortSeq({p \in Rows(worker.unit[1][2]) :
                                      ~Before(p, worker.low) /\ Before(p, worker.high)}, Before)]
    /\ UNCHANGED <<table, queue, leg, census, receipt, manifest, kills>>

\* _build_leg: the buckets of the encoder keep the order, so an ordinal is a place
\* in it; the engine's part limit is PartSize too, so the leg is one engine part.
BuildLeg ==
    /\ worker.at = "leg" /\ worker.next <= Len(Legs) /\ worker.low # <<>>
    /\ ~leg[Here(Legs[worker.next])].marked
    /\ leg' = [leg EXCEPT ![Here(Legs[worker.next])] =
                  [ids |-> worker.items, marked |-> TRUE]]
    /\ worker' = [worker EXCEPT !.next = @ + 1]
    /\ UNCHANGED <<table, queue, census, receipt, manifest, kills>>

\* _write_part_census, the last act before the receipt.
Census ==
    /\ worker.at = "leg" /\ worker.next > Len(Legs)
    /\ census' = [census EXCEPT ![worker.unit] = worker.parts]
    /\ worker' = [worker EXCEPT !.at = "receipt"]
    /\ UNCHANGED <<table, queue, leg, receipt, manifest, kills>>

Receipt ==
    /\ worker.at = "receipt"
    /\ receipt' = [receipt EXCEPT ![worker.unit] = worker.parts]
    /\ worker' = [worker EXCEPT !.at = "validate"]
    /\ UNCHANGED <<table, queue, leg, census, manifest, kills>>

\* expected_ids_at
Slice(u) == LET keys == Ordered(u[1][2])
            IN Range(SubSeq(keys, u[2] * PartSize + 1, Min({(u[2] + 1) * PartSize, Len(keys)})))

Bug_Holds(u) ==
    /\ receipt[u] # 0 /\ census[u] # 0
    /\ \A l \in Range(Legs) : leg[<<u, l>>].marked

\* validate: every leg holds the slice the table now gives the part, once.
Holds(u) ==
    /\ receipt[u] # 0 /\ census[u] # 0
    /\ \A l \in Range(Legs) :
           /\ leg[<<u, l>>].marked
           /\ IsInjective(leg[<<u, l>>].ids) /\ Range(leg[<<u, l>>].ids) = Slice(u)

Validate ==
    /\ worker.at = "validate"
    /\ IF receipt[worker.unit] = Implied(worker.unit[1][2]) /\ Holds(worker.unit)
       THEN queue' = [queue EXCEPT ![worker.unit].at = "done"] /\ worker' = Off
       ELSE Return
    /\ UNCHANGED <<table, leg, census, receipt, manifest, kills>>

-----------------------------------------------------------------------------
(* merge                                                                      *)

\* _shard_ids: what all the legs of a part hold.
Common(u) == {p \in Range(leg[<<u, Legs[1]>>].ids) : \A l \in Range(Legs) : p \in Range(leg[<<u, l>>].ids)}

\* read_shard_parts: the directories of a cell, each with its census, agree and are all.
Dirs(c) == {u \in Units : u[1] = c /\ (census[u] # 0 \/ \E l \in Range(Legs) : leg[<<u, l>>].marked)}
CellWhole(c) ==
    LET n == Implied(c[2])
    IN /\ {u[2] : u \in Dirs(c)} = 0 .. n - 1
       /\ \A u \in Dirs(c) : census[u] = n /\ receipt[u] = n
       /\ \A u, v \in Dirs(c) : u # v => Common(u) \cap Common(v) = {}

Covered(r) == UNION {Common(u) : u \in {x \in Specs : x[1][1] \in {r, "shared"}}}

\* _assert_covers_corpus, _assert_parts_identical_across_renderings
Merge ==
    /\ Specs # {} /\ \A u \in Units : queue[u].at \in {"none", "done"}
    /\ \A u \in Specs : receipt[u] # 0
    /\ \A c \in Cells : CellWhole(c)
    /\ \A r \in Renderings : Covered(r) = Tables[table]
    /\ \A u, v \in Specs : u[1][2] = v[1][2] /\ u[2] = v[2] => Common(u) = Common(v)
    /\ manifest' = [table |-> table, units |-> Specs, legs |-> leg]
    /\ UNCHANGED <<table, queue, leg, census, receipt, worker, kills>>

Next ==
    \/ Repack \/ Seed \/ Kill \/ Skip \/ Bounds \/ Load \/ BuildLeg \/ Census \/ Receipt \/ Validate \/ Merge
    \/ \E u \in Units : Claim(u)
Spec == Init /\ [][Next]_vars

-----------------------------------------------------------------------------
(* Properties                                                                 *)

\* A manifest is of the table it was merged under, whatever the table was when a
\* leg was built and whichever attempt built it: each leg of a rendering holds
\* every passage of the table and no other, once, and a part holds the same in
\* every leg and every rendering. Which passages a part holds is not promised:
\* validate compares it with the slice of its own time.
Exact(m) ==
    LET Held(u, l) == m.legs[<<u, l>>].ids
        OfCells(r) == {u \in m.units : u[1][1] \in {r, "shared"}}
    IN /\ \A r \in Renderings, l \in Range(Legs) :
             UNION {Range(Held(u, l)) : u \in OfCells(r)} = Tables[m.table]
       /\ \A u \in m.units, l \in Range(Legs) : IsInjective(Held(u, l))
       /\ \A u, v \in m.units, l \in Range(Legs) :
             u[1] = v[1] /\ u # v => Range(Held(u, l)) \cap Range(Held(v, l)) = {}
       /\ \A u, v \in m.units, l, k \in Range(Legs) :
             u[1][2] = v[1][2] /\ u[2] = v[2] => Range(Held(u, l)) = Range(Held(v, k))
ManifestExact == manifest # NoManifest => Exact(manifest)
=============================================================================
