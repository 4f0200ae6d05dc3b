-------------------------- MODULE DocumentPipeline --------------------------
(* A document from the spine to the passage store: merge, translate and        *)
(* reconcile (Reconciliation), then the length of every sentence in every      *)
(* rendering (preprocess/len_max.py), the packer (preprocess/packing.py,       *)
(* chunk.py _pack_sentences) and the records of the passage store              *)
(* (common/passage_store.py), one stage after the other.                       *)
EXTENDS Reconciliation

CONSTANTS
    Budget,    \* content budget of a passage, in tokens
    Near,      \* prefer_paragraph_break_min_fill of it
    Overlap,   \* overlap_frac of it
    Growth     \* what a translation may be longer than its source by

VARIABLES
    lens,      \* final sentence -> [native, translated]
    cur,       \* the passage in hand, as final sentences in order
    fill,      \* its tokens
    passages,  \* passages closed: [members, oversized]
    store      \* their records: [original, translated], the sentences each says

Finals    == DOMAIN finals
Longer(a, b) == IF a > b THEN a ELSE b

\* len_max_rows: English has one length, any other language one per rendering.
Grown == [Finals -> IF doc.english THEN {0} ELSE Growth]

Measure ==
    /\ stage = "measure"
    /\ \E by \in Grown :
          lens' = [f \in Finals |->
                      [native |-> finals[f].count, translated |-> finals[f].count + by[f]]]
    /\ stage' = "pack"
    /\ UNCHANGED <<doc, units, unit, raw, expect, finals, cur, fill, passages, store>>

Bug_PackLengthNative(f) == lens[f].native
\* pack_length: "len_max"
PackLength(f) == Longer(lens[f].native, lens[f].translated)
Fill(run)     == FoldLeft(LAMBDA sum, f : PackLength(f) + sum, 0, run)

-----------------------------------------------------------------------------
(* _pack_sentences and _overlap_tail.                                         *)

\* The sentence whose turn it is: the one after the last that was placed.
Turn ==
    IF cur # <<>> THEN Last(cur) + 1
    ELSE IF passages # <<>> THEN Last(Last(passages).members) + 1 ELSE 1

Paragraph(f) == doc.para[finals[f].first]

\* A paragraph boundary is preferred once the passage is nearly full.
PreferBreak == Paragraph(Turn) # Paragraph(Last(cur)) /\ fill >= Near
Full        == fill + PackLength(Turn) > Budget

Suffix(run, k) == SubSeq(run, Len(run) - k + 1, Len(run))

\* The sentences a passage repeats: the last one of its predecessor, if that
\* leaves room for the one that closed it, and as many before as the soft target
\* and the room allow.
TailOf(run, next) ==
    LET room == Budget - PackLength(next)
        fits == {k \in 1 .. Len(run) :
                    /\ Fill(Suffix(run, k)) <= room
                    /\ k = 1 \/ Fill(Suffix(run, k)) <= Overlap}
    IN IF Overlap = 0 \/ fits = {} THEN <<>>
       ELSE Suffix(run, CHOOSE k \in fits : \A j \in fits : j <= k)

Closed(oversized) ==
    IF cur = <<>> THEN <<>> ELSE <<[members |-> cur, oversized |-> oversized]>>

Pack(run, tokens, news) ==
    /\ cur' = run /\ fill' = tokens
    /\ passages' = passages \o news
    /\ UNCHANGED <<doc, stage, units, unit, raw, expect, finals, lens, store>>

\* A sentence over the budget is a passage of its own, and nothing overlaps it.
PackOversized ==
    /\ stage = "pack" /\ Turn \in Finals /\ PackLength(Turn) > Budget
    /\ Pack(<<>>, 0, Closed(FALSE) \o <<[members |-> <<Turn>>, oversized |-> TRUE]>>)

PackBreak ==
    /\ stage = "pack" /\ Turn \in Finals /\ PackLength(Turn) <= Budget
    /\ cur # <<>> /\ (PreferBreak \/ Full)
    /\ LET tail == TailOf(cur, Turn)
       IN Pack(Append(tail, Turn), Fill(tail) + PackLength(Turn), Closed(FALSE))

PackAdd ==
    /\ stage = "pack" /\ Turn \in Finals /\ PackLength(Turn) <= Budget
    /\ ~(cur # <<>> /\ (PreferBreak \/ Full))
    /\ Pack(Append(cur, Turn), fill + PackLength(Turn), <<>>)

\* The last flush, and verify_passages.
Verified(list) ==
    /\ UNION {ToSet(list[p].members) : p \in DOMAIN list} = Finals
    /\ \A p \in DOMAIN list : list[p].oversized \/ Fill(list[p].members) <= Budget

PackEnd ==
    /\ stage = "pack" /\ Turn \notin Finals
    /\ LET list == passages \o Closed(FALSE)
       IN passages' = list /\ stage' = IF Verified(list) THEN "store" ELSE "refused"
    /\ cur' = <<>> /\ fill' = 0
    /\ UNCHANGED <<doc, units, unit, raw, expect, finals, lens, store>>

-----------------------------------------------------------------------------
(* iter_final_passages and compose_passage_text.                              *)

\* Native text is the one slice from the first member to the last; a translated
\* rendering joins the members' translations, and English is served as it is.
Sources(p) == finals[Head(passages[p].members)].first .. finals[Last(passages[p].members)].last
Says(p)    == UNION {finals[f].english : f \in ToSet(passages[p].members)}

Record(p) ==
    [original |-> Sources(p), translated |-> IF doc.english THEN Sources(p) ELSE Says(p)]

Compose ==
    /\ stage = "store" /\ store = <<>> /\ passages # <<>>
    /\ store' = [p \in DOMAIN passages |-> Record(p)]
    /\ stage' = "served"
    /\ UNCHANGED <<doc, units, unit, raw, expect, finals, lens, cur, fill, passages>>

\* PassageStore.render: an empty translation counts as none.
Render(p) ==
    IF store[p].translated = {} THEN [native |-> TRUE, says |-> store[p].original]
    ELSE [native |-> doc.english, says |-> store[p].translated]

PackStep == Measure \/ PackOversized \/ PackBreak \/ PackAdd \/ PackEnd \/ Compose

-----------------------------------------------------------------------------
(* The stages of one document.                                                *)

stages == <<doc, stage>>
merged == <<units, unit>>
recon  == <<raw, expect, finals>>
packed == <<lens, cur, fill, passages, store>>
vars   == <<stages, merged, recon, packed>>

Init ==
    /\ MergeInit
    /\ raw = <<>> /\ expect = 1 /\ finals = <<>>
    /\ lens = <<>> /\ cur = <<>> /\ fill = 0 /\ passages = <<>> /\ store = <<>>

Next ==
    \/ Merge /\ UNCHANGED <<recon, packed>>
    \/ Reconcile /\ UNCHANGED packed
    \/ PackStep

Spec == Init /\ [][Next]_vars

TypeOK ==
    /\ WellFormed(doc)
    /\ stage \in {"merge", "translate", "reconcile", "measure", "pack", "store", "served", "refused"}
    /\ units \in Seq([first : Nat, last : Nat, count : Nat])
    /\ unit \in [first : Nat, last : Nat, count : Nat]
    /\ expect \in Nat
    /\ cur \in Seq(Nat)
    /\ fill \in Nat

-----------------------------------------------------------------------------
(* Properties.                                                                *)

\* A paragraph boundary inside a translation unit has a whole paragraph of that
\* unit on one side, and there is none at all unless Crossing, however units were
\* taken back and joined again (merge_cross_paragraph).
InUnit(u, para) == \A s \in 1 .. N : doc.para[s] = para => s \in u.first .. u.last
MergeLocal ==
    \A i \in DOMAIN units :
        \A s \in units[i].first .. units[i].last - 1 :
            doc.para[s] # doc.para[s + 1] =>
                /\ Crossing
                /\ InUnit(units[i], doc.para[s]) \/ InUnit(units[i], doc.para[s + 1])

\* A final sentence's English translates the spine sentences under its span and
\* no other, or nothing, whatever MT does to the markers short of putting one
\* into the middle of a sentence (split_translation, reconcile_document).
EnglishOwn ==
    \A f \in Finals : finals[f].english \in {{}, finals[f].first .. finals[f].last}

\* No stage refuses what the stages before it made: units partition the
\* document, a fused unit is in the map, a passage is within its budget.
NeverRefused == stage # "refused"

\* Every final sentence is in a passage; a passage is a run of consecutive ones,
\* repeats only what ended its predecessor, adds something, and fits the budget
\* in every rendering unless it is a single oversized sentence.
Run(list) == \A k \in 1 .. Len(list) - 1 : list[k + 1] = list[k] + 1
InBudget(list) ==
    \A name \in {"native", "translated"} :
        FoldLeft(LAMBDA sum, f : lens[f][name] + sum, 0, list) <= Budget
CitableWhole ==
    stage \in {"store", "served"} =>
        /\ UNION {ToSet(passages[p].members) : p \in DOMAIN passages} = Finals
        /\ \A p \in DOMAIN passages :
              /\ passages[p].members # <<>> /\ Run(passages[p].members)
              /\ IF passages[p].oversized THEN Len(passages[p].members) = 1
                 ELSE InBudget(passages[p].members)
              /\ p > 1 => LET before == Last(passages[p - 1].members)
                          IN /\ Last(passages[p].members) > before
                             /\ Head(passages[p].members) <= before + 1

\* A reader of a passage gets the same sentences in both renderings, but for those
\* that came back empty from MT.
Muted(p) == UNION {finals[f].first .. finals[f].last :
                     f \in {g \in ToSet(passages[p].members) : finals[g].english = {}}}
SameSentences ==
    stage = "served" =>
        \A p \in DOMAIN store :
            /\ store[p].original = Sources(p)
            /\ Render(p).says \cup Muted(p) = store[p].original
=============================================================================
