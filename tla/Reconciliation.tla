--------------------------- MODULE Reconciliation ---------------------------
(* One document through merge, translate and reconcile. Merge                 *)
(* (preprocess/merge.py) joins a sentence below min_sentence_tokens with a     *)
(* neighbour, by paragraph structure and under a cap, into the unit that is    *)
(* handed to translation; the sentences themselves stay as they are. The       *)
(* members of a unit are then joined with a marker (translate_omt.py,          *)
(* merge_join.py, reconcile.py): a translation that brings every marker back   *)
(* is split into one text per sentence, any other stays one text over the      *)
(* whole unit, which becomes one final sentence.                               *)
EXTENDS Integers, FiniteSets, Sequences, SequencesExt

CONSTANTS
    Docs,      \* documents of the spine: see WellFormed
    Floor,     \* min_sentence_tokens
    Cap,       \* merge_cap_frac of the content budget
    Crossing   \* merge_cross_paragraph = "singleton_only"

\* para: the paragraph of each sentence, which are numbered in order; tokens:
\* the token count of every span of sentences, which is not the sum of its
\* parts; marked: sentences whose source text carries the join marker.
WellFormed(d) ==
    /\ DOMAIN d = {"english", "para", "tokens", "marked"}
    /\ d.english \in BOOLEAN
    /\ d.para \in Seq(Nat)
    /\ \A s, t \in DOMAIN d.para : s < t => d.para[s] <= d.para[t]
    /\ d.tokens \in [(1 .. Len(d.para)) \X (1 .. Len(d.para)) -> Nat]
    /\ d.marked \subseteq 1 .. Len(d.para)

VARIABLES
    doc,     \* the document, fixed
    stage,   \* where it is
    units,   \* the units emitted, each [first, last, count]: the merge map
    unit     \* the unit in hand

NoUnit == [first |-> 0, last |-> 0, count |-> 0]
N      == Len(doc.para)
Span(first, last) == [first |-> first, last |-> last, count |-> doc.tokens[first, last]]

\* The first sentence no unit has yet.
Rest == IF units = <<>> THEN 1 ELSE Last(units).last + 1

\* _first_of_para and _last_of_para of the unit in hand.
Opens   == unit.first > 1 => doc.para[unit.first - 1] # doc.para[unit.first]
Closes  == unit.last < N => doc.para[unit.last + 1] # doc.para[unit.last]
Aligned == Opens /\ Closes

\* The permitted directions.
Forward  == Opens /\ (Closes => Crossing)
Bug_BackwardAlways == TRUE

Backward == Opens => Closes /\ Crossing

Fits(first, last) == doc.tokens[first, last] <= Cap
FitsNext == Forward /\ unit.last < N /\ Fits(unit.first, unit.last + 1)
FitsPrev == Backward /\ units # <<>> /\ Fits(Last(units).first, unit.last)

MergeInit ==
    /\ doc \in {d \in Docs : WellFormed(d)}
    /\ stage = "merge"
    /\ units = <<>>
    /\ unit = NoUnit

Open ==
    /\ stage = "merge" /\ ~doc.english /\ unit = NoUnit /\ Rest <= N
    /\ unit' = Span(Rest, Rest)
    /\ UNCHANGED <<doc, stage, units>>

Short == unit # NoUnit /\ unit.count < Floor

\* Next is tried before the previous one.
TakeNext ==
    /\ stage = "merge" /\ Short /\ FitsNext
    /\ unit' = Span(unit.first, unit.last + 1)
    /\ UNCHANGED <<doc, stage, units>>

\* The last unit is taken back.
TakePrev ==
    /\ stage = "merge" /\ Short /\ ~FitsNext /\ FitsPrev
    /\ unit' = Span(Last(units).first, unit.last)
    /\ units' = Front(units)
    /\ UNCHANGED <<doc, stage>>

\* Long enough, or no permitted direction fits.
Emit ==
    /\ stage = "merge" /\ unit # NoUnit
    /\ Short => ~FitsNext /\ ~FitsPrev
    /\ units' = Append(units, unit)
    /\ unit' = NoUnit
    /\ UNCHANGED <<doc, stage>>

\* English is in no merge language: its map is empty.
MergeEnd ==
    /\ stage = "merge" /\ unit = NoUnit
    /\ doc.english \/ Rest > N
    /\ stage' = "translate"
    /\ UNCHANGED <<doc, units, unit>>

Merge == Open \/ TakeNext \/ TakePrev \/ Emit \/ MergeEnd

-----------------------------------------------------------------------------
(* Translation and its way back to sentences.                                 *)

CONSTANTS
    SplitBack,   \* reconcile.split_back
    MTFaults,    \* what MT may do to the markers: see Renderings
    MaxDamaged   \* units of a document it does anything to (a bound)

VARIABLES
    raw,      \* raw translation rows: [first, n, text]
    expect,   \* the sentence the next raw row must start at
    finals    \* final sentences: [first, last, english, count, fused]

\* A text is a sequence of sentence numbers, for what translates that sentence,
\* and of markers.
Marker == 0
Said(text) == {text[i] : i \in DOMAIN text} \ {Marker}

-----------------------------------------------------------------------------
(* build_units, and the rows of both translate arms.                          *)

Members(u) == u.first .. u.last

\* The units translated: a merged unit whose source carries the marker is
\* declined, and each of its sentences is translated alone.
Singles(u) == [i \in 1 .. u.last - u.first + 1 |-> [first |-> u.first + i - 1, n |-> 1]]
BuildUnits ==
    FlattenSeq([i \in DOMAIN units |->
        IF units[i].last > units[i].first /\ Members(units[i]) \cap doc.marked # {}
        THEN Singles(units[i])
        ELSE <<[first |-> units[i].first, n |-> units[i].last - units[i].first + 1]>>])

\* What MT may return for a unit: its sentences in order, with any of the
\* markers lost. "stray": one marker more, at an end or beside another one;
\* "mute": a sentence alone may come back empty; "torn": a marker may come back
\* inside the translation of a sentence.
Return(first, n, kept, stray, torn) ==
    (IF stray = first - 1 THEN <<Marker>> ELSE <<>>)
    \o FlattenSeq([i \in 1 .. n |->
          LET s == first + i - 1
          IN (IF s = torn THEN <<s, Marker, s>> ELSE <<s>>)
             \o (IF s \in kept THEN <<Marker>> ELSE <<>>)
             \o (IF s = stray THEN <<Marker>> ELSE <<>>)])

Renderings(u) ==
    LET last   == u.first + u.n - 1
        strays == {-1} \cup (IF "stray" \in MTFaults THEN u.first - 1 .. last ELSE {})
        tears  == {-1} \cup (IF "torn" \in MTFaults THEN u.first .. last ELSE {})
    IN {Return(u.first, u.n, kept, stray, torn) :
           kept \in SUBSET (u.first .. last - 1), stray \in strays, torn \in tears}
       \cup (IF "mute" \in MTFaults /\ u.n = 1 THEN {<<>>} ELSE {})

\* Every marker back and nothing else.
Whole(u)     == Return(u.first, u.n, u.first .. u.first + u.n - 2, -1, -1)
Row(u, text) == [first |-> u.first, n |-> u.n, text |-> text]
Damaged      == {i \in DOMAIN raw : raw[i].text # Whole(raw[i])}

\* Translate one more unit (OmtTranslateAdapter.work, unit_row).
Translate ==
    /\ stage = "translate" /\ ~doc.english
    /\ Len(raw) < Len(BuildUnits)
    /\ LET u == BuildUnits[Len(raw) + 1]
       IN \E text \in Renderings(u) :
             /\ text = Whole(u) \/ Cardinality(Damaged) < MaxDamaged
             /\ raw' = Append(raw, Row(u, text))
    /\ UNCHANGED <<doc, stage, units, unit, expect, finals>>

\* The identity arm copies each English sentence, marker and all.
Identity ==
    /\ stage = "translate" /\ doc.english
    /\ raw' = [s \in 1 .. N |-> Row([first |-> s, n |-> 1], <<s>>)]
    /\ stage' = "reconcile"
    /\ UNCHANGED <<doc, units, unit, expect, finals>>

TranslateEnd ==
    /\ stage = "translate" /\ ~doc.english
    /\ Len(raw) = Len(BuildUnits)
    /\ stage' = "reconcile"
    /\ UNCHANGED <<doc, units, unit, raw, expect, finals>>

-----------------------------------------------------------------------------
(* split_translation and reconcile_document.                                  *)

MarkersTo(text, i) == Cardinality({j \in 1 .. i : text[j] = Marker})
Segment(text, k)   == {text[i] : i \in {j \in DOMAIN text : text[j] # Marker /\ MarkersTo(text, j) = k - 1}}

Bug_SplitsEmpty(text, n) ==
    SplitBack /\ n > 1 /\ MarkersTo(text, Len(text)) = n - 1

\* As many segments as members and none of them empty, or no split at all.
Splits(text, n) ==
    /\ SplitBack /\ n > 1
    /\ MarkersTo(text, Len(text)) = n - 1
    /\ \A k \in 1 .. n : Segment(text, k) # {}

Final(first, last, english, count) ==
    [first |-> first, last |-> last, english |-> english, count |-> count, fused |-> last > first]

\* The map's unit that starts at a sentence.
UnitAt(first) == {i \in DOMAIN units : units[i].first = first}

Row1 == raw[1]

\* A row must start where the one before ended and stay in the document; a
\* fused one must have its unit in the map, which stores its token count.
RowFits ==
    /\ Row1.first = expect
    /\ expect + Row1.n - 1 <= N
    /\ (Row1.n > 1 /\ ~Splits(Row1.text, Row1.n)) =>
          \E i \in UnitAt(expect) : units[i].last = expect + Row1.n - 1

Reconciled(news) ==
    /\ finals' = finals \o news
    /\ expect' = expect + Row1.n
    /\ raw' = Tail(raw)
    /\ UNCHANGED <<doc, stage, units, unit>>

SplitRow ==
    /\ stage = "reconcile" /\ raw # <<>> /\ RowFits
    /\ Splits(Row1.text, Row1.n)
    /\ Reconciled([k \in 1 .. Row1.n |->
          LET s == expect + k - 1 IN Final(s, s, Segment(Row1.text, k), doc.tokens[s, s])])

SingleRow ==
    /\ stage = "reconcile" /\ raw # <<>> /\ RowFits
    /\ Row1.n = 1
    /\ Reconciled(<<Final(expect, expect, Said(Row1.text), doc.tokens[expect, expect])>>)

FusedRow ==
    /\ stage = "reconcile" /\ raw # <<>> /\ RowFits
    /\ Row1.n > 1 /\ ~Splits(Row1.text, Row1.n)
    /\ \E i \in UnitAt(expect) :
          Reconciled(<<Final(expect, units[i].last, Said(Row1.text), units[i].count)>>)

\* ReconciliationError, or the end with every sentence covered.
ReconcileEnd ==
    /\ stage = "reconcile"
    /\ \/ raw # <<>> /\ ~RowFits /\ stage' = "refused"
       \/ raw = <<>> /\ stage' = IF expect = N + 1 THEN "measure" ELSE "refused"
    /\ UNCHANGED <<doc, units, unit, raw, expect, finals>>

Reconcile ==
    Translate \/ Identity \/ TranslateEnd \/ SplitRow \/ SingleRow \/ FusedRow \/ ReconcileEnd
=============================================================================
