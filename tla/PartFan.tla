------------------------------- MODULE PartFan -------------------------------
(* One leg of one index cell searched for one query (preprocess/index.py      *)
(* search_cell_with_rep, devkit/rsvc.py CellPool, _cell_loop, merge_slices):  *)
(* the parts of the cell are cut into contiguous slices, one process each;    *)
(* a process searches its parts and truncates; the parent merges the replies. *)
EXTENDS Integers, Sequences, SequencesExt, FiniteSets

CONSTANTS
    Fans,     \* what may be searched: see Fan
    TopK,
    Widths    \* worker processes a cell gets

\* parts: the passages of each part as [id, score], ids being of one part each;
\* device: the leg runs on a device, so that the first process searches it whole.
Fan(f) ==
    /\ DOMAIN f = {"parts", "device"}
    /\ f.parts \in Seq(SUBSET [id : Nat, score : Nat]) /\ f.parts # <<>>
    /\ \A p \in DOMAIN f.parts : IsFiniteSet(f.parts[p])
    /\ \A p, q \in DOMAIN f.parts : \A x \in f.parts[p], y \in f.parts[q] :
          x.id = y.id => p = q /\ x = y

VARIABLES
    fan,
    width,
    found,    \* part -> the hits it returns: its own top k, ties as its engine breaks them
    broken,   \* slices whose search of this leg raises
    hits,     \* slice -> hits so far, in part order
    reply,    \* slice -> <<>> or the one reply [hits, err] on its pipe
    result    \* <<>>, or the merged reply

vars == <<fan, width, found, broken, hits, reply, result>>
scenario == <<fan, width, found, broken>>

Parts == Len(fan.parts)

\* part_slices: at most as many slices as parts, none of them empty.
Wide   == IF width < Parts THEN width ELSE Parts
Slices == 1 .. Wide
Bounds(s) == [lo |-> ((s - 1) * Parts) \div Wide, hi |-> (s * Parts) \div Wide]

Better(x, y) == x.score > y.score \/ (x.score = y.score /\ x.id < y.id)
\* Best first: what comes n-th has n - 1 hits ahead of it.
Sorted(list) ==
    LET Ahead(i) == {j \in DOMAIN list : Better(list[j], list[i]) \/ (list[j] = list[i] /\ j < i)}
    IN [n \in DOMAIN list |-> list[CHOOSE i \in DOMAIN list : Cardinality(Ahead(i)) = n - 1]]
Ranked(set)  == Sorted(SetToSeq(set))
Top(list)    == SubSeq(list, 1, IF Len(list) < TopK THEN Len(list) ELSE TopK)

\* What a part may return: k passages that no other of it outscores.
TopKs(part) ==
    {S \in SUBSET part :
        /\ Cardinality(S) = IF Cardinality(part) < TopK THEN Cardinality(part) ELSE TopK
        /\ \A x \in S, y \in part \ S : x.score >= y.score}

\* device_resident_legs, as CellPool.__init__ deals them out: the first slice
\* searches a device leg over the whole cell and the others skip it.
Whole       == fan.device /\ Wide > 1
Searched(s) ==
    IF Whole THEN (IF s = 1 THEN 1 .. Parts ELSE {})
    ELSE Bounds(s).lo + 1 .. Bounds(s).hi

Init ==
    /\ fan \in {f \in Fans : Fan(f)} /\ width \in Widths
    /\ found \in [DOMAIN fan.parts -> UNION {TopKs(fan.parts[p]) : p \in DOMAIN fan.parts}]
    /\ \A p \in DOMAIN fan.parts : found[p] \in TopKs(fan.parts[p])
    /\ broken \in {B \in SUBSET Slices : Cardinality(B) <= 1}
    /\ hits = [s \in Slices |-> [at |-> 0, list |-> <<>>]]
    /\ reply = [s \in Slices |-> <<>>]
    /\ result = <<>>

\* pool.map hands the results back in part order, whichever part ended first.
SearchPart(s) ==
    /\ reply[s] = <<>>
    /\ \E p \in Searched(s) :
          /\ p > hits[s].at /\ \A q \in Searched(s) : q > hits[s].at => p <= q
          /\ hits' = [hits EXCEPT ![s] = [at |-> p, list |-> @.list \o Ranked(found[p])]]
    /\ UNCHANGED <<scenario, reply, result>>

Bug_Cut(list) == Top(list)
\* The cell merge: best first, ids breaking ties, k of them.
Cut(list) == Top(Sorted(list))

\* A leg that raises is an empty list with its error, and does not end the worker.
Reply(s) ==
    /\ reply[s] = <<>>
    /\ \A p \in Searched(s) : p <= hits[s].at
    /\ reply' = [reply EXCEPT ![s] =
          IF s \in broken /\ Searched(s) # {}
          THEN <<[hits |-> <<>>, err |-> TRUE]>>
          ELSE <<[hits |-> Cut(hits[s].list), err |-> FALSE]>>]
    /\ UNCHANGED <<scenario, hits, result>>

AnyError == \E s \in Slices : reply[s][1].err

\* gather receives in slice order: only when all have replied is anything merged.
Gather ==
    /\ result = <<>> /\ \A s \in Slices : reply[s] # <<>>
    /\ result' = IF Wide = 1 THEN reply[1]
                 ELSE <<[hits |-> Cut(FlattenSeq([s \in Slices |-> reply[s][1].hits])),
                         err |-> AnyError]>>
    /\ UNCHANGED <<scenario, hits, reply>>

Next == Gather \/ \E s \in Slices : SearchPart(s) \/ Reply(s)

Spec == Init /\ [][Next]_vars

-----------------------------------------------------------------------------
(* Properties.                                                                *)

TypeOK ==
    /\ Fan(fan) /\ width \in Widths
    /\ broken \subseteq Slices
    /\ result # <<>> => result[1].err \in BOOLEAN

Everything == UNION {fan.parts[p] : p \in DOMAIN fan.parts}
Scores(list) == [k \in DOMAIN list |-> list[k].score]

\* A leg without an error is what one process over the whole cell returns, however
\* the parts were sliced and whichever process searched a device leg, and its
\* scores are the k best of the cell; a leg that lost a slice says so.
SliceFree ==
    result # <<>> =>
        IF result[1].err THEN \E s \in broken : Searched(s) # {}
        ELSE /\ result[1].hits = Top(Ranked(UNION {found[p] : p \in DOMAIN found}))
             /\ Scores(result[1].hits) = Scores(Top(Ranked(Everything)))
=============================================================================
