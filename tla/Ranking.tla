------------------------------ MODULE Ranking ------------------------------
(* One search of a run (retrieval/context.py, retrieval/service.py retrieve,  *)
(* common/fusion.py rrf): a context is brought up on a published index, or on *)
(* a service's lane; the query strings are searched leg by leg and language   *)
(* by language over a pool of threads, the lists are fused by rank in floating *)
(* point, and the cross-encoder scores the head again.                        *)
EXTENDS Integers, FiniteSets, Sequences, SequencesExt

CONSTANTS
    Searches,     \* what may be asked, of what: see below
    Legs,         \* the legs of an index, in order
    Weights,      \* by rank, 1 / (k + rank) in units of the last place below one
    One           \* sums from here on keep one bit less

\* A search: query strings (0 is blank), the k asked for and rerank_depth; in
\* process or of a service; threads; the cells in the order of their languages,
\* each its parts, a part a set of passages; score[query, leg][passage]; cross[passage], the cross-encoder's; legs
\* lost from a cell on disk; whether manifest and store are published, with the
\* passages packed as the run's.
VARIABLES
    search,
    pc,
    next,      \* the fan: units handed to threads
    busy,      \* units in the hands of a thread
    done,      \* unit -> its list, once searched
    pools,     \* lists collected
    ranked     \* <<>>, or the answer, as [id, score] best first

vars == <<search, pc, next, busy, done, pools, ranked>>

MaxOf(a, b) == IF a > b THEN a ELSE b
Top(list, k) == [n \in (1 .. k) \cap DOMAIN list |-> list[n]]
Better(x, y) == x.score > y.score \/ (x.score = y.score /\ x.id < y.id)

\* A float sum, rounded to nearest with ties to even.
Plus(a, b) ==
    LET sum == a + b
    IN IF sum < One \/ sum % 2 = 0 THEN sum ELSE IF sum % 4 = 1 THEN sum - 1 ELSE sum + 1

-----------------------------------------------------------------------------
(* What is searched                                                           *)

\* query_strings: the strings that are not blank, each where it first occurs.
QueryStrings(raw) ==
    FlattenSeq([n \in DOMAIN raw |->
                  IF raw[n] = 0 \/ \E m \in 1 .. n - 1 : raw[m] = raw[n] THEN <<>> ELSE <<raw[n]>>])

CandidateDepth(k, depth) == MaxOf(1, MaxOf(k, depth))

Queries == QueryStrings(search.queries)
Depth   == CandidateDepth(search.topk, search.depth)
Langs   == Len(search.cells)

\* _tasks: query by query, leg by leg, language by language.
Unit(n) ==
    LET perQuery == Len(Legs) * Langs
    IN [query |-> Queries[((n - 1) \div perQuery) + 1],
        leg   |-> Legs[(((n - 1) % perQuery) \div Langs) + 1],
        lang  |-> ((n - 1) % Langs) + 1]
Units   == Len(Queries) * Len(Legs) * Langs
Threads == IF search.threads < Units THEN search.threads ELSE Units

\* query_lang_leg: each part returns its own best; their scores are of one kind.
Hits(unit, part, k) ==
    Top(SetToSortSeq({[id |-> p, score |-> search.score[<<unit.query, unit.leg>>][p]] : p \in part}, Better), k)
Pool(unit, k) ==
    LET parts == search.cells[unit.lang]
    IN Top(SortSeq(FlattenSeq([p \in DOMAIN parts |-> Hits(unit, parts[p], k)]), Better), k)

-----------------------------------------------------------------------------
(* Ranking                                                                    *)

RankIn(pool, id) == SelectInSeq(pool, LAMBDA hit : hit.id = id)
Ids(lists)       == UNION {{hit.id : hit \in ToSet(lists[n])} : n \in DOMAIN lists}

\* rrf: a float is added to as the lists come, so their order counts.
Share(pool, id)   == IF RankIn(pool, id) = 0 THEN <<>> ELSE <<Weights[RankIn(pool, id)]>>
Shares(lists, id) == FlattenSeq([n \in DOMAIN lists |-> Share(lists[n], id)])
Rrf(lists) ==
    SetToSortSeq({[id |-> id, score |-> FoldLeft(Plus, 0, Shares(lists, id))] : id \in Ids(lists)}, Better)

\* _rerank: the head by the cross-encoder's scores, the rest as it was fused.
Rerank(fused) ==
    LET head == {[id |-> hit.id, score |-> search.cross[hit.id]] : hit \in ToSet(Top(fused, search.depth))}
    IN IF search.depth = 0 THEN fused
       ELSE SetToSortSeq(head, Better) \o SubSeq(fused, search.depth + 1, Len(fused))

Rank(lists) == Top(Rerank(Rrf(lists)), MaxOf(0, search.topk))

-----------------------------------------------------------------------------
(* A search                                                                   *)

\* bring_up and service_context refuse what was not published or was packed
\* otherwise; only bring_up reads the manifest.
Open ==
    /\ pc = "open"
    /\ pc' = IF search.stored /\ (search.remote \/ search.published) THEN "ask" ELSE "raised"
    /\ UNCHANGED <<search, next, busy, done, pools, ranked>>

\* A cell that lost a leg is refused before anything is searched.
Ask ==
    /\ pc = "ask"
    /\ pc' = IF Queries = <<>> THEN "answered"
             ELSE IF search.remote THEN "remote"
             ELSE IF search.lost # {} THEN "raised" ELSE "fan"
    /\ UNCHANGED <<search, next, busy, done, pools, ranked>>

\* Executor.map: threads take the units in order and finish in any.
Take ==
    /\ pc = "fan" /\ next < Units /\ Cardinality(busy) < MaxOf(1, Threads)
    /\ next' = next + 1 /\ busy' = busy \cup {next + 1}
    /\ UNCHANGED <<search, pc, done, pools, ranked>>
Finish ==
    /\ pc = "fan"
    /\ \E n \in busy :
          /\ busy' = busy \ {n}
          /\ done' = [m \in DOMAIN done \cup {n} |-> IF m = n THEN Pool(Unit(n), Depth) ELSE done[m]]
    /\ UNCHANGED <<search, pc, next, pools, ranked>>

Bug_Collectable == DOMAIN done
\* The lists are collected in the order in which they were asked for.
Collectable == {n \in DOMAIN done : n > Len(pools) /\ \A m \in 1 .. n - 1 : m <= Len(pools)}

Collect ==
    /\ pc = "fan"
    /\ \E n \in Collectable :
          /\ pools' = Append(pools, done[n])
          /\ done' = [m \in DOMAIN done \ {n} |-> done[m]]
    /\ UNCHANGED <<search, pc, next, busy, ranked>>

Decide ==
    /\ pc = "fan" /\ Len(pools) = Units
    /\ ranked' = Rank(pools)
    /\ pc' = "answered"
    /\ UNCHANGED <<search, next, busy, done, pools>>

\* ServiceBackend.rank: one string a request. Service.query searches leg by leg,
\* drops the lists that are empty, and fuses and reranks as above.
Kept(lists) == FlattenSeq([n \in DOMAIN lists |-> IF lists[n] = <<>> THEN <<>> ELSE <<lists[n]>>])
Remote ==
    /\ pc = "remote"
    /\ IF Len(Queries) > 1 \/ search.lost # {}
       THEN pc' = "raised" /\ UNCHANGED ranked
       ELSE /\ ranked' = Rank(Kept([n \in 1 .. Units |-> Pool(Unit(n), MaxOf(search.topk, search.depth))]))
            /\ pc' = "answered"
    /\ UNCHANGED <<search, next, busy, done, pools>>

Init ==
    /\ search \in Searches
    /\ pc = "open" /\ next = 0 /\ busy = {} /\ done = <<>> /\ pools = <<>> /\ ranked = <<>>

Next == Open \/ Ask \/ Take \/ Finish \/ Collect \/ Decide \/ Remote
Spec == Init /\ [][Next]_vars

-----------------------------------------------------------------------------
(* Properties                                                                 *)

\* One thread's ranking of the distinct strings, as deep as the reranker reads.
Reference ==
    Rerank(Rrf([n \in 1 .. Units |-> Pool(Unit(n), MaxOf(1, search.depth))]))

\* Up to rerank_depth, the k best are the first k of one ranking, whatever k, the
\* number of threads, the order in which they finish and the side that ranks;
\* a repeated string weighs nothing, and no leg is ever missing from it.
WidthFree ==
    pc = "answered" /\ search.topk <= search.depth =>
        /\ ranked = IF Queries = <<>> THEN <<>> ELSE Top(Reference, search.topk)
        /\ Queries # <<>> => search.lost = {}
=============================================================================
