------------------------------ MODULE RagLoop ------------------------------
(* One agentic loop: pipeline/rag_loop/loop.py run_loop, with the phase gate, *)
(* the budgets, the claim commit and fan_in.  The model behind llm.generate   *)
(* may choose any action the grammar admits, may break the grammar, may be    *)
(* late; a search may fail.  The code decides only what is modelled here.     *)
EXTENDS Naturals, Sequences

CONSTANTS
    MinSearches, MaxIters, MaxSearches, TokenBudget,  \* rag_loop.budget
    MaxRetries,    \* claim_commit.max_retries
    Passages,      \* passage ids the searches of this loop may return
    Values         \* cluster_key of a claim's short answer

VARIABLES
    pc,
    menu,                       \* actions the compiled schema of this turn admits
    iters, searches, failed,    \* LoopState; n_answer_fail is read only as "at least one"
    tokens,                     \* size of the conversation, kept up to TokenBudget
    retries,                    \* re-decodes of this turn's claim
    retrieved, shown,           \* Trail.scores, Trail.passages
    committed,                  \* the CommittedClaims, in order
    status, closedBy, answers,  \* the LoopResult
    calls                       \* history: calls of llm.generate, up to one past CallLimit

counters == <<iters, searches, failed, tokens>>
trail    == <<retrieved, shown>>
result   == <<status, closedBy, answers>>
vars     == <<pc, menu, counters, retries, trail, committed, result, calls>>

Actions == {"search", "submit_claim", "submit_answer", "abstain"}
Claims  == [value : Values, passage : Passages]
Ended   == {"done", "raised"}

\* Every unforced turn with all its re-decodes, and the forced one.
CallLimit == MaxIters * (1 + MaxRetries) + 1

TypeOK ==
    /\ pc \in {"turn", "generate", "retry"} \cup Ended
    /\ menu \subseteq Actions
    /\ iters \in 0 .. MaxIters + 1
    /\ searches \in 0 .. MaxSearches
    /\ calls \in Nat
    /\ retries \in 0 .. MaxRetries
    /\ failed \in BOOLEAN
    /\ tokens \in 0 .. TokenBudget
    /\ retrieved \subseteq Passages /\ shown \subseteq Passages
    /\ committed \in Seq(Claims)
    /\ status \in {"unanswered", "answered", "error"}
    /\ closedBy \in {"none", "model", "budget", "timeout", "malformed", "error"}
    /\ answers \subseteq [value : Values, lead : Nat, support : SUBSET Passages]

Init ==
    /\ pc = "turn"
    /\ menu = {}
    /\ iters = 0 /\ searches = 0 /\ failed = FALSE /\ tokens = 0
    /\ retries = 0
    /\ retrieved = {} /\ shown = {}
    /\ committed = <<>>
    /\ status = "unanswered" /\ closedBy = "none" /\ answers = {}
    /\ calls = 0

-----------------------------------------------------------------------------
(* The phase gate.                                                            *)

EffortFloor == searches >= MinSearches /\ failed

BudgetExhausted ==
    iters >= MaxIters \/ searches >= MaxSearches \/ tokens >= TokenBudget

PhaseMenu ==
    {"submit_claim", "submit_answer"}
        \cup (IF searches < MaxSearches THEN {"search"} ELSE {})
        \cup (IF EffortFloor THEN {"abstain"} ELSE {})

\* One action, so that a loop whose budget is spent cannot go on.
ForcedMenu == IF committed # <<>> THEN {"submit_answer"} ELSE {"abstain"}

Forced == "submit_claim" \notin menu

-----------------------------------------------------------------------------
(* fan_in: claims cluster by value; the first of a cluster gives the answer's *)
(* text and span, all of them its support.                                    *)

Leads(claims) ==
    {i \in DOMAIN claims : \A j \in 1 .. i - 1 : claims[j].value # claims[i].value}

Support(claims, i) ==
    {claims[j].passage : j \in {k \in DOMAIN claims : claims[k].value = claims[i].value}}

FanIn(claims) ==
    {[value |-> claims[i].value, lead |-> i, support |-> Support(claims, i)] : i \in Leads(claims)}

-----------------------------------------------------------------------------

\* The head of a turn: the menu from the counters, then the turn is counted and
\* the conversation, which only grows, is measured.
Turn ==
    /\ pc = "turn"
    /\ menu' = IF BudgetExhausted THEN ForcedMenu ELSE PhaseMenu
    /\ iters' = iters + 1
    /\ tokens' \in {t \in 1 .. TokenBudget : t >= tokens}
    /\ pc' = "generate"
    /\ UNCHANGED <<searches, failed, retries, trail, committed, result, calls>>

Called == calls' = IF calls > CallLimit THEN calls ELSE calls + 1

\* The call of llm.generate of this turn returned an action.
Generated(action) ==
    /\ pc = "generate"
    /\ action \in menu
    /\ Called

\* do_search: every hit is retrieved, those within the character budget of the
\* caller are shown.
Search ==
    /\ Generated("search")
    /\ searches' = searches + 1
    /\ \E hits \in SUBSET Passages : \E read \in SUBSET hits :
        /\ retrieved' = retrieved \cup hits
        /\ shown' = shown \cup read
    /\ pc' = "turn"
    /\ UNCHANGED <<menu, iters, failed, tokens, retries, committed, result>>

\* The generation, or the same-turn re-decode under the one-action grammar,
\* returned a claim.
Claiming ==
    \/ Generated("submit_claim")
    \/ pc = "retry" /\ Called

\* Mutant: a retrieved passage may be cited although it was never shown.
Bug_CommitRetrieved(p, v) ==
    /\ Claiming
    /\ p \in retrieved
    /\ committed' = Append(committed, [value |-> v, passage |-> p])
    /\ retries' = 0
    /\ pc' = "turn"
    /\ UNCHANGED <<menu, counters, trail, result>>

\* commit_span accepts: the span is verbatim in a passage this loop was shown.
Commit(p, v) ==
    /\ Claiming
    /\ p \in shown
    /\ committed' = Append(committed, [value |-> v, passage |-> p])
    /\ retries' = 0
    /\ pc' = "turn"
    /\ UNCHANGED <<menu, counters, trail, result>>

\* commit_span rejects, for any of its reasons: the feedback is appended and the
\* claim decoded again, within the turn, or dropped.
Reject ==
    /\ Claiming
    /\ IF retries < MaxRetries
       THEN pc' = "retry" /\ retries' = retries + 1
       ELSE pc' = "turn" /\ retries' = 0
    /\ UNCHANGED <<menu, counters, trail, committed, result>>

Close(outcome, by) ==
    /\ pc' = "done"
    /\ status' = outcome
    /\ closedBy' = by
    /\ answers' = FanIn(committed)
    /\ retries' = 0
    /\ UNCHANGED <<menu, counters, trail, committed>>

SubmitAnswer ==
    /\ Generated("submit_answer")
    /\ committed # <<>>
    /\ Close("answered", IF Forced THEN "budget" ELSE "model")

\* Mutant: the turn of a failed attempt is given back.
Bug_AnswerFailsRefunded ==
    /\ Generated("submit_answer")
    /\ committed = <<>>
    /\ failed' = TRUE
    /\ iters' = iters - 1
    /\ pc' = "turn"
    /\ UNCHANGED <<menu, searches, tokens, retries, trail, committed, result>>

\* Nothing committed: a failed attempt, not an answer.
AnswerFails ==
    /\ Generated("submit_answer")
    /\ committed = <<>>
    /\ failed' = TRUE
    /\ pc' = "turn"
    /\ UNCHANGED <<menu, iters, searches, tokens, retries, trail, committed, result>>

Abstain ==
    /\ Generated("abstain")
    /\ Close("unanswered", IF Forced THEN "budget" ELSE "model")

\* The handler around the loop: a generation overran its wall-clock bound, never
\* validated, or asked for a search without a query.
Fault ==
    /\ pc \in {"generate", "retry"}
    /\ Called
    /\ \E by \in {"timeout", "malformed"} :
        Close(IF committed # <<>> THEN "answered" ELSE "unanswered", by)

\* Any other exception leaves run_loop: an action outside the menu, a transport
\* error of the model or of the search.  run_round's guard turns it into an empty
\* record, so the sibling loops go on.
Escape ==
    /\ pc \in {"generate", "retry"}
    /\ Called
    /\ pc' = "raised"
    /\ status' = "error" /\ closedBy' = "error" /\ answers' = {}
    /\ retries' = 0
    /\ UNCHANGED <<menu, counters, trail, committed>>

Next ==
    \/ Turn
    \/ Search
    \/ \E p \in Passages, v \in Values : Commit(p, v)
    \/ Reject
    \/ SubmitAnswer \/ AnswerFails \/ Abstain
    \/ Fault \/ Escape

Spec == Init /\ [][Next]_vars

\* Every generation is bounded by llm.call_timeout_s, and a search by its own
\* time limits: the loop always takes its next step.
FairSpec == Spec /\ WF_vars(Next)

-----------------------------------------------------------------------------
(* Properties.                                                                *)

\* Nothing is manufactured: every claim and every answer rests on a passage this
\* loop has been shown, and an answered loop has an answer.
Grounded ==
    /\ \A i \in DOMAIN committed : committed[i].passage \in shown
    /\ \A a \in answers : a.support # {} /\ a.support \subseteq shown
    /\ status = "answered" => answers # {}

\* Whatever ends run_loop, its choice, a spent budget or a fault, the record holds
\* every claim committed before, once per distinct value.
CommittedReturned ==
    pc = "done" =>
        /\ \A i \in DOMAIN committed : \E a \in answers :
              a.value = committed[i].value /\ committed[i].passage \in a.support
        /\ \A a, b \in answers : a.value = b.value => a = b

\* A loop that neither answers nor breaks has earned it: it passed the effort
\* floor, or spent a budget and had nothing to answer with.
AbstentionEarned ==
    pc = "done" /\ status = "unanswered" /\ closedBy \in {"model", "budget"} =>
        \/ searches >= MinSearches /\ failed
        \/ BudgetExhausted /\ committed = <<>>

\* The budgets bound the generations of a loop, re-decodes and the forced turn
\* included.
GenerationsBounded == calls <= CallLimit

\* The backstop forces a terminal: a loop never goes on for ever, whatever the model
\* answers.
Ends == <>(pc \in Ended)

\* The effort floor reserves abstain for genuine evidence absence.
AbstainWithoutEvidence ==
    pc = "done" /\ status = "unanswered" => committed = <<>>
=============================================================================
