---------------------------- MODULE CoverageLoop ----------------------------
(* What the coverage loop of one topic promises, with no files, no crash and  *)
(* no resume: a chain of banks, each grown from the one before, that ends at  *)
(* the first round where the novelty is saturated, or at R_max.               *)
EXTENDS NuggetBank

VARIABLES
    banks,   \* the completed rounds: banks[k] is the bank of round k - 1
    solved

loopVars == <<banks, solved>>

Init == banks = <<>> /\ solved = FALSE

Novelty == [r \in 1 .. Len(banks) - 1 |-> NetNew(banks[r + 1], r)]

Stopped == Len(banks) = RMax + 1 \/ Saturated(Novelty)

\* One audit round: new nuggets belong to it, a settled nugget is never touched
\* again, an open one keeps its question and its answers or is merged away, and
\* nothing is closed without an answer or pruned with one.
Grown(a, b, r) ==
    /\ \A i \in DOMAIN b \ DOMAIN a : b[i].origin = r
    /\ \A i \in DOMAIN a \ Open(a) : i \in DOMAIN b /\ b[i] = a[i]
    /\ \A i \in Open(a) \cap DOMAIN b :
        b[i].origin = a[i].origin /\ a[i].answers \subseteq b[i].answers
    /\ \A i \in DOMAIN b :
        /\ b[i].status = "answered" => b[i].answers # {}
        /\ b[i].status = "pruned" => b[i].answers = {}

Start ==
    /\ banks = <<>>
    /\ banks' = <<Seed>>
    /\ UNCHANGED solved

Grow ==
    /\ banks # <<>>
    /\ ~Stopped
    /\ Len(banks') = Len(banks) + 1
    /\ SubSeq(banks', 1, Len(banks)) = banks
    /\ Grown(banks[Len(banks)], banks'[Len(banks) + 1], Len(banks))
    /\ UNCHANGED solved

Finish ==
    /\ banks # <<>>
    /\ Stopped
    /\ solved' = TRUE
    /\ UNCHANGED banks

Next == Start \/ Grow \/ Finish

Spec == Init /\ [][Next]_loopVars
=============================================================================
