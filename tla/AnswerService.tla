---------------------------- MODULE AnswerService ----------------------------
(* What the resident retrieval service (devkit/rsvc.py) promises behind its   *)
(* file-system queue: a request is consumed once and gets at most one reply,  *)
(* either an error or the results of its own queries.                         *)

CONSTANTS Requests   \* the request ids, one file each in <queue>/in

VARIABLES stage, reply

vars == <<stage, reply>>

Stages  == {"unsent", "queued", "taken"}
Replies == {"none", "error", "own"}

Init ==
    /\ stage = [r \in Requests |-> "unsent"]
    /\ reply = [r \in Requests |-> "none"]

Ask(r) ==
    /\ stage[r] = "unsent"
    /\ stage' = [stage EXCEPT ![r] = "queued"]
    /\ UNCHANGED reply

Take(r) ==
    /\ stage[r] = "queued"
    /\ stage' = [stage EXCEPT ![r] = "taken"]
    /\ UNCHANGED reply

Answer(r) ==
    /\ stage[r] = "taken"
    /\ reply[r] = "none"
    /\ \E answer \in {"error", "own"} : reply' = [reply EXCEPT ![r] = answer]
    /\ UNCHANGED stage

Next == \E r \in Requests : Ask(r) \/ Take(r) \/ Answer(r)

Spec == Init /\ [][Next]_vars
=============================================================================
