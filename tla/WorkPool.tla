------------------------------ MODULE WorkPool ------------------------------
(* What one saturation stage promises its caller, with no directories, no    *)
(* workers and no clock: an offered shard stays to do until it is either     *)
(* completed or poisoned, both for good, and the stage is published once,    *)
(* when nothing is left to do and nothing was poisoned.                      *)
EXTENDS FiniteSets

CONSTANT Shards

VARIABLES todo, completed, poisoned, published

poolVars == <<todo, completed, poisoned, published>>

Init ==
    /\ todo = {}
    /\ completed = {}
    /\ poisoned = {}
    /\ published = FALSE

Offer(s) ==
    /\ s \notin todo \cup completed \cup poisoned
    /\ ~published
    /\ todo' = todo \cup {s}
    /\ UNCHANGED <<completed, poisoned, published>>

Complete(s) ==
    /\ s \in todo
    /\ todo' = todo \ {s}
    /\ completed' = completed \cup {s}
    /\ UNCHANGED <<poisoned, published>>

Poison(s) ==
    /\ s \in todo
    /\ todo' = todo \ {s}
    /\ poisoned' = poisoned \cup {s}
    /\ UNCHANGED <<completed, published>>

Publish ==
    /\ todo = {}
    /\ poisoned = {}
    /\ completed = Shards
    /\ ~published
    /\ published' = TRUE
    /\ UNCHANGED <<todo, completed, poisoned>>

Next ==
    \/ \E s \in Shards : Offer(s) \/ Complete(s) \/ Poison(s)
    \/ Publish

Spec == Init /\ [][Next]_poolVars
=============================================================================
