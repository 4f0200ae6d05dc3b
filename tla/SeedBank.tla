------------------------------ MODULE SeedBank ------------------------------
(* Round 0 of pipeline/round_loop.py: the arms of a run family, each in its   *)
(* own process, agree on one seed bank per (topic, seed) through one shared   *)
(* artifact and keep a copy each (pipeline/decompose/bank.py).                *)
EXTENDS Naturals

CONSTANTS
    Arms,        \* the cells of one (topic, seed), one per variant
    Banks,       \* the banks a sampled decomposition may return
    None,        \* no file, no bank
    MaxCrashes   \* bound: processes killed

ASSUME SeedBankAssumption ==
    /\ None \notin Banks
    /\ MaxCrashes \in Nat

VARIABLES
    shared, sharedDone,  \* Layout.seed_bank: the file and its _SUCCESS companion
    own, ownDone,        \* Layout.decompose_round(0) of each arm, likewise
    pc, bank,            \* each arm's process: place, bank in memory
    crashes

files == <<shared, sharedDone, own, ownDone>>
vars  == <<files, pc, bank, crashes>>

Places == {"start", "look", "grow", "link", "mark", "read", "copy", "copymark", "loop"}

TypeOK ==
    /\ shared \in Banks \cup {None}
    /\ sharedDone \in BOOLEAN
    /\ own \in [Arms -> Banks \cup {None}]
    /\ ownDone \in [Arms -> BOOLEAN]
    /\ pc \in [Arms -> Places]
    /\ bank \in [Arms -> Banks \cup {None}]
    /\ crashes \in 0 .. MaxCrashes
    /\ sharedDone => shared # None
    /\ \A a \in Arms : pc[a] \in {"link", "copy", "copymark", "loop"} => bank[a] # None

Init ==
    /\ shared = None /\ sharedDone = FALSE
    /\ own = [a \in Arms |-> None]
    /\ ownDone = [a \in Arms |-> FALSE]
    /\ pc = [a \in Arms |-> "start"]
    /\ bank = [a \in Arms |-> None]
    /\ crashes = 0

Goto(a, from, to) == pc[a] = from /\ pc' = [pc EXCEPT ![a] = to]

-----------------------------------------------------------------------------
(* _round_zero.                                                               *)

\* A round 0 that completed earlier is read back, never decomposed again.
Resume(a) ==
    /\ ownDone[a]
    /\ Goto(a, "start", "loop")
    /\ bank' = [bank EXCEPT ![a] = own[a]]
    /\ UNCHANGED <<files, crashes>>

Begin(a) ==
    /\ ~ownDone[a]
    /\ Goto(a, "start", "look")
    /\ UNCHANGED <<files, bank, crashes>>

\* The shared bank is trusted by its marker, and copied.
Reuse(a) ==
    /\ sharedDone
    /\ Goto(a, "look", "copy")
    /\ bank' = [bank EXCEPT ![a] = shared]
    /\ UNCHANGED <<files, crashes>>

Decompose(a) ==
    /\ ~sharedDone
    /\ Goto(a, "look", "grow")
    /\ UNCHANGED <<files, bank, crashes>>

\* grow_nuggets at round 0: a sampled generation, so two arms may differ.
Grow(a) ==
    /\ Goto(a, "grow", "link")
    /\ \E b \in Banks : bank' = [bank EXCEPT ![a] = b]
    /\ UNCHANGED <<files, crashes>>

\* Mutant: os.replace instead of os.link, so the last writer wins.
Bug_LinkReplaces(a) ==
    /\ Goto(a, "link", "mark")
    /\ shared' = bank[a]
    /\ UNCHANGED <<sharedDone, own, ownDone, bank, crashes>>

\* publish_seed_bank: os.link fails when the destination exists, first wins.
Link(a) ==
    /\ Goto(a, "link", "mark")
    /\ shared' = IF shared = None THEN bank[a] ELSE shared
    /\ UNCHANGED <<sharedDone, own, ownDone, bank, crashes>>

\* The marker is written by the winner and the loser alike.
Mark(a) ==
    /\ Goto(a, "mark", "read")
    /\ sharedDone' = TRUE
    /\ UNCHANGED <<shared, own, ownDone, bank, crashes>>

\* Winner and loser go on with what the shared file holds.
Read(a) ==
    /\ Goto(a, "read", "copy")
    /\ bank' = [bank EXCEPT ![a] = shared]
    /\ UNCHANGED <<files, crashes>>

\* write_bank of the arm's own copy: the file by rename, then its marker.
Copy(a) ==
    /\ Goto(a, "copy", "copymark")
    /\ own' = [own EXCEPT ![a] = bank[a]]
    /\ UNCHANGED <<shared, sharedDone, ownDone, bank, crashes>>

CopyMark(a) ==
    /\ Goto(a, "copymark", "loop")
    /\ ownDone' = [ownDone EXCEPT ![a] = TRUE]
    /\ UNCHANGED <<shared, sharedDone, own, bank, crashes>>

\* A killed process loses its memory and is started again.
Crash(a) ==
    /\ crashes < MaxCrashes
    /\ crashes' = crashes + 1
    /\ pc' = [pc EXCEPT ![a] = "start"]
    /\ bank' = [bank EXCEPT ![a] = None]
    /\ UNCHANGED files

Step(a) ==
    \/ Resume(a) \/ Begin(a) \/ Reuse(a) \/ Decompose(a) \/ Grow(a)
    \/ Link(a) \/ Mark(a) \/ Read(a) \/ Copy(a) \/ CopyMark(a)

Next == \E a \in Arms : Step(a) \/ Crash(a)

Spec == Init /\ [][Next]_vars

-----------------------------------------------------------------------------
(* Properties.                                                                *)

\* Two arms cannot hold different round-0 banks for one (topic, seed): whatever
\* they race, lose or are killed at, an arm's durable copy and the bank it works
\* from are the one the shared artifact holds.
OneSeed ==
    \A a \in Arms :
        /\ ownDone[a] => own[a] = shared
        /\ pc[a] = "loop" => bank[a] = shared
=============================================================================
