----------------------------- MODULE DirPublish -----------------------------
(* How a directory artifact is published (preprocess/vectors.py               *)
(* _publish_block_dir, preprocess/index.py _publish_dir): an unmarked leftover *)
(* is removed, the temporary directory is renamed into place, and the         *)
(* _SUCCESS marker, a file beside the directory, is written last.  Builders   *)
(* may be at work on one directory at the same time.                          *)
EXTENDS Sequences

VARIABLES
    disk,   \* directory -> "absent", "torn" (rmtree is under way), "whole"
    marks,  \* directories whose marker exists
    pc,     \* builder -> place
    todo    \* builder -> directories left to publish, in order

\* common/io.py is_done reads the marker and never the directory.
IsDone(d) == d \in marks

At(b, place)   == pc[b] = place
Goto(b, place) == pc' = [pc EXCEPT ![b] = place]
Target(b)      == Head(todo[b])

Published(b) ==
    /\ todo' = [todo EXCEPT ![b] = Tail(@)]
    /\ Goto(b, "next")

Exists(b) ==
    /\ At(b, "exists")
    /\ Goto(b, IF disk[Target(b)] = "absent" THEN "replace" ELSE "marker")
    /\ UNCHANGED <<disk, marks, todo>>

Bug_ReadMarkerRefuses(b) ==
    /\ At(b, "marker")
    /\ Goto(b, IF IsDone(Target(b)) THEN "clear" ELSE "failed")
    /\ UNCHANGED <<disk, marks, todo>>

\* Published by somebody else: the temporary directory is dropped.
ReadMarker(b) ==
    /\ At(b, "marker")
    /\ IF IsDone(Target(b)) THEN Published(b) ELSE Goto(b, "clear") /\ UNCHANGED todo
    /\ UNCHANGED <<disk, marks>>

\* rmtree: raises on a directory that is gone, or refilled before its rmdir.
Clear(b) ==
    /\ At(b, "clear")
    /\ IF disk[Target(b)] = "absent"
       THEN Goto(b, "failed") /\ UNCHANGED disk
       ELSE Goto(b, "rmdir") /\ disk' = [disk EXCEPT ![Target(b)] = "torn"]
    /\ UNCHANGED <<marks, todo>>

Rmdir(b) ==
    /\ At(b, "rmdir")
    /\ IF disk[Target(b)] = "torn"
       THEN Goto(b, "replace") /\ disk' = [disk EXCEPT ![Target(b)] = "absent"]
       ELSE Goto(b, "failed") /\ UNCHANGED disk
    /\ UNCHANGED <<marks, todo>>

Bug_ReplaceMarksFirst(b) ==
    /\ At(b, "replace")
    /\ IF IsDone(Target(b))
       THEN disk' = [disk EXCEPT ![Target(b)] = "whole"] /\ Goto(b, "mark") /\ UNCHANGED marks
       ELSE marks' = marks \cup {Target(b)} /\ UNCHANGED <<disk, pc>>
    /\ UNCHANGED todo

\* os.replace onto a directory raises unless that one is already empty.
Replace(b) ==
    /\ At(b, "replace")
    /\ \/ /\ disk[Target(b)] \in {"absent", "torn"}
          /\ disk' = [disk EXCEPT ![Target(b)] = "whole"]
          /\ Goto(b, "mark")
       \/ /\ disk[Target(b)] \in {"torn", "whole"}
          /\ Goto(b, "failed") /\ UNCHANGED disk
    /\ UNCHANGED <<marks, todo>>

Mark(b) ==
    /\ At(b, "mark")
    /\ marks' = marks \cup {Target(b)}
    /\ Published(b)
    /\ UNCHANGED disk

Publish(b) ==
    Exists(b) \/ ReadMarker(b) \/ Clear(b) \/ Rmdir(b) \/ Replace(b) \/ Mark(b)

Publishing == {"exists", "marker", "clear", "rmdir", "replace", "mark"}
=============================================================================
