---------------------------- MODULE MCBoardClient ----------------------------
(* Instances of BoardClient and BoardReplica for TLC.                      *)
EXTENDS BoardReplica

CONSTANTS c1, p1

EmptyOrFull == {EmptyBoard, [k \in Key |-> IF k \in Card THEN "edited" ELSE "new"]}

(* What is selected matters while nothing fails and little changes;        *)
(* behaviours after a mishap are cut, there is nothing left to promise.    *)
AtRest == ui.selected = Nothing /\ ui.filter = Nothing /\ ~ui.archiveView
Quiet ==
  /\ mishap = {}
  /\ \/ AtRest
     \/ /\ count.faults = 0 /\ count.restarts = 0 /\ count.boots = 1
        /\ count.changes + count.commands < 3
=============================================================================
