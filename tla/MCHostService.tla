--------------------------- MODULE MCHostService ---------------------------
(* Instances of HostService for TLC.                                       *)
EXTENDS HostService

CONSTANTS t1, t2, s0

(* t2 may be a child of t1; the edges are set and cleared by requests.     *)
MCParentInputs == {{}, {t1}}

NoSource   == [t \in TaskId |-> NoSession]
BothSource == [t \in TaskId |-> s0]
OneSource  == [t \in TaskId |-> IF t = t1 THEN s0 ELSE NoSession]

(* Without elevated permissions the confirmation stamp changes nothing.    *)
NoStamp == \A t \in TaskId : task[t].confirmed = Unconfirmed

(* Neither the parking column nor the archive.                             *)
OnBoard == NoStamp /\ \A t \in TaskId : task[t].status # "backlog" /\ ~task[t].archived

(* t1 is created first and is nobody's child.                              *)
OneChild ==
  /\ OnBoard
  /\ task[t1].parents = {}
  /\ task[t1].serial \in {0, 1} /\ task[t2].serial \in {0, 2}

(* Nobody marks a card done by hand.                                       *)
NoHandMoves == OneChild /\ \A t \in TaskId : task[t].status # "done"
=============================================================================
