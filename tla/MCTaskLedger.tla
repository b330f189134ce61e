---------------------------- MODULE MCTaskLedger ----------------------------
(***************************************************************************)
(* Small instances of TaskLedger for TLC.  Each cfg widens one part of the *)
(* ledger (executions, schedules, permissions, history) and narrows the    *)
(* others.                                                                 *)
(***************************************************************************)
EXTENDS TaskLedger, TLC

(* A request names no parents, or every card: an operation drops the card  *)
(* itself, so with two cards each may be the parent of the other, and a    *)
(* cycle is possible.                                                      *)
NoParents == {{}}
NoneOrAll == {{}, TaskId}

(* The cards are interchangeable in every action and property.             *)
CardSymmetry == Permutations(TaskId)

(* Where no permission can be requested the confirmation stamp changes     *)
(* nothing, so the states that carry it are left out.                      *)
NoStamp == \A t \in TaskId : task[t].confirmed = Unconfirmed
=============================================================================
