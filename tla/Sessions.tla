------------------------------ MODULE Sessions ------------------------------
(***************************************************************************)
(* The harness runtime as the task board sees it through the gateway: a    *)
(* set of conversations, each with a queue of prompts, at most one turn at *)
(* work, and a history of ended turns.  It is outside this repository; the *)
(* module says what src/src/host-runner.ts relies on and nothing more.     *)
(***************************************************************************)
EXTENDS Integers, Sequences

CONSTANTS SessionId,  \* the conversations
          Existing    \* those that exist before the board does

VARIABLE session

User   == 0    \* a prompt somebody typed; a run's prompt carries its id
NoTurn == -1

(* An ended turn: whose prompt it answered (the runtime does not tell),    *)
(* whether it ended without error, and when, as the id of the next run the *)
(* board would open: run r was opened before the end exactly if r < at.    *)
Turn == [by: Nat, ok: BOOLEAN, at: Nat]

Session == [stage: {"unborn", "live", "deleted"},
            queue: Seq(Nat), turn: Nat \cup {NoTurn}, log: Seq(Turn)]

Blank == [stage |-> "unborn", queue |-> <<>>, turn |-> NoTurn, log |-> <<>>]

Init ==
  session = [s \in SessionId |->
    IF s \in Existing THEN [Blank EXCEPT !.stage = "live"] ELSE Blank]

Live    == {s \in SessionId : session[s].stage = "live"}
Unborn  == {s \in SessionId : session[s].stage = "unborn"}
Working == {s \in Live : session[s].turn # NoTurn}

(* session/create                                                          *)
Create(s) ==
  /\ s \in Unborn
  /\ session' = [session EXCEPT ![s].stage = "live"]

(* session/prompt in mode "queue"                                          *)
Accept(s, by) ==
  /\ s \in Live
  /\ session' = [session EXCEPT ![s].queue = Append(@, by)]

TurnBegins(s) ==
  /\ s \in Live \ Working /\ session[s].queue # <<>>
  /\ session' = [session EXCEPT ![s].turn = Head(session[s].queue), ![s].queue = Tail(@)]

TurnEnds(s, ok, at) ==
  /\ s \in Working
  /\ session' = [session EXCEPT
       ![s].log = Append(@, [by |-> session[s].turn, ok |-> ok, at |-> at]),
       ![s].turn = NoTurn]

(* A user deletes the conversation.                                        *)
Delete(s) ==
  /\ s \in Live
  /\ session' = [session EXCEPT ![s] = [Blank EXCEPT !.stage = "deleted"]]

(* The prompts a session has or has had.                                   *)
Prompts(s) ==
  Len(session[s].queue) + Len(session[s].log) + (IF s \in Working THEN 1 ELSE 0)

(* The sequence number of the newest event, zero for an untouched session. *)
Newest(s) == 2 * Len(session[s].log) + (IF s \in Working THEN 1 ELSE 0)

(* The turns that ended after a run was opened, oldest first.              *)
EndedAfter(s, run) == SelectSeq(session[s].log, LAMBDA turn : run < turn.at)
=============================================================================
