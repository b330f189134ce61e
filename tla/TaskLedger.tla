----------------------------- MODULE TaskLedger -----------------------------
(***************************************************************************)
(* The Host ledger of the task board (src/src/host-ledger.ts with the      *)
(* transitions of src/src/core): every card, its executions, its gates and *)
(* its schedule, and one action per ledger operation that changes them.    *)
(* Each operation is one synchronous call in the code, so one step here.   *)
(*                                                                         *)
(* Abstractions.  A card's text, targets and timestamps are left out.  A   *)
(* permission is its elevation rank.  An execution id (a UUID) is the      *)
(* value of a counter, so "newest" is "largest".  A card number (serial)   *)
(* follows creation, so it also gives the ledger's list order.  A cron     *)
(* rule is the set of the instants at which it fires, of which the code    *)
(* sees those within a horizon.                                            *)
(* The bounds MaxSerial, MaxRuns, MaxNotes and MaxTime cap the counters.   *)
(* Import is not an operation of this module.                              *)
(***************************************************************************)
EXTENDS Integers, FiniteSets, FiniteSetsExt

CONSTANTS
  TaskId,          \* card ids a client may mint
  SessionId,       \* conversation ids the runtime may mint
  NoSession,       \* "sessionId: undefined"
  Permissions,     \* permission ranks a request may carry: 0, 1, 2
  SessionDefault,  \* the rank of the session default permission
  Crons,           \* cron rules a request may carry, as sets of instants
  Horizon,         \* how far ahead nextRunAtMs looks (5 * 366 days)
  CapInputs,       \* values of the maxConcurrency setting
  ParentInputs,    \* parent (and child) id sets a request may carry
  HistoryLimit,    \* EXECUTION_HISTORY_LIMIT
  MaxSerial, MaxRuns, MaxNotes, MaxTime

ASSUME LedgerAssumption ==
  /\ IsFiniteSet(TaskId)
  /\ NoSession \notin SessionId
  /\ Permissions \subseteq 0..2 /\ SessionDefault \in 0..2
  /\ Crons \subseteq SUBSET Nat /\ Horizon \in Nat
  /\ CapInputs \subseteq Nat \ {0}
  /\ ParentInputs \subseteq SUBSET TaskId
  /\ HistoryLimit \in Nat \ {0}
  /\ MaxSerial \in Nat /\ MaxRuns \in Nat /\ MaxNotes \in Nat /\ MaxTime \in Nat

VARIABLES
  board,       \* ids of the cards in the ledger document
  task,        \* the card of each id (meaningful for ids on the board)
  nextSerial,  \* next card number to mint
  nextRun,     \* next execution id
  nextNote,    \* next rework note
  cap,         \* maxConcurrency
  clock        \* the Host clock

vars == <<board, task, nextSerial, nextRun, nextNote, cap, clock>>

-----------------------------------------------------------------------------
(* Data                                                                    *)

Status  == {"backlog", "todo", "running", "done", "failed"}
Outcome == {"succeeded", "failed", "cancelled"}

NoPermission == -1        \* no permission pinned
Unconfirmed  == -2        \* no permissionConfirmedAt stamp
Never        == -1        \* nextRunAt: undefined
NoCron       == {-1}      \* the card has no schedule rule

Permission == Permissions \cup {NoPermission}

(* An optional key of a request: absent is {}, present with v is {v}.      *)
Optional(S) == {{}} \cup {{v} : v \in S}
Given(option, default) == IF option = {} THEN default ELSE CHOOSE v \in option : TRUE

(* endedAt is undefined exactly while result is "open".  carried is the    *)
(* set of rework notes the execution was opened with: the code keeps only  *)
(* whether it is empty (the rework flag).                                  *)
Execution == [id: Nat, result: Outcome \cup {"open"},
              session: SessionId \cup {NoSession}, carried: SUBSET Nat]

Schedule == [armed: BOOLEAN, cron: Crons \cup {NoCron}, next: Nat \cup {Never}]
Unscheduled == [armed |-> FALSE, cron |-> NoCron, next |-> Never]

(* confirmed is the permissionConfirmedAt stamp; the model also remembers  *)
(* which effective permission the user was confirming.  handover is the    *)
(* permission pinned by the handover bundle, if any.                       *)
Card == [status: Status, archived: BOOLEAN, parents: SUBSET TaskId,
         executions: SUBSET Execution, permission: Permission,
         handover: Permission, confirmed: Permission \cup {Unconfirmed},
         schedule: Schedule, pending: SUBSET Nat, serial: Nat]

NoCard == [status |-> "todo", archived |-> FALSE, parents |-> {},
           executions |-> {}, permission |-> NoPermission,
           handover |-> NoPermission, confirmed |-> Unconfirmed,
           schedule |-> Unscheduled, pending |-> {}, serial |-> 0]

-----------------------------------------------------------------------------
(* The gates every dispatcher consults                                     *)

IsOpen(e) == e.result = "open"
HasOpenExecution(card) == \E e \in card.executions : IsOpen(e)
OpenTasks == {t \in board : HasOpenExecution(task[t])}
OpenExecutionCount == Cardinality(OpenTasks)

(* Mutant: a failed parent counts as settled.                              *)
PendingButNotFailed(t) ==
  {p \in task[t].parents \cap board : task[p].status \notin {"done", "failed"}}
PendingParentTasks(t) == {p \in task[t].parents \cap board : task[p].status # "done"}

EffectivePermission(card) ==
  IF card.handover # NoPermission THEN card.handover ELSE card.permission
(* Mutant: the comparison with the default is one rank off.                *)
RequiresOneRankLate(card) ==
  /\ EffectivePermission(card) > SessionDefault + 1
  /\ card.confirmed = Unconfirmed
RequiresPermissionConfirmation(card) ==
  /\ EffectivePermission(card) > SessionDefault
  /\ card.confirmed = Unconfirmed

Busy(card) == card.status = "running" \/ HasOpenExecution(card)
(* Mutant: the cap itself counts as free.                                  *)
SlotFreeAtCap == OpenExecutionCount =< cap
SlotFree == OpenExecutionCount < cap

(* Mutant: the refusal of a busy card is dropped.                          *)
StartableWhileBusy(t) ==
  /\ t \in board
  /\ ~task[t].archived
  /\ ~RequiresPermissionConfirmation(task[t])
  /\ PendingParentTasks(t) = {}

(* Everything but the cap; each dispatcher reacts to a full board its way. *)
Startable(t) ==
  /\ t \in board
  /\ ~task[t].archived
  /\ ~Busy(task[t])
  /\ ~RequiresPermissionConfirmation(task[t])
  /\ PendingParentTasks(t) = {}

-----------------------------------------------------------------------------
(* Card transitions (src/src/core)                                         *)

(* Mutant: the list is cut at its end.                                     *)
RetainOldest(executions) ==
  {e \in executions : Cardinality({d \in executions : d.id < e.id}) < HistoryLimit}

(* Open executions are always kept; of the settled ones the newest that    *)
(* fit in the history limit.                                               *)
RetainRecentExecutions(executions) ==
  LET open == {e \in executions : IsOpen(e)}
      settled == executions \ open
  IN  open \cup {e \in settled :
        Cardinality({d \in settled : d.id > e.id}) + Cardinality(open) < HistoryLimit}

(* Mutant: the rework stamp is left to the rework action.                  *)
StartUnstamped(card) ==
  LET opened == [id |-> nextRun, result |-> "open", session |-> NoSession, carried |-> {}]
  IN  [card EXCEPT !.status = "running",
                   !.executions = RetainRecentExecutions(@ \cup {opened})]

StartExecution(card) ==
  LET opened == [id |-> nextRun, result |-> "open", session |-> NoSession,
                 carried |-> card.pending]
  IN  [card EXCEPT !.status = "running",
                   !.executions = RetainRecentExecutions(@ \cup {opened})]

SettledStatus(card, outcome) ==
  CASE outcome = "succeeded" -> IF card.schedule.armed THEN "todo" ELSE "done"
    [] outcome = "failed"    -> "failed"
    [] outcome = "cancelled" -> IF card.status = "running" THEN "todo" ELSE card.status

(* Mutant: an execution that already ended is settled again.               *)
SettleAgain(card, e, outcome) ==
  IF e \in card.executions
  THEN [card EXCEPT !.status = SettledStatus(card, outcome),
                    !.executions = (@ \ {e}) \cup {[e EXCEPT !.result = outcome]}]
  ELSE card

SettleExecution(card, e, outcome) ==
  IF e \in card.executions /\ IsOpen(e)
  THEN [card EXCEPT !.status = SettledStatus(card, outcome),
                    !.executions = (@ \ {e}) \cup {[e EXCEPT !.result = outcome]}]
  ELSE card

(* The first instant strictly after t at which the rule fires, if there is *)
(* one within the horizon: there is none for a day that no month has, nor  *)
(* for 29 February across the year 2100.                                   *)
NextRunAt(cron, t) ==
  LET later == {i \in cron : t < i /\ i =< t + Horizon}
  IN  IF later = {} THEN Never ELSE Min(later)

Arm(cron) == [armed |-> TRUE, cron |-> cron, next |-> NextRunAt(cron, clock)]

(* The scheduler rolls a rule from the occurrence it handled, not from the *)
(* clock.  A rule without a next instant stays armed, here and in the      *)
(* skip after a sleep; only a start disarms it.                            *)
RollForward(schedule) == [schedule EXCEPT !.next = NextRunAt(schedule.cron, schedule.next)]
Skipped(schedule) == [schedule EXCEPT !.next = NextRunAt(schedule.cron, clock)]
Repaired(schedule) ==
  LET next == NextRunAt(schedule.cron, clock)
  IN  IF schedule.armed THEN [schedule EXCEPT !.next = next, !.armed = next # Never] ELSE schedule

-----------------------------------------------------------------------------
Init ==
  /\ board = {}
  /\ task = [t \in TaskId |-> NoCard]
  /\ nextSerial = 1 /\ nextRun = 1 /\ nextNote = 1
  /\ cap \in CapInputs
  /\ clock = 0

(* Replace one card, nothing else of the document.                         *)
Put(t, card) ==
  /\ task' = [task EXCEPT ![t] = card]
  /\ UNCHANGED <<board, nextSerial, nextNote, cap, clock>>

(* Open an execution on a card (the run of startExecution).                *)
Open(t, card) ==
  /\ nextRun =< MaxRuns
  /\ nextRun' = nextRun + 1
  /\ Put(t, StartExecution(card))

-----------------------------------------------------------------------------
(* Operations a user requests                                              *)

Create(t, parents, permission, handover, cron) ==
  /\ t \notin board /\ nextSerial =< MaxSerial
  /\ cron # NoCron => NextRunAt(cron, clock) # Never
  /\ board' = board \cup {t}
  /\ task' = [task EXCEPT ![t] =
       [NoCard EXCEPT !.parents = parents \ {t}, !.permission = permission,
                      !.handover = handover, !.serial = nextSerial,
                      !.schedule = IF cron = NoCron THEN Unscheduled ELSE Arm(cron)]]
  /\ nextSerial' = nextSerial + 1
  /\ UNCHANGED <<nextRun, nextNote, cap, clock>>

(* The edited card itself.  A handover bundle the request does not mention *)
(* is dropped, yet only a mentioned one re-arms the confirmation.          *)
Edited(card, t, permission, handover, parents) ==
  LET rearmed == handover # {} \/ (permission # {} /\ permission # {card.permission})
  IN  [card EXCEPT !.permission = Given(permission, @),
                   !.handover = Given(handover, NoPermission),
                   !.confirmed = IF rearmed THEN Unconfirmed ELSE @,
                   !.parents = Given(parents, @) \ {t}]

(* The child set is stored as the children's parent edges.                 *)
WithEdge(card, wanted, t) ==
  [card EXCEPT !.parents = IF wanted THEN @ \cup {t} ELSE @ \ {t}]

Update(t, touchesContent, permission, handover, parents, children) ==
  /\ t \in board /\ ~task[t].archived
  /\ touchesContent => task[t].status # "running" /\ task[t].executions = {}
  /\ task' = [s \in TaskId |->
       CASE s = t -> Edited(task[t], t, permission, handover, parents)
         [] s # t /\ s \in board /\ children # {} ->
              WithEdge(task[s], s \in Given(children, {}), t)
         [] OTHER -> task[s]]
  /\ UNCHANGED <<board, nextSerial, nextRun, nextNote, cap, clock>>

(* Mutant: the last number is given back.                                  *)
DeleteReclaiming(t) ==
  /\ t \in board /\ ~Busy(task[t])
  /\ board' = board \ {t}
  /\ task' = [task EXCEPT ![t] = NoCard]
  /\ nextSerial' = IF task[t].serial = nextSerial - 1 THEN nextSerial - 1 ELSE nextSerial
  /\ UNCHANGED <<nextRun, nextNote, cap, clock>>

(* Deleting a card strips its id from every other card's parents.          *)
Delete(t) ==
  /\ t \in board /\ ~Busy(task[t])
  /\ board' = board \ {t}
  /\ task' = [s \in TaskId |-> IF s = t THEN NoCard
                               ELSE [task[s] EXCEPT !.parents = @ \ {t}]]
  /\ UNCHANGED <<nextSerial, nextRun, nextNote, cap, clock>>

Move(t, status) ==
  /\ t \in board /\ ~task[t].archived /\ ~Busy(task[t])
  /\ status \in {"backlog", "todo", "done"}
  /\ Put(t, [task[t] EXCEPT !.status = status])
  /\ UNCHANGED nextRun

(* Mutant: archiving leaves the next instant of the rule.                  *)
ArchiveKeepingNext(t) ==
  /\ t \in board /\ ~task[t].archived
  /\ task[t].status \in {"done", "failed"}
  /\ Put(t, [task[t] EXCEPT !.archived = TRUE, !.schedule = [@ EXCEPT !.armed = FALSE]])
  /\ UNCHANGED nextRun

Archive(t) ==
  /\ t \in board /\ ~task[t].archived
  /\ task[t].status \in {"done", "failed"}
  /\ Put(t, [task[t] EXCEPT !.archived = TRUE,
                            !.schedule = [@ EXCEPT !.armed = FALSE, !.next = Never]])
  /\ UNCHANGED nextRun

Restore(t) ==
  /\ t \in board /\ task[t].archived
  /\ Put(t, [task[t] EXCEPT !.archived = FALSE])
  /\ UNCHANGED nextRun

(* Allowed on any card, archived or below the default included; a card     *)
(* that already carries the stamp keeps it.                                *)
ConfirmPermission(t) ==
  /\ t \in board /\ task[t].confirmed = Unconfirmed
  /\ Put(t, [task[t] EXCEPT !.confirmed = EffectivePermission(task[t])])
  /\ UNCHANGED nextRun

SetSchedule(t, armed, cron) ==
  LET rule == Given(cron, task[t].schedule.cron)
      on   == Given(armed, task[t].schedule.armed)
  IN  /\ t \in board /\ ~task[t].archived /\ rule # NoCron
      /\ on => NextRunAt(rule, clock) # Never
      /\ Put(t, [task[t] EXCEPT !.schedule =
                   IF on THEN Arm(rule)
                   ELSE [armed |-> FALSE, cron |-> rule, next |-> Never]])
      /\ UNCHANGED nextRun

(* run and rerun: rerun first puts the card back to todo, which the start  *)
(* overwrites, so both are this action.                                    *)
Run(t) ==
  /\ Startable(t) /\ SlotFree
  /\ Open(t, task[t])

(* Send a settled card back with a modification note.  A free slot starts  *)
(* the fix at once; at the cap the card is parked in todo with its note.   *)
Rework(t) ==
  LET noted == [task[t] EXCEPT !.pending = @ \cup {nextNote}]
  IN  /\ Startable(t) /\ task[t].status \in {"done", "failed"}
      /\ nextNote =< MaxNotes
      /\ nextNote' = nextNote + 1
      /\ \/ /\ SlotFree /\ nextRun =< MaxRuns
            /\ nextRun' = nextRun + 1
            /\ task' = [task EXCEPT ![t] = StartExecution(noted)]
         \/ /\ ~SlotFree
            /\ task' = [task EXCEPT ![t] = [noted EXCEPT !.status = "todo"]]
            /\ UNCHANGED nextRun
      /\ UNCHANGED <<board, nextSerial, cap, clock>>

-----------------------------------------------------------------------------
(* Operations of the dispatchers                                           *)

Late(schedule) == schedule.armed /\ schedule.next # Never /\ schedule.next =< clock
Due(t) == t \in board /\ ~task[t].archived /\ Late(task[t].schedule)

(* A due occurrence.  A gate of the card itself skips the occurrence; a    *)
(* full board leaves the ledger as it is (no step), so it stays due.       *)
OpenScheduled(t) ==
  LET rolled == [task[t] EXCEPT !.schedule = RollForward(@)]
  IN  /\ Due(t)
      /\ \/ /\ Startable(t) /\ SlotFree
            /\ Open(t, rolled)
         \/ /\ ~Startable(t)
            /\ Put(t, rolled)
            /\ UNCHANGED nextRun

(* Patrol and continuation never start a card the scheduler owns.          *)
OpenGatedRun(t) ==
  /\ Startable(t) /\ SlotFree
  /\ task[t].status = "todo" /\ ~task[t].schedule.armed
  /\ Open(t, task[t])

(* The first tick after a start or a sleep drops what was missed.          *)
SkipMissed ==
  /\ \E t \in board : Late(task[t].schedule)
  /\ task' = [t \in TaskId |->
       IF t \in board /\ Late(task[t].schedule)
       THEN [task[t] EXCEPT !.schedule = Skipped(@)]
       ELSE task[t]]
  /\ UNCHANGED <<board, nextSerial, nextRun, nextNote, cap, clock>>

-----------------------------------------------------------------------------
(* Reports about executions, which may be late: nothing is assumed of the  *)
(* execution but that the card still lists it.                             *)

AttachSession(t, e, s) ==
  /\ t \in board /\ e \in task[t].executions
  /\ Put(t, [task[t] EXCEPT !.executions = (@ \ {e}) \cup {[e EXCEPT !.session = s]}])
  /\ UNCHANGED nextRun

Settle(t, e, outcome) ==
  /\ t \in board /\ e \in task[t].executions
  /\ Put(t, SettleExecution(task[t], e, outcome))
  /\ UNCHANGED nextRun

(* Every note still pending is marked, whichever notes e itself carried.   *)
ConsumeRework(t, e) ==
  /\ t \in board /\ e \in task[t].executions /\ e.carried # {}
  /\ Put(t, [task[t] EXCEPT !.pending = {}])
  /\ UNCHANGED nextRun

-----------------------------------------------------------------------------
(* Host process                                                            *)

(* The newest execution of a running card, when it never got a session: a  *)
(* start the crash interrupted.                                            *)
Interrupted(card) ==
  {e \in card.executions :
     /\ card.status = "running" /\ IsOpen(e) /\ e.session = NoSession
     /\ \A d \in card.executions : d.id =< e.id}

Recovered(card) ==
  LET repaired == [card EXCEPT !.schedule = Repaired(@)]
      lost == Interrupted(card)
  IN  IF lost = {} THEN repaired
      ELSE SettleExecution(repaired, CHOOSE e \in lost : TRUE, "cancelled")

(* Crash or stop, then load: every operation committed before it returned, *)
(* so the document read back is the one left.                              *)
Restart ==
  /\ task' = [t \in TaskId |-> IF t \in board THEN Recovered(task[t]) ELSE task[t]]
  /\ UNCHANGED <<board, nextSerial, nextRun, nextNote, cap, clock>>

(* Mutant: the setting is read as the slots beside the first.              *)
SetExtraSlots(c) ==
  /\ cap' = c - 1
  /\ UNCHANGED <<board, task, nextSerial, nextRun, nextNote, clock>>

SetMaxConcurrency(c) ==
  /\ cap' = c
  /\ UNCHANGED <<board, task, nextSerial, nextRun, nextNote, clock>>

TimePasses ==
  /\ clock < MaxTime
  /\ clock' = clock + 1
  /\ UNCHANGED <<board, task, nextSerial, nextRun, nextNote, cap>>

-----------------------------------------------------------------------------
CreateSome(t) ==
  \E parents \in ParentInputs, permission \in Permission, handover \in Permission,
     cron \in Crons \cup {NoCron} : Create(t, parents, permission, handover, cron)

UpdateSome(t) ==
  \E touchesContent \in BOOLEAN, permission \in Optional(Permissions),
     handover \in Optional(Permission), parents \in Optional(ParentInputs),
     children \in Optional(ParentInputs) :
       Update(t, touchesContent, permission, handover, parents, children)

UserNext(t) ==
  \/ CreateSome(t)
  \/ UpdateSome(t)
  \/ Delete(t)
  \/ \E status \in Status : Move(t, status)
  \/ Archive(t)
  \/ Restore(t)
  \/ ConfirmPermission(t)
  \/ \E armed \in Optional(BOOLEAN), cron \in Optional(Crons) : SetSchedule(t, armed, cron)
  \/ Run(t)
  \/ Rework(t)

DispatcherNext(t) == OpenScheduled(t) \/ OpenGatedRun(t)

ReportNext(t) ==
  \E e \in task[t].executions :
    \/ \E s \in SessionId : AttachSession(t, e, s)
    \/ \E outcome \in Outcome : Settle(t, e, outcome)
    \/ ConsumeRework(t, e)

HostNext ==
  \/ SkipMissed
  \/ Restart
  \/ \E c \in CapInputs : SetMaxConcurrency(c)
  \/ TimePasses

Next ==
  \/ \E t \in TaskId : UserNext(t) \/ DispatcherNext(t) \/ ReportNext(t)
  \/ HostNext

Spec == Init /\ [][Next]_vars

-----------------------------------------------------------------------------
(* Properties                                                              *)

(* Every variable has its type.                                            *)
TypeOK ==
  /\ board \subseteq TaskId
  /\ task \in [TaskId -> Card]
  /\ nextSerial \in Nat /\ nextRun \in Nat /\ nextNote \in Nat
  /\ cap \in Nat \ {0}
  /\ clock \in Nat

(* A card is in the running column exactly while one of its executions is  *)
(* unsettled.  The code keeps the two facts apart (status on the card,     *)
(* endedAt on the record) and every refusal tests both; settle, cancel on  *)
(* restart, move, archive, delete and the five ways to start must agree.   *)
RunningIffOpen ==
  \A t \in board : task[t].status = "running" <=> HasOpenExecution(task[t])

(* An unsettled execution is the only one of its card and the newest, so   *)
(* "the last record" (restart recovery, session reuse) and "any unsettled  *)
(* record" (the cap, the poll) speak of the same execution.                *)
OpenIsNewest ==
  \A t \in board : \A e \in task[t].executions, d \in task[t].executions :
    IsOpen(e) => d = e \/ (d.id < e.id /\ ~IsOpen(d))

(* A card runs once at a time, and its column, its last record and any of  *)
(* its unsettled records tell the same of it.                              *)
OneRunAtATime == RunningIffOpen /\ OpenIsNewest

(* An archived card is settled and unarmed: nothing can run it or is still *)
(* running for it, whatever happened before it was archived.               *)
ArchivedIsQuiet ==
  \A t \in board : task[t].archived =>
    /\ task[t].status \in {"done", "failed"}
    /\ ~HasOpenExecution(task[t])
    /\ ~task[t].schedule.armed

(* Only an armed rule has a next instant, one at which it fires, so the    *)
(* due scan never sees a disarmed one; and it misses an armed one only     *)
(* when the rule ran out: at some instant nothing within the horizon       *)
(* followed.                                                               *)
RanOut(cron) == \E i \in 0..clock : NextRunAt(cron, i) = Never
ArmedHasNext ==
  \A t \in board :
    LET rule == task[t].schedule
    IN  /\ rule.next # Never => rule.armed /\ rule.next \in rule.cron
        /\ rule.armed /\ rule.next = Never => RanOut(rule.cron)

(* The due scan sees every armed rule that has an occurrence ahead, and    *)
(* nothing that was archived.                                              *)
RulesAtRest == ArmedHasNext /\ ArchivedIsQuiet

(* No modification note is pending beside a run that does not carry it:    *)
(* whichever dispatcher opened the run stamped it as rework.               *)
OpenCarriesPending ==
  \A t \in board : \A e \in task[t].executions :
    IsOpen(e) => task[t].pending \subseteq e.carried

(* The same card before and after a step (an id may be minted again).      *)
SameCard(t) == t \in board /\ t \in board' /\ task'[t].serial = task[t].serial

(* An unsettled execution is never dropped, neither when it is opened nor  *)
(* later: not by the history trim, not by a restart, not by deleting its   *)
(* card.                                                                   *)
OpenNeverLost ==
  [][/\ \A t \in board : \A e \in task[t].executions :
          IsOpen(e) => SameCard(t) /\ \E d \in task'[t].executions : d.id = e.id
     /\ nextRun' # nextRun =>
          \E t \in board' : \E d \in task'[t].executions : IsOpen(d) /\ d.id = nextRun' - 1]_vars

(* A settled execution keeps its outcome and its rework stamp: a late or   *)
(* repeated report cannot settle it again or reopen it, and what the card  *)
(* is sent back with later is not booked on it.  Its session is not kept:  *)
(* a late launch may still attach one.                                     *)
SettledForGood ==
  [][\A t \in TaskId : SameCard(t) =>
       \A e \in task[t].executions, d \in task'[t].executions :
         e.id = d.id /\ ~IsOpen(e) => d.result = e.result /\ d.carried = e.carried]_vars

(* A card gets an unsettled execution only out of a state where it was on  *)
(* the board, not archived, idle, confirmed if above the default, and with *)
(* every existing parent done; this for every dispatcher, and for the      *)
(* rework that parks first.                                                *)
GatedOpening ==
  [][\A t \in TaskId :
       HasOpenExecution(task'[t]) /\ ~HasOpenExecution(task[t]) =>
         /\ t \in board
         /\ ~task[t].archived
         /\ task[t].status # "running"
         /\ \A p \in task[t].parents \cap board : task[p].status = "done"
         /\ EffectivePermission(task[t]) > SessionDefault
              => task[t].confirmed # Unconfirmed]_vars

(* A card number is minted from the counter, which then leaves it behind,  *)
(* or kept: no two cards wear one number, and none is given again, even    *)
(* when a deleted card's id comes back.                                    *)
SerialsNeverReissued ==
  [][/\ nextSerial' >= nextSerial
     /\ \A t \in board' : /\ SameCard(t) \/ task'[t].serial >= nextSerial
                          /\ task'[t].serial < nextSerial']_vars

(* The ledger keeps the promise of the slot pool: no dispatcher, and no    *)
(* sequence of settles, restarts and cap changes, starts a run that takes  *)
(* the board beyond the cap in force.                                      *)
Slots == INSTANCE SlotPool WITH Holder <- TaskId, busy <- OpenTasks
CapHonoured == Slots!Spec
=============================================================================
