-------------------------- MODULE TaskLedgerProofs --------------------------
(***************************************************************************)
(* Proofs about TaskLedger, for every number of cards, cap, history limit  *)
(* and counter bound.  The inductive invariant says of every card that it  *)
(* is Sound: what RunningIffOpen, OpenIsNewest, ArchivedIsQuiet,           *)
(* ArmedHasNext and OpenCarriesPending say, plus that execution ids are    *)
(* distinct and below the counter.  None of these is inductive alone: that *)
(* an archived card is quiet needs the status to tell whether a run is     *)
(* open, that a new execution is the newest needs the fresh id, that at    *)
(* most one is open needs the refusal of busy cards.                       *)
(***************************************************************************)
EXTENDS TaskLedger, FiniteSetTheorems, WellFoundedInduction, TLAPS

(* One card whose execution ids are below n.                               *)
StatusAgrees(card) == card.status = "running" <=> HasOpenExecution(card)
IdsOrdered(card, n) ==
  \A e \in card.executions :
    /\ e.id < n
    /\ \A d \in card.executions :
         /\ e.id = d.id => e = d
         /\ IsOpen(e) => d = e \/ (d.id < e.id /\ ~IsOpen(d))
AtRest(card) ==
  card.archived => /\ card.status \in {"done", "failed"}
                   /\ ~card.schedule.armed
RuleAgrees(schedule) ==
  /\ schedule.next # Never => schedule.armed /\ schedule.next \in schedule.cron
  /\ schedule.armed => schedule.cron \in Crons
Carried(card) ==
  \A e \in card.executions : IsOpen(e) => card.pending \subseteq e.carried

Sound(card, n) ==
  /\ StatusAgrees(card)
  /\ IdsOrdered(card, n)
  /\ AtRest(card)
  /\ RuleAgrees(card.schedule)
  /\ Carried(card)

IInv ==
  /\ TypeOK
  /\ \A t \in TaskId : Sound(task[t], nextRun)
  /\ \A t \in TaskId \ board : task[t] = NoCard

-----------------------------------------------------------------------------
(* Facts about the transitions of one card                                 *)

(* A set of instants has a first one.                                      *)
LEMMA FirstOfInstants ==
  ASSUME NEW S \in SUBSET Nat, S # {}
  PROVE  Min(S) \in S
<1> DEFINE Less == OpToRel(<, Nat)
<1>1. PICK m \in S : \A k \in S : <<k, m>> \notin Less
  <2> HIDE DEF Less
  <2>1. IsWellFoundedOn(Less, Nat)
    BY NatLessThanWellFounded DEF Less
  <2> QED BY <2>1, WFMin
<1>2. \A k \in S : ~(k < m)
  BY <1>1 DEF OpToRel
<1>3. \A k \in S : m =< k
  BY <1>2
<1> QED BY <1>3 DEF Min

(* The next instant of a rule, if any, is one of its instants and later    *)
(* than the one it is taken from.                                          *)
LEMMA NextRunAtLater ==
  ASSUME NEW cron \in SUBSET Nat, NEW t \in Nat
  PROVE  \/ NextRunAt(cron, t) = Never
         \/ NextRunAt(cron, t) \in cron /\ NextRunAt(cron, t) \in Nat /\ NextRunAt(cron, t) > t
<1> DEFINE later == {i \in cron : t < i /\ i =< t + Horizon}
<1>1. CASE later = {}
  BY <1>1 DEF NextRunAt
<1>2. CASE later # {}
  <2>1. later \in SUBSET Nat
    OBVIOUS
  <2> HIDE DEF later
  <2>2. Min(later) \in later
    BY <1>2, <2>1, FirstOfInstants
  <2>3. Min(later) \in cron /\ Min(later) > t
    BY <2>2 DEF later
  <2>4. NextRunAt(cron, t) = Min(later)
    BY <1>2 DEF NextRunAt, later
  <2> QED BY <2>3, <2>4
<1> QED BY <1>1, <1>2

(* Arming, rolling, skipping and repairing a rule give a rule that agrees. *)
LEMMA ArmSound ==
  ASSUME NEW cron \in Crons, clock \in Nat
  PROVE  /\ Arm(cron) \in Schedule /\ Arm(cron).armed /\ RuleAgrees(Arm(cron))
         /\ Arm(cron).next = NextRunAt(cron, clock)
         /\ Arm(cron).next = Never \/ Arm(cron).next > clock
<1>1. cron \in SUBSET Nat
  BY LedgerAssumption
<1>2. \/ NextRunAt(cron, clock) = Never
      \/ /\ NextRunAt(cron, clock) \in cron /\ NextRunAt(cron, clock) \in Nat
         /\ NextRunAt(cron, clock) > clock
  BY <1>1, NextRunAtLater
<1> QED BY <1>2 DEF Arm, Schedule, RuleAgrees, Never

LEMMA RollSound ==
  ASSUME NEW schedule \in Schedule, RuleAgrees(schedule), schedule.next # Never
  PROVE  /\ RollForward(schedule) \in Schedule
         /\ RollForward(schedule).armed /\ schedule.armed
         /\ RuleAgrees(RollForward(schedule))
         /\ RollForward(schedule).cron = schedule.cron
         /\ RollForward(schedule).next = NextRunAt(schedule.cron, schedule.next)
         /\ RollForward(schedule).next = Never \/ RollForward(schedule).next > schedule.next
<1>1. /\ schedule.armed /\ schedule.cron \in Crons /\ schedule.cron \in SUBSET Nat
      /\ schedule.next \in Nat
  BY LedgerAssumption DEF Schedule, RuleAgrees
<1>2. \/ NextRunAt(schedule.cron, schedule.next) = Never
      \/ /\ NextRunAt(schedule.cron, schedule.next) \in schedule.cron
         /\ NextRunAt(schedule.cron, schedule.next) \in Nat
         /\ NextRunAt(schedule.cron, schedule.next) > schedule.next
  BY <1>1, NextRunAtLater
<1> QED BY <1>1, <1>2 DEF RollForward, Schedule, RuleAgrees, Never

LEMMA SkipSound ==
  ASSUME NEW schedule \in Schedule, RuleAgrees(schedule), schedule.armed, clock \in Nat
  PROVE  /\ Skipped(schedule) \in Schedule
         /\ Skipped(schedule).armed
         /\ RuleAgrees(Skipped(schedule))
         /\ Skipped(schedule).cron = schedule.cron
         /\ Skipped(schedule).next = NextRunAt(schedule.cron, clock)
         /\ Skipped(schedule).next = Never \/ Skipped(schedule).next > clock
<1>1. schedule.cron \in Crons /\ schedule.cron \in SUBSET Nat
  BY LedgerAssumption DEF Schedule, RuleAgrees
<1>2. \/ NextRunAt(schedule.cron, clock) = Never
      \/ /\ NextRunAt(schedule.cron, clock) \in schedule.cron
         /\ NextRunAt(schedule.cron, clock) \in Nat
         /\ NextRunAt(schedule.cron, clock) > clock
  BY <1>1, NextRunAtLater
<1> QED BY <1>1, <1>2 DEF Skipped, Schedule, RuleAgrees, Never

LEMMA RepairSound ==
  ASSUME NEW schedule \in Schedule, RuleAgrees(schedule), clock \in Nat
  PROVE  /\ Repaired(schedule) \in Schedule
         /\ RuleAgrees(Repaired(schedule))
         /\ Repaired(schedule).armed => schedule.armed /\ Repaired(schedule).next > clock
         /\ Repaired(schedule).next = Never \/ Repaired(schedule).next > clock
<1>1. CASE ~schedule.armed
  BY <1>1 DEF Repaired, RuleAgrees
<1>2. CASE schedule.armed
  <2> DEFINE next == NextRunAt(schedule.cron, clock)
  <2>1. schedule.cron \in Crons /\ schedule.cron \in SUBSET Nat
    BY <1>2, LedgerAssumption DEF Schedule, RuleAgrees
  <2>2. next = Never \/ (next \in schedule.cron /\ next \in Nat /\ next > clock)
    BY <2>1, NextRunAtLater
  <2>3. Repaired(schedule) = [schedule EXCEPT !.next = next, !.armed = next # Never]
    BY <1>2 DEF Repaired
  <2> HIDE DEF next
  <2> DEFINE on == next # Never
  <2>4. on \in BOOLEAN
    OBVIOUS
  <2>5. Repaired(schedule) = [schedule EXCEPT !.next = next, !.armed = on]
    BY <2>3
  <2>6. on <=> next # Never
    OBVIOUS
  <2> HIDE DEF on
  <2>7. /\ Repaired(schedule).next = next /\ Repaired(schedule).armed = on
        /\ Repaired(schedule).cron = schedule.cron
        /\ Repaired(schedule) \in Schedule
    BY <2>2, <2>4, <2>5 DEF Schedule, Never
  <2> QED BY <1>2, <2>1, <2>2, <2>6, <2>7 DEF RuleAgrees, Never
<1> QED BY <1>1, <1>2

(* Trimming keeps a subset, and keeps everything unsettled.                *)
LEMMA RetainSubset ==
  ASSUME NEW S
  PROVE  /\ RetainRecentExecutions(S) \subseteq S
         /\ \A e \in S : IsOpen(e) => e \in RetainRecentExecutions(S)
BY DEF RetainRecentExecutions

(* A later counter does no harm.                                           *)
LEMMA SoundMonotone ==
  ASSUME NEW card \in Card, NEW n \in Nat, NEW m \in Nat, n =< m, Sound(card, n)
  PROVE  Sound(card, m)
BY DEF Sound, IdsOrdered, Card, Execution

(* Starting an idle, unarchived card.                                      *)
LEMMA StartSound ==
  ASSUME NEW card \in Card, nextRun \in Nat, Sound(card, nextRun),
         ~HasOpenExecution(card), ~card.archived
  PROVE  /\ StartExecution(card) \in Card
         /\ Sound(StartExecution(card), nextRun + 1)
         /\ HasOpenExecution(StartExecution(card))
         /\ \A e \in StartExecution(card).executions : e \in card.executions \/ IsOpen(e)
<1> DEFINE opened == [id |-> nextRun, result |-> "open", session |-> NoSession,
                      carried |-> card.pending]
           all == card.executions \cup {opened}
           new == StartExecution(card)
<1>1. opened \in Execution /\ IsOpen(opened)
  BY DEF Execution, Card, IsOpen
<1>2. /\ new.executions = RetainRecentExecutions(all)
      /\ new.status = "running"
      /\ new.archived = card.archived
      /\ new.schedule = card.schedule
      /\ new.pending = card.pending
  BY DEF StartExecution, Card
<1>3. new.executions \subseteq all /\ opened \in new.executions
  BY <1>1, <1>2, RetainSubset
<1>4. new \in Card
  <2>1. new.executions \in SUBSET Execution
    BY <1>1, <1>3 DEF Card
  <2> QED BY <2>1, <1>2 DEF StartExecution, Card, Status
<1>5. \A e \in card.executions : ~IsOpen(e) /\ e.id < nextRun /\ e.id \in Nat
  BY DEF Sound, IdsOrdered, HasOpenExecution, Card, Execution
<1>6. IdsOrdered(new, nextRun + 1)
  <2> SUFFICES ASSUME NEW e \in new.executions, NEW d \in new.executions
               PROVE  /\ e.id < nextRun + 1
                      /\ e.id = d.id => e = d
                      /\ IsOpen(e) => d = e \/ (d.id < e.id /\ ~IsOpen(d))
    BY DEF IdsOrdered
  <2>1. e \in card.executions \/ e = opened
    BY <1>3
  <2>2. d \in card.executions \/ d = opened
    BY <1>3
  <2>3. opened.id = nextRun
    OBVIOUS
  <2>4. e \in card.executions /\ d \in card.executions => (e.id = d.id => e = d)
    BY DEF Sound, IdsOrdered
  <2> QED BY <2>1, <2>2, <2>3, <2>4, <1>1, <1>5
<1>7. Carried(new)
  <2> SUFFICES ASSUME NEW e \in new.executions, IsOpen(e)
               PROVE  new.pending \subseteq e.carried
    BY DEF Carried
  <2>1. e = opened
    BY <1>3, <1>5
  <2> QED BY <2>1, <1>2
<1>8. HasOpenExecution(new)
  BY <1>1, <1>3 DEF HasOpenExecution
<1>9. StatusAgrees(new) /\ AtRest(new) /\ RuleAgrees(new.schedule)
  BY <1>2, <1>8 DEF StatusAgrees, AtRest, Sound
<1>10. Sound(new, nextRun + 1)
  BY <1>6, <1>7, <1>9 DEF Sound
<1> QED BY <1>1, <1>3, <1>4, <1>8, <1>10
(* A new outcome or session on one execution, its id and notes kept.       *)
LEMMA ReplaceSound ==
  ASSUME NEW card \in Card, NEW n \in Nat, IdsOrdered(card, n), Carried(card),
         NEW e \in card.executions, NEW f \in Execution,
         f.id = e.id, f.carried = e.carried, IsOpen(f) => IsOpen(e),
         NEW after \in Card,
         after.executions = (card.executions \ {e}) \cup {f},
         after.pending = card.pending
  PROVE  IdsOrdered(after, n) /\ Carried(after)
<1>1. IdsOrdered(after, n)
  <2> SUFFICES ASSUME NEW x \in after.executions, NEW y \in after.executions
               PROVE  /\ x.id < n
                      /\ x.id = y.id => x = y
                      /\ IsOpen(x) => y = x \/ (y.id < x.id /\ ~IsOpen(y))
    BY DEF IdsOrdered
  <2>1. (x \in card.executions /\ x # e) \/ x = f
    OBVIOUS
  <2>2. (y \in card.executions /\ y # e) \/ y = f
    OBVIOUS
  <2>3. \A u \in card.executions, v \in card.executions :
          /\ u.id < n
          /\ u.id = v.id => u = v
          /\ IsOpen(u) => v = u \/ (v.id < u.id /\ ~IsOpen(v))
    BY DEF IdsOrdered
  <2>4. CASE x # f /\ y # f
    BY <2>1, <2>2, <2>3, <2>4
  <2>5. CASE x = f /\ y # f
    BY <2>2, <2>3, <2>5
  <2>6. CASE x # f /\ y = f
    BY <2>1, <2>3, <2>6
  <2>7. CASE x = f /\ y = f
    BY <2>3, <2>7
  <2> QED BY <2>4, <2>5, <2>6, <2>7
<1>2. Carried(after)
  BY DEF Carried
<1> QED BY <1>1, <1>2

(* Settling: the card stays sound whether or not the report comes in time. *)
LEMMA SettleSound ==
  ASSUME NEW card \in Card, NEW n \in Nat, Sound(card, n),
         NEW e \in card.executions, NEW outcome \in Outcome
  PROVE  /\ SettleExecution(card, e, outcome) \in Card
         /\ Sound(SettleExecution(card, e, outcome), n)
<1>1. CASE ~IsOpen(e)
  BY <1>1 DEF SettleExecution
<1>2. CASE IsOpen(e)
  <2> DEFINE settled == [e EXCEPT !.result = outcome]
             after == SettleExecution(card, e, outcome)
  <2>1. e \in Execution /\ settled \in Execution /\ ~IsOpen(settled)
        /\ settled.id = e.id /\ settled.carried = e.carried
    BY DEF Card, Execution, IsOpen, Outcome
  <2>2. card.status = "running"
    BY <1>2 DEF Sound, StatusAgrees, HasOpenExecution
  <2>3. SettledStatus(card, outcome) \in {"todo", "done", "failed"}
    BY <2>2 DEF SettledStatus, Outcome
  <2>4. /\ after.executions = (card.executions \ {e}) \cup {settled}
        /\ after.status = SettledStatus(card, outcome)
        /\ after.archived = card.archived
        /\ after.schedule = card.schedule
        /\ after.pending = card.pending
    BY <1>2 DEF SettleExecution, Card
  <2>5. after \in Card
    <3>1. after.executions \in SUBSET Execution
      BY <2>1, <2>4 DEF Card
    <3>2. after.status \in Status
      BY <2>3, <2>4 DEF Status
    <3> QED BY <3>1, <3>2, <2>4, <1>2 DEF SettleExecution, Card
  <2>6. IdsOrdered(after, n) /\ Carried(after)
    BY <2>1, <2>4, <2>5, ReplaceSound DEF Sound
  <2>7. ~HasOpenExecution(after)
    BY <1>2, <2>1, <2>4 DEF HasOpenExecution, Sound, IdsOrdered
  <2>8. ~card.archived
    BY <2>2 DEF Sound, AtRest
  <2>9. StatusAgrees(after) /\ AtRest(after) /\ RuleAgrees(after.schedule)
    BY <2>3, <2>4, <2>7, <2>8 DEF StatusAgrees, AtRest, Sound
  <2> QED BY <2>5, <2>6, <2>9 DEF Sound
<1> QED BY <1>1, <1>2

(* Changing anything else than the executions, the status and the archive  *)
(* mark keeps a card sound, as long as its rule agrees and no pending note *)
(* is added.                                                               *)
LEMMA RestSound ==
  ASSUME NEW card, NEW after, NEW n \in Nat, Sound(card, n),
         after.executions = card.executions,
         after.status = card.status,
         after.archived = card.archived,
         after.pending \subseteq card.pending,
         RuleAgrees(after.schedule),
         after.archived => ~after.schedule.armed
  PROVE  Sound(after, n)
BY DEF Sound, StatusAgrees, HasOpenExecution, IdsOrdered, AtRest, Carried
-----------------------------------------------------------------------------
(* The invariant                                                           *)

LEMMA InitIInv == Init => IInv
<1> SUFFICES ASSUME Init PROVE IInv
  OBVIOUS
<1>1. NoCard \in Card
  BY DEF NoCard, Card, Status, Unscheduled, Schedule, NoCron, Never,
         Permission, Unconfirmed
<1>2. Sound(NoCard, 1)
  BY DEF NoCard, Sound, StatusAgrees, HasOpenExecution, IdsOrdered, AtRest,
         RuleAgrees, Unscheduled, Never, Carried
<1>3. TypeOK
  BY <1>1, LedgerAssumption DEF Init, TypeOK
<1> QED BY <1>2, <1>3 DEF Init, IInv

(* Replacing one card by a sound one keeps the invariant.                  *)
LEMMA PutIInv ==
  ASSUME IInv, NEW t \in board, NEW card \in Card,
         nextRun' \in Nat, nextRun =< nextRun', Sound(card, nextRun'),
         task' = [task EXCEPT ![t] = card],
         nextNote' \in Nat,
         UNCHANGED <<board, nextSerial, cap, clock>>
  PROVE  IInv'
<1>1. task' \in [TaskId -> Card]
  BY DEF IInv, TypeOK
<1>2. \A s \in TaskId : Sound(task'[s], nextRun')
  <2> SUFFICES ASSUME NEW s \in TaskId PROVE Sound(task'[s], nextRun')
    OBVIOUS
  <2>1. CASE s = t
    BY <2>1 DEF IInv, TypeOK
  <2>2. CASE s # t
    BY <2>2, SoundMonotone DEF IInv, TypeOK
  <2> QED BY <2>1, <2>2
<1>3. \A s \in TaskId \ board : task'[s] = NoCard
  BY DEF IInv, TypeOK
<1> QED BY <1>1, <1>2, <1>3 DEF IInv, TypeOK

(* Opening an execution on a card that differs from the one on the board   *)
(* in its schedule at most.                                                *)
LEMMA OpenIInv ==
  ASSUME IInv, NEW t \in TaskId, Startable(t), NEW card \in Card,
         card.executions = task[t].executions, card.archived = task[t].archived,
         Sound(card, nextRun), Open(t, card)
  PROVE  IInv'
<1>1. t \in board /\ ~card.archived /\ ~HasOpenExecution(card)
  BY DEF Startable, Busy, HasOpenExecution
<1>2. nextRun \in Nat /\ nextRun' = nextRun + 1
  BY DEF IInv, TypeOK, Open
<1>3. StartExecution(card) \in Card /\ Sound(StartExecution(card), nextRun')
  BY <1>1, <1>2, StartSound
<1>4. /\ nextRun' \in Nat /\ nextRun =< nextRun'
      /\ task' = [task EXCEPT ![t] = StartExecution(card)]
      /\ nextNote' \in Nat
      /\ UNCHANGED <<board, nextSerial, cap, clock>>
  BY <1>2 DEF Open, Put, IInv, TypeOK
<1> QED BY <1>1, <1>3, <1>4, PutIInv

(* Replacing a card by one that runs the same executions.                  *)
LEMMA PutRestIInv ==
  ASSUME IInv, NEW t \in board, NEW card \in Card,
         card.executions = task[t].executions,
         card.status = task[t].status,
         card.archived = task[t].archived,
         card.pending \subseteq task[t].pending,
         RuleAgrees(card.schedule),
         card.archived => ~card.schedule.armed,
         Put(t, card), UNCHANGED nextRun
  PROVE  IInv'
<1>1. Sound(task[t], nextRun) /\ nextRun \in Nat
  BY DEF IInv, TypeOK
<1>2. Sound(card, nextRun)
  BY <1>1, RestSound
<1> QED BY <1>1, <1>2, PutIInv DEF Put, IInv, TypeOK

LEMMA CreateIInv ==
  ASSUME IInv, NEW t \in TaskId, CreateSome(t)
  PROVE  IInv'
<1> PICK parents \in ParentInputs, permission \in Permission,
         handover \in Permission, cron \in Crons \cup {NoCron} :
           Create(t, parents, permission, handover, cron)
  BY DEF CreateSome
<1> DEFINE schedule == IF cron = NoCron THEN Unscheduled ELSE Arm(cron)
           card == [NoCard EXCEPT !.parents = parents \ {t}, !.permission = permission,
                                  !.handover = handover, !.serial = nextSerial,
                                  !.schedule = schedule]
<1>1. schedule \in Schedule /\ RuleAgrees(schedule)
  BY ArmSound DEF IInv, TypeOK, Unscheduled, Schedule, RuleAgrees, NoCron, Never
<1>2. card \in Card
  BY <1>1, LedgerAssumption
     DEF IInv, TypeOK, Card, NoCard, Status, Unconfirmed, Permission
<1>3. Sound(card, nextRun)
  BY <1>1 DEF Sound, NoCard, StatusAgrees, HasOpenExecution, IdsOrdered, AtRest, Carried
<1>4. task' = [task EXCEPT ![t] = card] /\ board' = board \cup {t}
  BY DEF Create
<1>5. \A s \in TaskId : Sound(task'[s], nextRun')
  BY <1>3, <1>4 DEF IInv, TypeOK, Create
<1>6. \A s \in TaskId \ board' : task'[s] = NoCard
  BY <1>4 DEF IInv, TypeOK
<1>7. TypeOK'
  BY <1>2, <1>4 DEF IInv, TypeOK, Create
<1> QED BY <1>5, <1>6, <1>7 DEF IInv

(* Any step that rewrites cards in place, leaves every card's runs alone   *)
(* and changes neither the board nor the counters.                         *)
LEMMA RewriteIInv ==
  ASSUME IInv, task' \in [TaskId -> Card],
         \A s \in TaskId : Sound(task'[s], nextRun),
         \A s \in TaskId \ board : task'[s] = NoCard,
         UNCHANGED <<board, nextSerial, nextRun, nextNote, cap, clock>>
  PROVE  IInv'
BY DEF IInv, TypeOK
LEMMA UpdateIInv ==
  ASSUME IInv, NEW t \in TaskId, UpdateSome(t)
  PROVE  IInv'
<1> PICK touchesContent \in BOOLEAN, permission \in Optional(Permissions),
         handover \in Optional(Permission), parents \in Optional(ParentInputs),
         children \in Optional(ParentInputs) :
           Update(t, touchesContent, permission, handover, parents, children)
  BY DEF UpdateSome
<1> DEFINE edited == Edited(task[t], t, permission, handover, parents)
<1>1. task[t] \in Card /\ t \in board
  BY DEF IInv, TypeOK, Update
<1>2. /\ Given(permission, task[t].permission) \in Permission
      /\ Given(handover, NoPermission) \in Permission
      /\ Given(parents, task[t].parents) \subseteq TaskId
  <2>1. ASSUME NEW S, NEW option \in Optional(S), option # {}
        PROVE  \A default : Given(option, default) \in S
    BY <2>1 DEF Optional, Given
  <2>2. Given(permission, task[t].permission) \in Permission
    BY <1>1, <2>1 DEF Given, Permission, Card
  <2>3. Given(handover, NoPermission) \in Permission
    BY <2>1 DEF Given, Permission
  <2>4. Given(parents, task[t].parents) \subseteq TaskId
    BY <1>1, <2>1, LedgerAssumption DEF Given, Card
  <2> QED BY <2>2, <2>3, <2>4
<1>3. edited \in Card
  BY <1>1, <1>2 DEF Edited, Card, Unconfirmed
<1>4. Sound(edited, nextRun)
  <2>1. /\ edited.executions = task[t].executions /\ edited.status = task[t].status
        /\ edited.archived = task[t].archived /\ edited.pending = task[t].pending
        /\ edited.schedule = task[t].schedule
    BY <1>1 DEF Edited, Card
  <2>2. Sound(task[t], nextRun) /\ nextRun \in Nat
    BY DEF IInv, TypeOK
  <2> QED BY <2>1, <2>2, RestSound DEF Sound, AtRest
<1>5. ASSUME NEW s \in TaskId
      PROVE  task'[s] \in Card /\ Sound(task'[s], nextRun) /\ (s \notin board => task'[s] = NoCard)
  <2>1. task[s] \in Card /\ Sound(task[s], nextRun)
    BY DEF IInv, TypeOK
  <2>2. CASE s = t
    BY <2>2, <1>1, <1>3, <1>4 DEF Update
  <2>3. CASE s # t /\ s \in board /\ children # {}
    <3> DEFINE wanted == s \in Given(children, {})
    <3>1. task'[s] = WithEdge(task[s], wanted, t)
      BY <2>3 DEF Update
    <3>2. WithEdge(task[s], wanted, t) \in Card
      BY <2>1 DEF WithEdge, Card
    <3> DEFINE other == WithEdge(task[s], wanted, t)
    <3>3. Sound(other, nextRun)
      <4>1. /\ other.executions = task[s].executions /\ other.status = task[s].status
            /\ other.archived = task[s].archived /\ other.pending = task[s].pending
            /\ other.schedule = task[s].schedule
        BY <2>1 DEF WithEdge, Card
      <4>2. nextRun \in Nat
        BY DEF IInv, TypeOK
      <4> QED BY <2>1, <4>1, <4>2, RestSound DEF Sound, AtRest
    <3> QED BY <2>3, <3>1, <3>2, <3>3
  <2>4. CASE s # t /\ ~(s \in board /\ children # {})
    BY <2>1, <2>4 DEF Update, IInv
  <2> QED BY <2>2, <2>3, <2>4
<1>6. task' \in [TaskId -> Card]
  BY <1>5 DEF Update
<1> QED BY <1>5, <1>6, RewriteIInv DEF Update

LEMMA DeleteIInv ==
  ASSUME IInv, NEW t \in TaskId, Delete(t)
  PROVE  IInv'
<1>1. NoCard \in Card /\ Sound(NoCard, nextRun)
  BY DEF NoCard, Card, Status, Unscheduled, Schedule, NoCron, Never, Permission,
         Unconfirmed, Sound, StatusAgrees, HasOpenExecution, IdsOrdered, AtRest,
         RuleAgrees, Carried
<1>2. ASSUME NEW s \in TaskId
      PROVE  /\ task'[s] \in Card
             /\ Sound(task'[s], nextRun)
             /\ s \notin board' => task'[s] = NoCard
  <2>1. task[s] \in Card /\ Sound(task[s], nextRun)
    BY DEF IInv, TypeOK
  <2>2. CASE s = t
    BY <2>2, <1>1 DEF Delete
  <2>3. CASE s # t
    <3> DEFINE after == [task[s] EXCEPT !.parents = @ \ {t}]
    <3>1. task'[s] = after
      BY <2>3 DEF Delete
    <3>2. after \in Card
      BY <2>1 DEF Card
    <3>3. Sound(after, nextRun)
      <4>1. /\ after.executions = task[s].executions /\ after.status = task[s].status
            /\ after.archived = task[s].archived /\ after.pending = task[s].pending
            /\ after.schedule = task[s].schedule
        BY <2>1 DEF Card
      <4>2. nextRun \in Nat
        BY DEF IInv, TypeOK
      <4> QED BY <2>1, <4>1, <4>2, RestSound DEF Sound, AtRest
    <3>4. s \notin board' => after = NoCard
      <4>1. s \notin board' => task[s] = NoCard
        BY <2>3 DEF Delete, IInv
      <4>2. NoCard.parents \ {t} = NoCard.parents
        BY DEF NoCard
      <4>3. [NoCard EXCEPT !.parents = NoCard.parents] = NoCard
        BY DEF NoCard
      <4> QED BY <4>1, <4>2, <4>3
    <3> QED BY <3>1, <3>2, <3>3, <3>4
  <2> QED BY <2>2, <2>3
<1>3. task' \in [TaskId -> Card]
  BY <1>2 DEF Delete
<1>4. TypeOK'
  BY <1>3 DEF IInv, TypeOK, Delete
<1> QED BY <1>2, <1>4 DEF IInv, Delete

LEMMA MoveIInv ==
  ASSUME IInv, NEW t \in TaskId, NEW status \in Status, Move(t, status)
  PROVE  IInv'
<1> DEFINE after == [task[t] EXCEPT !.status = status]
<1>1. t \in board /\ task[t] \in Card /\ Sound(task[t], nextRun) /\ nextRun \in Nat
  BY DEF IInv, TypeOK, Move
<1>2. after \in Card
  BY <1>1 DEF Card
<1>3. ~HasOpenExecution(task[t]) /\ ~task[t].archived /\ status # "running"
  BY DEF Move, Busy
<1>4. Sound(after, nextRun)
  BY <1>1, <1>3 DEF Sound, StatusAgrees, HasOpenExecution, IdsOrdered, AtRest, Carried, Card
<1>5. task' = [task EXCEPT ![t] = after] /\ UNCHANGED <<board, nextSerial, nextRun, nextNote, cap, clock>>
  BY DEF Move, Put
<1> QED BY <1>1, <1>2, <1>4, <1>5, PutIInv DEF IInv, TypeOK

LEMMA ArchiveIInv ==
  ASSUME IInv, NEW t \in TaskId, Archive(t)
  PROVE  IInv'
<1> DEFINE after == [task[t] EXCEPT !.archived = TRUE,
                                    !.schedule = [@ EXCEPT !.armed = FALSE, !.next = Never]]
<1>1. t \in board /\ task[t] \in Card /\ Sound(task[t], nextRun) /\ nextRun \in Nat
  BY DEF IInv, TypeOK, Archive
<1>2. after \in Card /\ RuleAgrees(after.schedule) /\ ~after.schedule.armed
  BY <1>1 DEF Card, Schedule, RuleAgrees, Never
<1>3. task[t].status \in {"done", "failed"}
  BY DEF Archive
<1>4. Sound(after, nextRun)
  BY <1>1, <1>2, <1>3 DEF Sound, StatusAgrees, HasOpenExecution, IdsOrdered, AtRest, Carried, Card
<1>5. task' = [task EXCEPT ![t] = after] /\ UNCHANGED <<board, nextSerial, nextRun, nextNote, cap, clock>>
  BY DEF Archive, Put
<1> QED BY <1>1, <1>2, <1>4, <1>5, PutIInv DEF IInv, TypeOK

LEMMA RestoreIInv ==
  ASSUME IInv, NEW t \in TaskId, Restore(t)
  PROVE  IInv'
<1> DEFINE after == [task[t] EXCEPT !.archived = FALSE]
<1>1. t \in board /\ task[t] \in Card /\ Sound(task[t], nextRun) /\ nextRun \in Nat
  BY DEF IInv, TypeOK, Restore
<1>2. after \in Card
  BY <1>1 DEF Card
<1>3. Sound(after, nextRun)
  BY <1>1 DEF Sound, StatusAgrees, HasOpenExecution, IdsOrdered, AtRest, Carried, Card
<1>4. task' = [task EXCEPT ![t] = after] /\ UNCHANGED <<board, nextSerial, nextRun, nextNote, cap, clock>>
  BY DEF Restore, Put
<1> QED BY <1>1, <1>2, <1>3, <1>4, PutIInv DEF IInv, TypeOK

LEMMA ConfirmIInv ==
  ASSUME IInv, NEW t \in TaskId, ConfirmPermission(t)
  PROVE  IInv'
<1> DEFINE after == [task[t] EXCEPT !.confirmed = EffectivePermission(task[t])]
<1>1. t \in board /\ task[t] \in Card /\ Sound(task[t], nextRun)
  BY DEF IInv, TypeOK, ConfirmPermission
<1>2. after \in Card
  BY <1>1 DEF Card, EffectivePermission
<1>3. /\ after.executions = task[t].executions /\ after.status = task[t].status
      /\ after.archived = task[t].archived /\ after.pending = task[t].pending
      /\ after.schedule = task[t].schedule
  BY <1>1 DEF Card
<1>4. Put(t, after) /\ UNCHANGED nextRun
  BY DEF ConfirmPermission
<1> QED BY <1>1, <1>2, <1>3, <1>4, PutRestIInv DEF Sound, AtRest

LEMMA SetScheduleIInv ==
  ASSUME IInv, NEW t \in TaskId, NEW armed \in Optional(BOOLEAN), NEW cron \in Optional(Crons),
         SetSchedule(t, armed, cron)
  PROVE  IInv'
<1> DEFINE rule == Given(cron, task[t].schedule.cron)
           on == Given(armed, task[t].schedule.armed)
           schedule == IF on THEN Arm(rule)
                       ELSE [armed |-> FALSE, cron |-> rule, next |-> Never]
           after == [task[t] EXCEPT !.schedule = schedule]
<1>1. t \in board /\ task[t] \in Card /\ ~task[t].archived /\ clock \in Nat
  BY DEF IInv, TypeOK, SetSchedule
<1>2. rule \in Crons
  BY <1>1 DEF SetSchedule, Given, Optional, Card, Schedule, NoCron
<1>3. schedule \in Schedule /\ RuleAgrees(schedule)
  BY <1>1, <1>2, ArmSound DEF Schedule, RuleAgrees, Never
<1>4. after \in Card
  BY <1>1, <1>3 DEF Card
<1>5. /\ after.executions = task[t].executions /\ after.status = task[t].status
      /\ after.archived = task[t].archived /\ after.pending = task[t].pending
      /\ after.schedule = schedule
  BY <1>1 DEF Card
<1>6. Put(t, after) /\ UNCHANGED nextRun
  BY DEF SetSchedule
<1> QED BY <1>1, <1>3, <1>4, <1>5, <1>6, PutRestIInv
LEMMA RunIInv ==
  ASSUME IInv, NEW t \in TaskId, Run(t) \/ OpenGatedRun(t)
  PROVE  IInv'
<1>1. task[t] \in Card /\ Sound(task[t], nextRun)
  BY DEF IInv, TypeOK
<1>2. Startable(t) /\ Open(t, task[t])
  BY DEF Run, OpenGatedRun
<1> QED BY <1>1, <1>2, OpenIInv

LEMMA ReworkIInv ==
  ASSUME IInv, NEW t \in TaskId, Rework(t)
  PROVE  IInv'
<1> DEFINE noted == [task[t] EXCEPT !.pending = @ \cup {nextNote}]
           parked == [noted EXCEPT !.status = "todo"]
<1>1. /\ t \in board /\ task[t] \in Card /\ Sound(task[t], nextRun)
      /\ nextRun \in Nat /\ nextNote \in Nat /\ nextNote' \in Nat
  BY DEF IInv, TypeOK, Rework, Startable
<1>2. /\ ~HasOpenExecution(task[t]) /\ ~task[t].archived
      /\ task[t].status \in {"done", "failed"}
  BY DEF Rework, Startable, Busy
<1>3. noted \in Card /\ parked \in Card
  BY <1>1 DEF Card, Status
<1>4. /\ noted.executions = task[t].executions /\ noted.status = task[t].status
      /\ noted.archived = task[t].archived /\ noted.schedule = task[t].schedule
      /\ parked.executions = task[t].executions /\ parked.status = "todo"
      /\ parked.archived = task[t].archived /\ parked.schedule = task[t].schedule
  BY <1>1 DEF Card
<1>5. ~HasOpenExecution(noted) /\ ~HasOpenExecution(parked)
  BY <1>2, <1>4 DEF HasOpenExecution
<1>6. Sound(noted, nextRun) /\ Sound(parked, nextRun)
  BY <1>1, <1>2, <1>4, <1>5
     DEF Sound, StatusAgrees, HasOpenExecution, IdsOrdered, AtRest, Carried
<1>7. CASE nextRun' = nextRun + 1 /\ task' = [task EXCEPT ![t] = StartExecution(noted)]
  <2>1. StartExecution(noted) \in Card /\ Sound(StartExecution(noted), nextRun')
    BY <1>1, <1>2, <1>3, <1>4, <1>5, <1>6, <1>7, StartSound
  <2>2. nextRun' \in Nat /\ nextRun =< nextRun' /\ UNCHANGED <<board, nextSerial, cap, clock>>
    BY <1>1, <1>7 DEF Rework
  <2> QED BY <1>1, <1>7, <2>1, <2>2, PutIInv
<1>8. CASE UNCHANGED nextRun /\ task' = [task EXCEPT ![t] = parked]
  <2>1. /\ UNCHANGED <<board, nextSerial, cap, clock>>
        /\ nextRun' \in Nat /\ nextRun =< nextRun' /\ Sound(parked, nextRun')
    BY <1>1, <1>6, <1>8 DEF Rework
  <2> QED BY <1>1, <1>3, <1>8, <2>1, PutIInv
<1> QED BY <1>7, <1>8 DEF Rework

LEMMA OpenScheduledIInv ==
  ASSUME IInv, NEW t \in TaskId, OpenScheduled(t)
  PROVE  IInv'
<1> DEFINE rolled == [task[t] EXCEPT !.schedule = RollForward(@)]
<1>1. /\ t \in board /\ task[t] \in Card /\ Sound(task[t], nextRun)
      /\ nextRun \in Nat /\ ~task[t].archived /\ task[t].schedule.next # Never
  BY DEF IInv, TypeOK, OpenScheduled, Due, Late
<1>2. /\ RollForward(task[t].schedule) \in Schedule
      /\ RuleAgrees(RollForward(task[t].schedule))
  BY <1>1, RollSound DEF Sound, Card
<1>3. rolled \in Card
  BY <1>1, <1>2 DEF Card
<1>4. /\ rolled.executions = task[t].executions /\ rolled.status = task[t].status
      /\ rolled.archived = task[t].archived /\ rolled.pending = task[t].pending
      /\ rolled.schedule = RollForward(task[t].schedule)
  BY <1>1 DEF Card
<1>5. Sound(rolled, nextRun)
  BY <1>1, <1>2, <1>4, RestSound
<1>6. CASE Startable(t) /\ Open(t, rolled)
  BY <1>3, <1>4, <1>5, <1>6, OpenIInv
<1>7. CASE Put(t, rolled) /\ UNCHANGED nextRun
  BY <1>1, <1>2, <1>3, <1>4, <1>7, PutRestIInv
<1> QED BY <1>6, <1>7 DEF OpenScheduled

LEMMA RetimeSound ==
  ASSUME NEW card \in Card, NEW n \in Nat, Sound(card, n), NEW schedule \in Schedule,
         RuleAgrees(schedule), schedule.armed => card.schedule.armed
  PROVE  LET retimed == [card EXCEPT !.schedule = schedule]
         IN  /\ retimed \in Card /\ Sound(retimed, n)
             /\ retimed.executions = card.executions /\ retimed.serial = card.serial
             /\ retimed.pending = card.pending /\ retimed.schedule = schedule
<1> DEFINE retimed == [card EXCEPT !.schedule = schedule]
<1>1. retimed \in Card
  BY DEF Card
<1>2. /\ retimed.executions = card.executions /\ retimed.status = card.status
      /\ retimed.archived = card.archived /\ retimed.pending = card.pending
      /\ retimed.serial = card.serial /\ retimed.schedule = schedule
  BY DEF Card
<1>3. card.archived => ~card.schedule.armed
  BY DEF Sound, AtRest
<1> HIDE DEF retimed
<1>4. Sound(retimed, n)
  BY <1>2, <1>3, RestSound
<1> QED BY <1>1, <1>2, <1>4 DEF retimed

(* A card whose late rule is skipped, and a card repaired at a start.      *)
LEMMA SkippedSound ==
  ASSUME IInv, NEW s \in TaskId, Late(task[s].schedule)
  PROVE  LET skipped == [task[s] EXCEPT !.schedule = Skipped(@)]
         IN  /\ skipped \in Card /\ Sound(skipped, nextRun)
             /\ skipped.executions = task[s].executions /\ skipped.serial = task[s].serial
             /\ skipped.pending = task[s].pending /\ skipped.schedule = Skipped(task[s].schedule)
<1>1. /\ task[s] \in Card /\ task[s].schedule \in Schedule /\ RuleAgrees(task[s].schedule)
      /\ task[s].schedule.armed /\ clock \in Nat /\ nextRun \in Nat /\ Sound(task[s], nextRun)
  BY DEF IInv, TypeOK, Card, Sound, Late
<1> DEFINE schedule == Skipped(task[s].schedule)
<1>2. schedule \in Schedule /\ RuleAgrees(schedule)
  BY <1>1, SkipSound
<1>3. [task[s] EXCEPT !.schedule = Skipped(@)] = [task[s] EXCEPT !.schedule = schedule]
  OBVIOUS
<1> HIDE DEF schedule
<1>4. LET skipped == [task[s] EXCEPT !.schedule = schedule]
      IN  /\ skipped \in Card /\ Sound(skipped, nextRun)
          /\ skipped.executions = task[s].executions /\ skipped.serial = task[s].serial
          /\ skipped.pending = task[s].pending /\ skipped.schedule = schedule
  BY <1>1, <1>2, RetimeSound
<1> QED BY <1>3, <1>4 DEF schedule

LEMMA RepairedSound ==
  ASSUME IInv, NEW s \in TaskId
  PROVE  LET repaired == [task[s] EXCEPT !.schedule = Repaired(@)]
         IN  /\ repaired \in Card /\ Sound(repaired, nextRun)
             /\ repaired.executions = task[s].executions /\ repaired.serial = task[s].serial
             /\ repaired.pending = task[s].pending /\ repaired.schedule = Repaired(task[s].schedule)
<1>1. /\ task[s] \in Card /\ task[s].schedule \in Schedule /\ RuleAgrees(task[s].schedule)
      /\ clock \in Nat /\ nextRun \in Nat /\ Sound(task[s], nextRun)
  BY DEF IInv, TypeOK, Card, Sound
<1> DEFINE schedule == Repaired(task[s].schedule)
<1>2. schedule \in Schedule /\ RuleAgrees(schedule) /\ (schedule.armed => task[s].schedule.armed)
  BY <1>1, RepairSound
<1>3. [task[s] EXCEPT !.schedule = Repaired(@)] = [task[s] EXCEPT !.schedule = schedule]
  OBVIOUS
<1> HIDE DEF schedule
<1>4. LET repaired == [task[s] EXCEPT !.schedule = schedule]
      IN  /\ repaired \in Card /\ Sound(repaired, nextRun)
          /\ repaired.executions = task[s].executions /\ repaired.serial = task[s].serial
          /\ repaired.pending = task[s].pending /\ repaired.schedule = schedule
  BY <1>1, <1>2, RetimeSound
<1> QED BY <1>3, <1>4 DEF schedule

LEMMA SkipMissedIInv ==
  ASSUME IInv, SkipMissed
  PROVE  IInv'
<1>1. ASSUME NEW s \in TaskId
      PROVE  task'[s] \in Card /\ Sound(task'[s], nextRun) /\ (s \notin board => task'[s] = NoCard)
  <2>1. task[s] \in Card /\ Sound(task[s], nextRun) /\ nextRun \in Nat /\ clock \in Nat
    BY DEF IInv, TypeOK
  <2>2. CASE s \in board /\ Late(task[s].schedule)
    BY <2>2, SkippedSound DEF SkipMissed
  <2>3. CASE ~(s \in board /\ Late(task[s].schedule))
    BY <2>1, <2>3 DEF SkipMissed, IInv
  <2> QED BY <2>2, <2>3
<1>2. task' \in [TaskId -> Card]
  BY <1>1 DEF SkipMissed
<1> QED BY <1>1, <1>2, RewriteIInv DEF SkipMissed

LEMMA AttachSessionIInv ==
  ASSUME IInv, NEW t \in TaskId, NEW e \in task[t].executions, NEW s \in SessionId,
         AttachSession(t, e, s)
  PROVE  IInv'
<1> DEFINE f == [e EXCEPT !.session = s]
           after == [task[t] EXCEPT !.executions = (@ \ {e}) \cup {f}]
<1>1. t \in board /\ task[t] \in Card /\ Sound(task[t], nextRun) /\ nextRun \in Nat
  BY DEF IInv, TypeOK, AttachSession
<1>2. /\ e \in Execution /\ f \in Execution /\ f.id = e.id
      /\ f.carried = e.carried /\ (IsOpen(f) <=> IsOpen(e))
  BY <1>1 DEF Card, Execution, IsOpen
<1>3. after \in Card
  BY <1>1, <1>2 DEF Card
<1>4. /\ after.executions = (task[t].executions \ {e}) \cup {f}
      /\ after.status = task[t].status /\ after.archived = task[t].archived
      /\ after.pending = task[t].pending /\ after.schedule = task[t].schedule
  BY <1>1 DEF Card
<1>5. IdsOrdered(after, nextRun) /\ Carried(after)
  BY <1>1, <1>2, <1>3, <1>4, ReplaceSound DEF Sound
<1>6. HasOpenExecution(after) <=> HasOpenExecution(task[t])
  BY <1>2, <1>4 DEF HasOpenExecution
<1>7. Sound(after, nextRun)
  BY <1>1, <1>4, <1>5, <1>6 DEF Sound, StatusAgrees, AtRest
<1>8. task' = [task EXCEPT ![t] = after] /\ UNCHANGED <<board, nextSerial, nextRun, nextNote, cap, clock>>
  BY DEF AttachSession, Put
<1> QED BY <1>1, <1>3, <1>7, <1>8, PutIInv DEF IInv, TypeOK

LEMMA SettleIInv ==
  ASSUME IInv, NEW t \in TaskId, NEW e \in task[t].executions, NEW outcome \in Outcome,
         Settle(t, e, outcome)
  PROVE  IInv'
<1> DEFINE after == SettleExecution(task[t], e, outcome)
<1>1. t \in board /\ task[t] \in Card /\ Sound(task[t], nextRun) /\ nextRun \in Nat
  BY DEF IInv, TypeOK, Settle
<1>2. after \in Card /\ Sound(after, nextRun)
  BY <1>1, SettleSound
<1>3. task' = [task EXCEPT ![t] = after] /\ UNCHANGED <<board, nextSerial, nextRun, nextNote, cap, clock>>
  BY DEF Settle, Put
<1> QED BY <1>1, <1>2, <1>3, PutIInv DEF IInv, TypeOK

LEMMA ConsumeReworkIInv ==
  ASSUME IInv, NEW t \in TaskId, NEW e \in task[t].executions, ConsumeRework(t, e)
  PROVE  IInv'
<1> DEFINE after == [task[t] EXCEPT !.pending = {}]
<1>1. t \in board /\ task[t] \in Card /\ Sound(task[t], nextRun)
  BY DEF IInv, TypeOK, ConsumeRework
<1>2. after \in Card
  BY <1>1 DEF Card
<1>3. /\ after.executions = task[t].executions /\ after.status = task[t].status
      /\ after.archived = task[t].archived /\ after.pending = {}
      /\ after.schedule = task[t].schedule
  BY <1>1 DEF Card
<1>4. Put(t, after) /\ UNCHANGED nextRun
  BY DEF ConsumeRework
<1> QED BY <1>1, <1>2, <1>3, <1>4, PutRestIInv DEF Sound, AtRest
LEMMA RestartIInv ==
  ASSUME IInv, Restart
  PROVE  IInv'
<1>1. ASSUME NEW s \in TaskId
      PROVE  task'[s] \in Card /\ Sound(task'[s], nextRun) /\ (s \notin board => task'[s] = NoCard)
  <2> DEFINE card == task[s]
             repaired == [card EXCEPT !.schedule = Repaired(@)]
             lost == Interrupted(card)
  <2>1. card \in Card /\ Sound(card, nextRun) /\ nextRun \in Nat /\ clock \in Nat
    BY DEF IInv, TypeOK
  <2>2. repaired \in Card /\ Sound(repaired, nextRun)
    BY RepairedSound
  <2>3. repaired.executions = card.executions
    BY <2>1 DEF Card
  <2>4. CASE s \in board /\ lost = {}
    BY <2>2, <2>4 DEF Restart, Recovered
  <2>5. CASE s \in board /\ lost # {}
    <3> DEFINE e == CHOOSE x \in lost : TRUE
    <3>1. e \in repaired.executions
      BY <2>3, <2>5 DEF Interrupted
    <3>2. "cancelled" \in Outcome
      BY DEF Outcome
    <3>3. task'[s] = SettleExecution(repaired, e, "cancelled")
      BY <2>5 DEF Restart, Recovered
    <3> QED BY <2>1, <2>2, <2>5, <3>1, <3>2, <3>3, SettleSound
  <2>6. CASE s \notin board
    BY <2>1, <2>6 DEF Restart, IInv
  <2> QED BY <2>4, <2>5, <2>6
<1>2. task' \in [TaskId -> Card]
  BY <1>1 DEF Restart
<1> QED BY <1>1, <1>2, RewriteIInv DEF Restart

(* Every step, and every stutter, keeps the invariant.                     *)
LEMMA NextIInv == IInv /\ [Next]_vars => IInv'
<1> SUFFICES ASSUME IInv, [Next]_vars PROVE IInv'
  OBVIOUS
<1>1. ASSUME NEW t \in TaskId, UserNext(t) PROVE IInv'
  <2>1. CASE CreateSome(t)
    BY <2>1, CreateIInv
  <2>2. CASE UpdateSome(t)
    BY <2>2, UpdateIInv
  <2>3. CASE Delete(t)
    BY <2>3, DeleteIInv
  <2>4. CASE \E status \in Status : Move(t, status)
    BY <2>4, MoveIInv
  <2>5. CASE Archive(t)
    BY <2>5, ArchiveIInv
  <2>6. CASE Restore(t)
    BY <2>6, RestoreIInv
  <2>7. CASE ConfirmPermission(t)
    BY <2>7, ConfirmIInv
  <2>8. CASE \E armed \in Optional(BOOLEAN), cron \in Optional(Crons) : SetSchedule(t, armed, cron)
    BY <2>8, SetScheduleIInv
  <2>9. CASE Run(t)
    BY <2>9, RunIInv
  <2>10. CASE Rework(t)
    BY <2>10, ReworkIInv
  <2> QED BY <1>1, <2>1, <2>2, <2>3, <2>4, <2>5, <2>6, <2>7, <2>8, <2>9, <2>10 DEF UserNext
<1>2. ASSUME NEW t \in TaskId, DispatcherNext(t) PROVE IInv'
  BY <1>2, OpenScheduledIInv, RunIInv DEF DispatcherNext
<1>3. ASSUME NEW t \in TaskId, ReportNext(t) PROVE IInv'
  BY <1>3, AttachSessionIInv, SettleIInv, ConsumeReworkIInv DEF ReportNext
<1>4. CASE SkipMissed
  BY <1>4, SkipMissedIInv
<1>5. CASE Restart
  BY <1>5, RestartIInv
<1>6. CASE \E c \in CapInputs : SetMaxConcurrency(c)
  BY <1>6, LedgerAssumption DEF SetMaxConcurrency, IInv, TypeOK
<1>7. CASE TimePasses
  BY <1>7 DEF TimePasses, IInv, TypeOK
<1>8. CASE UNCHANGED vars
  BY <1>8 DEF vars, IInv, TypeOK
<1> QED BY <1>1, <1>2, <1>3, <1>4, <1>5, <1>6, <1>7, <1>8 DEF Next, HostNext

LEMMA Invariance == Spec => []IInv
<1>1. Init => IInv
  BY InitIInv
<1>2. IInv /\ [Next]_vars => IInv'
  BY NextIInv
<1> QED BY <1>1, <1>2, PTL DEF Spec

-----------------------------------------------------------------------------
(* What the ledger guarantees                                              *)

(* Every variable keeps its type.                                          *)
THEOREM TypeCorrect == Spec => []TypeOK
<1>1. IInv => TypeOK
  BY DEF IInv
<1> QED BY <1>1, Invariance, PTL

(* The running column and the unsettled executions always agree, and at    *)
(* most one execution of a card is unsettled, its newest.                  *)
THEOREM OneOpenExecution == Spec => []OneRunAtATime
<1>1. IInv => RunningIffOpen
  BY DEF IInv, TypeOK, Sound, StatusAgrees, RunningIffOpen
<1>2. IInv => OpenIsNewest
  BY DEF IInv, TypeOK, Sound, IdsOrdered, OpenIsNewest
<1>3. IInv => OneRunAtATime
  BY <1>1, <1>2 DEF OneRunAtATime
<1> QED BY <1>3, Invariance, PTL

(* No modification note is pending beside a run that does not carry it.    *)
THEOREM ReworkIsCarried == Spec => []OpenCarriesPending
<1>1. IInv => OpenCarriesPending
  BY DEF IInv, TypeOK, Sound, Carried, OpenCarriesPending
<1> QED BY <1>1, Invariance, PTL
-----------------------------------------------------------------------------
(* Steps and slots: a step opens no execution, or it opens one on a card   *)
(* that passed the gate while a slot was free, and touches no other card.  *)

OpensNothing ==
  \A s \in TaskId : HasOpenExecution(task'[s]) => HasOpenExecution(task[s])
OpensOne(t) ==
  /\ Startable(t) /\ SlotFree
  /\ \A s \in TaskId \ {t} : task'[s] = task[s]
  /\ UNCHANGED <<board, cap>>

(* Settling opens nothing.                                                 *)
LEMMA SettleOpensNothing ==
  ASSUME NEW card \in Card, NEW e, NEW outcome \in Outcome,
         HasOpenExecution(SettleExecution(card, e, outcome))
  PROVE  HasOpenExecution(card)
<1>1. CASE e \in card.executions /\ IsOpen(e)
  BY <1>1 DEF HasOpenExecution
<1>2. CASE ~(e \in card.executions /\ IsOpen(e))
  BY <1>2 DEF SettleExecution
<1> QED BY <1>1, <1>2

(* Replacing a card by one whose executions are open only if they were.    *)
LEMMA PutOpensNothing ==
  ASSUME TypeOK, NEW t \in TaskId, NEW card, Put(t, card),
         HasOpenExecution(card) => HasOpenExecution(task[t])
  PROVE  OpensNothing
BY DEF TypeOK, Put, OpensNothing

LEMMA UserOpens ==
  ASSUME IInv, NEW t \in TaskId, UserNext(t)
  PROVE  OpensNothing \/ OpensOne(t)
<1>1. TypeOK /\ task[t] \in Card
  BY DEF IInv, TypeOK
<1>2. CASE CreateSome(t)
  <2>1. ~HasOpenExecution(task'[t])
    BY <1>1, <1>2 DEF CreateSome, Create, TypeOK, NoCard, HasOpenExecution
  <2> QED BY <1>1, <1>2, <2>1 DEF CreateSome, Create, TypeOK, OpensNothing
<1>3. CASE UpdateSome(t)
  <2>1. ASSUME NEW s \in TaskId PROVE task'[s].executions = task[s].executions
    <3>1. task[s] \in Card
      BY <1>1 DEF TypeOK
    <3>2. /\ \A permission, handover, parents :
               Edited(task[t], t, permission, handover, parents).executions = task[t].executions
          /\ \A wanted : WithEdge(task[s], wanted, t).executions = task[s].executions
      BY <1>1, <3>1 DEF Edited, WithEdge, Card
    <3>3. PICK touchesContent \in BOOLEAN, permission \in Optional(Permissions),
               handover \in Optional(Permission), parents \in Optional(ParentInputs),
               children \in Optional(ParentInputs) :
                 Update(t, touchesContent, permission, handover, parents, children)
      BY <1>3 DEF UpdateSome
    <3>4. \/ task'[s] = task[s]
          \/ s = t /\ task'[s] = Edited(task[t], t, permission, handover, parents)
          \/ task'[s] = WithEdge(task[s], s \in Given(children, {}), t)
      BY <3>3 DEF Update
    <3> QED BY <3>2, <3>4
  <2> QED BY <2>1 DEF OpensNothing, HasOpenExecution
<1>4. CASE Delete(t)
  <2>1. ASSUME NEW s \in TaskId
        PROVE task'[s].executions = task[s].executions \/ task'[s].executions = {}
    BY <1>1, <1>4 DEF Delete, TypeOK, Card, NoCard
  <2> QED BY <2>1 DEF OpensNothing, HasOpenExecution
<1>5. CASE \E status \in Status : Move(t, status)
  BY <1>1, <1>5, PutOpensNothing DEF Move, HasOpenExecution, Card
<1>6. CASE Archive(t)
  BY <1>1, <1>6, PutOpensNothing DEF Archive, HasOpenExecution, Card
<1>7. CASE Restore(t)
  BY <1>1, <1>7, PutOpensNothing DEF Restore, HasOpenExecution, Card
<1>8. CASE ConfirmPermission(t)
  BY <1>1, <1>8, PutOpensNothing DEF ConfirmPermission, HasOpenExecution, Card
<1>9. CASE \E armed \in Optional(BOOLEAN), cron \in Optional(Crons) : SetSchedule(t, armed, cron)
  <2> PICK armed \in Optional(BOOLEAN), cron \in Optional(Crons) : SetSchedule(t, armed, cron)
    BY <1>9
  <2> DEFINE after == [task[t] EXCEPT !.schedule =
                         IF Given(armed, task[t].schedule.armed)
                         THEN Arm(Given(cron, task[t].schedule.cron))
                         ELSE [armed |-> FALSE, cron |-> Given(cron, task[t].schedule.cron),
                               next |-> Never]]
  <2>1. Put(t, after)
    BY DEF SetSchedule
  <2>2. after.executions = task[t].executions
    BY <1>1 DEF Card
  <2>3. HasOpenExecution(after) => HasOpenExecution(task[t])
    BY <2>2 DEF HasOpenExecution
  <2> QED BY <1>1, <2>1, <2>3, PutOpensNothing
<1>10. CASE Run(t)
  BY <1>1, <1>10 DEF Run, Open, Put, OpensOne, TypeOK
<1>11. CASE Rework(t) /\ SlotFree
  BY <1>1, <1>11 DEF Rework, OpensOne, TypeOK
<1>12. CASE Rework(t) /\ ~SlotFree
  <2> DEFINE noted == [task[t] EXCEPT !.pending = @ \cup {nextNote}]
             parked == [noted EXCEPT !.status = "todo"]
  <2>1. task' = [task EXCEPT ![t] = parked]
    BY <1>12 DEF Rework
  <2>2. parked.executions = task[t].executions
    BY <1>1 DEF Card
  <2> QED BY <1>1, <2>1, <2>2 DEF OpensNothing, HasOpenExecution, TypeOK
<1> QED BY <1>2, <1>3, <1>4, <1>5, <1>6, <1>7, <1>8, <1>9, <1>10, <1>11, <1>12
        DEF UserNext

LEMMA DispatcherOpens ==
  ASSUME IInv, NEW t \in TaskId, DispatcherNext(t)
  PROVE  OpensNothing \/ OpensOne(t)
<1> DEFINE rolled == [task[t] EXCEPT !.schedule = RollForward(@)]
<1>1. TypeOK /\ task[t] \in Card
  BY DEF IInv, TypeOK
<1>2. rolled.executions = task[t].executions
  BY <1>1 DEF Card
<1>3. CASE OpenGatedRun(t)
  BY <1>1, <1>3 DEF OpenGatedRun, Open, Put, OpensOne, TypeOK
<1>4. CASE Startable(t) /\ SlotFree /\ Open(t, rolled)
  BY <1>1, <1>4 DEF Open, Put, OpensOne, TypeOK
<1>5. CASE Put(t, rolled)
  BY <1>1, <1>2, <1>5, PutOpensNothing DEF HasOpenExecution
<1> QED BY <1>3, <1>4, <1>5 DEF DispatcherNext, OpenScheduled

LEMMA ReportOpens ==
  ASSUME IInv, NEW t \in TaskId, ReportNext(t)
  PROVE  OpensNothing
<1>1. TypeOK /\ task[t] \in Card
  BY DEF IInv, TypeOK
<1> PICK e \in task[t].executions :
      \/ \E s \in SessionId : AttachSession(t, e, s)
      \/ \E outcome \in Outcome : Settle(t, e, outcome)
      \/ ConsumeRework(t, e)
  BY DEF ReportNext
<1>2. ASSUME NEW s \in SessionId, AttachSession(t, e, s) PROVE OpensNothing
  <2> DEFINE f == [e EXCEPT !.session = s]
             after == [task[t] EXCEPT !.executions = (@ \ {e}) \cup {f}]
  <2>1. IsOpen(f) <=> IsOpen(e)
    BY <1>1 DEF IsOpen, Card, Execution
  <2>2. after.executions = (task[t].executions \ {e}) \cup {f}
    BY <1>1 DEF Card
  <2>3. HasOpenExecution(after) => HasOpenExecution(task[t])
    BY <2>1, <2>2 DEF HasOpenExecution
  <2>4. Put(t, after)
    BY <1>2 DEF AttachSession
  <2> QED BY <1>1, <2>3, <2>4, PutOpensNothing
<1>3. ASSUME NEW outcome \in Outcome, Settle(t, e, outcome) PROVE OpensNothing
  BY <1>1, <1>3, SettleOpensNothing, PutOpensNothing DEF Settle
<1>4. CASE ConsumeRework(t, e)
  BY <1>1, <1>4, PutOpensNothing DEF ConsumeRework, HasOpenExecution, Card
<1> QED BY <1>2, <1>3, <1>4

LEMMA HostOpens ==
  ASSUME IInv, HostNext
  PROVE  OpensNothing
<1>1. TypeOK
  BY DEF IInv
<1>2. CASE SkipMissed
  <2>1. ASSUME NEW s \in TaskId PROVE task'[s].executions = task[s].executions
    BY <1>1, <1>2 DEF SkipMissed, TypeOK, Card
  <2> QED BY <2>1 DEF OpensNothing, HasOpenExecution
<1>3. CASE Restart
  <2> SUFFICES ASSUME NEW s \in TaskId, HasOpenExecution(task'[s])
               PROVE  HasOpenExecution(task[s])
    BY DEF OpensNothing
  <2> DEFINE repaired == [task[s] EXCEPT !.schedule = Repaired(@)]
  <2>1. repaired \in Card /\ repaired.executions = task[s].executions
    BY RepairedSound
  <2>2. "cancelled" \in Outcome
    BY DEF Outcome
  <2>3. CASE s \notin board
    BY <1>3, <2>3 DEF Restart
  <2>4. CASE s \in board /\ Interrupted(task[s]) = {}
    BY <1>3, <2>1, <2>4 DEF Restart, Recovered, HasOpenExecution
  <2>5. CASE s \in board /\ Interrupted(task[s]) # {}
    <3>1. task'[s] = SettleExecution(repaired, CHOOSE e \in Interrupted(task[s]) : TRUE, "cancelled")
      BY <1>3, <2>5 DEF Restart, Recovered
    <3>2. HasOpenExecution(repaired)
      BY <2>1, <2>2, <3>1, SettleOpensNothing
    <3> QED BY <2>1, <3>2 DEF HasOpenExecution
  <2> QED BY <2>3, <2>4, <2>5
<1>4. CASE (\E c \in CapInputs : SetMaxConcurrency(c)) \/ TimePasses
  BY <1>4 DEF SetMaxConcurrency, TimePasses, OpensNothing
<1> QED BY <1>2, <1>3, <1>4 DEF HostNext
LEMMA StepOpens ==
  ASSUME IInv, [Next]_vars
  PROVE  OpensNothing \/ \E t \in TaskId : OpensOne(t)
<1>1. CASE UNCHANGED vars
  BY <1>1 DEF vars, OpensNothing
<1>2. CASE \E t \in TaskId : UserNext(t) \/ DispatcherNext(t) \/ ReportNext(t)
  BY <1>2, UserOpens, DispatcherOpens, ReportOpens
<1>3. CASE HostNext
  BY <1>3, HostOpens
<1> QED BY <1>1, <1>2, <1>3 DEF Next

(* Every dispatcher opens an execution only past the whole gate.           *)
THEOREM EveryOpeningIsGated == Spec => GatedOpening
<1>1. IInv /\ [Next]_vars =>
        [\A t \in TaskId :
           HasOpenExecution(task'[t]) /\ ~HasOpenExecution(task[t]) =>
             /\ t \in board
             /\ ~task[t].archived
             /\ task[t].status # "running"
             /\ \A p \in task[t].parents \cap board : task[p].status = "done"
             /\ EffectivePermission(task[t]) > SessionDefault
                  => task[t].confirmed # Unconfirmed]_vars
  BY StepOpens DEF OpensNothing, OpensOne, Startable, Busy, PendingParentTasks,
                   RequiresPermissionConfirmation
<1> QED BY <1>1, Invariance, PTL DEF Spec, GatedOpening

(* The cap moves only with the setting; the setting moves nothing else.    *)
LEMMA CapMoves ==
  ASSUME [Next]_vars
  PROVE  \/ UNCHANGED cap
         \/ /\ \E c \in CapInputs : cap' = c
            /\ UNCHANGED <<board, task>>
<1>1. ASSUME NEW t \in TaskId, UserNext(t) PROVE UNCHANGED cap
  BY <1>1 DEF UserNext, CreateSome, Create, UpdateSome, Update, Delete, Move, Archive,
              Restore, ConfirmPermission, SetSchedule, Run, Rework, Open, Put
<1>2. ASSUME NEW t \in TaskId, DispatcherNext(t) PROVE UNCHANGED cap
  BY <1>2 DEF DispatcherNext, OpenScheduled, OpenGatedRun, Open, Put
<1>3. ASSUME NEW t \in TaskId, ReportNext(t) PROVE UNCHANGED cap
  BY <1>3 DEF ReportNext, AttachSession, Settle, ConsumeRework, Put
<1>4. CASE SkipMissed \/ Restart \/ TimePasses \/ UNCHANGED vars
  BY <1>4 DEF SkipMissed, Restart, TimePasses, vars
<1>5. CASE \E c \in CapInputs : SetMaxConcurrency(c)
  BY <1>5 DEF SetMaxConcurrency
<1> QED BY <1>1, <1>2, <1>3, <1>4, <1>5 DEF Next, HostNext

(* A step that opens nothing adds nobody to the pool.                      *)
LEMMA NobodyEnters ==
  ASSUME IInv, IInv', OpensNothing
  PROVE  OpenTasks' \subseteq OpenTasks
<1> SUFFICES ASSUME NEW s \in OpenTasks' PROVE s \in OpenTasks
  OBVIOUS
<1>1. s \in TaskId /\ HasOpenExecution(task'[s])
  BY DEF OpenTasks, IInv, TypeOK
<1>2. HasOpenExecution(task[s])
  BY <1>1 DEF OpensNothing
<1>3. s \in board
  BY <1>1, <1>2 DEF IInv, NoCard, HasOpenExecution
<1> QED BY <1>2, <1>3 DEF OpenTasks

(* A step that opens one execution fills a slot that was free.             *)
LEMMA OneEnters ==
  ASSUME IInv, IInv', NEW t \in TaskId, OpensOne(t)
  PROVE  /\ OpenTasks \subseteq OpenTasks'
         /\ Cardinality(OpenTasks') =< cap
<1>1. OpenTasks' \subseteq OpenTasks \cup {t} /\ OpenTasks \subseteq OpenTasks' \cup {t}
  BY DEF OpenTasks, OpensOne, IInv, TypeOK
<1>2. t \notin OpenTasks
  BY DEF OpensOne, Startable, Busy, OpenTasks
<1>3. OpenTasks \subseteq OpenTasks'
  BY <1>1, <1>2
<1>4. IsFiniteSet(OpenTasks)
  <2>1. OpenTasks \subseteq TaskId
    BY DEF OpenTasks, IInv, TypeOK
  <2> QED BY <2>1, LedgerAssumption, FS_Subset
<1>5. /\ IsFiniteSet(OpenTasks \cup {t})
      /\ Cardinality(OpenTasks \cup {t}) = Cardinality(OpenTasks) + 1
  BY <1>2, <1>4, FS_AddElement
<1>6. IsFiniteSet(OpenTasks') /\ Cardinality(OpenTasks') =< Cardinality(OpenTasks \cup {t})
  BY <1>1, <1>5, FS_Subset
<1>7. Cardinality(OpenTasks) \in Nat /\ Cardinality(OpenTasks') \in Nat /\ cap \in Nat
  BY <1>4, <1>6, FS_CardinalityType DEF IInv, TypeOK
<1>8. Cardinality(OpenTasks) < cap
  BY DEF OpensOne, SlotFree, OpenExecutionCount
<1> QED BY <1>3, <1>5, <1>6, <1>7, <1>8

(* The pool counts holders the way the ledger does.                        *)
LEMMA SameCardinality ==
  ASSUME NEW S
  PROVE  Slots!Cardinality(S) = Cardinality(S)
BY DEF Slots!Cardinality, Cardinality

(* The ledger implements the slot pool: no sequence of operations, reports *)
(* and restarts grants a slot beyond the cap.                              *)
THEOREM LedgerImplementsSlotPool == Spec => CapHonoured
<1>1. Init => Slots!Init
  BY DEF Init, Slots!Init, OpenTasks
<1>2. IInv /\ IInv' /\ [Next]_vars => [Slots!Next]_Slots!vars
  <2> SUFFICES ASSUME IInv, IInv', [Next]_vars
               PROVE  Slots!Next \/ UNCHANGED Slots!vars
    BY DEF Slots!vars
  <2>1. OpenTasks \subseteq TaskId /\ OpenTasks' \subseteq TaskId
    BY DEF OpenTasks, IInv, TypeOK
  <2>2. CASE UNCHANGED cap /\ OpensNothing
    <3>1. Slots!Turnover(OpenTasks \ OpenTasks', {})
      BY <2>2, NobodyEnters DEF Slots!Turnover
    <3> QED BY <2>1, <3>1 DEF Slots!Next
  <2>3. CASE UNCHANGED cap /\ \E t \in TaskId : OpensOne(t)
    <3>1. OpenTasks \subseteq OpenTasks' /\ Cardinality(OpenTasks') =< cap
      BY <2>3, OneEnters
    <3>2. Slots!Turnover({}, OpenTasks' \ OpenTasks)
      BY <2>3, <3>1, SameCardinality DEF Slots!Turnover
    <3> QED BY <2>1, <3>2 DEF Slots!Next
  <2>4. CASE (\E c \in CapInputs : cap' = c) /\ UNCHANGED <<board, task>>
    BY <2>4 DEF Slots!Next, Slots!SetCap, OpenTasks
  <2> QED BY <2>2, <2>3, <2>4, StepOpens, CapMoves
<1> QED BY <1>1, <1>2, Invariance, PTL DEF Spec, Slots!Spec, CapHonoured

-----------------------------------------------------------------------------
(* Steps and histories: what becomes of a card and of its executions.      *)

(* One list of executions out of another: an execution opened, everything  *)
(* unsettled kept, none added but that one; or a report about one.         *)
Fresh(d) == IsOpen(d) /\ d.id = nextRun /\ d.session = NoSession
Opened(card, after) ==
  /\ \E d \in after.executions : Fresh(d)
  /\ \A d \in after.executions : d \in card.executions \/ Fresh(d)
  /\ \A e \in card.executions : IsOpen(e) => e \in after.executions
Reported(card, after) ==
  \E e \in card.executions, f \in Execution :
    /\ f.id = e.id /\ (~IsOpen(e) => f.result = e.result) /\ f.carried = e.carried
    /\ after.executions = (card.executions \ {e}) \cup {f}

(* A rule stays, is without a next instant (unarmed or run out), is set    *)
(* from the clock or moves to a later instant.                             *)
Retimed(schedule, after) ==
  \/ after = schedule
  \/ after.next = Never /\ (after.armed => RanOut(after.cron))
  \/ after.next > clock
  \/ schedule.next # Never /\ after.next > schedule.next

History(card, after) ==
  /\ after.serial = card.serial
  /\ after.executions = card.executions \/ Opened(card, after) \/ Reported(card, after)
  /\ Retimed(card.schedule, after.schedule)

(* What anything but a report or a restart does to a card: no note is      *)
(* taken off it.                                                           *)
Onward(card, after) ==
  /\ after.serial = card.serial
  /\ after.executions = card.executions \/ Opened(card, after)
  /\ card.pending \subseteq after.pending
  /\ Retimed(card.schedule, after.schedule)

Stays(s)   == s \in board /\ s \in board' /\ History(task[s], task'[s])
Continues(s) == s \in board /\ s \in board' /\ Onward(task[s], task'[s])
Arrives(s) ==
  /\ s \notin board /\ s \in board'
  /\ task'[s].serial = nextSerial /\ nextSerial' = nextSerial + 1
  /\ task'[s].executions = {}
  /\ \/ task'[s].schedule.next > clock
     \/ task'[s].schedule.next = Never /\ ~task'[s].schedule.armed
Leaves(s)  == s \notin board' /\ (s \in board => ~HasOpenExecution(task[s]))

(* Of the whole ledger.                                                    *)
Minted ==
  /\ nextSerial' = nextSerial \/ nextSerial' = nextSerial + 1
  /\ \/ nextRun' = nextRun
     \/ nextRun' = nextRun + 1 /\ \E t \in board' : \E d \in task'[t].executions : Fresh(d)
Chronicle == Minted /\ \A s \in TaskId : Stays(s) \/ Arrives(s) \/ Leaves(s)
Course == Minted /\ \A s \in TaskId : Continues(s) \/ Arrives(s) \/ Leaves(s)

LEMMA CourseIsChronicle == Course => Chronicle
BY DEF Course, Chronicle, Continues, Stays, Onward, History

(* Rolling and skipping retime a rule.                                     *)
LEMMA RollRetimes ==
  ASSUME NEW schedule \in Schedule, RuleAgrees(schedule), Late(schedule), clock \in Nat
  PROVE  Retimed(schedule, RollForward(schedule))
<1>1. schedule.next # Never /\ schedule.next \in 0..clock
  BY DEF Late, Schedule, Never
<1>2. /\ RollForward(schedule).cron = schedule.cron
      /\ RollForward(schedule).next = NextRunAt(schedule.cron, schedule.next)
      /\ RollForward(schedule).next = Never \/ RollForward(schedule).next > schedule.next
  BY <1>1, RollSound
<1> QED BY <1>1, <1>2 DEF Retimed, RanOut

LEMMA SkipRetimes ==
  ASSUME NEW schedule \in Schedule, RuleAgrees(schedule), schedule.armed, clock \in Nat
  PROVE  Retimed(schedule, Skipped(schedule))
<1>1. clock \in 0..clock
  OBVIOUS
<1>2. /\ Skipped(schedule).cron = schedule.cron
      /\ Skipped(schedule).next = NextRunAt(schedule.cron, clock)
      /\ Skipped(schedule).next = Never \/ Skipped(schedule).next > clock
  BY SkipSound
<1> QED BY <1>1, <1>2 DEF Retimed, RanOut

LEMMA RepairRetimes ==
  ASSUME NEW schedule \in Schedule, RuleAgrees(schedule), clock \in Nat
  PROVE  Retimed(schedule, Repaired(schedule))
<1>1. /\ Repaired(schedule).armed => Repaired(schedule).next > clock
      /\ Repaired(schedule).next = Never \/ Repaired(schedule).next > clock
  BY RepairSound
<1> QED BY <1>1 DEF Retimed, Never

LEMMA StartHistory ==
  ASSUME NEW card \in Card
  PROVE  /\ Opened(card, StartExecution(card))
         /\ StartExecution(card).serial = card.serial
         /\ StartExecution(card).pending = card.pending
         /\ StartExecution(card).schedule = card.schedule
<1> DEFINE opened == [id |-> nextRun, result |-> "open", session |-> NoSession, carried |-> card.pending]
           all == card.executions \cup {opened}
<1>1. Fresh(opened) /\ IsOpen(opened)
  BY DEF Fresh, IsOpen
<1>2. /\ StartExecution(card).executions = RetainRecentExecutions(all)
      /\ StartExecution(card).serial = card.serial
      /\ StartExecution(card).pending = card.pending
      /\ StartExecution(card).schedule = card.schedule
  BY DEF StartExecution, Card
<1>3. /\ RetainRecentExecutions(all) \subseteq all
      /\ \A e \in all : IsOpen(e) => e \in RetainRecentExecutions(all)
  BY RetainSubset
<1> QED BY <1>1, <1>2, <1>3 DEF Opened

LEMMA SettleHistory ==
  ASSUME NEW card \in Card, NEW e \in card.executions, NEW outcome \in Outcome
  PROVE  History(card, SettleExecution(card, e, outcome))
<1> DEFINE after == SettleExecution(card, e, outcome)
           f == [e EXCEPT !.result = outcome]
<1>1. CASE ~IsOpen(e)
  BY <1>1 DEF SettleExecution, History, Retimed
<1>2. CASE IsOpen(e)
  <2>1. /\ after.executions = (card.executions \ {e}) \cup {f} /\ after.serial = card.serial
        /\ after.schedule = card.schedule
    BY <1>2 DEF SettleExecution, Card
  <2>2. f \in Execution /\ f.id = e.id /\ f.carried = e.carried
    BY DEF Card, Execution
  <2>3. Reported(card, after)
    BY <1>2, <2>1, <2>2 DEF Reported
  <2> QED BY <2>1, <2>3 DEF History, Retimed
<1> QED BY <1>1, <1>2

(* One card is replaced by one with a history, no number is minted.        *)
LEMMA PutChronicle ==
  ASSUME IInv, NEW t \in board, NEW card, History(task[t], card),
         task' = [task EXCEPT ![t] = card], UNCHANGED <<board, nextSerial>>,
         \/ nextRun' = nextRun
         \/ nextRun' = nextRun + 1 /\ Opened(task[t], card)
  PROVE  Chronicle
<1>1. task \in [TaskId -> Card] /\ board \subseteq TaskId
  BY DEF IInv, TypeOK
<1>2. task'[t] = card /\ \A s \in TaskId \ {t} : task'[s] = task[s]
  BY <1>1
<1>3. Minted
  BY <1>2 DEF Minted, Opened
<1>4. ASSUME NEW s \in TaskId PROVE Stays(s) \/ Arrives(s) \/ Leaves(s)
  BY <1>2 DEF Stays, Leaves, History, Retimed
<1> QED BY <1>3, <1>4 DEF Chronicle

(* The cards are rewritten with their executions as they were.             *)
LEMMA RewriteChronicle ==
  ASSUME IInv, \A s \in board : History(task[s], task'[s]), UNCHANGED <<board, nextSerial, nextRun>>
  PROVE  Chronicle
BY DEF Chronicle, Minted, Stays, Leaves, IInv, TypeOK

(* The same of a card replaced by one that goes onward from it.            *)
LEMMA PutCourse ==
  ASSUME IInv, NEW t \in board, NEW card, Onward(task[t], card),
         task' = [task EXCEPT ![t] = card], UNCHANGED <<board, nextSerial>>,
         \/ nextRun' = nextRun
         \/ nextRun' = nextRun + 1 /\ Opened(task[t], card)
  PROVE  Course
<1>1. task \in [TaskId -> Card] /\ board \subseteq TaskId
  BY DEF IInv, TypeOK
<1>2. task'[t] = card /\ \A s \in TaskId \ {t} : task'[s] = task[s]
  BY <1>1
<1>3. Minted
  BY <1>2 DEF Minted, Opened
<1>4. ASSUME NEW s \in TaskId PROVE Continues(s) \/ Arrives(s) \/ Leaves(s)
  BY <1>2 DEF Continues, Leaves, Onward, Retimed
<1> QED BY <1>3, <1>4 DEF Course

(* Every card on the board is rewritten and goes onward.                   *)
LEMMA RewriteCourse ==
  ASSUME IInv, \A s \in board : Onward(task[s], task'[s]), UNCHANGED <<board, nextSerial, nextRun>>
  PROVE  Course
BY DEF Course, Minted, Continues, Leaves, IInv, TypeOK

LEMMA UserCourse ==
  ASSUME IInv, NEW t \in TaskId, UserNext(t)
  PROVE  Course
<1>1. TypeOK /\ task \in [TaskId -> Card] /\ task[t] \in Card /\ board \subseteq TaskId
  BY DEF IInv, TypeOK
<1>2. CASE CreateSome(t)
  <2>1. PICK parents \in ParentInputs, permission \in Permission, handover \in Permission,
             cron \in Crons \cup {NoCron} : Create(t, parents, permission, handover, cron)
    BY <1>2 DEF CreateSome
  <2> DEFINE rule == IF cron = NoCron THEN Unscheduled ELSE Arm(cron)
  <2>2. rule.next > clock \/ (rule.next = Never /\ ~rule.armed)
    BY <1>1, <2>1, ArmSound DEF Create, Unscheduled, TypeOK
  <2>3. /\ t \notin board /\ board' = board \cup {t} /\ task'[t].serial = nextSerial
        /\ task'[t].executions = {} /\ task'[t].schedule = rule
        /\ nextSerial' = nextSerial + 1 /\ nextRun' = nextRun
        /\ \A s \in TaskId \ {t} : task'[s] = task[s]
    BY <1>1, <2>1 DEF Create, NoCard
  <2> HIDE DEF rule
  <2>4. ASSUME NEW s \in TaskId PROVE Continues(s) \/ Arrives(s) \/ Leaves(s)
    BY <2>2, <2>3 DEF Continues, Arrives, Leaves, Onward, Retimed
  <2> QED BY <2>3, <2>4 DEF Course, Minted
<1>3. CASE UpdateSome(t)
  <2>1. PICK touchesContent \in BOOLEAN, permission \in Optional(Permissions),
             handover \in Optional(Permission), parents \in Optional(ParentInputs),
             children \in Optional(ParentInputs) :
               Update(t, touchesContent, permission, handover, parents, children)
    BY <1>3 DEF UpdateSome
  <2>2. ASSUME NEW s \in board PROVE Onward(task[s], task'[s])
    <3>1. task[s] \in Card /\ s \in TaskId
      BY <1>1
    <3>2. Onward(task[t], Edited(task[t], t, permission, handover, parents))
      BY <1>1 DEF Edited, Card, Onward, Retimed
    <3>3. \A wanted : Onward(task[s], WithEdge(task[s], wanted, t))
      BY <3>1 DEF WithEdge, Card, Onward, Retimed
    <3>4. \/ task'[s] = task[s]
          \/ s = t /\ task'[s] = Edited(task[t], t, permission, handover, parents)
          \/ task'[s] = WithEdge(task[s], s \in Given(children, {}), t)
      BY <2>1, <3>1 DEF Update
    <3> QED BY <3>2, <3>3, <3>4 DEF Onward, Retimed
  <2>3. UNCHANGED <<board, nextSerial, nextRun>>
    BY <2>1 DEF Update
  <2> QED BY <2>2, <2>3, RewriteCourse
<1>4. CASE Delete(t)
  <2>1. ASSUME NEW s \in TaskId \ {t}
        PROVE  Onward(task[s], task'[s])
    BY <1>1, <1>4 DEF Delete, Card, Onward, Retimed
  <2>2. /\ ~HasOpenExecution(task[t]) /\ board' = board \ {t}
        /\ nextSerial' = nextSerial /\ nextRun' = nextRun
    BY <1>4 DEF Delete, Busy
  <2>3. ASSUME NEW s \in TaskId PROVE Continues(s) \/ Arrives(s) \/ Leaves(s)
    BY <2>1, <2>2 DEF Continues, Leaves
  <2> QED BY <2>2, <2>3 DEF Course, Minted
<1>5. ASSUME NEW card, Put(t, card), t \in board, nextRun' = nextRun,
             card.executions = task[t].executions, card.serial = task[t].serial,
             card.pending = task[t].pending, Retimed(task[t].schedule, card.schedule)
      PROVE  Course
  BY <1>5, PutCourse DEF Put, Onward
<1>6. CASE \E status \in Status : Move(t, status)
  <2> PICK status \in Status : Move(t, status)
    BY <1>6
  <2> DEFINE after == [task[t] EXCEPT !.status = status]
  <2>1. /\ after.executions = task[t].executions /\ after.serial = task[t].serial
        /\ after.pending = task[t].pending /\ after.schedule = task[t].schedule
    BY <1>1 DEF Card
  <2>2. Put(t, after) /\ t \in board /\ nextRun' = nextRun
    BY DEF Move
  <2> HIDE DEF after
  <2> QED BY <1>5, <2>1, <2>2 DEF Retimed
<1>7. CASE Archive(t)
  <2> DEFINE after == [task[t] EXCEPT !.archived = TRUE,
                                      !.schedule = [@ EXCEPT !.armed = FALSE, !.next = Never]]
  <2>1. /\ after.executions = task[t].executions /\ after.serial = task[t].serial
        /\ after.pending = task[t].pending /\ ~after.schedule.armed /\ after.schedule.next = Never
    BY <1>1 DEF Card, Schedule
  <2>2. Put(t, after) /\ t \in board /\ nextRun' = nextRun
    BY <1>7 DEF Archive
  <2> HIDE DEF after
  <2> QED BY <1>5, <2>1, <2>2 DEF Retimed
<1>8. CASE Restore(t)
  BY <1>1, <1>5, <1>8 DEF Restore, Card, Retimed
<1>9. CASE ConfirmPermission(t)
  BY <1>1, <1>5, <1>9 DEF ConfirmPermission, Card, Retimed
<1>10. CASE \E armed \in Optional(BOOLEAN), cron \in Optional(Crons) : SetSchedule(t, armed, cron)
  <2> PICK armed \in Optional(BOOLEAN), cron \in Optional(Crons) : SetSchedule(t, armed, cron)
    BY <1>10
  <2> DEFINE rule == IF Given(armed, task[t].schedule.armed)
                     THEN Arm(Given(cron, task[t].schedule.cron))
                     ELSE [armed |-> FALSE, cron |-> Given(cron, task[t].schedule.cron), next |-> Never]
             after == [task[t] EXCEPT !.schedule = rule]
  <2>1. Put(t, after) /\ t \in board /\ nextRun' = nextRun
    BY DEF SetSchedule
  <2>2. Retimed(task[t].schedule, rule)
    <3>1. CASE Given(armed, task[t].schedule.armed)
      <4>1. Given(cron, task[t].schedule.cron) \in Crons
        BY <1>1 DEF SetSchedule, Given, Optional, Card, Schedule, NoCron
      <4>2. NextRunAt(Given(cron, task[t].schedule.cron), clock) # Never
        BY <3>1 DEF SetSchedule
      <4>3. clock \in Nat /\ rule = Arm(Given(cron, task[t].schedule.cron))
        BY <1>1, <3>1 DEF TypeOK
      <4>4. rule.next > clock
        BY <4>1, <4>2, <4>3, ArmSound
      <4> QED BY <4>4 DEF Retimed
    <3>2. CASE ~Given(armed, task[t].schedule.armed)
      BY <3>2 DEF Retimed
    <3> QED BY <3>1, <3>2
  <2> HIDE DEF rule
  <2>3. /\ after.executions = task[t].executions /\ after.serial = task[t].serial
        /\ after.pending = task[t].pending /\ after.schedule = rule
    BY <1>1 DEF Card
  <2> QED BY <1>5, <2>1, <2>2, <2>3
<1>11. CASE Run(t)
  <2>1. t \in board /\ Open(t, task[t])
    BY <1>11 DEF Run, Startable
  <2>2. Onward(task[t], StartExecution(task[t])) /\ Opened(task[t], StartExecution(task[t]))
    BY <1>1, StartHistory DEF Onward, Retimed
  <2> QED BY <2>1, <2>2, PutCourse DEF Open, Put
<1>12. CASE Rework(t)
  <2> DEFINE noted == [task[t] EXCEPT !.pending = @ \cup {nextNote}]
             parked == [noted EXCEPT !.status = "todo"]
  <2>1. t \in board /\ UNCHANGED <<board, nextSerial>> /\ nextNote \in Nat
    BY <1>1, <1>12 DEF Rework, Startable, TypeOK
  <2>2. /\ noted \in Card /\ noted.executions = task[t].executions /\ noted.serial = task[t].serial
        /\ task[t].pending \subseteq noted.pending /\ noted.schedule = task[t].schedule
    BY <1>1, <2>1 DEF Card
  <2>3. /\ parked.executions = task[t].executions /\ parked.serial = task[t].serial
        /\ task[t].pending \subseteq parked.pending /\ parked.schedule = task[t].schedule
    BY <1>1 DEF Card
  <2>4. CASE nextRun' = nextRun + 1 /\ task' = [task EXCEPT ![t] = StartExecution(noted)]
    <3> DEFINE started == StartExecution(noted)
    <3>1. /\ Opened(noted, started) /\ started.serial = noted.serial
          /\ started.pending = noted.pending /\ started.schedule = noted.schedule
      BY <2>2, StartHistory
    <3> HIDE DEF noted, started
    <3>2. Opened(task[t], started)
      BY <2>2, <3>1 DEF Opened
    <3>3. Onward(task[t], started)
      BY <2>2, <3>1, <3>2 DEF Onward, Retimed
    <3> QED BY <2>1, <2>4, <3>2, <3>3, PutCourse DEF started
  <2>5. CASE nextRun' = nextRun /\ task' = [task EXCEPT ![t] = parked]
    BY <2>1, <2>3, <2>5, PutCourse DEF Onward, Retimed
  <2> QED BY <1>12, <2>4, <2>5 DEF Rework
<1> QED BY <1>2, <1>3, <1>4, <1>6, <1>7, <1>8, <1>9, <1>10, <1>11, <1>12 DEF UserNext

LEMMA DispatcherCourse ==
  ASSUME IInv, NEW t \in TaskId, DispatcherNext(t)
  PROVE  Course
<1> DEFINE rolled == [task[t] EXCEPT !.schedule = RollForward(@)]
<1>1. TypeOK /\ task[t] \in Card
  BY DEF IInv, TypeOK
<1>2. CASE OpenGatedRun(t)
  <2>1. t \in board /\ Open(t, task[t])
    BY <1>2 DEF OpenGatedRun, Startable
  <2>2. Onward(task[t], StartExecution(task[t])) /\ Opened(task[t], StartExecution(task[t]))
    BY <1>1, StartHistory DEF Onward, Retimed
  <2> QED BY <2>1, <2>2, PutCourse DEF Open, Put
<1>3. CASE OpenScheduled(t)
  <2>1. t \in board /\ task[t].schedule.next # Never /\ Late(task[t].schedule)
    BY <1>3 DEF OpenScheduled, Due, Late
  <2>2. RollForward(task[t].schedule) \in Schedule
    BY <1>1, <2>1, RollSound DEF IInv, Sound, Card
  <2>3. /\ rolled \in Card /\ rolled.executions = task[t].executions /\ rolled.serial = task[t].serial
        /\ rolled.pending = task[t].pending /\ rolled.schedule = RollForward(task[t].schedule)
    BY <1>1, <2>2 DEF Card
  <2>6. Retimed(task[t].schedule, RollForward(task[t].schedule))
    BY <1>1, <2>1, RollRetimes DEF IInv, TypeOK, Sound, Card
  <2>4. CASE Open(t, rolled)
    <3> DEFINE started == StartExecution(rolled)
    <3>1. /\ Opened(rolled, started) /\ started.serial = rolled.serial
          /\ started.pending = rolled.pending /\ started.schedule = rolled.schedule
      BY <2>3, StartHistory
    <3>2. UNCHANGED <<board, nextSerial>> /\ nextRun' = nextRun + 1 /\ task' = [task EXCEPT ![t] = started]
      BY <2>4 DEF Open, Put
    <3> HIDE DEF rolled, started
    <3>3. Opened(task[t], started)
      BY <2>3, <3>1 DEF Opened
    <3>4. Onward(task[t], started)
      BY <2>3, <2>6, <3>1, <3>3 DEF Onward
    <3> QED BY <2>1, <3>2, <3>3, <3>4, PutCourse
  <2>5. CASE Put(t, rolled) /\ UNCHANGED nextRun
    BY <2>1, <2>3, <2>5, <2>6, PutCourse DEF Put, Onward
  <2> QED BY <1>3, <2>4, <2>5 DEF OpenScheduled
<1> QED BY <1>2, <1>3 DEF DispatcherNext

LEMMA ReportChronicle ==
  ASSUME IInv, NEW t \in TaskId, ReportNext(t)
  PROVE  Chronicle
<1>1. TypeOK /\ task[t] \in Card
  BY DEF IInv, TypeOK
<1> PICK e \in task[t].executions :
      \/ \E s \in SessionId : AttachSession(t, e, s)
      \/ \E outcome \in Outcome : Settle(t, e, outcome)
      \/ ConsumeRework(t, e)
  BY DEF ReportNext
<1>2. ASSUME NEW s \in SessionId, AttachSession(t, e, s) PROVE Chronicle
  <2> DEFINE f == [e EXCEPT !.session = s]
             after == [task[t] EXCEPT !.executions = (@ \ {e}) \cup {f}]
  <2>1. f \in Execution /\ f.id = e.id /\ f.result = e.result /\ f.carried = e.carried
    BY <1>1 DEF Card, Execution
  <2>2. /\ after.executions = (task[t].executions \ {e}) \cup {f} /\ after.serial = task[t].serial
        /\ after.schedule = task[t].schedule
    BY <1>1 DEF Card
  <2>3. History(task[t], after)
    BY <2>1, <2>2 DEF History, Reported, Retimed
  <2>4. t \in board /\ Put(t, after) /\ nextRun' = nextRun
    BY <1>2 DEF AttachSession
  <2> QED BY <2>3, <2>4, PutChronicle DEF Put
<1>3. ASSUME NEW outcome \in Outcome, Settle(t, e, outcome) PROVE Chronicle
  BY <1>1, <1>3, SettleHistory, PutChronicle DEF Settle, Put
<1>4. CASE ConsumeRework(t, e)
  <2> DEFINE after == [task[t] EXCEPT !.pending = {}]
  <2>1. /\ after.executions = task[t].executions /\ after.serial = task[t].serial
        /\ after.schedule = task[t].schedule
    BY <1>1 DEF Card
  <2> QED BY <1>4, <2>1, PutChronicle DEF ConsumeRework, Put, History, Retimed
<1> QED BY <1>2, <1>3, <1>4

LEMMA HostCourse ==
  ASSUME IInv, SkipMissed \/ (\E c \in CapInputs : SetMaxConcurrency(c)) \/ TimePasses
  PROVE  Course
<1>1. CASE SkipMissed
  <2>1. ASSUME NEW s \in board PROVE Onward(task[s], task'[s])
    <3>1. s \in TaskId /\ task[s] \in Card /\ clock \in Nat /\ RuleAgrees(task[s].schedule)
      BY DEF IInv, TypeOK, Sound
    <3>2. CASE ~Late(task[s].schedule)
      BY <1>1, <3>1, <3>2 DEF SkipMissed, Onward, Retimed
    <3>3. CASE Late(task[s].schedule)
      <4> DEFINE after == [task[s] EXCEPT !.schedule = Skipped(@)]
      <4>1. Retimed(task[s].schedule, Skipped(task[s].schedule))
        BY <3>1, <3>3, SkipRetimes DEF Late, Card
      <4>2. /\ after.executions = task[s].executions /\ after.serial = task[s].serial
            /\ after.pending = task[s].pending /\ after.schedule = Skipped(task[s].schedule)
        BY <3>1 DEF Card
      <4>3. task'[s] = after
        BY <1>1, <3>1, <3>3 DEF SkipMissed
      <4> HIDE DEF after
      <4> QED BY <4>1, <4>2, <4>3 DEF Onward
    <3> QED BY <3>2, <3>3
  <2> QED BY <1>1, <2>1, RewriteCourse DEF SkipMissed
<1>2. CASE (\E c \in CapInputs : SetMaxConcurrency(c)) \/ TimePasses
  BY <1>2, RewriteCourse DEF SetMaxConcurrency, TimePasses, Onward, Retimed
<1> QED BY <1>1, <1>2

LEMMA RestartChronicle ==
  ASSUME IInv, Restart
  PROVE  Chronicle
<1>1. TypeOK
  BY DEF IInv
<1>3. CASE Restart
  <2>1. ASSUME NEW s \in board PROVE History(task[s], task'[s])
    <3> DEFINE repaired == [task[s] EXCEPT !.schedule = Repaired(@)]
    <3>1. s \in TaskId /\ task[s] \in Card
      BY <1>1 DEF TypeOK
    <3>2. /\ repaired \in Card /\ repaired.executions = task[s].executions
          /\ repaired.serial = task[s].serial /\ repaired.schedule = Repaired(task[s].schedule)
      BY <3>1, RepairedSound
    <3>5. Retimed(task[s].schedule, Repaired(task[s].schedule))
      BY <1>1, <3>1, RepairRetimes DEF IInv, TypeOK, Sound, Card
    <3>3. CASE Interrupted(task[s]) = {}
      <4>1. task'[s] = repaired
        BY <1>3, <3>1, <3>3 DEF Restart, Recovered
      <4> HIDE DEF repaired
      <4> QED BY <3>2, <3>5, <4>1 DEF History
    <3>4. CASE Interrupted(task[s]) # {}
      <4> DEFINE e == CHOOSE x \in Interrupted(task[s]) : TRUE
      <4>1. e \in repaired.executions
        BY <3>2, <3>4 DEF Interrupted
      <4>2. "cancelled" \in Outcome
        BY DEF Outcome
      <4>3. task'[s] = SettleExecution(repaired, e, "cancelled")
        BY <1>3, <3>1, <3>4 DEF Restart, Recovered
      <4>4. History(repaired, task'[s])
        BY <3>2, <4>1, <4>2, <4>3, SettleHistory
      <4> HIDE DEF repaired, e
      <4>5. task'[s].schedule = repaired.schedule
        BY <3>2, <4>3 DEF SettleExecution, Card
      <4> QED BY <3>2, <3>5, <4>4, <4>5 DEF History, Opened, Reported
    <3> QED BY <3>3, <3>4
  <2> QED BY <1>3, <2>1, RewriteChronicle DEF Restart
<1> QED BY <1>3

LEMMA StepChronicle ==
  ASSUME IInv, [Next]_vars
  PROVE  Chronicle
<1>1. CASE UNCHANGED vars
  BY <1>1, RewriteChronicle DEF vars, History, Retimed
<1>2. CASE \E t \in TaskId : UserNext(t) \/ DispatcherNext(t) \/ ReportNext(t)
  BY <1>2, UserCourse, DispatcherCourse, CourseIsChronicle, ReportChronicle
<1>3. CASE HostNext
  BY <1>3, HostCourse, CourseIsChronicle, RestartChronicle DEF HostNext
<1> QED BY <1>1, <1>2, <1>3 DEF Next

(* The clock does not go back.                                             *)
LEMMA ClockMoves ==
  ASSUME [Next]_vars
  PROVE  clock' = clock \/ clock' = clock + 1
<1>1. ASSUME NEW t \in TaskId, UserNext(t) PROVE UNCHANGED clock
  BY <1>1 DEF UserNext, CreateSome, Create, UpdateSome, Update, Delete, Move, Archive,
              Restore, ConfirmPermission, SetSchedule, Run, Rework, Open, Put
<1>2. ASSUME NEW t \in TaskId, DispatcherNext(t) PROVE UNCHANGED clock
  BY <1>2 DEF DispatcherNext, OpenScheduled, OpenGatedRun, Open, Put
<1>3. ASSUME NEW t \in TaskId, ReportNext(t) PROVE UNCHANGED clock
  BY <1>3 DEF ReportNext, AttachSession, Settle, ConsumeRework, Put
<1>4. CASE HostNext \/ UNCHANGED vars
  BY <1>4 DEF HostNext, SkipMissed, Restart, SetMaxConcurrency, TimePasses, vars
<1> QED BY <1>1, <1>2, <1>3, <1>4 DEF Next

(* An armed rule without a next instant ran out.                           *)
Spent(schedule) == schedule.armed /\ schedule.next = Never => RanOut(schedule.cron)
SpentRules == \A t \in board : Spent(task[t].schedule)

LEMMA SpentKept ==
  ASSUME IInv, IInv', SpentRules, [Next]_vars
  PROVE  SpentRules'
<1>1. clock \in Nat /\ clock' \in Nat /\ clock =< clock'
  BY ClockMoves DEF IInv, TypeOK
<1>2. \A cron : RanOut(cron) => \E i \in 0..clock' : NextRunAt(cron, i) = Never
  BY <1>1 DEF RanOut
<1>3. SUFFICES ASSUME NEW t \in board', task'[t].schedule.armed, task'[t].schedule.next = Never
               PROVE  \E i \in 0..clock' : NextRunAt(task'[t].schedule.cron, i) = Never
  BY DEF SpentRules, Spent, RanOut, NextRunAt
<1>4. t \in TaskId /\ (Stays(t) \/ Arrives(t) \/ Leaves(t))
  BY StepChronicle DEF Chronicle, IInv, TypeOK
<1>5. CASE Stays(t)
  <2>1. Retimed(task[t].schedule, task'[t].schedule) /\ t \in board
    BY <1>5 DEF Stays, History
  <2>2. task[t].schedule.next \in Nat \cup {Never}
    BY <1>4 DEF IInv, TypeOK, Card, Schedule
  <2>3. \/ task'[t].schedule = task[t].schedule
        \/ RanOut(task'[t].schedule.cron)
    BY <1>1, <1>3, <2>1, <2>2 DEF Retimed, Never
  <2>4. CASE task'[t].schedule = task[t].schedule
    <3>1. RanOut(task'[t].schedule.cron)
      BY <1>3, <2>1, <2>4 DEF SpentRules, Spent
    <3> QED BY <1>2, <3>1
  <2> QED BY <1>2, <2>3, <2>4
<1>6. CASE Arrives(t)
  BY <1>1, <1>3, <1>6 DEF Arrives, Never
<1>7. CASE Leaves(t)
  BY <1>7 DEF Leaves
<1> QED BY <1>4, <1>5, <1>6, <1>7

(* An armed rule that ran out aside, a rule is armed exactly while it has  *)
(* a next instant, one at which it fires; and an archived card is settled, *)
(* idle and unarmed.                                                       *)
THEOREM ArmedRulesAreSeen == Spec => []RulesAtRest
<1>1. IInv /\ SpentRules => ArmedHasNext
  BY DEF IInv, TypeOK, Sound, RuleAgrees, SpentRules, Spent, ArmedHasNext
<1>2. IInv => ArchivedIsQuiet
  BY DEF IInv, TypeOK, Sound, StatusAgrees, AtRest, ArchivedIsQuiet
<1>3. IInv /\ SpentRules => RulesAtRest
  BY <1>1, <1>2 DEF RulesAtRest
<1>4. Init => SpentRules
  BY DEF Init, SpentRules
<1>5. IInv /\ IInv' /\ SpentRules /\ [Next]_vars => SpentRules'
  BY SpentKept
<1> QED BY <1>3, <1>4, <1>5, Invariance, PTL DEF Spec

(* No unsettled execution is dropped, neither by the history trim when     *)
(* another is opened, nor by a restart, nor with its card.                 *)
THEOREM OpenExecutionsStay == Spec => OpenNeverLost
<1>1. ASSUME IInv, Chronicle, NEW t \in board, NEW e \in task[t].executions, IsOpen(e)
      PROVE  SameCard(t) /\ \E d \in task'[t].executions : d.id = e.id
  <2>1. t \in TaskId /\ Stays(t)
    BY <1>1 DEF Chronicle, Arrives, Leaves, HasOpenExecution, IInv, TypeOK
  <2> QED BY <1>1, <2>1 DEF Stays, History, SameCard, Opened, Reported
<1>2. ASSUME IInv, Chronicle, nextRun' # nextRun
      PROVE  \E t \in board' : \E d \in task'[t].executions : IsOpen(d) /\ d.id = nextRun' - 1
  <2>1. nextRun \in Nat
    BY <1>2 DEF IInv, TypeOK
  <2>2. nextRun' = nextRun + 1 /\ \E t \in board' : \E d \in task'[t].executions : IsOpen(d) /\ d.id = nextRun
    BY <1>2 DEF Chronicle, Minted, Fresh
  <2> QED BY <2>1, <2>2
<1>3. IInv /\ [Next]_vars =>
        [/\ \A t \in board : \A e \in task[t].executions :
              IsOpen(e) => SameCard(t) /\ \E d \in task'[t].executions : d.id = e.id
         /\ nextRun' # nextRun =>
              \E t \in board' : \E d \in task'[t].executions : IsOpen(d) /\ d.id = nextRun' - 1]_vars
  BY <1>1, <1>2, StepChronicle
<1> QED BY <1>3, Invariance, PTL DEF Spec, OpenNeverLost

(* A settled execution keeps its outcome and its rework stamp, however     *)
(* late the next report.                                                   *)
THEOREM OutcomesAreFinal == Spec => SettledForGood
<1>1. ASSUME IInv, Chronicle, NEW t \in TaskId, SameCard(t),
             NEW e \in task[t].executions, NEW d \in task'[t].executions, e.id = d.id, ~IsOpen(e)
      PROVE  d.result = e.result /\ d.carried = e.carried
  <2>1. History(task[t], task'[t])
    BY <1>1 DEF Chronicle, Stays, Arrives, Leaves, SameCard
  <2>2. \A a, b \in task[t].executions : a.id < nextRun /\ (a.id = b.id => a = b)
    BY <1>1 DEF IInv, Sound, IdsOrdered
  <2>3. nextRun \in Nat
    BY <1>1 DEF IInv, TypeOK
  <2>4. CASE task'[t].executions = task[t].executions
    BY <1>1, <2>2, <2>4
  <2>5. CASE Opened(task[t], task'[t])
    BY <1>1, <2>2, <2>3, <2>5 DEF Opened, Fresh
  <2>6. CASE Reported(task[t], task'[t])
    BY <1>1, <2>2, <2>6 DEF Reported
  <2> QED BY <2>1, <2>4, <2>5, <2>6 DEF History
<1>2. IInv /\ [Next]_vars =>
        [\A t \in TaskId : SameCard(t) =>
           \A e \in task[t].executions, d \in task'[t].executions :
             e.id = d.id /\ ~IsOpen(e) => d.result = e.result /\ d.carried = e.carried]_vars
  BY <1>1, StepChronicle
<1> QED BY <1>2, Invariance, PTL DEF Spec, SettledForGood

(* Every number on the board is below the counter.                         *)
SerialsBelow == \A t \in board : task[t].serial < nextSerial

LEMMA NumbersBehind == Spec => []SerialsBelow
<1>1. Init => SerialsBelow
  BY DEF Init, SerialsBelow
<1>2. ASSUME IInv, IInv', Chronicle, SerialsBelow PROVE SerialsBelow'
  <2> SUFFICES ASSUME NEW t \in board' PROVE task'[t].serial < nextSerial'
    BY DEF SerialsBelow
  <2>1. t \in TaskId /\ nextSerial \in Nat
    BY <1>2 DEF IInv, TypeOK
  <2>2. CASE Stays(t)
    <3>1. task[t].serial \in Nat /\ task[t].serial < nextSerial /\ task'[t].serial = task[t].serial
      BY <1>2, <2>1, <2>2 DEF Stays, History, SerialsBelow, IInv, TypeOK, Card
    <3> QED BY <1>2, <2>1, <3>1 DEF Chronicle, Minted
  <2>3. CASE Arrives(t)
    BY <2>1, <2>3 DEF Arrives
  <2> QED BY <1>2, <2>1, <2>2, <2>3 DEF Chronicle, Leaves
<1>3. IInv /\ IInv' /\ SerialsBelow /\ [Next]_vars => SerialsBelow'
  BY <1>2, StepChronicle
<1> QED BY <1>1, <1>3, Invariance, PTL DEF Spec

(* A number comes from the counter, which leaves it behind, or is kept.    *)
THEOREM NumbersAreMintedOnce == Spec => SerialsNeverReissued
<1>1. ASSUME IInv, IInv', Chronicle, SerialsBelow'
      PROVE  /\ nextSerial' >= nextSerial
             /\ \A t \in board' : /\ SameCard(t) \/ task'[t].serial >= nextSerial
                                  /\ task'[t].serial < nextSerial'
  <2>1. nextSerial \in Nat
    BY <1>1 DEF IInv, TypeOK
  <2>2. nextSerial' >= nextSerial
    BY <1>1, <2>1 DEF Chronicle, Minted
  <2>3. ASSUME NEW t \in board', t \in TaskId
        PROVE  SameCard(t) \/ task'[t].serial >= nextSerial
    BY <1>1, <2>1, <2>3 DEF Chronicle, Stays, History, Arrives, Leaves, SameCard
  <2>4. board' \subseteq TaskId
    BY <1>1 DEF IInv, TypeOK
  <2> QED BY <1>1, <2>2, <2>3, <2>4 DEF SerialsBelow
<1>2. IInv /\ IInv' /\ SerialsBelow' /\ [Next]_vars =>
        [/\ nextSerial' >= nextSerial
         /\ \A t \in board' : /\ SameCard(t) \/ task'[t].serial >= nextSerial
                              /\ task'[t].serial < nextSerial']_vars
  BY <1>1, StepChronicle
<1> QED BY <1>2, Invariance, NumbersBehind, PTL DEF Spec, SerialsNeverReissued
=============================================================================
