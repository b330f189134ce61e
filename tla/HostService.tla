---------------------------- MODULE HostService ----------------------------
(***************************************************************************)
(* The Host process around the ledger (src/src/host-service.ts and         *)
(* src/src/host-runner.ts): requests, dispatchers, launches in flight, the *)
(* session poll and the restart, over the ledger of TaskLedger and the     *)
(* conversations of Sessions.                                              *)
(*                                                                         *)
(* The process is one event loop.  A handler runs without interruption up  *)
(* to its next await, and commits the ledger on the way, possibly several  *)
(* times; one step here is one such commit, because a crash can fall       *)
(* between two of them.  What the handler now running has still to do is   *)
(* in pass (a loop over the cards) and in the stages "attached" and        *)
(* "refused" of a launch; until that is done no other handler runs.        *)
(*                                                                         *)
(* An unknown roster (idleSessionIds undefined) is the empty idle set: the *)
(* code treats them alike.                                                 *)
(***************************************************************************)
EXTENDS TaskLedger, Sequences, Functions

CONSTANTS
  SourceOf,       \* sourceSession of each card id, or NoSession
  Reusing,        \* cards with reuseSession
  ExistingSessions,
  PatrolEnabled,  \* the patrolEnabled setting
  MaxCrashes,     \* bound on restarts
  MaxPrompts      \* bound on the prompts a session holds when a user types

ASSUME HostAssumption ==
  /\ SourceOf \in [TaskId -> SessionId \cup {NoSession}]
  /\ Reusing \subseteq TaskId
  /\ ExistingSessions \subseteq SessionId
  /\ PatrolEnabled \in BOOLEAN
  /\ MaxCrashes \in Nat /\ MaxPrompts \in Nat

VARIABLES
  session,    \* the conversations, outside this process
  active,     \* the enabled setting
  launches,   \* launches in flight, one per run that has not reported yet
  poll,       \* the session poll
  idle,       \* idleSessionIds
  memo,       \* scanMemos of the runner, 0 for none
  pass,       \* the loop over the cards the running handler is in, if any
  due,        \* cards whose occurrence the running tick has still to handle
  upSince,    \* history: when the process last started, resumed or was enabled
  sent,       \* history: the runs whose prompt a session has accepted
  crashes     \* restarts so far

Runtime == INSTANCE Sessions WITH Existing <- ExistingSessions

hostVars == <<active, launches, poll, idle, memo, pass, due, upSince, sent, crashes>>
hvars == <<vars, session, hostVars>>

Launch == [task: TaskId, run: Nat, session: SessionId \cup {NoSession},
           stage: {"creating", "reusing", "prompting", "prompted", "attached", "refused"}]

(* live and busy are the roster the runtime answered; left are the open    *)
(* runs this poll has still to inspect.                                    *)
Reference == [task: TaskId, run: Nat, session: SessionId]
Poll == [stage: {"off", "listing", "answered", "inspecting"},
         live: SUBSET SessionId, busy: SUBSET SessionId, left: SUBSET Reference]
PollOff == [stage |-> "off", live |-> {}, busy |-> {}, left |-> {}]

HostInit ==
  /\ Init
  /\ Runtime!Init
  /\ active = TRUE /\ launches = {} /\ poll = PollOff
  /\ idle = {} /\ memo = [s \in SessionId |-> 0]
  /\ pass = "none" /\ due = {}
  /\ upSince = 0 /\ sent = {} /\ crashes = 0

(* The event loop is free to run a handler.                                *)
Quiet == pass = "none" /\ \A l \in launches : l.stage \notin {"attached", "refused"}

-----------------------------------------------------------------------------
(* Launching the run a ledger step has just opened                         *)

(* The session of the newest settled run that has one.                     *)
LastSettledSession(card) ==
  LET settled == {e \in card.executions : ~IsOpen(e) /\ e.session # NoSession}
  IN  IF settled = {} THEN NoSession
      ELSE (CHOOSE e \in settled : \A d \in settled : d.id =< e.id).session

(* A rework run goes back to the session that did the work, whatever the   *)
(* roster says; any other run continues in the source session or, if the   *)
(* card asks for it, the last one, provided the last poll saw it idle.     *)
TargetSession(t, card, rework) ==
  CASE rework -> LastSettledSession(card)
    [] ~rework /\ SourceOf[t] \in idle -> SourceOf[t]
    [] ~rework /\ SourceOf[t] \notin idle /\ t \in Reusing
       /\ LastSettledSession(card) \in idle -> LastSettledSession(card)
    [] OTHER -> NoSession

(* The launch of the run nextRun, which the step opens on card t.          *)
LaunchOf(t, card) ==
  LET rework == \E e \in card.executions : e.id = nextRun /\ e.carried # {}
      target == TargetSession(t, card, rework)
  IN  [task |-> t, run |-> nextRun, session |-> target,
       stage |-> IF target = NoSession THEN "creating" ELSE "reusing"]

ScheduleLaunch(t) ==
  launches' = IF nextRun' = nextRun THEN launches
              ELSE launches \cup {LaunchOf(t, task'[t])}

(* Document order.                                                         *)
FirstOf(S) == CHOOSE t \in S : \A s \in S : task[t].serial =< task[s].serial

-----------------------------------------------------------------------------
(* Requests, dispatchers and settings                                      *)

Dispatchable(t) ==
  /\ active
  /\ Startable(t) /\ SlotFree /\ nextRun =< MaxRuns
  /\ task[t].status = "todo" /\ ~task[t].schedule.armed

(* Continuation only takes cards with parents; the patrol takes any.       *)
Children == {t \in board : Dispatchable(t) /\ task[t].parents # {}}
Patrolled == {t \in board : Dispatchable(t)}

(* dispatchContinue: the handler ends with a loop over the children that   *)
(* have become startable, if there are any.                                *)
Continue == pass' = IF (Children # {})' THEN "continue" ELSE "none"

(* An API action, then dispatchContinue.                                   *)
Request(t) ==
  /\ active /\ Quiet
  /\ UserNext(t)
  /\ ScheduleLaunch(t)
  /\ UNCHANGED <<session, active, poll, idle, memo, due, upSince, sent, crashes>>
  /\ Continue

PatrolTick ==
  /\ PatrolEnabled /\ Quiet /\ Patrolled # {}
  /\ pass' = "patrol"
  /\ UNCHANGED <<vars, session, active, launches, poll, idle, memo, due, upSince, sent, crashes>>

(* One turn of a loop: the first card it can start.                        *)
PassStep ==
  /\ pass \in {"continue", "patrol"}
  /\ LET t == FirstOf(IF pass = "patrol" THEN Patrolled ELSE Children)
     IN  OpenGatedRun(t) /\ ScheduleLaunch(t)
  /\ UNCHANGED <<session, active, poll, idle, memo, due, upSince, sent, crashes>>
  /\ pass' = IF (pass = "patrol" /\ (Patrolled # {})') \/ (Children # {})' THEN pass ELSE "none"

(* The scheduler tick lists the due cards, then handles them in order.     *)
Tick ==
  /\ active /\ Quiet
  /\ due' = {t \in TaskId : Due(t)} /\ due' # {}
  /\ pass' = "tick"
  /\ UNCHANGED <<vars, session, active, launches, poll, idle, memo, upSince, sent, crashes>>

(* A full board defers the occurrence (so does the bound MaxRuns).         *)
TickStep ==
  /\ pass = "tick"
  /\ LET t == FirstOf(due)
     IN  /\ \/ OpenScheduled(t)
            \/ Startable(t) /\ (~SlotFree \/ nextRun > MaxRuns) /\ UNCHANGED vars
         /\ ScheduleLaunch(t)
         /\ due' = due \ {t}
         /\ pass' = IF due = {t} THEN "none" ELSE "tick"
  /\ UNCHANGED <<session, active, poll, idle, memo, upSince, sent, crashes>>

SkipMissedIfAny ==
  SkipMissed \/ ((\A t \in board : ~Late(task[t].schedule)) /\ UNCHANGED vars)

(* The first tick after a sleep: missed occurrences are dropped.           *)
ResumeTick ==
  /\ active /\ Quiet
  /\ SkipMissedIfAny
  /\ upSince' = clock
  /\ UNCHANGED <<session, active, launches, poll, idle, memo, due, sent, crashes>>
  /\ Continue

(* Mutant: switching the board on waits for the next regular tick.         *)
SetActiveLazily(on) ==
  /\ Quiet /\ active # on
  /\ active' = on
  /\ upSince' = IF on THEN clock ELSE upSince
  /\ UNCHANGED <<vars, session, launches, poll, idle, memo, pass, due, sent, crashes>>

(* Switching the board on again also ticks at once; off only stops it.     *)
SetActive(on) ==
  /\ Quiet /\ active # on
  /\ active' = on
  /\ upSince' = IF on THEN clock ELSE upSince
  /\ IF on THEN SkipMissedIfAny /\ Continue ELSE UNCHANGED <<vars, pass>>
  /\ UNCHANGED <<session, launches, poll, idle, memo, due, sent, crashes>>

Configure(c) ==
  /\ Quiet
  /\ SetMaxConcurrency(c)
  /\ UNCHANGED <<session, hostVars>>

-----------------------------------------------------------------------------
(* Launches                                                                *)

RunsOf(ref) == {e \in task[ref.task].executions : e.id = ref.run}
Becomes(l, stage) == launches' = (launches \ {l}) \cup {[l EXCEPT !.stage = stage]}

(* session/create answers with a fresh session; which one does not matter. *)
Created(l) ==
  /\ Quiet /\ l.stage = "creating" /\ Runtime!Unborn # {}
  /\ LET s == CHOOSE s \in Runtime!Unborn : TRUE
     IN  /\ Runtime!Create(s)
         /\ launches' = (launches \ {l}) \cup {[l EXCEPT !.session = s, !.stage = "prompting"]}
  /\ UNCHANGED <<vars, active, poll, idle, memo, pass, due, upSince, sent, crashes>>

(* The pins are applied and session/prompt queues the prompt.              *)
Prompted(l) ==
  /\ Quiet /\ l.stage \in {"reusing", "prompting"}
  /\ Runtime!Accept(l.session, l.run)
  /\ Becomes(l, "prompted")
  /\ sent' = sent \cup {l.run}
  /\ UNCHANGED <<vars, active, poll, idle, memo, pass, due, upSince, crashes>>

(* Mutant: the notes are taken as delivered once a session is known.       *)
RefusedConsuming(l) ==
  /\ Quiet /\ l.stage \in {"reusing", "prompting"}
  /\ \E e \in RunsOf(l) : AttachSession(l.task, e, l.session)
  /\ Becomes(l, "attached")
  /\ UNCHANGED <<session, active, poll, idle, memo, pass, due, upSince, sent, crashes>>

(* A call after the session is known fails: the run keeps the session.     *)
Refused(l) ==
  /\ Quiet /\ l.stage \in {"reusing", "prompting"}
  /\ \E e \in RunsOf(l) : AttachSession(l.task, e, l.session)
  /\ Becomes(l, "refused")
  /\ UNCHANGED <<session, active, poll, idle, memo, pass, due, upSince, sent, crashes>>

(* A launch that failed settles its run and hands the slot on: after a     *)
(* refusal, or at once when the workspace, the preset or session/create    *)
(* fails, which leaves the run without a session.                          *)
Fails(l) ==
  /\ l.stage = "refused" \/ (Quiet /\ l.stage \in {"creating", "reusing"})
  /\ \E e \in RunsOf(l) : Settle(l.task, e, "failed")
  /\ launches' = launches \ {l}
  /\ UNCHANGED <<session, active, poll, idle, memo, due, upSince, sent, crashes>>
  /\ Continue

(* The launcher resumes: the session is recorded, a rework's notes follow. *)
Reports(l) ==
  /\ Quiet /\ l.stage = "prompted"
  /\ \E e \in RunsOf(l) :
       /\ AttachSession(l.task, e, l.session)
       /\ IF e.carried # {} THEN Becomes(l, "attached") ELSE launches' = launches \ {l}
  /\ UNCHANGED <<session, active, poll, idle, memo, pass, due, upSince, sent, crashes>>

Consumes(l) ==
  /\ l.stage = "attached"
  /\ \E e \in RunsOf(l) : ConsumeRework(l.task, e)
  /\ launches' = launches \ {l}
  /\ UNCHANGED <<session, active, poll, idle, memo, pass, due, upSince, sent, crashes>>

-----------------------------------------------------------------------------
(* The session poll                                                        *)

(* Mutant: a disabled board does not poll at all.                          *)
PollStartsWhenActive ==
  /\ Quiet /\ poll.stage = "off"
  /\ active
  /\ poll' = [PollOff EXCEPT !.stage = "listing"]
  /\ UNCHANGED <<vars, session, active, launches, idle, memo, pass, due, upSince, sent, crashes>>

(* A disabled board still polls while a run is open.                       *)
PollStarts ==
  /\ Quiet /\ poll.stage = "off"
  /\ active \/ OpenTasks # {}
  /\ poll' = [PollOff EXCEPT !.stage = "listing"]
  /\ UNCHANGED <<vars, session, active, launches, idle, memo, pass, due, upSince, sent, crashes>>

(* The runtime takes the list, at some instant between call and answer.    *)
RosterTaken ==
  /\ poll.stage = "listing"
  /\ poll' = [poll EXCEPT !.stage = "answered", !.live = Runtime!Live, !.busy = Runtime!Working]
  /\ UNCHANGED <<vars, session, active, launches, idle, memo, pass, due, upSince, sent, crashes>>

RosterUnknown ==
  /\ Quiet /\ poll.stage = "listing"
  /\ idle' = {}
  /\ poll' = PollOff
  /\ UNCHANGED <<vars, session, active, launches, memo, pass, due, upSince, sent, crashes>>

AttachedRuns(t) ==
  {[task |-> t, run |-> e.id, session |-> e.session] :
     e \in {e \in task[t].executions : IsOpen(e) /\ e.session # NoSession}}

(* The answer arrives: the open runs are those of this instant, not of the *)
(* list's.                                                                 *)
RosterArrives ==
  /\ Quiet /\ poll.stage = "answered"
  /\ idle' = poll.live \ poll.busy
  /\ poll' = [poll EXCEPT !.stage = "inspecting",
       !.left = UNION {AttachedRuns(t) : t \in OpenTasks}]
  /\ UNCHANGED <<vars, session, active, launches, memo, pass, due, upSince, sent, crashes>>

Inspected(ref) ==
  /\ Quiet /\ poll.stage = "inspecting"
  /\ ref \in poll.left
  /\ \A other \in poll.left : task[ref.task].serial =< task[other.task].serial
  /\ poll' = [poll EXCEPT !.left = @ \ {ref}]
  /\ UNCHANGED <<session, active, launches, idle, pass, due, upSince, sent, crashes>>

SettleRun(ref, outcome) == \E e \in RunsOf(ref) : Settle(ref.task, e, outcome)

(* The session is not in the list: the run is taken for cancelled.         *)
InspectsMissing(ref) ==
  /\ Inspected(ref) /\ ref.session \notin poll.live
  /\ memo' = [memo EXCEPT ![ref.session] = 0]
  /\ SettleRun(ref, "cancelled")

(* The session is busy, or its history cannot be read this time.           *)
InspectsPending(ref) ==
  /\ Inspected(ref) /\ ref.session \in poll.live
  /\ UNCHANGED <<vars, memo>>

(* The history of an idle session, unless its newest event was seen        *)
(* before: the first turn that ended since the run opened decides.         *)
InspectsHistory(ref) ==
  LET newest == Runtime!Newest(ref.session)
      ended  == Runtime!EndedAfter(ref.session, ref.run)
  IN  /\ Inspected(ref) /\ ref.session \in poll.live \ poll.busy
      /\ ref.session \in Runtime!Live
      /\ newest # 0 => memo[ref.session] # newest
      /\ IF ended = <<>>
         THEN memo' = [memo EXCEPT ![ref.session] = newest] /\ UNCHANGED vars
         ELSE /\ memo' = [memo EXCEPT ![ref.session] = 0]
              /\ SettleRun(ref, IF Head(ended).ok THEN "succeeded" ELSE "failed")

(* Mutant: nothing is handed on when a poll has settled runs.              *)
PollEndsQuietly ==
  /\ Quiet /\ poll.stage = "inspecting" /\ poll.left = {}
  /\ poll' = PollOff
  /\ UNCHANGED <<vars, session, active, launches, idle, memo, pass, due, upSince, sent, crashes>>

(* The last inspection is done: hand the freed slots on.                   *)
PollEnds ==
  /\ Quiet /\ poll.stage = "inspecting" /\ poll.left = {}
  /\ poll' = PollOff
  /\ UNCHANGED <<vars, session, active, launches, idle, memo, due, upSince, sent, crashes>>
  /\ Continue

-----------------------------------------------------------------------------
(* Mutant: the starts the crash interrupted are not settled.               *)
HostRestartUnreconciled ==
  /\ crashes < MaxCrashes
  /\ crashes' = crashes + 1
  /\ launches' = {} /\ poll' = PollOff /\ idle' = {}
  /\ memo' = [s \in SessionId |-> 0]
  /\ due' = {} /\ upSince' = clock
  /\ UNCHANGED <<vars, session, active, sent>>
  /\ Continue

(* Crash, then load and start: what was in flight is gone.                 *)
HostRestart ==
  /\ crashes < MaxCrashes
  /\ crashes' = crashes + 1
  /\ Restart
  /\ launches' = {} /\ poll' = PollOff /\ idle' = {}
  /\ memo' = [s \in SessionId |-> 0]
  /\ due' = {} /\ upSince' = clock
  /\ UNCHANGED <<session, active, sent>>
  /\ Continue

ClockTicks ==
  /\ Quiet
  /\ TimePasses
  /\ UNCHANGED <<session, hostVars>>

TurnBegins(s) == Runtime!TurnBegins(s) /\ UNCHANGED <<vars, hostVars>>
TurnEnds(s) ==
  /\ \E ok \in BOOLEAN : Runtime!TurnEnds(s, ok, nextRun)
  /\ UNCHANGED <<vars, hostVars>>
UserPrompts(s) ==
  /\ Runtime!Prompts(s) < MaxPrompts
  /\ Runtime!Accept(s, Runtime!User)
  /\ UNCHANGED <<vars, hostVars>>
UserDeletes(s) == Runtime!Delete(s) /\ UNCHANGED <<vars, hostVars>>

LaunchNext(l) ==
  Created(l) \/ Prompted(l) \/ Refused(l) \/ Fails(l) \/ Reports(l) \/ Consumes(l)

PollNext ==
  \/ PollStarts \/ RosterTaken \/ RosterUnknown \/ RosterArrives \/ PollEnds
  \/ \E ref \in poll.left :
       InspectsMissing(ref) \/ InspectsPending(ref) \/ InspectsHistory(ref)

DispatchNext == PassStep \/ PatrolTick \/ Tick \/ TickStep \/ ResumeTick

HostServiceNext ==
  \/ \E t \in TaskId : Request(t)
  \/ \E l \in launches : LaunchNext(l)
  \/ DispatchNext
  \/ PollNext
  \/ \E on \in BOOLEAN : SetActive(on)
  \/ \E c \in CapInputs : Configure(c)
  \/ HostRestart
  \/ ClockTicks
  \/ \E s \in SessionId : TurnBegins(s) \/ TurnEnds(s) \/ UserPrompts(s) \/ UserDeletes(s)

HostSpec == HostInit /\ [][HostServiceNext]_hvars

(* The timers fire and the event loop runs every handler that is ready;    *)
(* every call to the gateway returns.  The runtime works its queues off    *)
(* and ends its turns; the list and a history can fail any number of times *)
(* but not for ever.                                                       *)
Fairness ==
  /\ WF_hvars(PassStep) /\ WF_hvars(TickStep)
  /\ \A r \in 1..MaxRuns : WF_hvars(\E l \in launches : l.run = r /\ LaunchNext(l))
  /\ WF_hvars(PollStarts) /\ WF_hvars(RosterArrives) /\ WF_hvars(PollEnds)
  /\ WF_hvars(\E ref \in poll.left : InspectsPending(ref))
  /\ SF_hvars(RosterTaken)
  /\ SF_hvars(\E ref \in poll.left : InspectsMissing(ref) \/ InspectsHistory(ref))
  /\ \A s \in SessionId : WF_hvars(TurnBegins(s)) /\ WF_hvars(TurnEnds(s))

FairHostSpec == HostSpec /\ Fairness

-----------------------------------------------------------------------------
(* Properties                                                              *)

(* Every variable of the process has its type.                             *)
HostTypeOK ==
  /\ active \in BOOLEAN
  /\ launches \subseteq Launch
  /\ poll \in Poll
  /\ idle \subseteq SessionId
  /\ memo \in [SessionId -> Nat]
  /\ pass \in {"none", "continue", "patrol", "tick"}
  /\ due \subseteq TaskId
  /\ upSince \in Nat
  /\ sent \subseteq Nat

(* Everything the process does to the ledger is a step of the ledger, at   *)
(* every await and every crash: the loops and reports above never write    *)
(* what the ledger's own operations would not have written.                *)
LedgerImplemented == Spec

(* The ledger entries a launch stands for and the launches agree: an open  *)
(* run without a session has exactly the launch that will report on it (or *)
(* a restart has settled it), and no launch reports on a run that is gone, *)
(* settled or somebody else's.  Whatever happens to the card meanwhile.    *)
LaunchesMatchRuns ==
  /\ \A t \in board : \A e \in task[t].executions :
       IsOpen(e) /\ e.session = NoSession
         => \E l \in launches : l.task = t /\ l.run = e.id
  /\ \A l \in launches :
       /\ l.task \in board
       /\ \E e \in task[l.task].executions :
            /\ e.id = l.run /\ IsOpen(e)
            /\ e.session = NoSession \/ l.stage \in {"attached", "refused"}
  /\ \A k, l \in launches : k.run = l.run => k = l

(* What the process has in memory is sound.                                *)
HostSound == HostTypeOK /\ LaunchesMatchRuns

(* A modification note stops being pending only when the prompt that       *)
(* carried it was accepted by a session: not by a launch that failed, not  *)
(* by a crash.                                                             *)
NotesReachASession ==
  [][\A t \in TaskId : SameCard(t) =>
       \A n \in task[t].pending \ task'[t].pending :
         \E e \in task[t].executions : n \in e.carried /\ e.id \in sent]_hvars

(* Nothing the process does leaves a startable child waiting with nobody   *)
(* to start it: whoever settles a parent, frees a slot or opens a gate     *)
(* loops over the children next, and a failed launch or a poll in progress *)
(* will.  Only a raised cap leaves them to the next poll.                  *)
HandedOn ==
  \/ Children = {}
  \/ pass \in {"continue", "patrol"}
  \/ poll.stage = "inspecting"
  \/ \E l \in launches : l.stage = "refused"
ContinuationIsPrompt == [][cap' = cap /\ HandedOn => HandedOn']_hvars

(* No backfill: the scheduler starts a run only for an occurrence that came *)
(* due while the process was up and the board enabled, deferred by the cap  *)
(* or not; what was missed in between is gone.                             *)
NoBackfill ==
  [][TickStep => \A t \in due : OpenScheduled(t) /\ nextRun' # nextRun
                   => task[t].schedule.next > upSince]_hvars

(* Every run settles, however often the list or a history could not be     *)
(* read, whether the board is disabled meanwhile, and whoever else uses    *)
(* the session.                                                            *)
OpenRun(r) == \E t \in board : \E e \in task[t].executions : e.id = r /\ IsOpen(e)
EveryRunSettles == \A r \in 1..MaxRuns : OpenRun(r) ~> ~OpenRun(r)

(* A child that may start, on an enabled board with a free slot, is        *)
(* started or stops being startable; also when only the cap was raised.    *)
ChildrenContinue == \A t \in TaskId : []<>(t \notin Children)
=============================================================================
