------------------------- MODULE HostServiceProofs -------------------------
(***************************************************************************)
(* Proofs about HostService, for every number of cards, sessions, restarts *)
(* and prompts: every step of the process is a step of the ledger or       *)
(* leaves it alone, so everything proved of the ledger holds of it.        *)
(***************************************************************************)
EXTENDS HostService, TaskLedgerProofs

-----------------------------------------------------------------------------
(* Types                                                                   *)

(* Only a launch whose session is not created yet lacks one.               *)
LaunchesHaveSessions == \A l \in launches : l.session = NoSession => l.stage = "creating"
SessionsTyped == session \in [SessionId -> Runtime!Session]
HostTypes == HostTypeOK /\ SessionsTyped /\ LaunchesHaveSessions

(* A bounded set of naturals that is not empty has a largest element.      *)
LEMMA LargestExists ==
  ASSUME NEW S \in SUBSET Nat, S # {}, NEW n \in Nat, \A i \in S : i < n
  PROVE  \E m \in S : \A i \in S : i =< m
<1> DEFINE Bounds == {k \in Nat : \A i \in S : i =< k}
           Less == OpToRel(<, Nat)
<1>1. Bounds \subseteq Nat /\ n \in Bounds
  OBVIOUS
<1>2. PICK m \in Bounds : \A k \in Bounds : <<k, m>> \notin Less
  <2> HIDE DEF Bounds, Less
  <2>1. IsWellFoundedOn(Less, Nat)
    BY NatLessThanWellFounded DEF Less
  <2> QED BY <1>1, <2>1, WFMin
<1>3. \A k \in Bounds : ~(k < m)
  BY <1>1, <1>2 DEF OpToRel
<1>4. m \in S
  <2> SUFFICES ASSUME m \notin S PROVE FALSE
    OBVIOUS
  <2>1. m # 0
    <3>1. PICK i \in S : TRUE
      OBVIOUS
    <3>2. i \in Nat /\ i =< m /\ i # m
      OBVIOUS
    <3> QED BY <3>2
  <2>2. m - 1 \in Bounds
    BY <2>1
  <2> QED BY <1>3, <2>2
<1> QED BY <1>4

LEMMA LastSettledType ==
  ASSUME NEW card \in Card, NEW n \in Nat, Sound(card, n)
  PROVE  LastSettledSession(card) \in SessionId \cup {NoSession}
<1> DEFINE settled == {e \in card.executions : ~IsOpen(e) /\ e.session # NoSession}
           ids == {e.id : e \in settled}
<1>1. CASE settled = {}
  BY <1>1 DEF LastSettledSession
<1>2. CASE settled # {}
  <2>1. settled \subseteq Execution /\ \A e \in settled : e.id \in Nat /\ e.id < n
    BY DEF Card, Execution, Sound, IdsOrdered
  <2>2. ids \in SUBSET Nat /\ ids # {} /\ \A i \in ids : i < n
    BY <1>2, <2>1
  <2>3. PICK m \in ids : \A i \in ids : i =< m
    <3> HIDE DEF ids
    <3> QED BY <2>2, LargestExists
  <2>4. \E e \in settled : \A d \in settled : d.id =< e.id
    BY <2>3
  <2> DEFINE last == CHOOSE e \in settled : \A d \in settled : d.id =< e.id
  <2>5. last \in settled
    BY <2>4
  <2>6. LastSettledSession(card) = last.session
    BY <1>2 DEF LastSettledSession
  <2> QED BY <2>1, <2>5, <2>6 DEF Execution
<1> QED BY <1>1, <1>2

(* The launch of a run a step has just opened.                             *)
LEMMA LaunchOfType ==
  ASSUME HostTypeOK, IInv', nextRun \in Nat, NEW t \in TaskId
  PROVE  LET l == LaunchOf(t, task'[t])
         IN  /\ l \in Launch
             /\ l.task = t /\ l.run = nextRun
             /\ l.session = NoSession => l.stage = "creating"
             /\ l.stage \in {"creating", "reusing"}
<1> DEFINE l == LaunchOf(t, task'[t])
           last == LastSettledSession(task'[t])
           rework == \E e \in task'[t].executions : e.id = nextRun /\ e.carried # {}
           target == TargetSession(t, task'[t], rework)
<1>1. last \in SessionId \cup {NoSession}
  <2>1. task'[t] \in Card /\ nextRun' \in Nat /\ Sound(task'[t], nextRun')
    BY DEF IInv, TypeOK
  <2> QED BY <2>1, LastSettledType
<1>2. target \in SessionId \cup {NoSession}
  <2>1. SourceOf[t] \in SessionId \cup {NoSession}
    BY HostAssumption
  <2> HIDE DEF rework
  <2> QED BY <1>1, <2>1 DEF TargetSession
<1>3. l = [task |-> t, run |-> nextRun, session |-> target,
           stage |-> IF target = NoSession THEN "creating" ELSE "reusing"]
  BY DEF LaunchOf
<1> HIDE DEF target
<1> QED BY <1>2, <1>3 DEF Launch

-----------------------------------------------------------------------------
(* Every step is a step of the ledger                                      *)

(* What a step does to the ledger: only the launch that consumes takes     *)
(* notes off a card.                                                       *)
LedgerKinds ==
  \/ UNCHANGED vars
  \/ \E t \in TaskId : UserNext(t) \/ DispatcherNext(t)
  \/ \E t \in TaskId : \E e \in task[t].executions :
       \/ \E s \in SessionId : AttachSession(t, e, s)
       \/ \E outcome \in Outcome : Settle(t, e, outcome)
  \/ \E l \in launches : Consumes(l)
  \/ SkipMissed \/ (\E c \in CapInputs : SetMaxConcurrency(c)) \/ TimePasses
  \/ HostRestart

LEMMA HostStepKinds ==
  ASSUME IInv, HostTypes, [HostServiceNext]_hvars
  PROVE  LedgerKinds
<1>1. board \subseteq TaskId /\ launches \subseteq Launch
  BY DEF IInv, TypeOK, HostTypes, HostTypeOK
<1>2. ASSUME NEW t \in TaskId, Request(t) PROVE LedgerKinds
  BY <1>2 DEF Request, LedgerKinds
<1>3. ASSUME NEW l \in launches, LaunchNext(l) PROVE LedgerKinds
  <2>1. l.task \in TaskId /\ RunsOf(l) \subseteq task[l.task].executions
    BY <1>1 DEF Launch, RunsOf
  <2>2. l.stage # "creating" => l.session \in SessionId
    BY <1>1 DEF HostTypes, LaunchesHaveSessions, Launch
  <2>3. CASE Created(l) \/ Prompted(l)
    BY <2>3 DEF Created, Prompted, LedgerKinds
  <2>4. CASE Refused(l) \/ Reports(l)
    <3>1. \E e \in RunsOf(l) : AttachSession(l.task, e, l.session)
      BY <2>4 DEF Refused, Reports
    <3>2. l.session \in SessionId
      BY <2>2, <2>4 DEF Refused, Reports
    <3> QED BY <2>1, <3>1, <3>2 DEF LedgerKinds
  <2>5. CASE Fails(l)
    <3>1. \E e \in RunsOf(l) : Settle(l.task, e, "failed")
      BY <2>5 DEF Fails
    <3> QED BY <2>1, <3>1 DEF LedgerKinds, Outcome
  <2> QED BY <1>3, <2>3, <2>4, <2>5 DEF LaunchNext, LedgerKinds
<1>4. CASE DispatchNext
  <2>1. CASE PassStep
    <3>1. PICK t : OpenGatedRun(t)
      BY <2>1 DEF PassStep
    <3>2. t \in TaskId
      BY <1>1, <3>1 DEF OpenGatedRun, Startable
    <3> QED BY <3>1, <3>2 DEF LedgerKinds, DispatcherNext
  <2>2. CASE PatrolTick \/ Tick
    BY <2>2 DEF PatrolTick, Tick, LedgerKinds
  <2>3. CASE TickStep
    <3>1. PICK t : OpenScheduled(t) \/ UNCHANGED vars
      BY <2>3 DEF TickStep
    <3>2. OpenScheduled(t) => t \in TaskId
      BY <1>1 DEF OpenScheduled, Due
    <3> QED BY <3>1, <3>2 DEF LedgerKinds, DispatcherNext
  <2>4. CASE ResumeTick
    BY <2>4 DEF ResumeTick, SkipMissedIfAny, LedgerKinds
  <2> QED BY <1>4, <2>1, <2>2, <2>3, <2>4 DEF DispatchNext
<1>5. CASE PollNext
  <2>1. CASE PollStarts \/ RosterTaken \/ RosterUnknown \/ RosterArrives \/ PollEnds
    BY <2>1 DEF PollStarts, RosterTaken, RosterUnknown, RosterArrives, PollEnds, LedgerKinds
  <2>2. ASSUME NEW ref \in poll.left, NEW outcome \in Outcome, SettleRun(ref, outcome)
        PROVE  LedgerKinds
    <3>1. ref.task \in TaskId /\ RunsOf(ref) \subseteq task[ref.task].executions
      BY DEF HostTypes, HostTypeOK, Poll, Reference, RunsOf
    <3> QED BY <2>2, <3>1 DEF SettleRun, LedgerKinds
  <2>3. ASSUME NEW ref \in poll.left,
               InspectsMissing(ref) \/ InspectsPending(ref) \/ InspectsHistory(ref)
        PROVE  LedgerKinds
    <3>1. UNCHANGED vars \/ \E outcome \in Outcome : SettleRun(ref, outcome)
      BY <2>3 DEF InspectsMissing, InspectsPending, InspectsHistory, Outcome
    <3> QED BY <2>2, <3>1 DEF LedgerKinds
  <2> QED BY <1>5, <2>1, <2>3 DEF PollNext
<1>6. CASE \E on \in BOOLEAN : SetActive(on)
  BY <1>6 DEF SetActive, SkipMissedIfAny, LedgerKinds
<1>7. CASE \E c \in CapInputs : Configure(c)
  BY <1>7 DEF Configure, LedgerKinds
<1>8. CASE HostRestart \/ ClockTicks
  BY <1>8 DEF ClockTicks, LedgerKinds
<1>9. CASE \E s \in SessionId : TurnBegins(s) \/ TurnEnds(s) \/ UserPrompts(s) \/ UserDeletes(s)
  BY <1>9 DEF TurnBegins, TurnEnds, UserPrompts, UserDeletes, LedgerKinds
<1>10. CASE UNCHANGED hvars
  BY <1>10 DEF hvars, LedgerKinds
<1> QED BY <1>2, <1>3, <1>4, <1>5, <1>6, <1>7, <1>8, <1>9, <1>10 DEF HostServiceNext

LEMMA HostStepIsLedgerStep ==
  ASSUME IInv, HostTypes, [HostServiceNext]_hvars
  PROVE  [Next]_vars
<1>1. ASSUME NEW l \in launches, Consumes(l) PROVE Next
  <2>1. l.task \in TaskId /\ RunsOf(l) \subseteq task[l.task].executions
    BY DEF HostTypes, HostTypeOK, Launch, RunsOf
  <2> QED BY <1>1, <2>1 DEF Consumes, Next, ReportNext
<1>2. HostRestart => HostNext
  BY DEF HostRestart, HostNext
<1> QED BY <1>1, <1>2, HostStepKinds DEF LedgerKinds, Next, HostNext, ReportNext

-----------------------------------------------------------------------------
(* The types are kept                                                      *)

(* What the gateway answers is typed, whatever the conversation went       *)
(* through.                                                                *)
LEMMA SessionsStayTyped ==
  ASSUME SessionsTyped, NEW s \in SessionId, nextRun \in Nat,
         \/ Runtime!Create(s) \/ Runtime!TurnBegins(s) \/ Runtime!Delete(s)
         \/ \E by \in Nat : Runtime!Accept(s, by)
         \/ \E ok \in BOOLEAN : Runtime!TurnEnds(s, ok, nextRun)
  PROVE  SessionsTyped'
<1>1. /\ session[s] \in Runtime!Session /\ session[s].queue \in Seq(Nat) /\ session[s].log \in Seq(Runtime!Turn)
      /\ session[s].turn \in Nat \cup {Runtime!NoTurn}
  BY DEF SessionsTyped, Runtime!Session
<1>2. CASE Runtime!Create(s)
  BY <1>1, <1>2 DEF SessionsTyped, Runtime!Create, Runtime!Session
<1>3. CASE Runtime!TurnBegins(s)
  <2>1. Head(session[s].queue) \in Nat /\ Tail(session[s].queue) \in Seq(Nat)
    BY <1>1, <1>3 DEF Runtime!TurnBegins
  <2> QED BY <1>1, <1>3, <2>1 DEF SessionsTyped, Runtime!TurnBegins, Runtime!Session
<1>4. CASE Runtime!Delete(s)
  <2>1. \A S : <<>> \in Seq(S)
    OBVIOUS
  <2>2. [Runtime!Blank EXCEPT !.stage = "deleted"] =
          [stage |-> "deleted", queue |-> <<>>, turn |-> Runtime!NoTurn, log |-> <<>>]
    BY DEF Runtime!Blank
  <2>3. [Runtime!Blank EXCEPT !.stage = "deleted"] \in Runtime!Session
    <3>1. <<>> \in Seq(Nat) /\ <<>> \in Seq(Runtime!Turn)
      BY <2>1
    <3> DEFINE none == <<>>
    <3> HIDE DEF none
    <3>2. [stage |-> "deleted", queue |-> none, turn |-> Runtime!NoTurn, log |-> none] \in Runtime!Session
      BY <3>1 DEF Runtime!Session, none
    <3> QED BY <2>2, <3>2 DEF none
  <2> QED BY <1>4, <2>3 DEF SessionsTyped, Runtime!Delete
<1>5. ASSUME NEW by \in Nat, Runtime!Accept(s, by) PROVE SessionsTyped'
  <2>1. Append(session[s].queue, by) \in Seq(Nat)
    BY <1>1
  <2> QED BY <1>1, <1>5, <2>1 DEF SessionsTyped, Runtime!Accept, Runtime!Session
<1>6. ASSUME NEW ok \in BOOLEAN, Runtime!TurnEnds(s, ok, nextRun) PROVE SessionsTyped'
  <2> DEFINE turn == [by |-> session[s].turn, ok |-> ok, at |-> nextRun]
  <2>1. session[s].turn \in Nat
    BY <1>1, <1>6 DEF Runtime!TurnEnds, Runtime!Working
  <2>2. turn \in Runtime!Turn
    BY <2>1 DEF Runtime!Turn
  <2> HIDE DEF turn
  <2>3. Append(session[s].log, turn) \in Seq(Runtime!Turn)
    BY <1>1, <2>2
  <2> DEFINE log == Append(session[s].log, turn)
  <2>4. session' = [session EXCEPT ![s].log = log, ![s].turn = Runtime!NoTurn]
    BY <1>6 DEF Runtime!TurnEnds, turn
  <2> HIDE DEF log
  <2> QED BY <1>1, <2>3, <2>4 DEF SessionsTyped, Runtime!Session, log
<1> QED BY <1>2, <1>3, <1>4, <1>5, <1>6

LEMMA NewestType ==
  ASSUME SessionsTyped, NEW s \in SessionId
  PROVE  Runtime!Newest(s) \in Nat
<1>1. session[s].log \in Seq(Runtime!Turn)
  BY DEF SessionsTyped, Runtime!Session
<1>2. Len(session[s].log) \in Nat
  BY <1>1
<1> DEFINE n == Len(session[s].log)
           atWork == s \in Runtime!Working
<1>3. Runtime!Newest(s) = 2 * n + (IF atWork THEN 1 ELSE 0)
  BY DEF Runtime!Newest
<1>4. n \in Nat /\ (IF atWork THEN 1 ELSE 0) \in Nat
  BY <1>2
<1> HIDE DEF n, atWork
<1> QED BY <1>3, <1>4

(* A step that may have opened a run on t keeps the launches typed.        *)
LEMMA ScheduleTyped ==
  ASSUME HostTypes, IInv, IInv', NEW t \in TaskId, ScheduleLaunch(t)
  PROVE  launches' \subseteq Launch /\ LaunchesHaveSessions'
<1>1. nextRun \in Nat /\ HostTypeOK
  BY DEF IInv, TypeOK, HostTypes
<1>2. CASE launches' = launches
  BY <1>2 DEF HostTypes, HostTypeOK, LaunchesHaveSessions
<1>3. CASE launches' = launches \cup {LaunchOf(t, task'[t])}
  BY <1>1, <1>3, LaunchOfType DEF HostTypes, HostTypeOK, LaunchesHaveSessions
<1> QED BY <1>2, <1>3 DEF ScheduleLaunch

(* Only the launches and the loop change, and perhaps the time of the last *)
(* start, or the cards a tick has still to handle.                         *)
LEMMA LoopTyped ==
  ASSUME HostTypes, UNCHANGED <<session, poll, idle, memo, sent>>,
         active' \in BOOLEAN, due' \subseteq TaskId, upSince' \in Nat,
         pass' \in {"none", "continue", "patrol", "tick"},
         launches' \subseteq Launch, LaunchesHaveSessions'
  PROVE  HostTypes'
BY DEF HostTypes, HostTypeOK, SessionsTyped

LEMMA LaunchTyped ==
  ASSUME IInv, HostTypes, NEW l \in launches, LaunchNext(l)
  PROVE  HostTypes'
<1>1. /\ launches \subseteq Launch /\ l \in Launch /\ l.run \in Nat
      /\ l.session \in SessionId \cup {NoSession}
      /\ l.stage # "creating" => l.session \in SessionId
      /\ NoSession \notin SessionId /\ nextRun \in Nat
  BY LedgerAssumption DEF HostTypes, HostTypeOK, Launch, LaunchesHaveSessions, IInv, TypeOK
<1>2. ASSUME NEW s \in SessionId \cup {NoSession}, NEW stage,
             stage \in {"prompting", "prompted", "attached", "refused"}, s # NoSession,
             launches' \subseteq launches \cup {[l EXCEPT !.session = s, !.stage = stage]}
      PROVE  launches' \subseteq Launch /\ LaunchesHaveSessions'
  <2> DEFINE m == [l EXCEPT !.session = s, !.stage = stage]
  <2>1. m \in Launch /\ m.session = s
    BY <1>1, <1>2 DEF Launch
  <2> QED BY <1>1, <1>2, <2>1 DEF HostTypes, LaunchesHaveSessions
<1>3. ASSUME NEW stage \in {"prompting", "prompted", "attached", "refused"},
             l.session # NoSession, Becomes(l, stage)
      PROVE  launches' \subseteq Launch /\ LaunchesHaveSessions'
  <2>1. [l EXCEPT !.session = l.session, !.stage = stage] = [l EXCEPT !.stage = stage]
    BY <1>1 DEF Launch
  <2> QED BY <1>1, <1>2, <1>3, <2>1 DEF Becomes
<1>4. ASSUME launches' = launches \ {l}
      PROVE  launches' \subseteq Launch /\ LaunchesHaveSessions'
  BY <1>1, <1>4 DEF HostTypes, LaunchesHaveSessions
<1>5. CASE Created(l)
  <2> DEFINE s == CHOOSE s \in Runtime!Unborn : TRUE
             m == [l EXCEPT !.session = s, !.stage = "prompting"]
  <2>1. s \in SessionId /\ Runtime!Create(s)
    BY <1>5 DEF Created, Runtime!Unborn
  <2>2. launches' = (launches \ {l}) \cup {m}
    BY <1>5 DEF Created
  <2>3. SessionsTyped'
    BY <1>1, <2>1, SessionsStayTyped DEF HostTypes
  <2> HIDE DEF s
  <2>4. launches' \subseteq Launch /\ LaunchesHaveSessions'
    BY <1>1, <1>2, <2>1, <2>2
  <2> QED BY <1>5, <2>3, <2>4 DEF Created, HostTypes, HostTypeOK
<1>6. CASE Prompted(l)
  <2>1. l.session \in SessionId /\ Runtime!Accept(l.session, l.run)
    BY <1>1, <1>6 DEF Prompted
  <2>2. SessionsTyped'
    BY <1>1, <2>1, SessionsStayTyped DEF HostTypes
  <2>3. launches' \subseteq Launch /\ LaunchesHaveSessions'
    BY <1>1, <1>3, <1>6, <2>1 DEF Prompted
  <2> QED BY <1>1, <1>6, <2>2, <2>3 DEF Prompted, HostTypes, HostTypeOK
<1>7. CASE Refused(l)
  <2>1. launches' \subseteq Launch /\ LaunchesHaveSessions'
    BY <1>1, <1>3, <1>7 DEF Refused
  <2> QED BY <1>7, <2>1 DEF Refused, HostTypes, HostTypeOK, SessionsTyped
<1>8. CASE Fails(l)
  <2>1. launches' \subseteq Launch /\ LaunchesHaveSessions'
    BY <1>4, <1>8 DEF Fails
  <2> QED BY <1>8, <2>1 DEF Fails, Continue, HostTypes, HostTypeOK, SessionsTyped
<1>9. CASE Reports(l)
  <2>1. launches' = launches \ {l} \/ Becomes(l, "attached")
    BY <1>9 DEF Reports
  <2>2. launches' \subseteq Launch /\ LaunchesHaveSessions'
    BY <1>1, <1>3, <1>4, <1>9, <2>1 DEF Reports
  <2> QED BY <1>9, <2>2 DEF Reports, HostTypes, HostTypeOK, SessionsTyped
<1>10. CASE Consumes(l)
  <2>1. launches' \subseteq Launch /\ LaunchesHaveSessions'
    BY <1>4, <1>10 DEF Consumes
  <2> QED BY <1>10, <2>1 DEF Consumes, HostTypes, HostTypeOK, SessionsTyped
<1> QED BY <1>5, <1>6, <1>7, <1>8, <1>9, <1>10 DEF LaunchNext

LEMMA PollTyped ==
  ASSUME IInv, HostTypes, PollNext
  PROVE  HostTypes'
<1>1. UNCHANGED <<active, launches, due, upSince, sent, session>>
  BY DEF PollNext, PollStarts, RosterTaken, RosterUnknown, RosterArrives, PollEnds,
         InspectsMissing, InspectsPending, InspectsHistory, Inspected
<1>2. ASSUME poll' \in Poll, idle' \subseteq SessionId, memo' \in [SessionId -> Nat],
             pass' \in {"none", "continue", "patrol", "tick"}
      PROVE  HostTypes'
  BY <1>1, <1>2 DEF HostTypes, HostTypeOK, SessionsTyped, LaunchesHaveSessions
<1>3. /\ poll \in Poll /\ idle \subseteq SessionId /\ memo \in [SessionId -> Nat]
      /\ pass \in {"none", "continue", "patrol", "tick"} /\ SessionsTyped
  BY DEF HostTypes, HostTypeOK
<1>4. PollOff \in Poll /\ [PollOff EXCEPT !.stage = "listing"] \in Poll
  BY DEF PollOff, Poll
<1>5. CASE PollStarts
  BY <1>2, <1>3, <1>4, <1>5 DEF PollStarts
<1>6. CASE RosterTaken
  <2>1. Runtime!Live \in SUBSET SessionId /\ Runtime!Working \in SUBSET SessionId
    BY DEF Runtime!Live, Runtime!Working
  <2>2. poll' \in Poll
    BY <1>3, <1>6, <2>1 DEF RosterTaken, Poll
  <2> QED BY <1>2, <1>3, <1>6, <2>2 DEF RosterTaken
<1>7. CASE RosterUnknown
  BY <1>2, <1>3, <1>4, <1>7 DEF RosterUnknown
<1>8. CASE RosterArrives
  <2> DEFINE left == UNION {AttachedRuns(t) : t \in OpenTasks}
  <2>1. ASSUME NEW t \in OpenTasks PROVE AttachedRuns(t) \subseteq Reference
    <3>1. task[t] \in Card /\ t \in TaskId
      BY DEF OpenTasks, IInv, TypeOK
    <3> QED BY <3>1 DEF AttachedRuns, Reference, Card, Execution
  <2>2. left \subseteq Reference
    BY <2>1
  <2>3. poll' = [poll EXCEPT !.stage = "inspecting", !.left = left] /\ idle' = poll.live \ poll.busy
    BY <1>8 DEF RosterArrives
  <2> HIDE DEF left
  <2>4. poll' \in Poll /\ idle' \subseteq SessionId
    BY <1>3, <2>2, <2>3 DEF Poll
  <2> QED BY <1>2, <1>3, <1>8, <2>4 DEF RosterArrives
<1>9. CASE PollEnds
  BY <1>2, <1>3, <1>4, <1>9 DEF PollEnds, Continue
<1>10. ASSUME NEW ref \in poll.left,
              InspectsMissing(ref) \/ InspectsPending(ref) \/ InspectsHistory(ref)
       PROVE  HostTypes'
  <2>1. ref.session \in SessionId
    BY <1>3 DEF Poll, Reference
  <2>2. poll' \in Poll /\ UNCHANGED <<idle, pass>>
    BY <1>3, <1>10 DEF InspectsMissing, InspectsPending, InspectsHistory, Inspected, Poll
  <2>3. Runtime!Newest(ref.session) \in Nat
    BY <1>3, <2>1, NewestType
  <2>4. memo' \in [SessionId -> Nat]
    BY <1>3, <1>10, <2>3 DEF InspectsMissing, InspectsPending, InspectsHistory
  <2> QED BY <1>2, <1>3, <2>2, <2>4
<1> QED BY <1>5, <1>6, <1>7, <1>8, <1>9, <1>10 DEF PollNext

LEMMA DispatchTyped ==
  ASSUME IInv, IInv', HostTypes, DispatchNext \/ \E t \in TaskId : Request(t)
  PROVE  HostTypes'
<1>1. /\ board \subseteq TaskId /\ clock \in Nat /\ launches \subseteq Launch /\ LaunchesHaveSessions
      /\ active \in BOOLEAN /\ due \subseteq TaskId /\ upSince \in Nat
      /\ pass \in {"none", "continue", "patrol", "tick"}
  BY DEF IInv, TypeOK, HostTypes, HostTypeOK
<1>2. ASSUME NEW t \in TaskId, Request(t) PROVE HostTypes'
  <2>1. launches' \subseteq Launch /\ LaunchesHaveSessions'
    BY <1>2, ScheduleTyped DEF Request
  <2> QED BY <1>1, <1>2, <2>1, LoopTyped DEF Request, Continue
<1>3. CASE PassStep
  <2>1. PICK t : OpenGatedRun(t) /\ ScheduleLaunch(t)
    BY <1>3 DEF PassStep
  <2>2. t \in TaskId
    BY <1>1, <2>1 DEF OpenGatedRun, Startable
  <2>3. launches' \subseteq Launch /\ LaunchesHaveSessions'
    BY <2>1, <2>2, ScheduleTyped
  <2> QED BY <1>1, <1>3, <2>3, LoopTyped DEF PassStep
<1>4. CASE PatrolTick
  BY <1>1, <1>4, LoopTyped DEF PatrolTick, LaunchesHaveSessions
<1>5. CASE Tick
  BY <1>1, <1>5, LoopTyped DEF Tick, LaunchesHaveSessions
<1>6. CASE TickStep
  <2>1. PICK t : /\ OpenScheduled(t) \/ Startable(t)
                 /\ ScheduleLaunch(t)
    BY <1>6 DEF TickStep
  <2>2. t \in TaskId
    BY <1>1, <2>1 DEF OpenScheduled, Due, Startable
  <2>3. launches' \subseteq Launch /\ LaunchesHaveSessions'
    BY <2>1, <2>2, ScheduleTyped
  <2>4. due' \subseteq due /\ pass' \in {"none", "tick"}
    BY <1>6 DEF TickStep
  <2> QED BY <1>1, <1>6, <2>3, <2>4, LoopTyped DEF TickStep
<1>7. CASE ResumeTick
  BY <1>1, <1>7, LoopTyped DEF ResumeTick, Continue, LaunchesHaveSessions
<1> QED BY <1>2, <1>3, <1>4, <1>5, <1>6, <1>7 DEF DispatchNext

LEMMA HostTypesKept ==
  ASSUME IInv, IInv', HostTypes, [HostServiceNext]_hvars
  PROVE  HostTypes'
<1>1. /\ clock \in Nat /\ nextRun \in Nat /\ launches \subseteq Launch /\ LaunchesHaveSessions
      /\ active \in BOOLEAN /\ due \subseteq TaskId /\ upSince \in Nat
      /\ pass \in {"none", "continue", "patrol", "tick"}
  BY DEF IInv, TypeOK, HostTypes, HostTypeOK
<1>2. ASSUME NEW on \in BOOLEAN, SetActive(on) PROVE HostTypes'
  <2>1. upSince' \in Nat
    BY <1>1, <1>2 DEF SetActive
  <2>2. pass' \in {"none", "continue", "patrol", "tick"}
    BY <1>1, <1>2 DEF SetActive, Continue
  <2> QED BY <1>1, <1>2, <2>1, <2>2, LoopTyped DEF SetActive, LaunchesHaveSessions
<1>3. ASSUME NEW c \in CapInputs, Configure(c) PROVE HostTypes'
  BY <1>3 DEF Configure, hostVars, HostTypes, HostTypeOK, SessionsTyped, LaunchesHaveSessions
<1>4. CASE ClockTicks \/ UNCHANGED hvars
  BY <1>4 DEF ClockTicks, hvars, hostVars, HostTypes, HostTypeOK, SessionsTyped, LaunchesHaveSessions
<1>5. CASE HostRestart
  <2>1. PollOff \in Poll
    BY DEF PollOff, Poll
  <2> QED BY <1>1, <1>5, <2>1
          DEF HostRestart, Continue, HostTypes, HostTypeOK, SessionsTyped, LaunchesHaveSessions
<1>6. ASSUME NEW s \in SessionId, TurnBegins(s) \/ TurnEnds(s) \/ UserPrompts(s) \/ UserDeletes(s)
      PROVE  HostTypes'
  <2>1. Runtime!User \in Nat
    BY DEF Runtime!User
  <2>2. SessionsTyped'
    BY <1>1, <1>6, <2>1, SessionsStayTyped DEF TurnBegins, TurnEnds, UserPrompts, UserDeletes, HostTypes
  <2> QED BY <1>6, <2>2 DEF TurnBegins, TurnEnds, UserPrompts, UserDeletes, hostVars,
                            HostTypes, HostTypeOK, LaunchesHaveSessions
<1> QED BY <1>2, <1>3, <1>4, <1>5, <1>6, LaunchTyped, PollTyped, DispatchTyped DEF HostServiceNext

LEMMA HostInitTyped == HostInit => HostTypes
<1> SUFFICES ASSUME HostInit PROVE HostTypes
  OBVIOUS
<1>1. PollOff \in Poll
  BY DEF PollOff, Poll
<1>2. \A S : <<>> \in Seq(S)
  OBVIOUS
<1>3. Runtime!Blank \in Runtime!Session
  <2> DEFINE none == <<>>
  <2>1. none \in Seq(Nat) /\ none \in Seq(Runtime!Turn)
    BY <1>2
  <2> HIDE DEF none
  <2>2. Runtime!Blank = [stage |-> "unborn", queue |-> none, turn |-> Runtime!NoTurn, log |-> none]
    BY DEF Runtime!Blank, none
  <2> QED BY <2>1, <2>2 DEF Runtime!Session
<1>4. [Runtime!Blank EXCEPT !.stage = "live"] \in Runtime!Session
  BY <1>3 DEF Runtime!Session
<1>5. SessionsTyped
  BY <1>3, <1>4 DEF HostInit, Runtime!Init, SessionsTyped
<1>6. HostTypeOK
  BY <1>1 DEF HostInit, HostTypeOK
<1>7. LaunchesHaveSessions
  BY DEF HostInit, LaunchesHaveSessions
<1> QED BY <1>5, <1>6, <1>7 DEF HostTypes

LEMMA HostInvariance == HostSpec => [](IInv /\ HostTypes)
<1>1. HostInit => IInv /\ HostTypes
  BY InitIInv, HostInitTyped DEF HostInit
<1>2. IInv /\ HostTypes /\ [HostServiceNext]_hvars => (IInv /\ HostTypes)'
  BY HostStepIsLedgerStep, NextIInv, HostTypesKept
<1> QED BY <1>1, <1>2, PTL DEF HostSpec

(* Whatever the process does, the ledger only takes its own steps: the     *)
(* loops, reports, polls and restarts implement the ledger specification.  *)
THEOREM HostImplementsLedger == HostSpec => LedgerImplemented
<1>1. HostInit => Init
  BY DEF HostInit
<1>2. IInv /\ HostTypes /\ [HostServiceNext]_hvars => [Next]_vars
  BY HostStepIsLedgerStep
<1> QED BY <1>1, <1>2, HostInvariance, PTL DEF HostSpec, Spec, LedgerImplemented

(* What is proved of the ledger holds of the board as a process: however   *)
(* requests, ticks, polls, launches and restarts interleave, columns agree *)
(* with executions, every opening passed its gates with a slot free, no    *)
(* unsettled run is trimmed, no outcome is rewritten and no number reused. *)
THEOREM TheProcessKeepsTheLedger ==
  HostSpec => /\ []OneRunAtATime /\ []RulesAtRest /\ []OpenCarriesPending
              /\ GatedOpening /\ CapHonoured /\ OpenNeverLost /\ SettledForGood
              /\ SerialsNeverReissued
BY HostImplementsLedger, OneOpenExecution, ArmedRulesAreSeen, ReworkIsCarried, EveryOpeningIsGated, LedgerImplementsSlotPool,
   OpenExecutionsStay, OutcomesAreFinal, NumbersAreMintedOnce, PTL DEF LedgerImplemented

-----------------------------------------------------------------------------
(* Launches, polls and the runs they stand for                             *)

OpenRuns(card) == {e \in card.executions : IsOpen(e)}
HandedOver(l) == l.stage \in {"attached", "refused"}

(* LaunchesMatchRuns, with the other half of what tells a launch that has  *)
(* recorded its session.                                                   *)
Matched ==
  /\ \A t \in TaskId : \A e \in OpenRuns(task[t]) :
       e.session = NoSession => \E l \in launches : l.task = t /\ l.run = e.id
  /\ \A l \in launches : \E e \in OpenRuns(task[l.task]) :
       e.id = l.run /\ (e.session = NoSession <=> ~HandedOver(l))
  /\ \A k, l \in launches : k.run = l.run => k = l

(* The poll has no run left to inspect that a launch still reports on, not *)
(* even one of a card that took over a deleted card's id.                  *)
PollIsApart ==
  \A ref \in poll.left :
    /\ ref.run < nextRun
    /\ \A l \in launches : ~(l.task = ref.task /\ l.run = ref.run)

(* Past the prompt, a session has accepted it.                             *)
AcceptedAreSent == \A l \in launches : l.stage \in {"prompted", "attached"} => l.run \in sent

(* A rule in force fires after the process last came up.                   *)
ArmedAhead ==
  /\ upSince =< clock
  /\ \A t \in TaskId : task[t].schedule.next # Never => task[t].schedule.next > upSince

HostIInv == IInv /\ HostTypes /\ Matched /\ PollIsApart /\ AcceptedAreSent /\ ArmedAhead

(* What a step does to the unsettled runs: nothing, or it opens one.       *)
SameRuns == \A s \in TaskId : OpenRuns(task'[s]) = OpenRuns(task[s])
NewRun(t) ==
  /\ nextRun' = nextRun + 1
  /\ OpenRuns(task[t]) = {}
  /\ \E d : Fresh(d) /\ OpenRuns(task'[t]) = {d}
  /\ \A s \in TaskId \ {t} : OpenRuns(task'[s]) = OpenRuns(task[s])

LEMMA OneOpenRun ==
  ASSUME IInv, NEW t \in TaskId, NEW e \in OpenRuns(task[t])
  PROVE  /\ e.id < nextRun /\ e.id \in Nat
         /\ \A d \in OpenRuns(task[t]) : d = e
         /\ \A d \in task[t].executions : d.id = e.id => d = e
         /\ t \in board
<1>1. \A d \in task[t].executions : /\ e.id < nextRun
                                    /\ d.id = e.id => d = e
                                    /\ d = e \/ (d.id < e.id /\ ~IsOpen(d))
  BY DEF OpenRuns, IInv, Sound, IdsOrdered
<1>2. e.id \in Nat
  BY DEF OpenRuns, IInv, TypeOK, Card, Execution
<1>3. t \in board
  BY DEF OpenRuns, IInv, NoCard
<1> QED BY <1>1, <1>2, <1>3 DEF OpenRuns

(* A user or a dispatcher leaves the unsettled runs as they are, or opens  *)
(* one on the card it acts on.                                             *)
LEMMA CourseRuns ==
  ASSUME IInv, IInv', Course, NEW t \in TaskId, OpensNothing \/ OpensOne(t)
  PROVE  (nextRun' = nextRun /\ SameRuns) \/ NewRun(t)
<1>1. nextRun \in Nat /\ nextRun' \in Nat
  BY DEF IInv, TypeOK
<1>2. ASSUME NEW s \in TaskId, ~(Continues(s) /\ Opened(task[s], task'[s]))
      PROVE  OpenRuns(task'[s]) = OpenRuns(task[s])
  <2>1. s \notin board => OpenRuns(task[s]) = {}
    BY DEF IInv, NoCard, OpenRuns
  <2>2. s \notin board' => OpenRuns(task'[s]) = {}
    BY DEF IInv, NoCard, OpenRuns
  <2>3. CASE Continues(s)
    BY <1>2, <2>3 DEF Continues, Onward, OpenRuns
  <2>4. CASE Arrives(s)
    BY <2>1, <2>4 DEF Arrives, OpenRuns
  <2>5. CASE Leaves(s)
    BY <2>1, <2>2, <2>5 DEF Leaves, OpenRuns, HasOpenExecution
  <2> QED BY <2>3, <2>4, <2>5 DEF Course
<1>3. ASSUME NEW s \in TaskId, Continues(s), Opened(task[s], task'[s])
      PROVE  s = t /\ NewRun(t)
  <2>1. PICK d \in task'[s].executions : Fresh(d)
    BY <1>3 DEF Opened
  <2>2. d \in OpenRuns(task'[s]) /\ d.id = nextRun
    BY <2>1 DEF Fresh, OpenRuns
  <2>3. nextRun < nextRun' /\ \A e \in OpenRuns(task'[s]) : e = d
    BY <2>2 DEF IInv, Sound, IdsOrdered, OpenRuns
  <2>4. nextRun' = nextRun + 1
    BY <1>1, <2>3 DEF Course, Minted
  <2>5. \A e \in task[s].executions : e.id < nextRun
    BY DEF IInv, Sound, IdsOrdered
  <2>6. d \notin task[s].executions
    BY <1>1, <2>2, <2>5
  <2>7. OpenRuns(task[s]) = {}
    BY <1>3, <2>3, <2>6 DEF Opened, OpenRuns
  <2>8. OpenRuns(task'[s]) = {d}
    BY <2>2, <2>3
  <2>9. ~OpensNothing
    BY <2>2, <2>7 DEF OpensNothing, HasOpenExecution, OpenRuns
  <2>10. s = t
    BY <2>1, <2>6, <2>9 DEF OpensOne
  <2>11. \A r \in TaskId \ {t} : OpenRuns(task'[r]) = OpenRuns(task[r])
    BY <2>9 DEF OpensOne
  <2> QED BY <2>1, <2>4, <2>7, <2>8, <2>10, <2>11 DEF NewRun
<1>4. CASE \E s \in TaskId : Continues(s) /\ Opened(task[s], task'[s])
  BY <1>3, <1>4
<1>5. CASE ~\E s \in TaskId : Continues(s) /\ Opened(task[s], task'[s])
  <2>1. SameRuns
    BY <1>2, <1>5 DEF SameRuns
  <2>2. nextRun' = nextRun
    <3> SUFFICES ASSUME nextRun' # nextRun PROVE FALSE
      OBVIOUS
    <3>0. PICK s \in board' : \E d \in task'[s].executions : Fresh(d)
      BY DEF Course, Minted
    <3>1. PICK d \in task'[s].executions : Fresh(d)
      BY <3>0
    <3>2. s \in TaskId /\ d \in OpenRuns(task'[s]) /\ d.id = nextRun
      BY <3>1 DEF IInv, TypeOK, Fresh, OpenRuns
    <3>3. d \in OpenRuns(task[s])
      BY <2>1, <3>2 DEF SameRuns
    <3> QED BY <1>1, <3>2, <3>3, OneOpenRun
  <2> QED BY <2>1, <2>2
<1> QED BY <1>4, <1>5

(* A report about an unsettled run.                                        *)
LEMMA AttachRuns ==
  ASSUME IInv, NEW t \in TaskId, NEW e \in OpenRuns(task[t]), NEW s \in SessionId,
         AttachSession(t, e, s)
  PROVE  /\ \E f : f.id = e.id /\ f.session = s /\ OpenRuns(task'[t]) = {f}
         /\ \A r \in TaskId \ {t} : task'[r] = task[r]
         /\ task'[t].schedule = task[t].schedule /\ task'[t].pending = task[t].pending
         /\ UNCHANGED <<board, nextRun, clock>>
<1> DEFINE f == [e EXCEPT !.session = s]
<1>1. task[t] \in Card /\ e \in Execution /\ e \in task[t].executions /\ IsOpen(e)
  BY DEF IInv, TypeOK, Card, OpenRuns
<1>2. f.id = e.id /\ f.session = s /\ IsOpen(f)
  BY <1>1 DEF Execution, IsOpen
<1> DEFINE after == [task[t] EXCEPT !.executions = (@ \ {e}) \cup {f}]
<1>3. after.executions = (task[t].executions \ {e}) \cup {f}
      /\ after.schedule = task[t].schedule /\ after.pending = task[t].pending
  BY <1>1 DEF Card
<1>4. task' = [task EXCEPT ![t] = after] /\ UNCHANGED <<board, nextRun, clock>>
  BY DEF AttachSession, Put
<1>5. task'[t] = after /\ \A r \in TaskId \ {t} : task'[r] = task[r]
  BY <1>4 DEF IInv, TypeOK
<1> HIDE DEF f, after
<1>6. OpenRuns(after) = {f}
  BY <1>1, <1>2, <1>3, OneOpenRun DEF OpenRuns
<1> QED BY <1>2, <1>3, <1>4, <1>5, <1>6

LEMMA SettleRuns ==
  ASSUME IInv, NEW t \in TaskId, NEW e \in task[t].executions, NEW outcome \in Outcome,
         Settle(t, e, outcome)
  PROVE  /\ OpenRuns(task'[t]) = OpenRuns(task[t]) \ {e}
         /\ \A r \in TaskId \ {t} : task'[r] = task[r]
         /\ task'[t].schedule = task[t].schedule /\ task'[t].pending = task[t].pending
         /\ UNCHANGED <<board, nextRun, clock>>
<1> DEFINE f == [e EXCEPT !.result = outcome]
           after == SettleExecution(task[t], e, outcome)
<1>1. task[t] \in Card /\ e \in Execution
  BY DEF IInv, TypeOK, Card
<1>2. ~IsOpen(f)
  BY <1>1 DEF Execution, IsOpen, Outcome
<1>3. IsOpen(e) => after.executions = (task[t].executions \ {e}) \cup {f}
  BY <1>1 DEF SettleExecution, Card
<1>4. ~IsOpen(e) => after = task[t]
  BY DEF SettleExecution
<1>5. after.schedule = task[t].schedule /\ after.pending = task[t].pending
  BY <1>1 DEF SettleExecution, Card
<1>6. task' = [task EXCEPT ![t] = after] /\ UNCHANGED <<board, nextRun, clock>>
  BY DEF Settle, Put
<1>7. task'[t] = after /\ \A r \in TaskId \ {t} : task'[r] = task[r]
  BY <1>6 DEF IInv, TypeOK
<1> HIDE DEF f, after
<1>8. OpenRuns(after) = OpenRuns(task[t]) \ {e}
  BY <1>2, <1>3, <1>4 DEF OpenRuns
<1> QED BY <1>5, <1>6, <1>7, <1>8

LEMMA ConsumeRuns ==
  ASSUME IInv, NEW t \in TaskId, NEW e \in task[t].executions, ConsumeRework(t, e)
  PROVE  /\ SameRuns
         /\ \A r \in TaskId \ {t} : task'[r] = task[r]
         /\ task'[t].schedule = task[t].schedule
         /\ UNCHANGED <<board, nextRun, clock>>
<1> DEFINE after == [task[t] EXCEPT !.pending = {}]
<1>1. after.executions = task[t].executions /\ after.schedule = task[t].schedule
  BY DEF IInv, TypeOK, Card
<1>2. task' = [task EXCEPT ![t] = after] /\ UNCHANGED <<board, nextRun, clock>>
  BY DEF ConsumeRework, Put
<1>3. task'[t] = after /\ \A r \in TaskId \ {t} : task'[r] = task[r]
  BY <1>2 DEF IInv, TypeOK
<1> HIDE DEF after
<1> QED BY <1>1, <1>2, <1>3 DEF SameRuns, OpenRuns

(* A restart leaves no unsettled run without a session: such a run is the  *)
(* newest of a running card, so it is the one recovery looks at.           *)
LEMMA RestartRuns ==
  ASSUME IInv, Restart, NEW t \in TaskId
  PROVE  /\ \A e \in OpenRuns(task'[t]) : e.session # NoSession
         /\ task'[t].schedule.next # Never => task'[t].schedule.next > clock
         /\ task'[t].pending = task[t].pending
<1>1. task[t] \in Card /\ clock \in Nat /\ nextRun \in Nat /\ Sound(task[t], nextRun)
  BY DEF IInv, TypeOK
<1> DEFINE repaired == [task[t] EXCEPT !.schedule = Repaired(@)]
           e == CHOOSE x \in Interrupted(task[t]) : TRUE
<1>2. /\ repaired \in Card /\ repaired.executions = task[t].executions
      /\ repaired.pending = task[t].pending
      /\ repaired.schedule.next # Never => repaired.schedule.next > clock
  <2>1. repaired.schedule = Repaired(task[t].schedule)
    BY RepairedSound
  <2>2. Repaired(task[t].schedule).next = Never \/ Repaired(task[t].schedule).next > clock
    BY <1>1, RepairSound DEF Sound, Card
  <2>3. repaired \in Card /\ repaired.executions = task[t].executions /\ repaired.pending = task[t].pending
    BY RepairedSound
  <2> HIDE DEF repaired
  <2> QED BY <2>1, <2>2, <2>3
<1>3. CASE t \notin board
  <2>1. task'[t] = NoCard
    BY <1>3 DEF Restart, IInv
  <2> QED BY <1>3, <2>1 DEF NoCard, OpenRuns, Unscheduled, IInv
<1>4. ASSUME t \in board, NEW x \in OpenRuns(task[t]), x.session = NoSession
      PROVE  x \in Interrupted(task[t])
  <2>1. task[t].status = "running"
    BY <1>1, <1>4 DEF Sound, StatusAgrees, HasOpenExecution, OpenRuns
  <2>2. \A d \in task[t].executions : d.id =< x.id
    BY <1>1, <1>4 DEF Sound, IdsOrdered, OpenRuns, Card, Execution
  <2> QED BY <1>4, <2>1, <2>2 DEF Interrupted, OpenRuns
<1>5. CASE t \in board /\ Interrupted(task[t]) = {}
  <2>1. task'[t] = repaired
    BY <1>5 DEF Restart, Recovered
  <2> HIDE DEF repaired
  <2> QED BY <1>2, <1>4, <1>5, <2>1 DEF OpenRuns
<1>6. CASE t \in board /\ Interrupted(task[t]) # {}
  <2>1. e \in Interrupted(task[t]) /\ e \in OpenRuns(task[t]) /\ e \in repaired.executions /\ IsOpen(e)
    BY <1>2, <1>6 DEF Interrupted, OpenRuns
  <2>2. task'[t] = SettleExecution(repaired, e, "cancelled")
    BY <1>6 DEF Restart, Recovered
  <2> DEFINE f == [e EXCEPT !.result = "cancelled"]
  <2>3. ~IsOpen(f)
    BY <1>1, <2>1 DEF Card, Execution, IsOpen, OpenRuns
  <2> HIDE DEF repaired, e
  <2>4. /\ task'[t].executions = (repaired.executions \ {e}) \cup {f}
        /\ task'[t].schedule = repaired.schedule
        /\ task'[t].pending = repaired.pending
    BY <1>2, <2>1, <2>2 DEF SettleExecution, Card
  <2>5. OpenRuns(task'[t]) = {}
    <3>1. \A d \in OpenRuns(task[t]) : d = e
      BY <2>1, OneOpenRun
    <3> HIDE DEF f
    <3> QED BY <1>2, <2>3, <2>4, <3>1 DEF OpenRuns
  <2> QED BY <1>2, <2>4, <2>5
<1> QED BY <1>3, <1>5, <1>6

-----------------------------------------------------------------------------
(* The launches keep matching the runs                                     *)

Paired == Matched /\ PollIsApart

(* Nothing that matters to the pairing moves.                              *)
LEMMA PairedStays ==
  ASSUME Paired, SameRuns, UNCHANGED <<launches, poll, nextRun>>, launches \subseteq Launch
  PROVE  Paired'
BY DEF Paired, Matched, PollIsApart, SameRuns, HandedOver, Launch

(* A run is opened, or none is.                                            *)
LEMMA PairedOpening ==
  ASSUME Paired, HostTypes, IInv, IInv', NEW t \in TaskId, ScheduleLaunch(t), UNCHANGED poll,
         (nextRun' = nextRun /\ SameRuns) \/ NewRun(t)
  PROVE  Paired'
<1>1. nextRun \in Nat /\ launches \subseteq Launch /\ NoSession \notin SessionId
      /\ \A ref \in poll.left : ref.run \in Nat
  BY LedgerAssumption DEF IInv, TypeOK, HostTypes, HostTypeOK, Poll, Reference
<1>2. CASE nextRun' = nextRun /\ SameRuns
  BY <1>1, <1>2, PairedStays DEF ScheduleLaunch
<1>3. CASE NewRun(t)
  <2> DEFINE m == LaunchOf(t, task'[t])
  <2>1. m.task = t /\ m.run = nextRun /\ ~HandedOver(m)
    BY <1>1, LaunchOfType DEF HandedOver, HostTypes
  <2>2. launches' = launches \cup {m}
    BY <1>1, <1>3 DEF NewRun, ScheduleLaunch
  <2>3. PICK d : Fresh(d) /\ OpenRuns(task'[t]) = {d}
    BY <1>3 DEF NewRun
  <2>4. d.id = nextRun /\ d.session = NoSession
    BY <2>3 DEF Fresh
  <2>5. ASSUME NEW l \in launches
        PROVE  /\ l.task \in TaskId /\ l.task # t /\ l.run < nextRun
               /\ OpenRuns(task'[l.task]) = OpenRuns(task[l.task])
    <3>1. l.task \in TaskId
      BY <1>1 DEF Launch
    <3>2. PICK e \in OpenRuns(task[l.task]) : e.id = l.run
      BY DEF Paired, Matched
    <3>3. e.id < nextRun
      BY <3>1, OneOpenRun
    <3>4. l.task # t
      BY <1>3, <3>2 DEF NewRun
    <3> QED BY <1>3, <3>1, <3>2, <3>3, <3>4 DEF NewRun
  <2> HIDE DEF m
  <2>6. Matched'
    <3>1. ASSUME NEW s \in TaskId, NEW e \in OpenRuns(task'[s]), e.session = NoSession
          PROVE  \E l \in launches' : l.task = s /\ l.run = e.id
      <4>1. CASE s = t
        BY <2>1, <2>2, <2>3, <2>4, <3>1, <4>1
      <4>2. CASE s # t
        BY <1>3, <2>2, <3>1, <4>2 DEF NewRun, Paired, Matched
      <4> QED BY <4>1, <4>2
    <3>2. ASSUME NEW l \in launches'
          PROVE  \E e \in OpenRuns(task'[l.task]) : e.id = l.run /\ (e.session = NoSession <=> ~HandedOver(l))
      <4>1. CASE l = m
        BY <2>1, <2>3, <2>4, <4>1
      <4>2. CASE l \in launches
        BY <2>5, <4>2 DEF Paired, Matched
      <4> QED BY <2>2, <4>1, <4>2
    <3>3. ASSUME NEW k \in launches', NEW l \in launches', k.run = l.run PROVE k = l
      <4>1. k \in launches /\ l \in launches => k = l
        BY <3>3 DEF Paired, Matched
      <4>2. k \in launches => k.run # m.run
        BY <1>1, <2>1, <2>5 DEF Launch
      <4>3. l \in launches => l.run # m.run
        BY <1>1, <2>1, <2>5 DEF Launch
      <4> QED BY <2>2, <3>3, <4>1, <4>2, <4>3
    <3> QED BY <3>1, <3>2, <3>3 DEF Matched, HandedOver
  <2>7. PollIsApart'
    <3> SUFFICES ASSUME NEW ref \in poll.left
                 PROVE  /\ ref.run < nextRun'
                        /\ \A l \in launches' : ~(l.task = ref.task /\ l.run = ref.run)
      BY DEF PollIsApart
    <3>1. ref.run < nextRun /\ \A l \in launches : ~(l.task = ref.task /\ l.run = ref.run)
      BY DEF Paired, PollIsApart
    <3>2. ref.run # m.run /\ ref.run < nextRun'
      BY <1>1, <1>3, <2>1, <3>1 DEF NewRun
    <3> QED BY <2>2, <3>1, <3>2
  <2> QED BY <2>6, <2>7 DEF Paired
<1> QED BY <1>2, <1>3

(* Two launches on one card are one launch.                                *)
LEMMA OneLaunchPerCard ==
  ASSUME Paired, HostTypes, IInv, NEW k \in launches, NEW l \in launches, k.task = l.task
  PROVE  k = l
<1>1. l.task \in TaskId
  BY DEF HostTypes, HostTypeOK, Launch
<1>2. PICK e \in OpenRuns(task[l.task]) : e.id = l.run
  BY DEF Paired, Matched
<1>3. PICK d \in OpenRuns(task[l.task]) : d.id = k.run
  BY DEF Paired, Matched
<1>4. d = e
  BY <1>1, OneOpenRun
<1> QED BY <1>2, <1>3, <1>4 DEF Paired, Matched

(* A launch moves on, or is over.  If it is over or has recorded its       *)
(* session, its run has one or is settled.                                 *)
LEMMA PairedLaunch ==
  ASSUME Paired, HostTypes, IInv, NEW l \in launches, UNCHANGED <<poll, nextRun>>,
         \A s \in TaskId \ {l.task} : OpenRuns(task'[s]) = OpenRuns(task[s]),
         NEW M, launches' = (launches \ {l}) \cup M,
         \A m \in M : /\ M = {m} /\ m.task = l.task /\ m.run = l.run
                      /\ \E f : /\ OpenRuns(task'[l.task]) = {f} /\ f.id = l.run
                                /\ f.session = NoSession <=> ~HandedOver(m),
         M = {} => \A e \in OpenRuns(task'[l.task]) : e.session # NoSession
  PROVE  Paired'
<1>1. launches \subseteq Launch /\ l.task \in TaskId
  BY DEF HostTypes, HostTypeOK, Launch
<1>2. \A k \in launches \ {l} : k.task \in TaskId \ {l.task} /\ k.run # l.run
  BY <1>1, OneLaunchPerCard DEF Launch, Paired, Matched
<1>3. ASSUME NEW s \in TaskId, NEW e \in OpenRuns(task'[s]), e.session = NoSession
      PROVE  \E k \in launches' : k.task = s /\ k.run = e.id
  <2>1. CASE s = l.task
    BY <1>3, <2>1
  <2>2. CASE s # l.task
    BY <1>3, <2>2 DEF Paired, Matched
  <2> QED BY <2>1, <2>2
<1>4. ASSUME NEW k \in launches'
      PROVE  \E e \in OpenRuns(task'[k.task]) : e.id = k.run /\ (e.session = NoSession <=> ~HandedOver(k))
  <2>1. CASE k \in M
    BY <2>1
  <2>2. CASE k \in launches \ {l}
    <3>1. OpenRuns(task'[k.task]) = OpenRuns(task[k.task])
      BY <1>2, <2>2
    <3> QED BY <2>2, <3>1 DEF Paired, Matched
  <2> QED BY <2>1, <2>2
<1>5. \A k1, k2 \in launches' : k1.run = k2.run => k1 = k2
  BY <1>2 DEF Paired, Matched
<1>6. Matched'
  BY <1>3, <1>4, <1>5 DEF Matched, HandedOver
<1>7. PollIsApart'
  BY DEF Paired, PollIsApart
<1> QED BY <1>6, <1>7 DEF Paired

LEMMA PairedMove ==
  ASSUME Paired, HostTypes, IInv, NEW l \in launches, UNCHANGED <<poll, nextRun>>,
         \A s \in TaskId \ {l.task} : OpenRuns(task'[s]) = OpenRuns(task[s]),
         NEW m, launches' = (launches \ {l}) \cup {m}, m.task = l.task, m.run = l.run,
         NEW f, OpenRuns(task'[l.task]) = {f}, f.id = l.run,
         f.session = NoSession <=> ~HandedOver(m)
  PROVE  Paired'
<1> DEFINE M == {m}
<1>1. /\ launches' = (launches \ {l}) \cup M /\ M # {}
      /\ \A n \in M : n = m /\ M = {n}
  OBVIOUS
<1> HIDE DEF M
<1>2. \A n \in M : /\ M = {n} /\ n.task = l.task /\ n.run = l.run
                  /\ \E g : /\ OpenRuns(task'[l.task]) = {g} /\ g.id = l.run
                            /\ g.session = NoSession <=> ~HandedOver(n)
  BY <1>1
<1> QED BY <1>1, <1>2, PairedLaunch

LEMMA PairedEnd ==
  ASSUME Paired, HostTypes, IInv, NEW l \in launches, UNCHANGED <<poll, nextRun>>,
         \A s \in TaskId \ {l.task} : OpenRuns(task'[s]) = OpenRuns(task[s]),
         launches' = launches \ {l},
         \A e \in OpenRuns(task'[l.task]) : e.session # NoSession
  PROVE  Paired'
<1> DEFINE M == {}
<1>1. launches' = (launches \ {l}) \cup M /\ M = {}
  OBVIOUS
<1> HIDE DEF M
<1> QED BY <1>1, PairedLaunch

LEMMA LaunchPaired ==
  ASSUME Paired, HostTypes, IInv, NEW l \in launches, LaunchNext(l)
  PROVE  Paired'
<1>1. launches \subseteq Launch /\ l \in Launch /\ l.task \in TaskId /\ poll' = poll
  BY DEF HostTypes, HostTypeOK, Launch, LaunchNext, Created, Prompted, Refused, Fails,
         Reports, Consumes
<1>2. PICK e \in OpenRuns(task[l.task]) : e.id = l.run /\ (e.session = NoSession <=> ~HandedOver(l))
  BY DEF Paired, Matched
<1>3. /\ OpenRuns(task[l.task]) = {e} /\ RunsOf(l) = {e} /\ e \in task[l.task].executions
  BY <1>1, <1>2, OneOpenRun DEF RunsOf, OpenRuns
<1>4. ASSUME UNCHANGED vars, NEW m, m.task = l.task, m.run = l.run, HandedOver(m) <=> HandedOver(l),
             launches' = (launches \ {l}) \cup {m}
      PROVE  Paired'
  <2>1. /\ UNCHANGED <<poll, nextRun>>
        /\ \A s \in TaskId \ {l.task} : OpenRuns(task'[s]) = OpenRuns(task[s])
        /\ OpenRuns(task'[l.task]) = {e}
    BY <1>1, <1>3, <1>4 DEF vars
  <2> QED BY <1>2, <1>4, <2>1, PairedMove
<1>5. CASE Created(l)
  <2> DEFINE s == CHOOSE s \in Runtime!Unborn : TRUE
             m == [l EXCEPT !.session = s, !.stage = "prompting"]
  <2>1. m.task = l.task /\ m.run = l.run /\ ~HandedOver(m) /\ ~HandedOver(l)
    BY <1>1, <1>5 DEF Launch, HandedOver, Created
  <2>2. UNCHANGED vars /\ launches' = (launches \ {l}) \cup {m}
    BY <1>5 DEF Created
  <2> HIDE DEF m
  <2> QED BY <1>4, <2>1, <2>2
<1>6. CASE Prompted(l)
  <2> DEFINE m == [l EXCEPT !.stage = "prompted"]
  <2>1. m.task = l.task /\ m.run = l.run /\ ~HandedOver(m) /\ ~HandedOver(l)
    BY <1>1, <1>6 DEF Launch, HandedOver, Prompted
  <2>2. UNCHANGED vars /\ launches' = (launches \ {l}) \cup {m}
    BY <1>6 DEF Prompted, Becomes
  <2> HIDE DEF m
  <2> QED BY <1>4, <2>1, <2>2
<1>7. CASE Refused(l) \/ Reports(l)
  <2>1. l.session \in SessionId /\ NoSession \notin SessionId
    BY <1>1, <1>7, LedgerAssumption DEF HostTypes, LaunchesHaveSessions, Launch, Refused, Reports
  <2>2. AttachSession(l.task, e, l.session)
    BY <1>3, <1>7 DEF Refused, Reports
  <2>3. PICK f : f.id = e.id /\ f.session = l.session /\ OpenRuns(task'[l.task]) = {f}
    BY <1>1, <2>1, <2>2, AttachRuns
  <2>4. /\ \A s \in TaskId \ {l.task} : OpenRuns(task'[s]) = OpenRuns(task[s])
        /\ nextRun' = nextRun
    BY <1>1, <2>1, <2>2, AttachRuns
  <2>5. ASSUME NEW stage \in {"attached", "refused"}, Becomes(l, stage) PROVE Paired'
    <3> DEFINE m == [l EXCEPT !.stage = stage]
    <3>1. m.task = l.task /\ m.run = l.run /\ HandedOver(m)
      BY <1>1 DEF Launch, HandedOver
    <3>2. launches' = (launches \ {l}) \cup {m}
      BY <2>5 DEF Becomes
    <3> HIDE DEF m
    <3> QED BY <1>1, <1>2, <2>1, <2>3, <2>4, <3>1, <3>2, PairedMove
  <2>6. ASSUME launches' = launches \ {l} PROVE Paired'
    BY <1>1, <2>1, <2>3, <2>4, <2>6, PairedEnd
  <2> QED BY <1>7, <2>5, <2>6 DEF Refused, Reports
<1>8. CASE Fails(l)
  <2>1. Settle(l.task, e, "failed") /\ "failed" \in Outcome
    BY <1>3, <1>8 DEF Fails, Outcome
  <2>2. /\ \A s \in TaskId \ {l.task} : OpenRuns(task'[s]) = OpenRuns(task[s])
        /\ nextRun' = nextRun /\ OpenRuns(task'[l.task]) = {}
    BY <1>1, <1>3, <2>1, SettleRuns
  <2>3. launches' = launches \ {l}
    BY <1>8 DEF Fails
  <2> QED BY <1>1, <2>2, <2>3, PairedEnd
<1>9. CASE Consumes(l)
  <2>1. ConsumeRework(l.task, e) /\ HandedOver(l)
    BY <1>3, <1>9 DEF Consumes, HandedOver
  <2>2. /\ \A s \in TaskId \ {l.task} : OpenRuns(task'[s]) = OpenRuns(task[s])
        /\ nextRun' = nextRun /\ OpenRuns(task'[l.task]) = {e}
    BY <1>1, <1>3, <2>1, ConsumeRuns DEF SameRuns
  <2>3. launches' = launches \ {l}
    BY <1>9 DEF Consumes
  <2> QED BY <1>1, <1>2, <2>1, <2>2, <2>3, PairedEnd
<1> QED BY <1>5, <1>6, <1>7, <1>8, <1>9 DEF LaunchNext

(* The poll inspects only runs no launch reports on.                       *)
LEMMA InspectPaired ==
  ASSUME Paired, HostTypes, IInv, NEW ref \in poll.left, NEW outcome \in Outcome,
         SettleRun(ref, outcome), launches' = launches, poll'.left \subseteq poll.left
  PROVE  Paired'
<1>1. /\ ref.task \in TaskId /\ launches \subseteq Launch
      /\ \A l \in launches : l.task \in TaskId
  BY DEF HostTypes, HostTypeOK, Poll, Reference, Launch
<1>2. PICK e \in task[ref.task].executions : e.id = ref.run /\ Settle(ref.task, e, outcome)
  BY DEF SettleRun, RunsOf
<1>3. /\ \A s \in TaskId \ {ref.task} : OpenRuns(task'[s]) = OpenRuns(task[s])
      /\ nextRun' = nextRun /\ OpenRuns(task'[ref.task]) = OpenRuns(task[ref.task]) \ {e}
  BY <1>1, <1>2, SettleRuns
<1>4. ASSUME NEW l \in launches PROVE OpenRuns(task'[l.task]) = OpenRuns(task[l.task])
  <2>1. CASE l.task # ref.task
    BY <1>1, <1>3, <2>1
  <2>2. CASE l.task = ref.task
    <3>1. l.run # ref.run
      BY <2>2 DEF Paired, PollIsApart
    <3>2. PICK d \in OpenRuns(task[ref.task]) : d.id = l.run
      BY <2>2 DEF Paired, Matched
    <3>3. e \notin OpenRuns(task[ref.task])
      BY <1>1, <1>2, <3>1, <3>2, OneOpenRun
    <3> QED BY <1>3, <2>2, <3>3
  <2> QED BY <2>1, <2>2
<1>5. \A s \in TaskId : OpenRuns(task'[s]) \subseteq OpenRuns(task[s])
  BY <1>3
<1>6. Matched'
  BY <1>4, <1>5 DEF Paired, Matched, HandedOver
<1>7. PollIsApart'
  BY <1>3 DEF Paired, PollIsApart
<1> QED BY <1>6, <1>7 DEF Paired

LEMMA PollPaired ==
  ASSUME Paired, HostTypes, IInv, PollNext
  PROVE  Paired'
<1>1. launches' = launches /\ launches \subseteq Launch
  BY DEF PollNext, PollStarts, RosterTaken, RosterUnknown, RosterArrives, PollEnds,
         InspectsMissing, InspectsPending, InspectsHistory, Inspected, HostTypes, HostTypeOK
<1>2. ASSUME UNCHANGED vars, poll'.left \subseteq poll.left PROVE Paired'
  <2>1. Matched'
    BY <1>1, <1>2 DEF vars, Paired, Matched, OpenRuns, HandedOver
  <2>2. PollIsApart'
    BY <1>1, <1>2 DEF vars, Paired, PollIsApart
  <2> QED BY <2>1, <2>2 DEF Paired
<1>3. CASE PollStarts \/ RosterTaken \/ RosterUnknown \/ PollEnds
  <2>1. PollOff.left = {} /\ [PollOff EXCEPT !.stage = "listing"].left = {}
    BY DEF PollOff
  <2>3. RosterTaken => poll'.left = poll.left
    BY DEF RosterTaken, HostTypes, HostTypeOK, Poll
  <2>4. poll'.left \subseteq poll.left
    BY <1>3, <2>1, <2>3 DEF PollStarts, RosterUnknown, PollEnds
  <2> QED BY <1>2, <1>3, <2>4 DEF PollStarts, RosterTaken, RosterUnknown, PollEnds
<1>4. CASE RosterArrives
  <2> DEFINE left == UNION {AttachedRuns(t) : t \in OpenTasks}
  <2>1. poll'.left = left
    BY <1>4 DEF RosterArrives, HostTypes, HostTypeOK, Poll
  <2>2. UNCHANGED vars
    BY <1>4 DEF RosterArrives
  <2>3. ASSUME NEW ref \in left
        PROVE  ref.run < nextRun /\ \A l \in launches : ~(l.task = ref.task /\ l.run = ref.run)
    <3>1. PICK t \in OpenTasks : ref \in AttachedRuns(t)
      OBVIOUS
    <3>2. PICK e \in OpenRuns(task[t]) : ref.task = t /\ ref.run = e.id /\ e.session # NoSession
      BY <3>1 DEF AttachedRuns, OpenRuns
    <3>3. t \in TaskId
      BY DEF OpenTasks, IInv, TypeOK
    <3>4. ASSUME NEW l \in launches, l.task = t, l.run = e.id PROVE FALSE
      <4>1. PICK d \in OpenRuns(task[t]) : d.session = NoSession <=> ~HandedOver(l)
        BY <3>4 DEF Paired, Matched
      <4>2. d = e
        BY <3>3, OneOpenRun
      <4>3. ~HandedOver(l)
        BY <1>4 DEF RosterArrives, Quiet, HandedOver
      <4> QED BY <3>2, <4>1, <4>2, <4>3
    <3> QED BY <3>2, <3>3, <3>4, OneOpenRun
  <2> HIDE DEF left
  <2>4. Matched'
    BY <1>1, <2>2 DEF vars, Paired, Matched, OpenRuns, HandedOver
  <2>5. PollIsApart'
    BY <1>1, <2>1, <2>2, <2>3 DEF vars, PollIsApart
  <2> QED BY <2>4, <2>5 DEF Paired
<1>5. ASSUME NEW ref \in poll.left,
             InspectsMissing(ref) \/ InspectsPending(ref) \/ InspectsHistory(ref)
      PROVE  Paired'
  <2>1. poll'.left \subseteq poll.left
    BY <1>5 DEF InspectsMissing, InspectsPending, InspectsHistory, Inspected, HostTypes, HostTypeOK, Poll
  <2>2. UNCHANGED vars \/ \E outcome \in Outcome : SettleRun(ref, outcome)
    BY <1>5 DEF InspectsMissing, InspectsPending, InspectsHistory, Outcome
  <2> QED BY <1>1, <1>2, <2>1, <2>2, InspectPaired
<1> QED BY <1>3, <1>4, <1>5 DEF PollNext

(* A dispatcher or a user: the step of the ledger with the launch it       *)
(* schedules.                                                              *)
LEMMA OpeningPaired ==
  ASSUME Paired, HostTypes, IInv, IInv', DispatchNext \/ \E t \in TaskId : Request(t)
  PROVE  Paired'
<1>1. board \subseteq TaskId /\ launches \subseteq Launch
  BY DEF IInv, TypeOK, HostTypes, HostTypeOK
<1>2. ASSUME NEW t \in TaskId, DispatcherNext(t) \/ UserNext(t), ScheduleLaunch(t), UNCHANGED poll
      PROVE  Paired'
  <2>1. Course /\ (OpensNothing \/ OpensOne(t))
    BY <1>2, DispatcherCourse, UserCourse, DispatcherOpens, UserOpens
  <2>2. (nextRun' = nextRun /\ SameRuns) \/ NewRun(t)
    BY <2>1, CourseRuns
  <2> QED BY <1>2, <2>2, PairedOpening
<1>3. ASSUME UNCHANGED <<vars, launches, poll>> PROVE Paired'
  BY <1>1, <1>3, PairedStays DEF vars, SameRuns
<1>4. ASSUME NEW t \in TaskId, Request(t) PROVE Paired'
  BY <1>2, <1>4 DEF Request
<1>5. CASE PassStep
  <2>1. PICK t : OpenGatedRun(t) /\ ScheduleLaunch(t)
    BY <1>5 DEF PassStep
  <2>2. t \in TaskId
    BY <1>1, <2>1 DEF OpenGatedRun, Startable
  <2> QED BY <1>2, <1>5, <2>1, <2>2 DEF PassStep, DispatcherNext
<1>6. CASE PatrolTick \/ Tick
  BY <1>3, <1>6 DEF PatrolTick, Tick
<1>7. CASE TickStep
  <2>1. PICK t : (OpenScheduled(t) \/ UNCHANGED vars) /\ ScheduleLaunch(t)
    BY <1>7 DEF TickStep
  <2>2. CASE OpenScheduled(t)
    <3>1. t \in TaskId
      BY <1>1, <2>2 DEF OpenScheduled, Due
    <3> QED BY <1>2, <1>7, <2>1, <2>2, <3>1 DEF TickStep, DispatcherNext
  <2>3. CASE UNCHANGED vars
    <3>1. launches' = launches
      BY <2>1, <2>3 DEF vars, ScheduleLaunch
    <3> QED BY <1>3, <1>7, <2>3, <3>1 DEF TickStep
  <2> QED BY <2>1, <2>2, <2>3
<1>8. CASE ResumeTick
  <2>1. CASE SkipMissed
    <3>1. Course /\ OpensNothing
      BY <2>1, HostCourse, HostOpens DEF HostNext
    <3>2. nextRun' = nextRun
      BY <2>1 DEF SkipMissed
    <3>3. SameRuns
      <4>1. \A s \in TaskId : task'[s].executions = task[s].executions
        BY <2>1 DEF SkipMissed, IInv, TypeOK, Card
      <4> QED BY <4>1 DEF SameRuns, OpenRuns
    <3> QED BY <1>1, <1>8, <3>2, <3>3, PairedStays DEF ResumeTick
  <2>2. CASE UNCHANGED vars
    BY <1>3, <1>8, <2>2 DEF ResumeTick
  <2> QED BY <1>8, <2>1, <2>2 DEF ResumeTick, SkipMissedIfAny
<1> QED BY <1>4, <1>5, <1>6, <1>7, <1>8 DEF DispatchNext

LEMMA PairedKept ==
  ASSUME Paired, HostTypes, IInv, IInv', [HostServiceNext]_hvars
  PROVE  Paired'
<1>1. launches \subseteq Launch
  BY DEF HostTypes, HostTypeOK
<1>2. ASSUME UNCHANGED <<task, nextRun, launches, poll>> PROVE Paired'
  BY <1>1, <1>2, PairedStays DEF SameRuns
<1>3. ASSUME NEW on \in BOOLEAN, SetActive(on) PROVE Paired'
  <2>1. CASE SkipMissed
    <3>1. nextRun' = nextRun /\ UNCHANGED <<launches, poll>>
      BY <1>3, <2>1 DEF SkipMissed, SetActive
    <3>2. \A s \in TaskId : task'[s].executions = task[s].executions
      BY <2>1 DEF SkipMissed, IInv, TypeOK, Card
    <3> QED BY <1>1, <3>1, <3>2, PairedStays DEF SameRuns, OpenRuns
  <2>2. CASE UNCHANGED vars
    BY <1>2, <1>3, <2>2 DEF SetActive, vars
  <2> QED BY <1>3, <2>1, <2>2 DEF SetActive, SkipMissedIfAny
<1>4. ASSUME NEW c \in CapInputs, Configure(c) PROVE Paired'
  BY <1>2, <1>4 DEF Configure, SetMaxConcurrency, hostVars
<1>5. CASE ClockTicks \/ UNCHANGED hvars
  BY <1>2, <1>5 DEF ClockTicks, TimePasses, hvars, hostVars, vars
<1>6. ASSUME NEW s \in SessionId, TurnBegins(s) \/ TurnEnds(s) \/ UserPrompts(s) \/ UserDeletes(s)
      PROVE  Paired'
  BY <1>2, <1>6 DEF TurnBegins, TurnEnds, UserPrompts, UserDeletes, hostVars, vars
<1>7. CASE HostRestart
  <2>1. Matched'
    BY <1>7, RestartRuns DEF HostRestart, Matched
  <2>2. PollIsApart'
    BY <1>7 DEF HostRestart, PollIsApart, PollOff
  <2> QED BY <2>1, <2>2 DEF Paired
<1> QED BY <1>3, <1>4, <1>5, <1>6, <1>7, LaunchPaired, PollPaired, OpeningPaired DEF HostServiceNext

LEMMA PairedInvariance == HostSpec => []Paired
<1>1. HostInit => Paired
  BY DEF HostInit, Init, Paired, Matched, PollIsApart, PollOff, OpenRuns, NoCard
<1>2. IInv /\ IInv' /\ HostTypes /\ Paired /\ [HostServiceNext]_hvars => Paired'
  BY PairedKept
<1> QED BY <1>1, <1>2, HostInvariance, PTL DEF HostSpec

(* What the process has in memory stays sound: every open run without a    *)
(* session has the one launch that will report on it, and no launch        *)
(* reports on a run that is gone, settled or somebody else's.              *)
THEOREM HostStaysSound == HostSpec => []HostSound
<1>1. ASSUME IInv, HostTypes, Paired PROVE HostSound
  <2>1. \A t \in board : t \in TaskId
    BY <1>1 DEF IInv, TypeOK
  <2>2. \A l \in launches : l.task \in TaskId
    BY <1>1 DEF HostTypes, HostTypeOK, Launch
  <2>3. \A t \in board : \A e \in task[t].executions :
          IsOpen(e) /\ e.session = NoSession
            => \E l \in launches : l.task = t /\ l.run = e.id
    BY <1>1, <2>1 DEF Paired, Matched, OpenRuns
  <2>4. ASSUME NEW l \in launches
        PROVE  /\ l.task \in board
               /\ \E e \in task[l.task].executions :
                    /\ e.id = l.run /\ IsOpen(e)
                    /\ e.session = NoSession \/ l.stage \in {"attached", "refused"}
    <3>1. PICK e \in OpenRuns(task[l.task]) : e.id = l.run /\ (e.session = NoSession <=> ~HandedOver(l))
      BY <1>1 DEF Paired, Matched
    <3>2. l.task \in board
      BY <1>1, <2>2, <3>1, OneOpenRun
    <3> QED BY <3>1, <3>2 DEF OpenRuns, HandedOver
  <2>5. \A k, l \in launches : k.run = l.run => k = l
    BY <1>1 DEF Paired, Matched
  <2>6. LaunchesMatchRuns
    BY <2>3, <2>4, <2>5 DEF LaunchesMatchRuns
  <2> QED BY <1>1, <2>6 DEF HostSound, HostTypes
<1>2. IInv /\ HostTypes /\ Paired => HostSound
  BY <1>1
<1> QED BY <1>2, HostInvariance, PairedInvariance, PTL

-----------------------------------------------------------------------------
(* Notes                                                                   *)

LEMMA AcceptedKept ==
  ASSUME IInv, IInv', HostTypes, AcceptedAreSent, [HostServiceNext]_hvars
  PROVE  AcceptedAreSent'
<1>1. nextRun \in Nat /\ board \subseteq TaskId /\ launches \subseteq Launch
  BY DEF IInv, TypeOK, HostTypes, HostTypeOK
<1>2. ASSUME launches' \subseteq launches, sent' = sent PROVE AcceptedAreSent'
  BY <1>2 DEF AcceptedAreSent
<1>3. ASSUME NEW t \in TaskId, ScheduleLaunch(t), sent' = sent PROVE AcceptedAreSent'
  <2>1. LaunchOf(t, task'[t]).stage \in {"creating", "reusing"}
    BY <1>1, LaunchOfType DEF HostTypes
  <2> QED BY <1>3, <2>1 DEF ScheduleLaunch, AcceptedAreSent
<1>4. ASSUME NEW l \in launches, LaunchNext(l) PROVE AcceptedAreSent'
  <2>1. l \in Launch
    BY <1>1
  <2>2. CASE Created(l)
    <3> DEFINE m == [l EXCEPT !.session = CHOOSE s \in Runtime!Unborn : TRUE, !.stage = "prompting"]
    <3>1. m.stage = "prompting"
      BY <2>1 DEF Launch
    <3>2. launches' \subseteq launches \cup {m} /\ sent' = sent
      BY <2>2 DEF Created
    <3> HIDE DEF m
    <3> QED BY <3>1, <3>2 DEF AcceptedAreSent
  <2>3. CASE Prompted(l)
    BY <2>1, <2>3 DEF Prompted, Becomes, AcceptedAreSent, Launch
  <2>4. CASE Refused(l)
    BY <2>1, <2>4 DEF Refused, Becomes, AcceptedAreSent, Launch
  <2>5. CASE Reports(l)
    BY <2>1, <2>5 DEF Reports, Becomes, AcceptedAreSent, Launch
  <2>6. CASE Fails(l) \/ Consumes(l)
    BY <1>2, <2>6 DEF Fails, Consumes
  <2> QED BY <1>4, <2>2, <2>3, <2>4, <2>5, <2>6 DEF LaunchNext
<1>5. CASE PassStep
  <2>1. PICK t : OpenGatedRun(t) /\ ScheduleLaunch(t)
    BY <1>5 DEF PassStep
  <2>2. t \in TaskId
    BY <1>1, <2>1 DEF OpenGatedRun, Startable
  <2> QED BY <1>3, <1>5, <2>1, <2>2 DEF PassStep
<1>6. CASE TickStep
  <2>1. PICK t : (OpenScheduled(t) \/ Startable(t)) /\ ScheduleLaunch(t)
    BY <1>6 DEF TickStep
  <2>2. t \in TaskId
    BY <1>1, <2>1 DEF OpenScheduled, Due, Startable
  <2> QED BY <1>3, <1>6, <2>1, <2>2 DEF TickStep
<1>7. CASE PatrolTick \/ Tick \/ ResumeTick \/ PollNext \/ (\E on \in BOOLEAN : SetActive(on))
  BY <1>2, <1>7 DEF PatrolTick, Tick, ResumeTick, SetActive, PollNext, PollStarts, RosterTaken,
     RosterUnknown, RosterArrives, PollEnds, InspectsMissing, InspectsPending, InspectsHistory, Inspected
<1>8. CASE (\E c \in CapInputs : Configure(c)) \/ HostRestart \/ ClockTicks \/ UNCHANGED hvars
  BY <1>2, <1>8 DEF Configure, HostRestart, ClockTicks, hvars, hostVars
<1>9. CASE \E s \in SessionId : TurnBegins(s) \/ TurnEnds(s) \/ UserPrompts(s) \/ UserDeletes(s)
  BY <1>2, <1>9 DEF TurnBegins, TurnEnds, UserPrompts, UserDeletes, hostVars
<1>10. ASSUME NEW t \in TaskId, Request(t) PROVE AcceptedAreSent'
  BY <1>3, <1>10 DEF Request
<1> QED BY <1>4, <1>5, <1>6, <1>7, <1>8, <1>9, <1>10 DEF HostServiceNext, DispatchNext

LEMMA AcceptedInvariance == HostSpec => []AcceptedAreSent
<1>1. HostInit => AcceptedAreSent
  BY DEF HostInit, AcceptedAreSent
<1>2. IInv /\ IInv' /\ HostTypes /\ AcceptedAreSent /\ [HostServiceNext]_hvars => AcceptedAreSent'
  BY AcceptedKept
<1> QED BY <1>1, <1>2, HostInvariance, PTL DEF HostSpec

(* A user, a dispatcher or the clock.                                      *)
LEMMA KindsCourse ==
  ASSUME IInv,
         \/ UNCHANGED vars
         \/ \E t \in TaskId : UserNext(t) \/ DispatcherNext(t)
         \/ SkipMissed \/ (\E c \in CapInputs : SetMaxConcurrency(c)) \/ TimePasses
  PROVE  Course
<1>1. CASE UNCHANGED vars
  BY <1>1, RewriteCourse DEF vars, Onward, Retimed
<1> QED BY <1>1, UserCourse, DispatcherCourse, HostCourse

(* A modification note stops being pending only when the prompt that       *)
(* carried it was accepted by a session.                                   *)
THEOREM NotesArrive == HostSpec => NotesReachASession
<1>1. ASSUME IInv, HostTypes, Paired, AcceptedAreSent, [HostServiceNext]_hvars,
             NEW t \in TaskId, SameCard(t), NEW n \in task[t].pending \ task'[t].pending
      PROVE  \E e \in task[t].executions : n \in e.carried /\ e.id \in sent
  <2>1. CASE Course
    BY <1>1, <2>1 DEF Course, Continues, Onward, Arrives, Leaves, SameCard
  <2>2. ASSUME NEW s \in TaskId, NEW e \in task[s].executions,
               \/ \E conversation \in SessionId : AttachSession(s, e, conversation)
               \/ \E outcome \in Outcome : Settle(s, e, outcome)
        PROVE  FALSE
    <3>1. CASE \E conversation \in SessionId : AttachSession(s, e, conversation)
      <4>1. PICK conversation \in SessionId : AttachSession(s, e, conversation)
        BY <3>1
      <4> DEFINE f == [e EXCEPT !.session = conversation]
                 after == [task[s] EXCEPT !.executions = (@ \ {e}) \cup {f}]
      <4>2. task' = [task EXCEPT ![s] = after]
        BY <4>1 DEF AttachSession, Put
      <4>3. after.pending = task[s].pending
        BY <1>1 DEF IInv, TypeOK, Card
      <4> HIDE DEF after
      <4> QED BY <1>1, <4>2, <4>3 DEF IInv, TypeOK
    <3>2. CASE \E outcome \in Outcome : Settle(s, e, outcome)
      <4>1. task'[s].pending = task[s].pending /\ \A r \in TaskId \ {s} : task'[r] = task[r]
        BY <1>1, <3>2, SettleRuns
      <4> QED BY <1>1, <4>1
    <3> QED BY <2>2, <3>1, <3>2
  <2>3. ASSUME NEW l \in launches, Consumes(l)
        PROVE  \E e \in task[t].executions : n \in e.carried /\ e.id \in sent
    <3>1. l.task \in TaskId /\ l.run \in sent
      BY <1>1, <2>3 DEF HostTypes, HostTypeOK, Launch, AcceptedAreSent, Consumes
    <3>2. PICK e \in task[l.task].executions : e.id = l.run /\ ConsumeRework(l.task, e)
      BY <2>3 DEF Consumes, RunsOf
    <3>3. PICK d \in OpenRuns(task[l.task]) : d.id = l.run
      BY <1>1 DEF Paired, Matched
    <3>4. d = e
      BY <1>1, <3>1, <3>2, <3>3, OneOpenRun
    <3>5. task[l.task].pending \subseteq e.carried
      BY <1>1, <3>1, <3>3, <3>4 DEF IInv, Sound, Carried, OpenRuns
    <3>6. t = l.task
      <4>1. \A r \in TaskId \ {l.task} : task'[r] = task[r]
        BY <1>1, <3>1, <3>2, ConsumeRuns
      <4> QED BY <1>1, <4>1
    <3> QED BY <1>1, <3>1, <3>2, <3>5, <3>6
  <2>4. CASE HostRestart
    BY <1>1, <2>4, RestartRuns DEF HostRestart
  <2>5. LedgerKinds
    BY <1>1, HostStepKinds
  <2> QED BY <1>1, <2>1, <2>2, <2>3, <2>4, <2>5, KindsCourse DEF LedgerKinds
<1>2. IInv /\ HostTypes /\ Paired /\ AcceptedAreSent /\ [HostServiceNext]_hvars =>
        [\A t \in TaskId : SameCard(t) =>
           \A n \in task[t].pending \ task'[t].pending :
             \E e \in task[t].executions : n \in e.carried /\ e.id \in sent]_hvars
  BY <1>1
<1> QED BY <1>2, HostInvariance, PairedInvariance, AcceptedInvariance, PTL
        DEF HostSpec, NotesReachASession

-----------------------------------------------------------------------------
(* No backfill                                                             *)

(* The process comes up only with a restart, a resume or a switch.         *)
LEMMA ComesUp ==
  ASSUME [HostServiceNext]_hvars
  PROVE  upSince' = upSince \/ HostRestart \/ ResumeTick \/ SetActive(TRUE)
<1>1. ASSUME NEW on \in BOOLEAN, SetActive(on) PROVE upSince' = upSince \/ SetActive(TRUE)
  BY <1>1 DEF SetActive
<1>2. ASSUME NEW l \in launches, LaunchNext(l) PROVE upSince' = upSince
  BY <1>2 DEF LaunchNext, Created, Prompted, Refused, Fails, Reports, Consumes
<1>3. CASE PollNext
  BY <1>3 DEF PollNext, PollStarts, RosterTaken, RosterUnknown, RosterArrives, PollEnds,
              InspectsMissing, InspectsPending, InspectsHistory, Inspected
<1>4. CASE DispatchNext
  BY <1>4 DEF DispatchNext, PassStep, PatrolTick, Tick, TickStep
<1>5. CASE \E s \in SessionId : TurnBegins(s) \/ TurnEnds(s) \/ UserPrompts(s) \/ UserDeletes(s)
  BY <1>5 DEF TurnBegins, TurnEnds, UserPrompts, UserDeletes, hostVars
<1>6. CASE (\E t \in TaskId : Request(t)) \/ (\E c \in CapInputs : Configure(c)) \/ ClockTicks
           \/ UNCHANGED hvars
  BY <1>6 DEF Request, Configure, ClockTicks, hvars, hostVars
<1> QED BY <1>1, <1>2, <1>3, <1>4, <1>5, <1>6 DEF HostServiceNext

LEMMA CourseAhead ==
  ASSUME IInv, IInv', HostTypes, ArmedAhead, Course, upSince' = upSince,
         clock' = clock \/ clock' = clock + 1
  PROVE  ArmedAhead'
<1>1. clock \in Nat /\ upSince \in Nat /\ upSince =< clock
  BY DEF IInv, TypeOK, HostTypes, HostTypeOK, ArmedAhead
<1>2. ASSUME NEW s \in TaskId, task'[s].schedule.next # Never PROVE task'[s].schedule.next > upSince
  <2>1. task[s].schedule.next \in Int /\ task'[s].schedule.next \in Int
    BY DEF IInv, TypeOK, Card, Schedule, Never
  <2>2. CASE Continues(s)
    BY <1>1, <1>2, <2>1, <2>2 DEF Continues, Onward, Retimed, ArmedAhead
  <2>3. CASE Arrives(s)
    BY <1>1, <1>2, <2>1, <2>3 DEF Arrives
  <2>4. CASE Leaves(s)
    BY <1>2, <2>4 DEF Leaves, IInv, NoCard, Unscheduled
  <2> QED BY <2>2, <2>3, <2>4 DEF Course
<1> QED BY <1>1, <1>2 DEF ArmedAhead

(* Coming up drops what is late, so what is armed is ahead.                *)
LEMMA UpAhead ==
  ASSUME IInv, SkipMissedIfAny, upSince' = clock
  PROVE  ArmedAhead'
<1>1. clock' = clock /\ clock \in Nat
  BY DEF SkipMissedIfAny, SkipMissed, vars, IInv, TypeOK
<1>2. ASSUME NEW s \in TaskId, task'[s].schedule.next # Never PROVE task'[s].schedule.next > clock
  <2>1. /\ task[s] \in Card /\ RuleAgrees(task[s].schedule)
        /\ s \notin board => task[s].schedule.next = Never
    BY DEF IInv, TypeOK, Sound, NoCard, Unscheduled
  <2>2. CASE s \in board /\ Late(task[s].schedule)
    <3> DEFINE after == [task[s] EXCEPT !.schedule = Skipped(@)]
    <3>1. task'[s] = after
      BY <2>2 DEF SkipMissedIfAny, SkipMissed
    <3>2. after.schedule = Skipped(task[s].schedule)
      BY <2>1 DEF Card
    <3>3. Skipped(task[s].schedule).next = Never \/ Skipped(task[s].schedule).next > clock
      BY <1>1, <2>1, <2>2, SkipSound DEF Late, Card
    <3> HIDE DEF after
    <3> QED BY <1>2, <3>1, <3>2, <3>3
  <2>3. CASE ~(s \in board /\ Late(task[s].schedule))
    <3>1. task'[s] = task[s]
      BY <2>3 DEF SkipMissedIfAny, SkipMissed, vars
    <3> QED BY <1>1, <1>2, <2>1, <2>3, <3>1 DEF Late, RuleAgrees, Never, Card, Schedule
  <2> QED BY <2>2, <2>3
<1> QED BY <1>1, <1>2 DEF ArmedAhead

LEMMA AheadKept ==
  ASSUME IInv, IInv', HostTypes, ArmedAhead, [HostServiceNext]_hvars
  PROVE  ArmedAhead'
<1>1. clock' = clock \/ clock' = clock + 1
  BY HostStepIsLedgerStep, ClockMoves
<1>2. CASE ResumeTick \/ SetActive(TRUE)
  BY <1>2, UpAhead DEF ResumeTick, SetActive
<1>3. CASE HostRestart
  <2>1. Restart /\ upSince' = clock /\ clock' = clock /\ clock \in Nat
    BY <1>3 DEF HostRestart, Restart, IInv, TypeOK
  <2>2. \A t \in TaskId : task'[t].schedule.next # Never => task'[t].schedule.next > clock
    BY <2>1, RestartRuns
  <2> QED BY <2>1, <2>2 DEF ArmedAhead
<1>4. CASE upSince' = upSince
  <2>1. ASSUME clock' = clock, NEW t \in TaskId, task'[t].schedule = task[t].schedule,
               \A r \in TaskId \ {t} : task'[r] = task[r]
        PROVE  ArmedAhead'
    BY <1>4, <2>1 DEF ArmedAhead
  <2>2. ASSUME NEW t \in TaskId, NEW e \in task[t].executions, NEW s \in SessionId, AttachSession(t, e, s)
        PROVE  ArmedAhead'
    <3> DEFINE f == [e EXCEPT !.session = s]
               after == [task[t] EXCEPT !.executions = (@ \ {e}) \cup {f}]
    <3>1. task' = [task EXCEPT ![t] = after] /\ clock' = clock
      BY <2>2 DEF AttachSession, Put
    <3>2. after.schedule = task[t].schedule
      BY DEF IInv, TypeOK, Card
    <3> HIDE DEF after
    <3>3. task'[t] = after /\ \A r \in TaskId \ {t} : task'[r] = task[r]
      BY <3>1 DEF IInv, TypeOK
    <3> QED BY <2>1, <3>1, <3>2, <3>3
  <2>3. ASSUME NEW t \in TaskId, NEW e \in task[t].executions, NEW o \in Outcome, Settle(t, e, o)
        PROVE  ArmedAhead'
    BY <2>1, <2>3, SettleRuns
  <2>4. ASSUME NEW l \in launches, Consumes(l) PROVE ArmedAhead'
    <3>1. l.task \in TaskId
      BY DEF HostTypes, HostTypeOK, Launch
    <3>2. PICK e \in task[l.task].executions : ConsumeRework(l.task, e)
      BY <2>4 DEF Consumes, RunsOf
    <3> QED BY <2>1, <3>1, <3>2, ConsumeRuns
  <2>5. LedgerKinds
    BY HostStepKinds
  <2> QED BY <1>1, <1>3, <1>4, <2>2, <2>3, <2>4, <2>5, KindsCourse, CourseAhead DEF LedgerKinds
<1> QED BY <1>2, <1>3, <1>4, ComesUp

LEMMA AheadInvariance == HostSpec => []ArmedAhead
<1>1. HostInit => ArmedAhead
  BY DEF HostInit, Init, ArmedAhead, NoCard, Unscheduled
<1>2. IInv /\ IInv' /\ HostTypes /\ ArmedAhead /\ [HostServiceNext]_hvars => ArmedAhead'
  BY AheadKept
<1> QED BY <1>1, <1>2, HostInvariance, PTL DEF HostSpec

(* The whole inductive invariant.                                          *)
LEMMA HostInvariant == HostSpec => []HostIInv
<1>1. IInv /\ HostTypes /\ Paired /\ AcceptedAreSent /\ ArmedAhead => HostIInv
  BY DEF HostIInv, Paired
<1> QED BY <1>1, HostInvariance, PairedInvariance, AcceptedInvariance, AheadInvariance, PTL

(* The scheduler starts a run only for an occurrence that came due while   *)
(* the process was up and the board enabled.                               *)
THEOREM NothingIsBackfilled == HostSpec => NoBackfill
<1>1. IInv /\ ArmedAhead =>
        [TickStep => \A t \in due : OpenScheduled(t) /\ nextRun' # nextRun
                       => task[t].schedule.next > upSince]_hvars
  BY DEF ArmedAhead, OpenScheduled, Due, Late, IInv, TypeOK
<1> QED BY <1>1, HostInvariance, AheadInvariance, PTL DEF HostSpec, NoBackfill

-----------------------------------------------------------------------------
(* Continuation                                                            *)

(* Everything the gates look at.                                           *)
SameGate(card, after) ==
  /\ after.status = card.status /\ after.archived = card.archived
  /\ after.parents = card.parents /\ after.schedule.armed = card.schedule.armed
  /\ after.permission = card.permission /\ after.handover = card.handover
  /\ after.confirmed = card.confirmed
  /\ HasOpenExecution(after) <=> HasOpenExecution(card)

LEMMA SameGateSameChildren ==
  ASSUME IInv, \A s \in TaskId : SameGate(task[s], task'[s]),
         UNCHANGED <<board, cap, nextRun, active>>
  PROVE  Children' = Children
<1>1. board \subseteq TaskId
  BY DEF IInv, TypeOK
<1>2. OpenTasks' = OpenTasks
  BY <1>1 DEF OpenTasks, SameGate
<1>3. SlotFree' <=> SlotFree
  BY <1>2 DEF SlotFree, OpenExecutionCount
<1>4. ASSUME NEW t \in board
      PROVE  /\ PendingParentTasks(t)' = PendingParentTasks(t)
             /\ Busy(task[t])' <=> Busy(task[t])
             /\ RequiresPermissionConfirmation(task[t])' <=> RequiresPermissionConfirmation(task[t])
  BY <1>1 DEF SameGate, PendingParentTasks, Busy, RequiresPermissionConfirmation, EffectivePermission
<1>5. \A t \in board : Startable(t)' <=> Startable(t)
  BY <1>1, <1>4 DEF Startable, SameGate
<1>6. \A t \in board : Dispatchable(t)' <=> Dispatchable(t)
  BY <1>1, <1>3, <1>5 DEF Dispatchable, SameGate
<1> QED BY <1>1, <1>6 DEF Children, SameGate

(* One card is replaced by one the gates take alike.                       *)
LEMMA PutSameChildren ==
  ASSUME IInv, NEW t \in TaskId, NEW after, SameGate(task[t], after),
         task' = [task EXCEPT ![t] = after], UNCHANGED <<board, cap, nextRun, active>>
  PROVE  Children' = Children
<1>1. \A s \in TaskId : SameGate(task[s], task'[s])
  BY DEF IInv, TypeOK, SameGate
<1> QED BY <1>1, SameGateSameChildren

(* Opening a run takes a slot and a child, and settles no parent.          *)
LEMMA OpeningAddsNoChild ==
  ASSUME IInv, IInv', NEW t \in TaskId, OpensOne(t), task'[t].status = "running",
         nextRun' = nextRun + 1, UNCHANGED active
  PROVE  Children' \subseteq Children
<1>1. board \subseteq TaskId /\ nextRun \in Nat /\ t \in board /\ UNCHANGED <<board, cap>>
  BY DEF IInv, TypeOK, OpensOne, Startable
<1>2. SlotFree /\ \A s \in TaskId \ {t} : task'[s] = task[s]
  BY DEF OpensOne
<1>3. ASSUME NEW s \in Children' PROVE s \in Children
  <2>1. s \in board /\ Dispatchable(s)' /\ (task[s].parents # {})'
    BY <1>1, <1>3 DEF Children
  <2>2. s # t
    BY <2>1 DEF Dispatchable, Startable, Busy
  <2>3. task'[s] = task[s]
    BY <1>1, <1>2, <2>1, <2>2
  <2>4. PendingParentTasks(s)' = {}
    BY <2>1 DEF Dispatchable, Startable
  <2>5. PendingParentTasks(s) = {}
    BY <1>1, <1>2, <2>3, <2>4 DEF PendingParentTasks
  <2>6. Startable(s)
    BY <2>1, <2>3, <2>5 DEF Dispatchable, Startable, Busy, HasOpenExecution,
                            RequiresPermissionConfirmation, EffectivePermission
  <2>7. nextRun =< MaxRuns
    <3>1. nextRun + 1 =< MaxRuns
      BY <2>1 DEF Dispatchable
    <3> QED BY <1>1, <3>1, LedgerAssumption
  <2> QED BY <1>2, <2>1, <2>3, <2>6, <2>7 DEF Children, Dispatchable
<1> QED BY <1>3

LEMMA TickAddsNoChild ==
  ASSUME IInv, IInv', NEW t \in TaskId, OpenScheduled(t), UNCHANGED active
  PROVE  Children' \subseteq Children
<1> DEFINE rolled == [task[t] EXCEPT !.schedule = RollForward(@)]
<1>1. task[t] \in Card
  BY DEF IInv, TypeOK
<1>2. CASE Startable(t) /\ SlotFree /\ Open(t, rolled)
  <2>1. OpensOne(t)
    BY <1>2 DEF Open, Put, OpensOne, IInv, TypeOK
  <2> DEFINE started == StartExecution(rolled)
  <2>2. rolled.schedule = RollForward(task[t].schedule) /\ DOMAIN rolled = DOMAIN task[t]
    BY <1>1 DEF Card
  <2>3. started.status = "running"
    BY <1>1, <2>2 DEF StartExecution, Card
  <2>4. task' = [task EXCEPT ![t] = started] /\ nextRun' = nextRun + 1
    BY <1>2 DEF Open, Put
  <2> HIDE DEF started
  <2>5. task'[t].status = "running"
    BY <2>3, <2>4 DEF IInv, TypeOK
  <2> QED BY <2>1, <2>4, <2>5, OpeningAddsNoChild
<1>3. CASE Put(t, rolled) /\ UNCHANGED nextRun
  <2>1. RollForward(task[t].schedule).armed = task[t].schedule.armed
    BY <1>1 DEF RollForward, Card, Schedule
  <2>2. /\ rolled.status = task[t].status /\ rolled.archived = task[t].archived
        /\ rolled.parents = task[t].parents /\ rolled.schedule = RollForward(task[t].schedule)
        /\ rolled.permission = task[t].permission /\ rolled.handover = task[t].handover
        /\ rolled.confirmed = task[t].confirmed /\ rolled.executions = task[t].executions
    BY <1>1 DEF Card
  <2> HIDE DEF rolled
  <2>3. SameGate(task[t], rolled)
    BY <2>1, <2>2 DEF SameGate, HasOpenExecution
  <2> QED BY <1>3, <2>3, PutSameChildren DEF Put
<1> QED BY <1>2, <1>3 DEF OpenScheduled

LEMMA AttachAddsNoChild ==
  ASSUME IInv, NEW t \in TaskId, NEW e \in task[t].executions, NEW s \in SessionId,
         AttachSession(t, e, s), UNCHANGED active
  PROVE  Children' = Children
<1> DEFINE f == [e EXCEPT !.session = s]
           after == [task[t] EXCEPT !.executions = (@ \ {e}) \cup {f}]
<1>1. task[t] \in Card /\ e \in Execution
  BY DEF IInv, TypeOK, Card
<1>2. IsOpen(f) <=> IsOpen(e)
  BY <1>1 DEF IsOpen, Execution
<1>3. /\ after.status = task[t].status /\ after.archived = task[t].archived
      /\ after.parents = task[t].parents /\ after.schedule = task[t].schedule
      /\ after.permission = task[t].permission /\ after.handover = task[t].handover
      /\ after.confirmed = task[t].confirmed
      /\ after.executions = (task[t].executions \ {e}) \cup {f}
  BY <1>1 DEF Card
<1>4. task' = [task EXCEPT ![t] = after] /\ UNCHANGED <<board, cap, nextRun>>
  BY DEF AttachSession, Put
<1> HIDE DEF f, after
<1>5. SameGate(task[t], after)
  BY <1>2, <1>3 DEF SameGate, HasOpenExecution
<1> QED BY <1>4, <1>5, PutSameChildren

LEMMA ConsumeAddsNoChild ==
  ASSUME IInv, NEW t \in TaskId, NEW e \in task[t].executions, ConsumeRework(t, e), UNCHANGED active
  PROVE  Children' = Children
<1> DEFINE after == [task[t] EXCEPT !.pending = {}]
<1>1. /\ after.status = task[t].status /\ after.archived = task[t].archived
      /\ after.parents = task[t].parents /\ after.schedule = task[t].schedule
      /\ after.permission = task[t].permission /\ after.handover = task[t].handover
      /\ after.confirmed = task[t].confirmed /\ after.executions = task[t].executions
  BY DEF IInv, TypeOK, Card
<1>2. task' = [task EXCEPT ![t] = after] /\ UNCHANGED <<board, cap, nextRun>>
  BY DEF ConsumeRework, Put
<1> HIDE DEF after
<1>3. SameGate(task[t], after)
  BY <1>1 DEF SameGate, HasOpenExecution
<1> QED BY <1>2, <1>3, PutSameChildren

(* The ledger is left alone, but for the clock.                            *)
LEMMA IdleChildren ==
  ASSUME IInv, UNCHANGED <<board, task, cap, nextRun, active>>
  PROVE  Children' = Children
<1>1. \A s \in TaskId : SameGate(task[s], task'[s])
  BY DEF SameGate
<1> QED BY <1>1, SameGateSameChildren

LEMMA LaunchHandsOn ==
  ASSUME IInv, HostTypes, NEW l \in launches, LaunchNext(l), HandedOn
  PROVE  HandedOn'
<1>1. l \in Launch /\ l.task \in TaskId /\ RunsOf(l) \subseteq task[l.task].executions
  BY DEF HostTypes, HostTypeOK, Launch, RunsOf
<1>2. l.stage # "creating" => l.session \in SessionId
  BY <1>1 DEF HostTypes, LaunchesHaveSessions, Launch
<1>3. ASSUME Quiet, Children' = Children, UNCHANGED poll PROVE HandedOn'
  BY <1>3 DEF Quiet, HandedOn
<1>4. CASE Created(l) \/ Prompted(l)
  BY <1>3, <1>4, IdleChildren DEF Created, Prompted, vars
<1>5. CASE Refused(l)
  <2> DEFINE m == [l EXCEPT !.stage = "refused"]
  <2>1. m.stage = "refused"
    BY <1>1 DEF Launch
  <2>2. m \in launches'
    BY <1>5 DEF Refused, Becomes
  <2> HIDE DEF m
  <2> QED BY <2>1, <2>2 DEF HandedOn
<1>6. CASE Fails(l)
  BY <1>6 DEF Fails, Continue, HandedOn
<1>7. CASE Reports(l)
  <2>1. PICK e \in RunsOf(l) : AttachSession(l.task, e, l.session)
    BY <1>7 DEF Reports
  <2>2. l.session \in SessionId /\ Quiet /\ UNCHANGED <<active, poll>>
    BY <1>2, <1>7 DEF Reports
  <2> QED BY <1>1, <1>3, <2>1, <2>2, AttachAddsNoChild
<1>8. CASE Consumes(l)
  <2>1. PICK e \in RunsOf(l) : ConsumeRework(l.task, e)
    BY <1>8 DEF Consumes
  <2>2. Children' = Children
    BY <1>1, <1>8, <2>1, ConsumeAddsNoChild DEF Consumes
  <2> QED BY <1>8, <2>2 DEF Consumes, HandedOn
<1> QED BY <1>4, <1>5, <1>6, <1>7, <1>8 DEF LaunchNext

LEMMA PollHandsOn ==
  ASSUME IInv, HostTypes, PollNext, HandedOn
  PROVE  HandedOn'
<1>1. poll \in Poll
  BY DEF HostTypes, HostTypeOK
<1>2. CASE PollStarts
  BY <1>2, IdleChildren DEF PollStarts, HandedOn, Quiet, vars
<1>3. CASE RosterTaken
  BY <1>3, IdleChildren DEF RosterTaken, HandedOn, vars
<1>4. CASE RosterUnknown
  BY <1>4, IdleChildren DEF RosterUnknown, HandedOn, vars
<1>5. CASE RosterArrives
  BY <1>1, <1>5 DEF RosterArrives, HandedOn, Poll
<1>6. CASE PollEnds
  BY <1>6 DEF PollEnds, Continue, HandedOn
<1>7. ASSUME NEW ref \in poll.left, Inspected(ref) PROVE HandedOn'
  BY <1>1, <1>7 DEF Inspected, HandedOn, Poll
<1> QED BY <1>2, <1>3, <1>4, <1>5, <1>6, <1>7
        DEF PollNext, InspectsMissing, InspectsPending, InspectsHistory

LEMMA DispatchHandsOn ==
  ASSUME IInv, IInv', HostTypes, DispatchNext, HandedOn
  PROVE  HandedOn'
<1>1. CASE PassStep
  BY <1>1 DEF PassStep, HandedOn
<1>2. CASE PatrolTick
  BY <1>2 DEF PatrolTick, HandedOn
<1>3. CASE Tick
  BY <1>3, IdleChildren DEF Tick, HandedOn, Quiet, vars
<1>4. CASE TickStep
  <2>1. PICK t : /\ OpenScheduled(t) \/ (Startable(t) /\ UNCHANGED vars)
                 /\ ScheduleLaunch(t)
    BY <1>4 DEF TickStep
  <2>2. t \in TaskId
    BY <2>1 DEF OpenScheduled, Due, Startable, IInv, TypeOK
  <2>3. Children' \subseteq Children
    BY <1>4, <2>1, <2>2, TickAddsNoChild, IdleChildren DEF TickStep, vars
  <2>4. launches \subseteq launches'
    BY <2>1 DEF ScheduleLaunch
  <2> QED BY <1>4, <2>3, <2>4 DEF TickStep, HandedOn
<1>5. CASE ResumeTick
  BY <1>5 DEF ResumeTick, Continue, HandedOn
<1> QED BY <1>1, <1>2, <1>3, <1>4, <1>5 DEF DispatchNext

(* Nothing the process does leaves a startable child waiting with nobody   *)
(* to start it, unless it raises the cap.                                  *)
THEOREM ChildrenAreHandedOn == HostSpec => ContinuationIsPrompt
<1>1. ASSUME IInv, IInv', HostTypes, HandedOn, cap' = cap, [HostServiceNext]_hvars
      PROVE  HandedOn'
  <2>1. ASSUME NEW t \in TaskId, Request(t) PROVE HandedOn'
    BY <2>1 DEF Request, Continue, HandedOn
  <2>2. ASSUME NEW on \in BOOLEAN, SetActive(on) PROVE HandedOn'
    <3>1. CASE on
      BY <2>2, <3>1 DEF SetActive, Continue, HandedOn
    <3>2. CASE ~on
      <4>1. active' = FALSE
        BY <2>2, <3>2 DEF SetActive
      <4>2. Children' = {}
        BY <4>1 DEF Children, Dispatchable
      <4> QED BY <4>2 DEF HandedOn
    <3> QED BY <3>1, <3>2
  <2>3. ASSUME NEW c \in CapInputs, Configure(c) PROVE HandedOn'
    BY <1>1, <2>3, IdleChildren DEF Configure, SetMaxConcurrency, hostVars, HandedOn
  <2>4. CASE HostRestart
    BY <2>4 DEF HostRestart, Continue, HandedOn
  <2>5. CASE ClockTicks \/ UNCHANGED hvars
    BY <1>1, <2>5, IdleChildren DEF ClockTicks, TimePasses, hvars, vars, hostVars, HandedOn
  <2>6. CASE \E s \in SessionId : TurnBegins(s) \/ TurnEnds(s) \/ UserPrompts(s) \/ UserDeletes(s)
    BY <1>1, <2>6, IdleChildren DEF TurnBegins, TurnEnds, UserPrompts, UserDeletes, vars, hostVars, HandedOn
  <2> QED BY <1>1, <2>1, <2>2, <2>3, <2>4, <2>5, <2>6, LaunchHandsOn, PollHandsOn, DispatchHandsOn
          DEF HostServiceNext
<1>2. IInv /\ IInv' /\ HostTypes /\ [HostServiceNext]_hvars
        => [cap' = cap /\ HandedOn => HandedOn']_hvars
  BY <1>1
<1> QED BY <1>2, HostInvariance, PTL DEF HostSpec, ContinuationIsPrompt
=============================================================================
