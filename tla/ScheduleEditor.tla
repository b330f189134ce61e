--------------------------- MODULE ScheduleEditor ---------------------------
(***************************************************************************)
(* The schedule editor of a card's details                                 *)
(* (src/src/client/board/ScheduleEditor.tsx, ScheduleSection of            *)
(* TaskDetail.tsx) and the bridge between its tabs and a cron expression   *)
(* (src/src/client/schedule-spec.ts).                                      *)
(*                                                                         *)
(* The tab's view of the card's rule is external here: what was submitted  *)
(* waits in the controller's queue of the card until it is applied or      *)
(* refused, and other clients set the rule in between (BoardClient has the *)
(* transport).                                                             *)
(***************************************************************************)
EXTENDS CronSchedule, SequencesExt

CONSTANTS
  DefaultHour, DefaultEvery,  \* 9 o'clock, every 10 minutes
  Workdays,     \* the days a weekly rule starts with
  HourInputs,   \* the hours the user picks
  Texts,        \* what the user types
  StartRules,   \* the rules a card may have
  MaxSteps,     \* bound on what the user and other clients do
  MaxQueued     \* bound on the submissions that wait

Nothing == [text |-> "nothing"]

(* What parseField tells apart: "*", or a list of ranges with a step.      *)
FieldText == [star : BOOLEAN, parts : SUBSET [low : Nat, high : Nat, step : Nat]]
Expression == [minute : FieldText, hour : FieldText, day : FieldText, month : FieldText, weekday : FieldText]

(* An hour has more than one minute, a day more than one hour.             *)
ASSUME EditorAssumption ==
  /\ MinutesPerHour > 1 /\ HoursPerDay > 1
  /\ DefaultHour \in 1..(HoursPerDay - 1) /\ DefaultEvery \in 1..(MinutesPerHour - 1)
  /\ Workdays \subseteq 0..(WeekdayCount - 1) /\ Workdays # {}
  /\ HourInputs \subseteq 0..(HoursPerDay - 1)
  /\ \A expr \in Rules \cup Texts \cup StartRules : expr \in Expression \/ expr \in {Nothing, NotCron}
  /\ Nothing \notin Rules \cup Texts /\ MaxQueued \in Nat \ {0}

VARIABLES
  stored,    \* the card's rule as the tab sees it
  cron,      \* the section's copy
  editor,    \* the editor, or Closed
  pending,   \* the rules that were submitted, in the card's queue
  adrift,    \* history: a submitted rule that the tab never came to see
  steps

editorVars == <<stored, cron, editor, pending, adrift, steps>>
Closed == [kind |-> "closed"]

-----------------------------------------------------------------------------
(* Tabs and expressions                                                    *)

Daily(hour, minute) == [kind |-> "daily", hour |-> hour, minute |-> minute]
Weekly(days, hour, minute) == [kind |-> "weekly", days |-> days, hour |-> hour, minute |-> minute]
Monthly(day, hour, minute) == [kind |-> "monthly", day |-> day, hour |-> hour, minute |-> minute]
Interval(unit, every) == [kind |-> "interval", unit |-> unit, every |-> every]
Custom(text) == [kind |-> "custom", cron |-> text]

At(hour, minute) ==
  [minute |-> List({minute}), hour |-> List({hour}), day |-> Star, month |-> Star, weekday |-> Star]

(* specToCron; Sunday is written as the last day.                          *)
SpecToCron(spec) ==
  CASE spec.kind = "daily" -> At(spec.hour, spec.minute)
    [] spec.kind = "weekly" ->
         IF spec.days = {} THEN NotCron
         ELSE [At(spec.hour, spec.minute) EXCEPT
                 !.weekday = List({IF d = 0 THEN WeekdayCount ELSE d : d \in spec.days})]
    [] spec.kind = "monthly" -> [At(spec.hour, spec.minute) EXCEPT !.day = List({spec.day})]
    [] spec.kind = "interval" ->
         IF spec.unit = "minute"
         THEN [At(0, 0) EXCEPT !.hour = Star,
                 !.minute = IF spec.every = 1 THEN Star ELSE Every("minute", spec.every)]
         ELSE [At(0, 0) EXCEPT !.hour = IF spec.every = 1 THEN Star ELSE Every("hour", spec.every)]
    [] OTHER -> IF IsValidCron(spec.cron) THEN spec.cron ELSE NotCron

(* stepOf, 0 for a set that has none.  Where the set ends is not asked.    *)
StepOf(values) ==
  IF 0 \notin values THEN 0
  ELSE IF values = {0} THEN 1
  ELSE LET step == Min(values \ {0}) IN
       IF values = {v \in 0..Max(values) : v % step = 0} THEN step ELSE 0

Only(set) == CHOOSE value \in set : TRUE

WeeklyTab(p) == p.dayWildcard /\ ~p.weekdayWildcard
(* Mutant: several days of the month are shown as one. *)
MonthlyTabAnyDays(p) == p.weekdayWildcard /\ ~p.dayWildcard
MonthlyTab(p) == p.weekdayWildcard /\ ~p.dayWildcard /\ Cardinality(p.days) = 1

(* cronToSpec: the first tab, in their order, that describes it.           *)
CronToSpec(expr) ==
  IF ~IsValidCron(expr) THEN Custom(expr)
  ELSE LET p == ParseCron(expr)
           yearly == p.months = 1..MonthCount
           anyDay == p.dayWildcard /\ p.weekdayWildcard /\ yearly
           once == Cardinality(p.hours) = 1 /\ Cardinality(p.minutes) = 1 /\ yearly
           allDay == p.hours = 0..(HoursPerDay - 1)
           minuteStep == StepOf(p.minutes) IN
       IF anyDay /\ allDay /\ (minuteStep > 1 \/ p.minutes = 0..(MinutesPerHour - 1))
       THEN Interval("minute", minuteStep)
       ELSE IF anyDay /\ p.minutes = {0} /\ StepOf(p.hours) # 0 THEN Interval("hour", StepOf(p.hours))
       ELSE IF anyDay /\ once THEN Daily(Only(p.hours), Only(p.minutes))
       ELSE IF WeeklyTab(p) /\ once THEN Weekly(p.weekdays, Only(p.hours), Only(p.minutes))
       ELSE IF MonthlyTab(p) /\ once THEN Monthly(Only(p.days), Only(p.hours), Only(p.minutes))
       ELSE Custom(expr)

-----------------------------------------------------------------------------
(* The section and the editor in it                                        *)

(* A card without a rule shows nine o'clock.                               *)
Shown(rule_) == IF rule_ = Nothing THEN At(DefaultHour, 0) ELSE rule_

EffectiveCron(e) ==
  LET own == IF e.spec.kind = "custom" THEN e.text ELSE SpecToCron(e.spec) IN
  IF IsValidCron(own) THEN own ELSE e.lastValid

(* Mutant: a new editor starts at nine o'clock, whatever the rule. *)
MountedAtDefault(expr) ==
  [kind |-> "open", spec |-> Daily(DefaultHour, 0), text |-> NotCron,
   emitted |-> At(DefaultHour, 0), lastValid |-> At(DefaultHour, 0)]

(* The state of a new editor, and what its mount pushes up.                *)
Mounted(expr) ==
  LET spec == CronToSpec(expr)
      own == SpecToCron(spec)
      e == [kind |-> "open", spec |-> spec, text |-> IF spec.kind = "custom" THEN expr ELSE NotCron,
            emitted |-> expr, lastValid |-> IF own = NotCron THEN expr ELSE own] IN
  [e EXCEPT !.emitted = EffectiveCron(e), !.lastValid = EffectiveCron(e)]

(* Mutant: what came from outside is not noted. *)
SyncedUnnoted(e, expr) ==
  IF e = Closed \/ e.emitted = expr THEN e ELSE [e EXCEPT !.spec = CronToSpec(expr)]

(* The property changed: unless it is the echo of what was handed up, the  *)
(* editor starts from it again.                                            *)
Synced(e, expr) ==
  IF e = Closed \/ e.emitted = expr THEN e
  ELSE LET spec == CronToSpec(expr)
           own == SpecToCron(spec) IN
       [e EXCEPT !.spec = spec, !.text = IF spec.kind = "custom" THEN expr ELSE NotCron,
                 !.emitted = expr, !.lastValid = IF own = NotCron THEN @ ELSE own]

Stepped == steps < MaxSteps /\ steps' = steps + 1

(* commitCron: what is the card's rule already is not submitted.  What is  *)
(* waits behind the submissions before it (commitRemote).                  *)
Submit(expr) == pending' = IF expr = stored THEN pending ELSE Append(pending, expr)

(* A card's details may be opened while submissions of it wait: the mount  *)
(* does not ask whether the controls are disabled.  The section's effect   *)
(* comes after the editor's and puts its copy back.                        *)
OpenEditor ==
  /\ editor = Closed /\ Len(pending) < MaxQueued
  /\ editor' = Mounted(Shown(stored)) /\ cron' = Shown(stored)
  /\ IF editor'.emitted # cron' THEN Submit(editor'.emitted) ELSE UNCHANGED pending
  /\ adrift' = FALSE
  /\ UNCHANGED <<stored, steps>>

CloseEditor == editor # Closed /\ editor' = Closed /\ UNCHANGED <<stored, cron, pending, adrift, steps>>

(* The controls are disabled while an operation of the card is pending.    *)
Usable(kinds) == editor # Closed /\ pending = <<>> /\ editor.spec.kind \in kinds /\ Stepped

HandUp(e) ==
  /\ editor' = e /\ cron' = e.emitted /\ Submit(e.emitted)
  /\ adrift' = (adrift /\ e.emitted # stored)
  /\ UNCHANGED stored

(* commit: a choice that is no rule is not taken.                          *)
Commit(spec) ==
  LET expr == SpecToCron(spec) IN
  IF expr = NotCron THEN UNCHANGED <<stored, cron, editor, pending, adrift>>
  ELSE HandUp([editor EXCEPT !.spec = spec, !.lastValid = expr, !.emitted = expr])

TimedTabs == {"daily", "weekly", "monthly"}
Tabs == TimedTabs \cup {"interval", "custom"}

SwitchTab(kind) ==
  /\ Usable(Tabs \ {kind})
  /\ LET spec == editor.spec
         timed == spec.kind \in TimedTabs
         hour == IF timed THEN spec.hour ELSE DefaultHour
         minute == IF timed THEN spec.minute ELSE 0 IN
     CASE kind = "custom" ->
            /\ editor' = [editor EXCEPT !.spec = Custom(NotCron), !.text = EffectiveCron(editor)]
            /\ UNCHANGED <<stored, cron, pending, adrift>>
       [] kind = "daily" -> Commit(Daily(hour, minute))
       [] kind = "weekly" -> Commit(Weekly(Workdays, hour, minute))
       [] kind = "monthly" -> Commit(Monthly(1, hour, minute))
       [] OTHER -> Commit(Interval("minute", DefaultEvery))

SetTime == Usable(TimedTabs) /\ \E h \in HourInputs, m \in 0..(MinutesPerHour - 1) :
  Commit([editor.spec EXCEPT !.hour = h, !.minute = m])
ToggleDay == Usable({"weekly"}) /\ \E d \in 0..(WeekdayCount - 1) :
  Commit([editor.spec EXCEPT !.days = IF d \in @ THEN @ \ {d} ELSE @ \cup {d}])
SetMonthDay == Usable({"monthly"}) /\ \E d \in 1..MaxDays : Commit([editor.spec EXCEPT !.day = d])

Longest(unit) == (IF unit = "minute" THEN MinutesPerHour ELSE HoursPerDay) - 1
SetUnit == Usable({"interval"}) /\ \E unit \in {"minute", "hour"} :
  Commit(Interval(unit, Min({editor.spec.every, Longest(unit)})))
SetEvery == Usable({"interval"}) /\ \E every \in 1..Longest(editor.spec.unit) :
  Commit([editor.spec EXCEPT !.every = every])

TypeText == Usable({"custom"}) /\ \E text \in Texts :
  editor' = [editor EXCEPT !.text = text] /\ UNCHANGED <<stored, cron, pending, adrift>>
CommitCustom ==
  /\ Usable({"custom"}) /\ IsValidCron(editor.text)
  /\ HandUp([editor EXCEPT !.lastValid = editor.text, !.emitted = editor.text])

-----------------------------------------------------------------------------
(* What comes from outside                                                 *)

(* The section's effect: its copy and the editor follow the card's rule.   *)
Follow(expr) ==
  /\ IF editor = Closed THEN UNCHANGED <<cron, editor>>
     ELSE cron' = Shown(expr) /\ editor' = IF cron' = cron THEN editor ELSE Synced(editor, cron')

Applied ==
  /\ pending # <<>> /\ pending' = Tail(pending)
  /\ stored' = Head(pending) /\ Follow(stored') /\ adrift' = FALSE
  /\ UNCHANGED steps

(* Refused, or undone by another client before the tab came to see it.     *)
NeverSeen ==
  /\ pending # <<>> /\ pending' = Tail(pending) /\ adrift' = TRUE
  /\ UNCHANGED <<stored, cron, editor, steps>>

OtherClient ==
  /\ Stepped
  /\ \E expr \in StartRules \ {stored, Nothing, NotCron} : stored' = expr /\ Follow(expr)
  /\ adrift' = FALSE
  /\ UNCHANGED pending

(* A run was triggered: the times of the rule changed.                     *)
RuleRolls ==
  /\ stored # Nothing /\ Follow(stored) /\ adrift' = FALSE
  /\ UNCHANGED <<stored, pending, steps>>

EditorInit ==
  /\ stored \in StartRules /\ cron = Nothing /\ editor = Closed
  /\ pending = <<>> /\ adrift = FALSE /\ steps = 0

EditorNext ==
  \/ OpenEditor \/ CloseEditor \/ \E kind \in Tabs : SwitchTab(kind)
  \/ SetTime \/ ToggleDay \/ SetMonthDay \/ SetUnit \/ SetEvery \/ TypeText \/ CommitCustom
  \/ Applied \/ NeverSeen \/ OtherClient \/ RuleRolls

EditorSpec == EditorInit /\ [][EditorNext]_editorVars

-----------------------------------------------------------------------------
(* Properties                                                              *)

SameTimes(a, b) == a = b \/ (IsValidCron(a) /\ IsValidCron(b) /\ ParseCron(a) = ParseCron(b))

(* The set is taken for a step from zero, and ends before the last value. *)
EndsEarly(values, top) == StepOf(values) # 0 /\ values # {v \in 0..top : v % StepOf(values) = 0}

(* The rules that are shown as another: every day at midnight, at hours    *)
(* stepped from midnight or at minutes stepped from the hour, but not to   *)
(* the end of the day or of the hour.                                      *)
Rewritten(expr) ==
  /\ IsValidCron(expr)
  /\ LET p == ParseCron(expr) IN
     /\ p.dayWildcard /\ p.weekdayWildcard /\ p.months = 1..MonthCount
     /\ \/ p.minutes = {0} /\ EndsEarly(p.hours, HoursPerDay - 1)
        \/ /\ p.hours = 0..(HoursPerDay - 1) /\ StepOf(p.minutes) > 1
           /\ EndsEarly(p.minutes, MinutesPerHour - 1)

Returned(expr) == LET spec == CronToSpec(expr) IN spec.kind = "custom" \/ SameTimes(SpecToCron(spec), expr)

(* The tab of a rule gives back its times, or leaves it to the custom tab, *)
(* for exactly the rules that are not named above (cronToSpec, stepOf).    *)
TabReturnsRule == IsValidCron(rule) => (Returned(rule) <=> ~Rewritten(rule))

(* Nobody asks for midnight, and no rule is one that its tab rewrites.     *)
AtMidnight(expr) == IsValidCron(expr) /\ ParseCron(expr).hours = {0} /\ ParseCron(expr).minutes = {0}
NoMidnight ==
  /\ 0 \notin HourInputs
  /\ \A expr \in (StartRules \cup Texts) \ {Nothing} : ~Rewritten(expr) /\ ~AtMidnight(expr)

(* The card's rule once everything that waits has been applied.            *)
Wanted == IF pending = <<>> THEN stored ELSE Last(pending)

(* The mount behind a waiting choice: the tab still has the old rule, its  *)
(* tab writes it in another way, and the old times are submitted last.     *)
UndoesChoice ==
  /\ pending # <<>> /\ SameTimes(Wanted', stored)
  /\ SpecToCron(CronToSpec(Shown(stored))) \notin {stored, NotCron}

(* Looking at a card leaves its runs alone: the mount of the editor (133-  *)
(* 144) leaves the card on its way to the same times as before it, but in  *)
(* the case above, which takes a submission that still waits and a rule    *)
(* that no tab writes as it stands.                                        *)
OpeningKeepsRule ==
  [][editor = Closed /\ editor' # Closed => SameTimes(Wanted', Wanted) \/ UndoesChoice]_editorVars

(* A structured tab shows the rule that was handed up or came from outside,*)
(* through echoes, foreign changes and choices that are no rule (76, 122). *)
TabShowsRule ==
  editor # Closed /\ editor.spec.kind # "custom" => SameTimes(SpecToCron(editor.spec), editor.emitted)

(* With nothing pending and nothing refused, the section and the editor    *)
(* stand at the card's rule, whoever set it last.                          *)
EditorFollows ==
  editor # Closed /\ pending = <<>> /\ ~adrift => cron = Shown(stored) /\ SameTimes(editor.emitted, cron)

(* The card, the section and the editor agree on the rule.                 *)
EditorAgrees == TabShowsRule /\ EditorFollows
=============================================================================
