---------------------------- MODULE CronSchedule ----------------------------
(***************************************************************************)
(* Five-field cron rules and their next occurrence                         *)
(* (src/src/core/schedule.ts), over a calendar whose sizes are parameters. *)
(*                                                                         *)
(* An expression is kept as it is typed, field by field: "*", or a list of *)
(* ranges with a step.  The text around it is left out, but for texts that *)
(* are no expression at all (NotCron).                                     *)
(***************************************************************************)
EXTENDS Integers, FiniteSets, FiniteSetsExt

CONSTANTS
  MinutesPerHour, HoursPerDay, WeekdayCount, MonthCount,
  YearCount,   \* bound of the calendar
  MonthDays,   \* [leap \in BOOLEAN -> [1..MonthCount -> Nat]]
  LeapYears,
  SummerStart, SummerEnd,  \* instants at which the clock is put forward, back
  Horizon,     \* the five years of 93
  Rules,       \* the expressions of an instance
  LastInstant  \* bound on the clock of an instance

(* The clock is put forward on the hour, and not back within an hour.      *)
ASSUME CalendarAssumption ==
  /\ {MinutesPerHour, HoursPerDay, WeekdayCount, MonthCount, YearCount} \subseteq Nat \ {0}
  /\ MonthDays \in [BOOLEAN -> [1..MonthCount -> Nat \ {0}]]
  /\ \A month \in 1..MonthCount : MonthDays[FALSE][month] <= MonthDays[TRUE][month]
  /\ {SummerStart, SummerEnd} \subseteq Int /\ SummerStart % MinutesPerHour = 0
  /\ SummerStart < SummerEnd => SummerStart + MinutesPerHour <= SummerEnd
  /\ {Horizon, LastInstant} \subseteq Nat

VARIABLES rule, now
cronVars == <<rule, now>>

-----------------------------------------------------------------------------
(* Expressions                                                             *)

Fields == {"minute", "hour", "day", "month", "weekday"}
MaxDays == Max({MonthDays[TRUE][month] : month \in 1..MonthCount})

(* FIELD_RANGES; the last weekday is the first again.                      *)
RangeOf == [minute |-> <<0, MinutesPerHour - 1>>, hour |-> <<0, HoursPerDay - 1>>,
            day |-> <<1, MaxDays>>, month |-> <<1, MonthCount>>, weekday |-> <<0, WeekdayCount>>]

Star == [star |-> TRUE, parts |-> {}]
Part(low, high, step) == [low |-> low, high |-> high, step |-> step]
List(values) == [star |-> FALSE, parts |-> {Part(v, v, 1) : v \in values}]
Every(field, step) == [star |-> FALSE, parts |-> {Part(RangeOf[field][1], RangeOf[field][2], step)}]
NotCron == [text |-> "no cron"]

(* parseField: every part within the range, in order, with a step.         *)
PartIsValid(field, p) == RangeOf[field][1] <= p.low /\ p.low <= p.high /\ p.high <= RangeOf[field][2] /\ p.step >= 1
FieldIsValid(field, f) == f.star \/ (f.parts # {} /\ \A p \in f.parts : PartIsValid(field, p))
FieldSet(field, f) ==
  LET all == RangeOf[field][1]..RangeOf[field][2] IN
  IF f.star THEN all ELSE {v \in all : \E p \in f.parts : v \in p.low..p.high /\ (v - p.low) % p.step = 0}

IsValidCron(expr) == expr # NotCron /\ \A field \in Fields : FieldIsValid(field, expr[field])

(* parseCron.  Only the literal "*" is a wildcard.                         *)
ParseCron(expr) ==
  [minutes |-> FieldSet("minute", expr.minute), hours |-> FieldSet("hour", expr.hour),
   days |-> FieldSet("day", expr.day), months |-> FieldSet("month", expr.month),
   weekdays |-> {w % WeekdayCount : w \in FieldSet("weekday", expr.weekday)},
   dayWildcard |-> expr.day.star, weekdayWildcard |-> expr.weekday.star]

-----------------------------------------------------------------------------
(* External: the clock of the wall.  A wall minute counts from the first   *)
(* minute of the calendar, an instant runs on whatever the wall shows.     *)

MinutesPerDay == MinutesPerHour * HoursPerDay
DaysIn(year, month) == LET leap == year \in LeapYears IN MonthDays[leap][month]
Days == UNION {{<<y, m, d>> : d \in 1..DaysIn(y, m)} : y \in 1..YearCount, m \in 1..MonthCount}
Before(a, b) == a[1] < b[1] \/ (a[1] = b[1] /\ (a[2] < b[2] \/ (a[2] = b[2] /\ a[3] < b[3])))
DayNumber == [day \in Days |-> Cardinality({other \in Days : Before(other, day)})]
DayAt == [n \in 0..(Cardinality(Days) - 1) |-> CHOOSE day \in Days : DayNumber[day] = n]
Walls == 0..(Cardinality(Days) * MinutesPerDay - 1)

(* The calendar does not end while the clock runs.                         *)
ASSUME LongCalendar == LastInstant + Horizon + MinutesPerHour \in Walls

FieldsOf(w) ==
  LET hours == w \div MinutesPerHour
      days == hours \div HoursPerDay
      day == DayAt[days] IN
  [minute |-> w % MinutesPerHour, hour |-> hours % HoursPerDay,
   day |-> day[3], month |-> day[2], weekday |-> days % WeekdayCount]

(* In summer the wall is an hour ahead.                                    *)
WallAt(t) == IF SummerStart <= t /\ t < SummerEnd THEN t + MinutesPerHour ELSE t

(* new Date(fields): the first of two, or what the old offset makes of it. *)
DateOf(w) ==
  LET ahead == w - MinutesPerHour IN
  IF WallAt(ahead) = w THEN ahead ELSE w

-----------------------------------------------------------------------------
(* The next occurrence                                                     *)

DayCandidate(s, fields) ==
  IF s.dayWildcard THEN fields.weekday \in s.weekdays
  ELSE IF s.weekdayWildcard THEN fields.day \in s.days
  ELSE fields.day \in s.days \/ fields.weekday \in s.weekdays

Matches(s, fields) ==
  /\ fields.minute \in s.minutes /\ fields.hour \in s.hours /\ fields.month \in s.months
  /\ DayCandidate(s, fields)

(* Impossible pairs of month and day.                                      *)
HasPossibleCalendarDay(s) ==
  s.dayWildcard \/ ~s.weekdayWildcard
    \/ \E month \in s.months, day \in s.days : day <= MonthDays[TRUE][month]

(* Mutant: what the fields became on the wall is not looked at again. *)
IsOccurrenceUnchecked(s, w, from) == DateOf(w) > from

(* A candidate of the walk that is returned: later than from, and still a  *)
(* match when its fields did not exist and were moved on.                  *)
IsOccurrence(s, w, from) == DateOf(w) > from /\ Matches(s, FieldsOf(WallAt(DateOf(w))))

(* nextRunAtMs: the fields are walked in the order of the wall, from the   *)
(* minute after from; the first beyond the horizon ends the walk.          *)
Undefined == -1
NextRunAt(expr, from) ==
  LET s == ParseCron(expr)
      walk == {w \in Walls : w > WallAt(from) /\ Matches(s, FieldsOf(w))}
      ends == {w \in walk : DateOf(w) > from + Horizon \/ IsOccurrence(s, w, from)} IN
  IF ~HasPossibleCalendarDay(s) \/ ends = {} THEN Undefined
  ELSE LET time == DateOf(Min(ends)) IN IF time > from + Horizon THEN Undefined ELSE time

-----------------------------------------------------------------------------
(* A rule and the clock that passes over it                                *)

CronInit == rule \in {r \in Rules : IsValidCron(r)} /\ now = 0
ClockTicks == now < LastInstant /\ now' = now + 1 /\ UNCHANGED rule
CronSpec == CronInit /\ [][ClockTicks]_cronVars

(* An armed rule is started at every instant its wall matches, once for an *)
(* hour that the wall shows twice, and never for one that it skips: the    *)
(* walk over the fields finds what a scan of every minute would (77-86).   *)
NextRunIsFirst ==
  IsValidCron(rule) =>
    LET s == ParseCron(rule)
        starts == {t \in (now + 1)..(now + Horizon) : DateOf(WallAt(t)) = t /\ Matches(s, FieldsOf(WallAt(t)))} IN
    NextRunAt(rule, now) = IF starts = {} THEN Undefined ELSE Min(starts)
=============================================================================
