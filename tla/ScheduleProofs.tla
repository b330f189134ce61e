---------------------------- MODULE ScheduleProofs ----------------------------
(***************************************************************************)
(* That the walk over the fields of a rule finds what a scan of every      *)
(* minute would, for every rule and every calendar: any number of minutes  *)
(* in an hour, any leap years, any clock change on the hour; and that the  *)
(* tabs of the schedule editor give back the rules they are read from, so  *)
(* that an editor at rest shows the rule of its card.                      *)
(***************************************************************************)
EXTENDS ScheduleEditor, FiniteSetTheorems, FunctionTheorems, WellFoundedInduction, TLAPS

-----------------------------------------------------------------------------
(* Division and least elements                                             *)

LEMMA Division ==
  ASSUME NEW n \in Int, NEW m \in Int, m > 0
  PROVE  n \div m \in Int /\ n % m \in 0..(m - 1) /\ n % m = n - m * (n \div m)
<1>1. n % m = n - m * (n \div m)
  OBVIOUS
<1>2. n \div m \in Int /\ n % m \in 0..(m - 1)
  OBVIOUS
<1> QED BY <1>1, <1>2

LEMMA Quotient ==
  ASSUME NEW n \in Int, NEW m \in Nat \ {0}, NEW q \in Int, NEW r \in 0..(m - 1), n = m * q + r
  PROVE  n \div m = q /\ n % m = r
OBVIOUS

LEMMA QuotientBound ==
  ASSUME NEW n \in Nat, NEW m \in Nat \ {0}, NEW k \in Nat, n < m * k
  PROVE  n \div m \in 0..(k - 1)
OBVIOUS

LEMMA LeastOf ==
  ASSUME NEW T \in SUBSET Nat, T # {}
  PROVE  Min(T) \in T /\ \A x \in T : Min(T) <= x
<1> DEFINE Less == OpToRel(<, Nat)
<1>1. PICK m \in T : \A k \in T : <<k, m>> \notin Less
  <2> HIDE DEF Less
  <2>1. IsWellFoundedOn(Less, Nat)
    BY NatLessThanWellFounded DEF Less
  <2> QED BY <2>1, WFMin
<1>2. \A k \in T : ~(k < m)
  BY <1>1 DEF OpToRel
<1>3. \A k \in T : m <= k
  BY <1>2
<1> QED BY <1>3 DEF Min

LEMMA MinIs ==
  ASSUME NEW T \in SUBSET Nat, NEW x \in T, \A y \in T : x <= y
  PROVE  Min(T) = x
<1>1. Min(T) \in T /\ Min(T) <= x
  BY LeastOf
<1>2. Min(T) \in Nat /\ x \in Nat /\ x <= Min(T)
  BY <1>1
<1> QED BY <1>1, <1>2

-----------------------------------------------------------------------------
(* The calendar                                                            *)

LEMMA Sizes ==
  /\ MinutesPerHour \in Nat \ {0} /\ HoursPerDay \in Nat \ {0} /\ MonthCount \in Nat \ {0} /\ YearCount \in Nat \ {0}
  /\ SummerStart \in Int /\ SummerEnd \in Int /\ Horizon \in Nat /\ LastInstant \in Nat
  /\ SummerStart % MinutesPerHour = 0 /\ (SummerStart < SummerEnd => SummerStart + MinutesPerHour <= SummerEnd)
BY CalendarAssumption

LEMMA MonthsHaveDays ==
  ASSUME NEW year, NEW month \in 1..MonthCount
  PROVE  DaysIn(year, month) \in Nat /\ MonthDays[TRUE][month] \in Nat /\ DaysIn(year, month) <= MonthDays[TRUE][month]
<1>1. /\ MonthDays[TRUE][month] \in Nat \ {0} /\ MonthDays[FALSE][month] \in Nat \ {0}
      /\ MonthDays[FALSE][month] <= MonthDays[TRUE][month]
  BY CalendarAssumption
<1> DEFINE leap == year \in LeapYears
<1>2. DaysIn(year, month) = MonthDays[leap][month] /\ (leap = TRUE \/ leap = FALSE)
  BY DEF DaysIn
<1> HIDE DEF leap
<1>3. DaysIn(year, month) = MonthDays[TRUE][month] \/ DaysIn(year, month) = MonthDays[FALSE][month]
  <2>1. CASE leap = TRUE
    BY <1>2, <2>1, Zenon
  <2>2. CASE leap = FALSE
    BY <1>2, <2>2, Zenon
  <2> QED BY <1>2, <2>1, <2>2, Zenon
<1> DEFINE days == DaysIn(year, month)
           short == MonthDays[FALSE][month]
           long == MonthDays[TRUE][month]
<1>4. short \in Nat /\ long \in Nat /\ short <= long /\ (days = long \/ days = short)
  BY <1>1, <1>3
<1> HIDE DEF days, short, long
<1>5. days \in Nat /\ long \in Nat /\ days <= long
  BY <1>4
<1> QED BY <1>5 DEF days, long

LEMMA DaysAre ==
  ASSUME NEW day \in Days
  PROVE  \E y \in 1..YearCount, m \in 1..MonthCount : \E d \in 1..DaysIn(y, m) : day = <<y, m, d>>
BY DEF Days

LEMMA DaysAreFinite == IsFiniteSet(Days) /\ Cardinality(Days) \in Nat
<1> DEFINE monthOf(y, m) == {<<y, m, d>> : d \in 1..DaysIn(y, m)}
           pairs == (1..YearCount) \X (1..MonthCount)
           months == {monthOf(y, m) : y \in 1..YearCount, m \in 1..MonthCount}
           filled == [p \in pairs |-> monthOf(p[1], p[2])]
<1>1. ASSUME NEW y \in 1..YearCount, NEW m \in 1..MonthCount PROVE IsFiniteSet(monthOf(y, m))
  <2> DEFINE dated == [d \in 1..DaysIn(y, m) |-> <<y, m, d>>]
  <2>1. DaysIn(y, m) \in Nat
    BY MonthsHaveDays
  <2>2. IsFiniteSet(1..DaysIn(y, m))
    BY <2>1, FS_Interval
  <2>3. dated \in Surjection(1..DaysIn(y, m), monthOf(y, m))
    BY DEF Surjection
  <2> HIDE DEF dated, monthOf
  <2> QED BY <2>2, <2>3, FS_Surjection
<1>2. IsFiniteSet(pairs)
  <2>1. IsFiniteSet(1..YearCount) /\ IsFiniteSet(1..MonthCount)
    BY Sizes, FS_Interval
  <2> QED BY <2>1, FS_Product
<1>3. filled \in Surjection(pairs, months)
  <2> HIDE DEF monthOf
  <2>1. filled \in [pairs -> months]
    OBVIOUS
  <2>2. ASSUME NEW y \in 1..YearCount, NEW m \in 1..MonthCount PROVE \E p \in pairs : filled[p] = monthOf(y, m)
    <3>1. <<y, m>> \in pairs /\ filled[<<y, m>>] = monthOf(y, m)
      OBVIOUS
    <3> QED BY <3>1
  <2> QED BY <2>1, <2>2 DEF Surjection
<1>4. IsFiniteSet(months)
  <2> HIDE DEF pairs, months, filled
  <2> QED BY <1>2, <1>3, FS_Surjection
<1>5. \A t \in months : IsFiniteSet(t)
  <2> HIDE DEF monthOf
  <2> QED BY <1>1
<1>6. IsFiniteSet(UNION months)
  <2> HIDE DEF months
  <2> QED BY <1>4, <1>5, FS_UNION
<1>7. Days = UNION months
  BY DEF Days
<1> QED BY <1>6, <1>7, FS_CardinalityType

LEMMA BeforeOrders ==
  ASSUME NEW a \in Days, NEW b \in Days, NEW c \in Days
  PROVE  /\ ~Before(a, a) /\ (Before(a, b) /\ Before(b, c) => Before(a, c))
         /\ a = b \/ Before(a, b) \/ Before(b, a)
<1>1. PICK ya \in 1..YearCount, ma \in 1..MonthCount : \E d \in 1..DaysIn(ya, ma) : a = <<ya, ma, d>>
  BY DaysAre
<1>2. PICK yb \in 1..YearCount, mb \in 1..MonthCount : \E d \in 1..DaysIn(yb, mb) : b = <<yb, mb, d>>
  BY DaysAre
<1>3. PICK yc \in 1..YearCount, mc \in 1..MonthCount : \E d \in 1..DaysIn(yc, mc) : c = <<yc, mc, d>>
  BY DaysAre
<1>4. PICK da \in 1..DaysIn(ya, ma) : a = <<ya, ma, da>>
  BY <1>1
<1>5. PICK db \in 1..DaysIn(yb, mb) : b = <<yb, mb, db>>
  BY <1>2
<1>6. PICK dc \in 1..DaysIn(yc, mc) : c = <<yc, mc, dc>>
  BY <1>3
<1>7. /\ ya \in Int /\ ma \in Int /\ da \in Int /\ yb \in Int /\ mb \in Int /\ db \in Int
      /\ yc \in Int /\ mc \in Int /\ dc \in Int
  OBVIOUS
<1>8. /\ a[1] = ya /\ a[2] = ma /\ a[3] = da /\ b[1] = yb /\ b[2] = mb /\ b[3] = db
      /\ c[1] = yc /\ c[2] = mc /\ c[3] = dc
  BY <1>4, <1>5, <1>6
<1>9. ya = yb /\ ma = mb /\ da = db => a = b
  BY <1>4, <1>5
<1> QED BY <1>7, <1>8, <1>9 DEF Before

(* The days have the numbers 0, 1, ... in their order.                     *)
LEMMA DaysAreNumbered ==
  ASSUME NEW n \in 0..(Cardinality(Days) - 1)
  PROVE  DayAt[n] \in Days
<1> DEFINE numbers == 0..(Cardinality(Days) - 1)
           earlier(day) == {other \in Days : Before(other, day)}
<1>1. \A day \in Days : DayNumber[day] = Cardinality(earlier(day))
  BY DEF DayNumber
<1>2. \A day \in Days : earlier(day) \in SUBSET Days /\ day \notin earlier(day)
  BY BeforeOrders
<1>3. ASSUME NEW day \in Days
      PROVE  IsFiniteSet(earlier(day)) /\ Cardinality(earlier(day)) \in numbers
  <2> HIDE DEF earlier
  <2>1. IsFiniteSet(earlier(day)) /\ Cardinality(earlier(day)) <= Cardinality(Days) /\ Cardinality(earlier(day)) # Cardinality(Days)
    BY <1>2, DaysAreFinite, FS_Subset
  <2>2. Cardinality(earlier(day)) \in Nat
    BY <2>1, FS_CardinalityType
  <2> QED BY <2>1, <2>2, DaysAreFinite
<1>4. ASSUME NEW a \in Days, NEW b \in Days, Before(a, b)
      PROVE  Cardinality(earlier(a)) # Cardinality(earlier(b))
  <2>1. earlier(a) \in SUBSET earlier(b) /\ a \in earlier(b) /\ a \notin earlier(a)
    BY <1>4, BeforeOrders
  <2> HIDE DEF earlier
  <2> QED BY <1>3, <2>1, FS_Subset
<1>5. DayNumber \in [Days -> numbers]
  <2> HIDE DEF earlier, numbers
  <2>1. DayNumber = [day \in Days |-> Cardinality(earlier(day))]
    BY DEF DayNumber, earlier
  <2> QED BY <1>3, <2>1
<1>6. DayNumber \in Injection(Days, numbers)
  <2> HIDE DEF earlier, numbers
  <2>1. ASSUME NEW a \in Days, NEW b \in Days, DayNumber[a] = DayNumber[b] PROVE a = b
    BY <1>1, <1>4, <2>1, BeforeOrders
  <2> QED BY <1>5, <2>1 DEF Injection, IsInjective
<1>7. IsFiniteSet(numbers) /\ Cardinality(Days) = Cardinality(numbers)
  BY DaysAreFinite, FS_Interval
<1>8. DayNumber \in Surjection(Days, numbers)
  <2> HIDE DEF numbers
  <2> QED BY <1>6, <1>7, FS_Injection
<1>9. \E day \in Days : DayNumber[day] = n
  BY <1>8 DEF Surjection
<1> QED BY <1>9 DEF DayAt

LEMMA TimesQuotient ==
  ASSUME NEW a \in Nat, NEW b \in Nat, NEW n \in Nat, NEW m \in Nat \ {0}, n < (m * a) * b
  PROVE  (n \div m) \in Nat /\ n \div m < a * b
<1>1. (m * a) * b = m * (a * b) /\ a * b \in Nat
  OBVIOUS
<1> QED BY <1>1, QuotientBound

(* The wall shows a day of the calendar.                                   *)
LEMMA WallsShowDays ==
  ASSUME NEW w \in Walls
  PROVE  \E day \in Days : FieldsOf(w).day = day[3] /\ FieldsOf(w).month = day[2]
<1> DEFINE hours == w \div MinutesPerHour
           count == Cardinality(Days)
<1>1. w \in Nat /\ w < (MinutesPerHour * HoursPerDay) * count /\ count \in Nat
  <2>1. MinutesPerHour * HoursPerDay \in Nat /\ count \in Nat
    BY Sizes, DaysAreFinite
  <2>2. count * (MinutesPerHour * HoursPerDay) \in Nat
        /\ count * (MinutesPerHour * HoursPerDay) = (MinutesPerHour * HoursPerDay) * count
    BY <2>1
  <2>3. w \in 0..(count * (MinutesPerHour * HoursPerDay) - 1)
    BY DEF Walls, MinutesPerDay
  <2> QED BY <2>1, <2>2, <2>3
<1>2. hours \in Nat /\ hours < HoursPerDay * count
  BY <1>1, Sizes, TimesQuotient
<1>3. hours \div HoursPerDay \in 0..(count - 1)
  <2> HIDE DEF hours, count
  <2> QED BY <1>1, <1>2, Sizes, QuotientBound
<1>4. DayAt[hours \div HoursPerDay] \in Days
  BY <1>3, DaysAreNumbered
<1> QED BY <1>4 DEF FieldsOf

(* Of a rule for a day of the month alone that no month has, no wall is.   *)
LEMMA ImpossibleDaysMatchNothing ==
  ASSUME NEW s, ~HasPossibleCalendarDay(s), NEW w \in Walls
  PROVE  ~Matches(s, FieldsOf(w))
<1>1. PICK day \in Days : FieldsOf(w).day = day[3] /\ FieldsOf(w).month = day[2]
  BY WallsShowDays
<1>2. PICK y \in 1..YearCount, m \in 1..MonthCount : \E d \in 1..DaysIn(y, m) : day = <<y, m, d>>
  BY DaysAre
<1>3. PICK d \in 1..DaysIn(y, m) : day = <<y, m, d>>
  BY <1>2
<1>4. d <= MonthDays[TRUE][m]
  <2> DEFINE days == DaysIn(y, m)
             long == MonthDays[TRUE][m]
  <2>1. days \in Nat /\ long \in Nat /\ days <= long /\ d \in 1..days
    BY MonthsHaveDays
  <2> HIDE DEF days, long
  <2>2. d <= long
    BY <2>1
  <2> QED BY <2>2 DEF long
<1>5. FieldsOf(w).day = d /\ FieldsOf(w).month = m
  BY <1>1, <1>3
<1> HIDE DEF FieldsOf
<1> QED BY <1>4, <1>5 DEF HasPossibleCalendarDay, Matches, DayCandidate

-----------------------------------------------------------------------------
(* The wall and the clock                                                  *)

(* The minutes of the hour that the wall skips.                            *)
Skipped(w) == SummerStart < SummerEnd /\ SummerStart <= w /\ w < SummerStart + MinutesPerHour

LEMMA WallArithmetic ==
  ASSUME NEW t \in Int
  PROVE  WallAt(t) \in Int /\ t <= WallAt(t) /\ WallAt(t) <= t + MinutesPerHour /\ DateOf(t) \in Int
BY Sizes DEF WallAt, DateOf

(* A later start is shown later, and read back as it is.                   *)
LEMMA LaterStartsAreShownLater ==
  ASSUME NEW from \in Int, NEW t \in Int, from < t, DateOf(WallAt(t)) = t
  PROVE  WallAt(from) < WallAt(t)
BY Sizes DEF WallAt, DateOf

LEMMA DatesGrow ==
  ASSUME NEW v \in Int, NEW w \in Int, v <= w, ~Skipped(v)
  PROVE  DateOf(v) <= DateOf(w)
BY Sizes DEF WallAt, DateOf, Skipped

LEMMA DatesAreStarts ==
  ASSUME NEW w \in Int
  PROVE  DateOf(WallAt(DateOf(w))) = DateOf(w)
BY Sizes DEF WallAt, DateOf

(* Two walls of one hour differ in their minute only.                      *)
LEMMA SameHour ==
  ASSUME NEW v, NEW w, v \div MinutesPerHour = w \div MinutesPerHour
  PROVE  /\ FieldsOf(v).hour = FieldsOf(w).hour /\ FieldsOf(v).day = FieldsOf(w).day
         /\ FieldsOf(v).month = FieldsOf(w).month /\ FieldsOf(v).weekday = FieldsOf(w).weekday
BY DEF FieldsOf

(* One minute and the hour of another of that hour match together.         *)
LEMMA MinuteOfMatchingHour ==
  ASSUME NEW s, NEW v, NEW w, v \div MinutesPerHour = w \div MinutesPerHour,
         Matches(s, FieldsOf(w)), v % MinutesPerHour \in s.minutes
  PROVE  Matches(s, FieldsOf(v))
<1>1. FieldsOf(v).minute = v % MinutesPerHour
  BY DEF FieldsOf
<1>2. /\ FieldsOf(v).hour = FieldsOf(w).hour /\ FieldsOf(v).day = FieldsOf(w).day
      /\ FieldsOf(v).month = FieldsOf(w).month /\ FieldsOf(v).weekday = FieldsOf(w).weekday
  BY SameHour
<1> HIDE DEF FieldsOf
<1> QED BY <1>1, <1>2 DEF Matches, DayCandidate

(* Within the skipped hour: minutes of it share their hour, and each has   *)
(* the minute of the wall that is shown in its stead.                      *)
LEMMA SkippedHour ==
  ASSUME NEW v \in Int, NEW w \in Int, Skipped(v), Skipped(w)
  PROVE  /\ v \div MinutesPerHour = w \div MinutesPerHour
         /\ (v + MinutesPerHour) % MinutesPerHour = v % MinutesPerHour
<1> DEFINE m == MinutesPerHour
           k == SummerStart \div m
           i == v - SummerStart
           j == w - SummerStart
<1>1. m \in Nat \ {0} /\ SummerStart \in Int /\ SummerStart % m = 0
  BY Sizes
<1>2. k \in Int /\ SummerStart = m * k
  <2>1. k \in Int /\ SummerStart % m = SummerStart - m * k
    BY <1>1, Division
  <2>2. m * k \in Int
    BY <1>1, <2>1
  <2> HIDE DEF k, m
  <2> QED BY <1>1, <2>1, <2>2
<1>3. i \in 0..(m - 1) /\ j \in 0..(m - 1)
  BY <1>1 DEF Skipped
<1>4. v = m * k + i /\ w = m * k + j /\ v + m = m * (k + 1) + i
  <2>1. m * k \in Int /\ m * (k + 1) = m * k + m
    BY <1>1, <1>2
  <2> HIDE DEF k
  <2> QED BY <1>1, <1>2, <1>3, <2>1
<1> HIDE DEF m, k, i, j
<1>5. v \div m = k /\ v % m = i /\ w \div m = k /\ (v + m) % m = i
  BY <1>1, <1>2, <1>3, <1>4, Quotient
<1> QED BY <1>5 DEF m

-----------------------------------------------------------------------------
(* The walk                                                                *)

Walk(s, from) == {w \in Walls : w > WallAt(from) /\ Matches(s, FieldsOf(w))}
Ends(s, from) == {w \in Walk(s, from) : DateOf(w) > from + Horizon \/ IsOccurrence(s, w, from)}
Starts(s, from) ==
  {t \in (from + 1)..(from + Horizon) : DateOf(WallAt(t)) = t /\ Matches(s, FieldsOf(WallAt(t)))}

LEMMA WallsInTime ==
  ASSUME NEW from \in 0..LastInstant, NEW t \in from..(from + Horizon)
  PROVE  WallAt(t) \in Walls /\ WallAt(t) \in Int /\ t \in Walls
<1> DEFINE size == Cardinality(Days) * MinutesPerDay
<1>1. size \in Int /\ Walls = 0..(size - 1)
  <2>1. MinutesPerDay \in Nat /\ Cardinality(Days) \in Nat
    BY Sizes, DaysAreFinite DEF MinutesPerDay
  <2>2. size \in Int
    BY <2>1
  <2> QED BY <2>2 DEF Walls
<1> HIDE DEF size
<1>2. LastInstant + Horizon + MinutesPerHour <= size - 1
  BY <1>1, LongCalendar, Sizes
<1>3. t \in Int /\ WallAt(t) \in Int /\ t <= WallAt(t) /\ WallAt(t) <= t + MinutesPerHour
  BY WallArithmetic, Sizes
<1> QED BY <1>1, <1>2, <1>3, Sizes

(* The walk comes by every start.                                          *)
LEMMA StartsEndTheWalk ==
  ASSUME NEW s, NEW from \in 0..LastInstant, NEW t \in Starts(s, from)
  PROVE  WallAt(t) \in Ends(s, from) /\ DateOf(WallAt(t)) = t
<1>1. t \in (from + 1)..(from + Horizon) /\ DateOf(WallAt(t)) = t /\ Matches(s, FieldsOf(WallAt(t)))
  BY DEF Starts
<1>2. from \in Int /\ t \in Int /\ from < t /\ t \in from..(from + Horizon)
  BY <1>1, Sizes
<1>3. WallAt(t) \in Walls /\ WallAt(from) \in Int /\ WallAt(t) \in Int /\ WallAt(from) < WallAt(t)
  BY <1>1, <1>2, WallsInTime, WallArithmetic, LaterStartsAreShownLater
<1> HIDE DEF Walls
<1>4. WallAt(t) \in Walk(s, from)
  BY <1>1, <1>3 DEF Walk
<1>5. IsOccurrence(s, WallAt(t), from)
  BY <1>1, <1>2 DEF IsOccurrence
<1> QED BY <1>1, <1>4, <1>5 DEF Ends

LEMMA EndsAreWalls ==
  ASSUME NEW s, NEW from \in 0..LastInstant
  PROVE  Ends(s, from) \in SUBSET Nat
<1>1. Walls \subseteq Nat
  <2> DEFINE size == Cardinality(Days) * MinutesPerDay
  <2>1. MinutesPerDay \in Nat /\ Cardinality(Days) \in Nat
    BY Sizes, DaysAreFinite DEF MinutesPerDay
  <2>2. size \in Int
    BY <2>1
  <2>3. Walls = 0..(size - 1)
    BY DEF Walls
  <2> HIDE DEF size
  <2> QED BY <2>2, <2>3
<1> QED BY <1>1 DEF Ends, Walk

(* Its first end is not later than any start.                              *)
LEMMA FirstEndIsEarliest ==
  ASSUME NEW s, NEW from \in 0..LastInstant, NEW e \in Ends(s, from),
         \A w \in Ends(s, from) : e <= w, NEW t \in Starts(s, from)
  PROVE  DateOf(e) <= t
<1>1. /\ WallAt(t) \in Ends(s, from) /\ DateOf(WallAt(t)) = t /\ e <= WallAt(t)
      /\ e \in Int /\ WallAt(t) \in Int /\ t \in Int /\ from \in Int /\ from < t /\ t <= from + Horizon
  <2>1. t \in (from + 1)..(from + Horizon)
    BY DEF Starts
  <2> QED BY <2>1, StartsEndTheWalk, EndsAreWalls, Sizes
<1>2. CASE ~Skipped(e)
  BY <1>1, <1>2, DatesGrow
<1>3. CASE Skipped(e)
  <2>1. DateOf(e) = e
    BY <1>1, <1>3, Sizes DEF DateOf, WallAt, Skipped
  <2> SUFFICES ASSUME t < e PROVE FALSE
    BY <1>1, <2>1
  <2>2. /\ e \in Walls /\ WallAt(from) < e /\ Matches(s, FieldsOf(e))
    BY DEF Ends, Walk
  <2>3. Matches(s, FieldsOf(WallAt(t)))
    BY DEF Starts
  <2>4. Skipped(t) /\ WallAt(t) = t + MinutesPerHour /\ DateOf(t) = t /\ WallAt(from) < t
    BY <1>1, <1>3, <2>2, Sizes DEF WallAt, DateOf, Skipped
  <2>5. t \div MinutesPerHour = e \div MinutesPerHour /\ WallAt(t) % MinutesPerHour = t % MinutesPerHour
    BY <1>1, <1>3, <2>4, SkippedHour
  <2>6. t % MinutesPerHour \in s.minutes
    <3>1. FieldsOf(WallAt(t)).minute = WallAt(t) % MinutesPerHour
      BY DEF FieldsOf
    <3> HIDE DEF FieldsOf
    <3> QED BY <2>3, <2>5, <3>1 DEF Matches
  <2>7. Matches(s, FieldsOf(t))
    BY <2>2, <2>5, <2>6, MinuteOfMatchingHour
  <2>8. t \in Walls
    BY <1>1, WallsInTime
  <2>9. t \in Ends(s, from)
    BY <1>1, <2>3, <2>4, <2>7, <2>8 DEF Ends, Walk, IsOccurrence
  <2> QED BY <1>1, <2>9
<1> QED BY <1>2, <1>3

(* An end within the horizon is a start.                                   *)
LEMMA EndsAreStarts ==
  ASSUME NEW s, NEW from \in 0..LastInstant, NEW e \in Ends(s, from), DateOf(e) <= from + Horizon
  PROVE  DateOf(e) \in Starts(s, from)
<1>1. e \in Int /\ DateOf(e) \in Int
  BY EndsAreWalls, WallArithmetic
<1>2. IsOccurrence(s, e, from)
  BY <1>1, Sizes DEF Ends
<1>3. DateOf(WallAt(DateOf(e))) = DateOf(e)
  BY <1>1, DatesAreStarts
<1> QED BY <1>1, <1>2, <1>3, Sizes DEF IsOccurrence, Starts

(* The walk finds the first start, and none only where there is none.      *)
LEMMA WalkFindsFirst ==
  ASSUME NEW expr, NEW from \in 0..LastInstant
  PROVE  LET starts == Starts(ParseCron(expr), from) IN
         NextRunAt(expr, from) = IF starts = {} THEN Undefined ELSE Min(starts)
<1> DEFINE s == ParseCron(expr)
           starts == Starts(s, from)
           ends == Ends(s, from)
           end == Min(ends)
           time == DateOf(end)
<1>1. NextRunAt(expr, from) =
        IF ~HasPossibleCalendarDay(s) \/ ends = {} THEN Undefined
        ELSE IF time > from + Horizon THEN Undefined ELSE time
  BY DEF NextRunAt, Ends, Walk
<1>2. starts \in SUBSET Nat /\ \A t \in starts : t \in from..(from + Horizon)
  BY Sizes DEF Starts
<1>3. starts # {} => ends # {}
  BY StartsEndTheWalk
<1>4. starts # {} => HasPossibleCalendarDay(s)
  <2> SUFFICES ASSUME NEW t \in starts PROVE HasPossibleCalendarDay(s)
    OBVIOUS
  <2>1. Matches(s, FieldsOf(WallAt(t))) /\ WallAt(t) \in Walls
    BY <1>2, WallsInTime DEF Starts
  <2> HIDE DEF s
  <2> QED BY <2>1, ImpossibleDaysMatchNothing
<1>5. ASSUME ends # {} PROVE end \in ends /\ \A w \in ends : end <= w
  <2>1. ends \in SUBSET Nat
    BY EndsAreWalls
  <2> HIDE DEF ends
  <2> QED BY <1>5, <2>1, LeastOf
<1>6. ASSUME ends # {} PROVE time \in Int /\ \A t \in starts : time <= t
  <2>1. end \in Int
    BY <1>5, <1>6, EndsAreWalls
  <2> HIDE DEF s, end
  <2> QED BY <1>5, <1>6, <2>1, FirstEndIsEarliest, WallArithmetic
<1>7. ASSUME ends # {}, time <= from + Horizon PROVE time \in starts /\ Min(starts) = time
  <2>1. time \in starts
    BY <1>5, <1>7, EndsAreStarts
  <2> HIDE DEF time, starts
  <2> QED BY <1>2, <1>6, <1>7, <2>1, MinIs
<1>8. ASSUME ends # {}, time > from + Horizon PROVE starts = {}
  <2>1. \A t \in starts : t \in Int /\ t <= from + Horizon
    BY <1>2, Sizes
  <2> HIDE DEF time, starts, ends
  <2> QED BY <1>6, <1>8, <2>1, Sizes
<1>9. time <= from + Horizon \/ time > from + Horizon \/ ends = {}
  <2> HIDE DEF time, ends
  <2> QED BY <1>6, Sizes
<1> HIDE DEF time, starts, ends
<1>10. NextRunAt(expr, from) = IF starts = {} THEN Undefined ELSE Min(starts)
  <2>1. CASE starts = {}
    BY <1>1, <1>7, <1>9, <2>1
  <2>2. CASE starts # {}
    <3>1. HasPossibleCalendarDay(s) /\ ends # {} /\ ~(time > from + Horizon)
      BY <1>3, <1>4, <1>8, <2>2
    <3> QED BY <1>1, <1>7, <1>9, <2>2, <3>1
  <2> QED BY <2>1, <2>2
<1> QED BY <1>10 DEF starts

-----------------------------------------------------------------------------
(* The clock                                                               *)

ClockInv == now \in 0..LastInstant

LEMMA ClockInvInit == CronInit => ClockInv
BY Sizes DEF CronInit, ClockInv

LEMMA ClockInvStep == ClockInv /\ [ClockTicks]_cronVars => ClockInv'
BY Sizes DEF ClockInv, ClockTicks, cronVars

(* At every instant the next run of a valid rule is the first instant that *)
(* a scan of every minute would start it at, and there is none only if the *)
(* scan finds none within the horizon (nextRunAtMs).                       *)
THEOREM NextRunIsTheFirst == CronSpec => []NextRunIsFirst
<1>1. ClockInv => NextRunIsFirst
  <2> SUFFICES ASSUME ClockInv PROVE NextRunIsFirst
    OBVIOUS
  <2>1. LET starts == Starts(ParseCron(rule), now) IN
        NextRunAt(rule, now) = IF starts = {} THEN Undefined ELSE Min(starts)
    BY WalkFindsFirst DEF ClockInv
  <2> QED BY <2>1 DEF NextRunIsFirst, Starts
<1> QED BY <1>1, ClockInvInit, ClockInvStep, PTL DEF CronSpec

-----------------------------------------------------------------------------
(* Sets of the values of a field                                           *)

LEMMA LargestOf ==
  ASSUME NEW T \in SUBSET Nat, T # {}, IsFiniteSet(T)
  PROVE  Max(T) \in T /\ \A x \in T : x <= Max(T)
<1> DEFINE above(x) == {y \in T : x < y}
           sizes == {Cardinality(above(x)) : x \in T}
<1>1. \A x \in T : above(x) \in SUBSET T
  OBVIOUS
<1>2. \A x \in T : IsFiniteSet(above(x)) /\ Cardinality(above(x)) \in Nat
  <2> HIDE DEF above
  <2> QED BY <1>1, FS_Subset, FS_CardinalityType
<1>3. sizes \in SUBSET Nat /\ sizes # {}
  <2> HIDE DEF above
  <2> QED BY <1>2
<1>4. Min(sizes) \in sizes /\ \A n \in sizes : Min(sizes) <= n
  <2> HIDE DEF sizes
  <2> QED BY <1>3, LeastOf
<1>5. PICK x \in T : Min(sizes) = Cardinality(above(x))
  <2> HIDE DEF above
  <2> QED BY <1>4
<1>6. ASSUME NEW y \in T, x < y PROVE FALSE
  <2>1. x \in Nat /\ y \in Nat /\ \A z \in T : z \in Nat
    OBVIOUS
  <2>2. above(y) \in SUBSET above(x) /\ y \in above(x) /\ y \notin above(y)
    <3>1. y \in above(x) /\ y \notin above(y)
      BY <1>6, <2>1
    <3>2. ASSUME NEW z \in above(y) PROVE z \in above(x)
      <4>1. z \in T /\ y < z
        OBVIOUS
      <4>2. x < z
        BY <1>6, <2>1, <4>1
      <4> QED BY <4>1, <4>2
    <3> HIDE DEF above
    <3> QED BY <3>1, <3>2
  <2>3. Cardinality(above(x)) <= Cardinality(above(y))
    <3> HIDE DEF above
    <3>1. Cardinality(above(y)) \in sizes
      OBVIOUS
    <3> QED BY <1>4, <1>5, <3>1
  <2> HIDE DEF above
  <2>4. Cardinality(above(y)) < Cardinality(above(x))
    <3>1. Cardinality(above(y)) <= Cardinality(above(x)) /\ (Cardinality(above(y)) = Cardinality(above(x)) => above(y) = above(x))
      BY <1>2, <2>2, FS_Subset
    <3> QED BY <1>2, <2>2, <3>1
  <2> QED BY <1>2, <2>3, <2>4
<1>7. \A y \in T : y <= x
  <2> TAKE y \in T
  <2>1. x \in Nat /\ y \in Nat /\ ~(x < y)
    BY <1>6
  <2> QED BY <2>1
<1> QED BY <1>7 DEF Max

LEMMA OnlyIs ==
  ASSUME NEW S, IsFiniteSet(S), Cardinality(S) = 1
  PROVE  Only(S) \in S /\ S = {Only(S)}
<1>1. PICK x : S = {x}
  BY FS_Singleton
<1>2. Only(S) = x
  BY <1>1 DEF Only
<1> QED BY <1>1, <1>2

LEMMA SingleIs ==
  ASSUME NEW x
  PROVE  IsFiniteSet({x}) /\ Cardinality({x}) = 1 /\ Only({x}) = x
<1>1. IsFiniteSet({x}) /\ Cardinality({x}) = 1
  BY FS_Singleton
<1> QED BY <1>1 DEF Only

LEMMA ManyDays == MaxDays \in Nat \ {0}
<1> DEFINE lengths == {MonthDays[TRUE][month] : month \in 1..MonthCount}
<1>1. \A month \in 1..MonthCount : MonthDays[TRUE][month] \in Nat \ {0}
  BY CalendarAssumption
<1>2. IsFiniteSet(1..MonthCount)
  BY Sizes, FS_Interval
<1>3. IsFiniteSet(lengths)
  <2> DEFINE longest == [month \in 1..MonthCount |-> MonthDays[TRUE][month]]
  <2>1. longest \in Surjection(1..MonthCount, lengths)
    BY DEF Surjection
  <2> HIDE DEF longest, lengths
  <2> QED BY <1>2, <2>1, FS_Surjection
<1>4. lengths # {} /\ lengths \subseteq Nat \ {0}
  <2>1. 1 \in 1..MonthCount
    BY Sizes
  <2> QED BY <1>1, <2>1
<1>5. MaxDays = Max(lengths)
  BY DEF MaxDays
<1>6. Max(lengths) \in lengths
  <2> HIDE DEF lengths
  <2> QED BY <1>3, <1>4, LargestOf
<1> HIDE DEF lengths
<1> QED BY <1>4, <1>5, <1>6

LEMMA RangesAre ==
  /\ RangeOf["minute"][1] = 0 /\ RangeOf["minute"][2] = MinutesPerHour - 1
  /\ RangeOf["hour"][1] = 0 /\ RangeOf["hour"][2] = HoursPerDay - 1
  /\ RangeOf["day"][1] = 1 /\ RangeOf["day"][2] = MaxDays
  /\ RangeOf["month"][1] = 1 /\ RangeOf["month"][2] = MonthCount
  /\ RangeOf["weekday"][1] = 0 /\ RangeOf["weekday"][2] = WeekdayCount
BY DEF RangeOf

LEMMA WeekHasDays == WeekdayCount \in Nat \ {0}
BY CalendarAssumption

LEMMA RangesAreNumbers ==
  ASSUME NEW field \in Fields
  PROVE  RangeOf[field][1] \in Nat /\ RangeOf[field][2] \in Nat /\ RangeOf[field][1] <= RangeOf[field][2]
BY Sizes, WeekHasDays, ManyDays, RangesAre DEF Fields

-----------------------------------------------------------------------------
(* Fields as the tabs write them                                           *)

LEMMA StarIs ==
  ASSUME NEW field \in Fields
  PROVE  /\ Star \in FieldText /\ Star.star = TRUE /\ FieldIsValid(field, Star)
         /\ FieldSet(field, Star) = RangeOf[field][1]..RangeOf[field][2]
BY DEF Star, FieldText, FieldIsValid, FieldSet

LEMMA ListIs ==
  ASSUME NEW field \in Fields, NEW values \in SUBSET (RangeOf[field][1]..RangeOf[field][2]), values # {}
  PROVE  /\ List(values) \in FieldText /\ List(values).star = FALSE /\ FieldIsValid(field, List(values))
         /\ FieldSet(field, List(values)) = values
<1> DEFINE low == RangeOf[field][1]
           high == RangeOf[field][2]
           parts == {Part(v, v, 1) : v \in values}
<1>1. low \in Nat /\ high \in Nat
  BY RangesAreNumbers
<1> HIDE DEF low, high
<1>2. values \in SUBSET (low..high)
  BY DEF low, high
<1>3. \A v \in values : v \in Nat /\ low <= v /\ v <= high
  BY <1>1, <1>2
<1>4. \A v \in values : /\ Part(v, v, 1) \in [low : Nat, high : Nat, step : Nat]
                        /\ Part(v, v, 1).low = v /\ Part(v, v, 1).high = v /\ Part(v, v, 1).step = 1
  BY <1>3 DEF Part
<1>5. List(values) = [star |-> FALSE, parts |-> parts]
  BY DEF List
<1>6. List(values) \in FieldText
  BY <1>4, <1>5 DEF FieldText
<1>7. List(values).star = FALSE /\ List(values).parts = parts
  BY <1>5
<1>8. FieldIsValid(field, List(values))
  <2>1. parts # {}
    OBVIOUS
  <2>2. \A p \in parts : PartIsValid(field, p)
    BY <1>3, <1>4 DEF PartIsValid, low, high
  <2> QED BY <1>7, <2>1, <2>2 DEF FieldIsValid
<1>9. \A v \in low..high : (\E p \in parts : v \in p.low..p.high /\ (v - p.low) % p.step = 0) <=> v \in values
  <2> TAKE v \in low..high
  <2>1. ASSUME v \in values PROVE \E p \in parts : v \in p.low..p.high /\ (v - p.low) % p.step = 0
    <3>1. Part(v, v, 1) \in parts
      BY <2>1
    <3>2. v \in v..v /\ (v - v) % 1 = 0
      BY <1>3, <2>1
    <3> QED BY <1>4, <2>1, <3>1, <3>2
  <2>2. ASSUME NEW p \in parts, v \in p.low..p.high PROVE v \in values
    <3>1. PICK w \in values : p = Part(w, w, 1)
      OBVIOUS
    <3>2. v \in w..w
      BY <1>4, <2>2, <3>1
    <3>3. v = w
      BY <1>3, <3>2
    <3> QED BY <3>3
  <2> QED BY <2>1, <2>2
<1>10. FieldSet(field, List(values)) = {v \in low..high : \E p \in parts : v \in p.low..p.high /\ (v - p.low) % p.step = 0}
  BY <1>7 DEF FieldSet, low, high
<1>11. FieldSet(field, List(values)) = values
  <2> HIDE DEF parts
  <2> QED BY <1>2, <1>9, <1>10
<1> QED BY <1>6, <1>7, <1>8, <1>11

(* The multiples of a step up to the end of the field.                     *)
Multiples(step, top) == {v \in 0..top : v % step = 0}

LEMMA EveryIs ==
  ASSUME NEW field \in {"minute", "hour"}, NEW top, top = RangeOf[field][2], NEW step \in 1..top
  PROVE  /\ Every(field, step) \in FieldText /\ Every(field, step).star = FALSE
         /\ FieldIsValid(field, Every(field, step)) /\ FieldSet(field, Every(field, step)) = Multiples(step, top)
<1>1. field \in Fields /\ RangeOf[field][1] = 0 /\ RangeOf[field][2] = top /\ top \in Nat
  BY RangesAre, Sizes DEF Fields
<1> DEFINE part == Part(0, top, step)
<1>2. Every(field, step) = [star |-> FALSE, parts |-> {part}]
  BY <1>1 DEF Every
<1>3. part \in [low : Nat, high : Nat, step : Nat] /\ part.low = 0 /\ part.high = top /\ part.step = step
  BY <1>1 DEF Part
<1> HIDE DEF part
<1>4. Every(field, step) \in FieldText /\ Every(field, step).star = FALSE /\ Every(field, step).parts = {part}
  BY <1>2, <1>3 DEF FieldText
<1>5. FieldIsValid(field, Every(field, step))
  BY <1>1, <1>3, <1>4 DEF FieldIsValid, PartIsValid
<1>6. FieldSet(field, Every(field, step)) = {v \in 0..top : \E p \in {part} : v \in p.low..p.high /\ (v - p.low) % p.step = 0}
  BY <1>1, <1>4 DEF FieldSet
<1>7. \A v \in 0..top : (\E p \in {part} : v \in p.low..p.high /\ (v - p.low) % p.step = 0) <=> v % step = 0
  <2> TAKE v \in 0..top
  <2>1. v - 0 = v /\ v \in 0..top
    BY <1>1
  <2>2. v \in part.low..part.high /\ (v - part.low) % part.step = v % step
    BY <1>3, <2>1
  <2> QED BY <2>2
<1>8. FieldSet(field, Every(field, step)) = Multiples(step, top)
  BY <1>6, <1>7 DEF Multiples
<1> QED BY <1>4, <1>5, <1>8

LEMMA FieldSetIs ==
  ASSUME NEW field \in Fields, NEW f \in FieldText, FieldIsValid(field, f)
  PROVE  /\ FieldSet(field, f) \in SUBSET (RangeOf[field][1]..RangeOf[field][2]) /\ FieldSet(field, f) # {}
         /\ (f.star => FieldSet(field, f) = RangeOf[field][1]..RangeOf[field][2])
<1> DEFINE low == RangeOf[field][1]
           high == RangeOf[field][2]
<1>1. low \in Nat /\ high \in Nat /\ low <= high
  BY RangesAreNumbers
<1>2. FieldSet(field, f) \in SUBSET (low..high) /\ (f.star => FieldSet(field, f) = low..high)
  BY DEF FieldSet
<1>3. CASE f.star
  <2>1. low \in low..high
    BY <1>1
  <2> QED BY <1>2, <1>3, <2>1
<1>4. CASE ~f.star
  <2>1. PICK p \in f.parts : PartIsValid(field, p)
    BY <1>4 DEF FieldIsValid
  <2>2. p \in [low : Nat, high : Nat, step : Nat]
    BY DEF FieldText
  <2> DEFINE first == p.low
             last == p.high
             step == p.step
  <2>3. first \in Nat /\ last \in Nat /\ step \in Nat /\ low <= first /\ first <= last /\ last <= high /\ step >= 1
    BY <2>1, <2>2 DEF PartIsValid
  <2> HIDE DEF low, high
  <2>4. first \in low..high /\ first \in first..last /\ (first - first) % step = 0
    <3> HIDE DEF first, last, step
    <3> QED BY <1>1, <2>3
  <2>5. first \in FieldSet(field, f)
    BY <1>4, <2>4 DEF FieldSet, low, high
  <2> QED BY <1>2, <2>5 DEF low, high
<1> QED BY <1>3, <1>4

-----------------------------------------------------------------------------
(* stepOf                                                                  *)

LEMMA StepIs ==
  ASSUME NEW top \in Nat \ {0}, NEW values \in SUBSET (0..top)
  PROVE  /\ StepOf(values) \in 0..top
         /\ (0 \notin values => StepOf(values) = 0)
         /\ (values = {0} => StepOf(values) = 1)
         /\ (StepOf(values) # 0 => 0 \in values)
<1>1. CASE 0 \notin values
  BY <1>1 DEF StepOf
<1>2. CASE values = {0}
  BY <1>2 DEF StepOf
<1>3. CASE 0 \in values /\ values # {0}
  <2> DEFINE step == Min(values \ {0})
  <2>1. values \ {0} \in SUBSET Nat /\ values \ {0} # {}
    BY <1>3
  <2>2. step \in values \ {0}
    BY <2>1, LeastOf
  <2>3. StepOf(values) = step \/ StepOf(values) = 0
    BY <1>3 DEF StepOf
  <2> HIDE DEF step
  <2> QED BY <1>3, <2>2, <2>3
<1> QED BY <1>1, <1>2, <1>3

LEMMA StepOfMultiples ==
  ASSUME NEW top \in Nat \ {0}, NEW step \in 1..top
  PROVE  StepOf(Multiples(step, top)) = step
<1> DEFINE values == Multiples(step, top)
           last == Max(values)
<1>1. values \in SUBSET (0..top)
  BY DEF Multiples
<1>2. 0 % step = 0 /\ step % step = 0
  OBVIOUS
<1>3. 0 \in values /\ step \in values /\ step # 0
  BY <1>2 DEF Multiples
<1>4. \A v \in values \ {0} : step <= v
  <2> TAKE v \in values \ {0}
  <2>1. v \in 1..top /\ v % step = 0
    BY DEF Multiples
  <2>2. CASE v < step
    <3>1. v % step = v
      BY <2>1, <2>2
    <3> QED BY <2>1, <3>1
  <2> QED BY <2>1, <2>2
<1>5. Min(values \ {0}) = step
  <2>1. values \ {0} \in SUBSET Nat /\ step \in values \ {0}
    BY <1>1, <1>3
  <2> HIDE DEF values
  <2> QED BY <1>4, <2>1, MinIs
<1>6. last \in values /\ \A x \in values : x <= last
  <2>1. IsFiniteSet(0..top)
    BY FS_Interval
  <2> HIDE DEF values
  <2>2. values \in SUBSET Nat /\ IsFiniteSet(values)
    <3>1. IsFiniteSet(values)
      BY <1>1, <2>1, FS_Subset
    <3>2. \A v \in values : v \in Nat
      BY <1>1
    <3> QED BY <3>1, <3>2
  <2> QED BY <1>3, <2>2, LargestOf
<1>7. values = {v \in 0..last : v % step = 0}
  <2>1. last \in 0..top
    BY <1>1, <1>6
  <2> HIDE DEF last
  <2>2. ASSUME NEW v \in values PROVE v \in 0..last /\ v % step = 0
    BY <1>6, <2>1 DEF Multiples
  <2>3. ASSUME NEW v \in 0..last, v % step = 0 PROVE v \in values
    BY <2>1, <2>3 DEF Multiples
  <2> QED BY <2>2, <2>3
<1> HIDE DEF values, last
<1>8. 0 \in values /\ values # {0}
  BY <1>3
<1>9. StepOf(values) = IF values = {v \in 0..Max(values) : v % Min(values \ {0}) = 0} THEN Min(values \ {0}) ELSE 0
  BY <1>8 DEF StepOf
<1>10. StepOf(values) = step
  BY <1>5, <1>7, <1>9 DEF last
<1> QED BY <1>10 DEF values

LEMMA AllAreMultiples ==
  ASSUME NEW top \in Nat
  PROVE  Multiples(1, top) = 0..top
<1>1. \A v \in 0..top : v % 1 = 0
  OBVIOUS
<1> QED BY <1>1 DEF Multiples

-----------------------------------------------------------------------------
(* What the tabs write, and what they read back                            *)

Hours == 0..(HoursPerDay - 1)
Minutes == 0..(MinutesPerHour - 1)

(* The specs of the tabs; none of them is a time of midnight.              *)
Awake(spec) == spec.hour # 0 \/ spec.minute # 0
DailySpecs == {s \in [kind : {"daily"}, hour : Hours, minute : Minutes] : Awake(s)}
WeeklySpecs == {s \in [kind : {"weekly"}, days : SUBSET (0..(WeekdayCount - 1)), hour : Hours, minute : Minutes] :
                  Awake(s) /\ s.days # {}}
MonthlySpecs == {s \in [kind : {"monthly"}, day : 1..MaxDays, hour : Hours, minute : Minutes] : Awake(s)}
MinuteSpecs == [kind : {"interval"}, unit : {"minute"}, every : 1..(MinutesPerHour - 1)]
HourSpecs == [kind : {"interval"}, unit : {"hour"}, every : 1..(HoursPerDay - 1)]
Structured == DailySpecs \cup WeeklySpecs \cup MonthlySpecs \cup MinuteSpecs \cup HourSpecs

LEMMA EditorSizes ==
  /\ MinutesPerHour \in Nat /\ MinutesPerHour > 1 /\ HoursPerDay \in Nat /\ HoursPerDay > 1
  /\ DefaultHour \in 1..(HoursPerDay - 1) /\ DefaultEvery \in 1..(MinutesPerHour - 1)
BY Sizes, EditorAssumption

LEMMA ExpressionIsNoText == ASSUME NEW expr \in Expression PROVE expr # NotCron /\ expr # Nothing
<1>1. "minute" \in DOMAIN expr
  BY DEF Expression
<1>2. "minute" \notin DOMAIN NotCron /\ "minute" \notin DOMAIN Nothing
  BY DEF NotCron, Nothing
<1> QED BY <1>1, <1>2

LEMMA ExpressionIsValid ==
  ASSUME NEW expr \in Expression
  PROVE  IsValidCron(expr) <=>
           /\ FieldIsValid("minute", expr.minute) /\ FieldIsValid("hour", expr.hour) /\ FieldIsValid("day", expr.day)
           /\ FieldIsValid("month", expr.month) /\ FieldIsValid("weekday", expr.weekday)
BY ExpressionIsNoText DEF IsValidCron, Fields

LEMMA ParsedFields ==
  ASSUME NEW expr
  PROVE  /\ ParseCron(expr).minutes = FieldSet("minute", expr.minute) /\ ParseCron(expr).hours = FieldSet("hour", expr.hour)
         /\ ParseCron(expr).days = FieldSet("day", expr.day) /\ ParseCron(expr).months = FieldSet("month", expr.month)
         /\ ParseCron(expr).weekdays = {w % WeekdayCount : w \in FieldSet("weekday", expr.weekday)}
         /\ ParseCron(expr).dayWildcard = expr.day.star /\ ParseCron(expr).weekdayWildcard = expr.weekday.star
BY DEF ParseCron

(* The order of the tabs, for a rule whose fields are p.                   *)
AnyDay(p) == p.dayWildcard /\ p.weekdayWildcard /\ p.months = 1..MonthCount
Once(p) == Cardinality(p.hours) = 1 /\ Cardinality(p.minutes) = 1 /\ p.months = 1..MonthCount
MinuteTab(p) == AnyDay(p) /\ p.hours = Hours /\ (StepOf(p.minutes) > 1 \/ p.minutes = Minutes)
HourTab(p) == AnyDay(p) /\ p.minutes = {0} /\ StepOf(p.hours) # 0

LEMMA TabOrder ==
  ASSUME NEW expr, IsValidCron(expr), NEW p, p = ParseCron(expr)
  PROVE  CronToSpec(expr) =
           IF MinuteTab(p) THEN Interval("minute", StepOf(p.minutes))
           ELSE IF HourTab(p) THEN Interval("hour", StepOf(p.hours))
           ELSE IF AnyDay(p) /\ Once(p) THEN Daily(Only(p.hours), Only(p.minutes))
           ELSE IF WeeklyTab(p) /\ Once(p) THEN Weekly(p.weekdays, Only(p.hours), Only(p.minutes))
           ELSE IF MonthlyTab(p) /\ Once(p) THEN Monthly(Only(p.days), Only(p.hours), Only(p.minutes))
           ELSE Custom(expr)
BY Zenon DEF CronToSpec, MinuteTab, HourTab, AnyDay, Once, Hours, Minutes

LEMMA AtIs ==
  ASSUME NEW hour \in Hours, NEW minute \in Minutes
  PROVE  /\ List({minute}) \in FieldText /\ FieldIsValid("minute", List({minute})) /\ FieldSet("minute", List({minute})) = {minute}
         /\ List({hour}) \in FieldText /\ FieldIsValid("hour", List({hour})) /\ FieldSet("hour", List({hour})) = {hour}
<1>1. "minute" \in Fields /\ "hour" \in Fields
  BY DEF Fields
<1>2. {minute} \in SUBSET (RangeOf["minute"][1]..RangeOf["minute"][2])
  BY RangesAre DEF Minutes
<1>3. {hour} \in SUBSET (RangeOf["hour"][1]..RangeOf["hour"][2])
  BY RangesAre DEF Hours
<1>4. {minute} # {} /\ {hour} # {}
  OBVIOUS
<1>5. List({minute}) \in FieldText /\ FieldIsValid("minute", List({minute})) /\ FieldSet("minute", List({minute})) = {minute}
  BY <1>1, <1>2, <1>4, ListIs
<1>6. List({hour}) \in FieldText /\ FieldIsValid("hour", List({hour})) /\ FieldSet("hour", List({hour})) = {hour}
  BY <1>1, <1>3, <1>4, ListIs
<1> QED BY <1>5, <1>6

LEMMA StarsAre ==
  /\ Star \in FieldText /\ Star.star = TRUE
  /\ \A field \in Fields : FieldIsValid(field, Star)
  /\ FieldSet("minute", Star) = Minutes /\ FieldSet("hour", Star) = Hours /\ FieldSet("day", Star) = 1..MaxDays
  /\ FieldSet("month", Star) = 1..MonthCount /\ FieldSet("weekday", Star) = 0..WeekdayCount
<1>1. \A field \in Fields : Star \in FieldText /\ Star.star = TRUE /\ FieldIsValid(field, Star) /\ FieldSet(field, Star) = RangeOf[field][1]..RangeOf[field][2]
  BY StarIs
<1>2. "minute" \in Fields /\ "hour" \in Fields /\ "day" \in Fields /\ "month" \in Fields /\ "weekday" \in Fields
  BY DEF Fields
<1> QED BY <1>1, <1>2, RangesAre DEF Hours, Minutes

(* Sunday is written as the last day and read as the first.                *)
ReadDays(weekdays) == {w % WeekdayCount : w \in weekdays}
WrittenDays(days) == {IF d = 0 THEN WeekdayCount ELSE d : d \in days}

LEMMA WeekdaysAreReadBack ==
  ASSUME NEW days \in SUBSET (0..(WeekdayCount - 1)), days # {}
  PROVE  /\ List(WrittenDays(days)) \in FieldText /\ List(WrittenDays(days)).star = FALSE
         /\ FieldIsValid("weekday", List(WrittenDays(days)))
         /\ ReadDays(FieldSet("weekday", List(WrittenDays(days)))) = days
<1> DEFINE written == WrittenDays(days)
           writtenAs(d) == IF d = 0 THEN WeekdayCount ELSE d
<1>1. \A d \in days : writtenAs(d) \in 0..WeekdayCount /\ writtenAs(d) % WeekdayCount = d
  <2> TAKE d \in days
  <2>1. d \in Nat /\ d < WeekdayCount /\ WeekdayCount \in Nat \ {0}
    BY WeekHasDays
  <2>2. CASE d = 0
    <3>1. WeekdayCount = WeekdayCount * 1 + 0 /\ 0 \in 0..(WeekdayCount - 1)
      BY <2>1
    <3>2. WeekdayCount % WeekdayCount = 0
      BY <2>1, <3>1, Quotient
    <3> QED BY <2>1, <2>2, <3>2
  <2>3. CASE d # 0
    <3>1. d = WeekdayCount * 0 + d /\ d \in 0..(WeekdayCount - 1)
      BY <2>1
    <3>2. d % WeekdayCount = d
      BY <2>1, <3>1, Quotient
    <3> QED BY <2>1, <2>3, <3>2
  <2> QED BY <2>2, <2>3
<1>2. written = {writtenAs(d) : d \in days}
  BY DEF WrittenDays
<1> HIDE DEF writtenAs, written
<1>3. written \in SUBSET (0..WeekdayCount) /\ written # {}
  BY <1>1, <1>2
<1>4. ReadDays(written) = days
  <2>1. ASSUME NEW w \in written PROVE w % WeekdayCount \in days
    BY <1>1, <1>2
  <2>2. ASSUME NEW d \in days PROVE \E w \in written : w % WeekdayCount = d
    BY <1>1, <1>2
  <2> QED BY <2>1, <2>2 DEF ReadDays
<1>5. "weekday" \in Fields /\ 0..WeekdayCount = RangeOf["weekday"][1]..RangeOf["weekday"][2]
  BY RangesAre DEF Fields
<1>6. /\ List(written) \in FieldText /\ List(written).star = FALSE /\ FieldIsValid("weekday", List(written))
      /\ FieldSet("weekday", List(written)) = written
  BY <1>3, <1>5, ListIs
<1>7. ReadDays(FieldSet("weekday", List(written))) = days
  BY <1>4, <1>6
<1> QED BY <1>6, <1>7 DEF written

LEMMA StarWeekdays == ReadDays(0..WeekdayCount) = 0..(WeekdayCount - 1)
<1>1. \A w \in 0..WeekdayCount : w % WeekdayCount \in 0..(WeekdayCount - 1)
  <2> TAKE w \in 0..WeekdayCount
  <2>1. w \in Int /\ WeekdayCount \in Int /\ WeekdayCount > 0
    BY WeekHasDays
  <2> QED BY <2>1, Division
<1>2. \A d \in 0..(WeekdayCount - 1) : d \in 0..WeekdayCount /\ d % WeekdayCount = d
  <2> TAKE d \in 0..(WeekdayCount - 1)
  <2>1. WeekdayCount \in Nat \ {0} /\ d \in Nat /\ d < WeekdayCount /\ d = WeekdayCount * 0 + d
    BY WeekHasDays
  <2>2. d % WeekdayCount = d
    BY <2>1, Quotient
  <2> QED BY <2>1, <2>2
<1> QED BY <1>1, <1>2 DEF ReadDays

(* The sets of a rule for every month.                                     *)
Parsed(minutes, hours, days, weekdays, dayStar, weekdayStar) ==
  [minutes |-> minutes, hours |-> hours, days |-> days, months |-> 1..MonthCount, weekdays |-> weekdays,
   dayWildcard |-> dayStar, weekdayWildcard |-> weekdayStar]

AllDays == 1..MaxDays
AllWeekdays == 0..(WeekdayCount - 1)

LEMMA ParsedIs ==
  ASSUME NEW expr, FieldSet("month", expr.month) = 1..MonthCount
  PROVE  ParseCron(expr) =
           Parsed(FieldSet("minute", expr.minute), FieldSet("hour", expr.hour), FieldSet("day", expr.day),
                  ReadDays(FieldSet("weekday", expr.weekday)), expr.day.star, expr.weekday.star)
BY DEF ParseCron, Parsed, ReadDays

(* A rule at one time of one hour: what the tabs see of it.                *)
LEMMA OneTimeIs ==
  ASSUME NEW hour \in Hours, NEW minute \in Minutes, hour # 0 \/ minute # 0,
         NEW p, p.hours = {hour}, p.minutes = {minute}, p.months = 1..MonthCount
  PROVE  Once(p) /\ Only(p.hours) = hour /\ Only(p.minutes) = minute /\ ~MinuteTab(p) /\ ~HourTab(p)
<1>1. Cardinality({hour}) = 1 /\ Only({hour}) = hour /\ Cardinality({minute}) = 1 /\ Only({minute}) = minute
  BY SingleIs
<1>2. Once(p) /\ Only(p.hours) = hour /\ Only(p.minutes) = minute
  BY <1>1 DEF Once
<1>3. {hour} # Hours
  <2>1. 0 \in Hours /\ 1 \in Hours
    BY EditorSizes DEF Hours
  <2> QED BY <2>1
<1>4. ASSUME p.minutes = {0}, StepOf(p.hours) # 0 PROVE FALSE
  <2>1. {hour} \in SUBSET (0..(HoursPerDay - 1)) /\ HoursPerDay - 1 \in Nat \ {0}
    BY EditorSizes DEF Hours
  <2>2. StepOf({hour}) # 0 => 0 \in {hour}
    BY <2>1, StepIs
  <2>3. hour = 0 /\ minute = 0
    BY <1>4, <2>2
  <2> QED BY <2>3
<1> QED BY <1>2, <1>3, <1>4 DEF MinuteTab, HourTab

LEMMA DailyIsWritten ==
  ASSUME NEW hour \in Hours, NEW minute \in Minutes, NEW expr, expr = SpecToCron(Daily(hour, minute))
  PROVE  /\ expr \in Expression /\ IsValidCron(expr)
         /\ ParseCron(expr) = Parsed({minute}, {hour}, AllDays, AllWeekdays, TRUE, TRUE)
<1>1. expr = [minute |-> List({minute}), hour |-> List({hour}), day |-> Star, month |-> Star, weekday |-> Star]
  BY DEF SpecToCron, At, Daily
<1>2. expr \in Expression
  BY <1>1, AtIs, StarsAre DEF Expression
<1>3. IsValidCron(expr)
  <2>1. \A field \in Fields : FieldIsValid(field, Star)
    BY StarsAre
  <2> QED BY <1>1, <1>2, <2>1, AtIs, ExpressionIsValid DEF Fields
<1>4. ReadDays(FieldSet("weekday", expr.weekday)) = AllWeekdays
  BY <1>1, StarsAre, StarWeekdays DEF AllWeekdays
<1>5. /\ FieldSet("minute", expr.minute) = {minute} /\ FieldSet("hour", expr.hour) = {hour} /\ FieldSet("day", expr.day) = AllDays
      /\ FieldSet("month", expr.month) = 1..MonthCount /\ expr.day.star = TRUE /\ expr.weekday.star = TRUE
  BY <1>1, AtIs, StarsAre DEF AllDays
<1> QED BY <1>2, <1>3, <1>4, <1>5, ParsedIs

LEMMA DailyIsReturned ==
  ASSUME NEW spec \in DailySpecs
  PROVE  SpecToCron(spec) \in Expression /\ IsValidCron(SpecToCron(spec)) /\ CronToSpec(SpecToCron(spec)) = spec
<1> DEFINE hour == spec.hour
           minute == spec.minute
           expr == SpecToCron(spec)
           p == ParseCron(expr)
<1>1. hour \in Hours /\ minute \in Minutes /\ (hour # 0 \/ minute # 0) /\ spec = Daily(hour, minute)
  BY DEF DailySpecs, Awake, Daily
<1> HIDE DEF hour, minute, expr
<1>2. expr = SpecToCron(Daily(hour, minute))
  BY <1>1 DEF expr
<1>3. expr \in Expression /\ IsValidCron(expr) /\ p = Parsed({minute}, {hour}, AllDays, AllWeekdays, TRUE, TRUE)
  BY <1>1, <1>2, DailyIsWritten
<1>4. p = ParseCron(expr)
  BY DEF p
<1> HIDE DEF p
<1>5. p.hours = {hour} /\ p.minutes = {minute} /\ p.months = 1..MonthCount /\ p.dayWildcard /\ p.weekdayWildcard
  BY <1>3 DEF Parsed
<1>6. Once(p) /\ Only(p.hours) = hour /\ Only(p.minutes) = minute /\ ~MinuteTab(p) /\ ~HourTab(p)
  BY <1>1, <1>5, OneTimeIs
<1>7. AnyDay(p)
  BY <1>5 DEF AnyDay
<1>8. CronToSpec(expr) = Daily(Only(p.hours), Only(p.minutes))
  BY <1>3, <1>4, <1>6, <1>7, TabOrder, Zenon
<1>9. CronToSpec(expr) = spec
  BY <1>1, <1>6, <1>8
<1> QED BY <1>3, <1>9 DEF expr

LEMMA WeeklyIsWritten ==
  ASSUME NEW days \in SUBSET (0..(WeekdayCount - 1)), days # {}, NEW hour \in Hours, NEW minute \in Minutes,
         NEW expr, expr = SpecToCron(Weekly(days, hour, minute))
  PROVE  /\ expr \in Expression /\ IsValidCron(expr)
         /\ ParseCron(expr) = Parsed({minute}, {hour}, AllDays, days, TRUE, FALSE)
<1> DEFINE listed == List(WrittenDays(days))
<1>1. expr = [minute |-> List({minute}), hour |-> List({hour}), day |-> Star, month |-> Star, weekday |-> listed]
  <2>1. expr = [At(hour, minute) EXCEPT !.weekday = listed]
    BY DEF SpecToCron, WrittenDays, Weekly
  <2> QED BY <2>1 DEF At
<1>2. /\ listed \in FieldText /\ listed.star = FALSE /\ FieldIsValid("weekday", listed)
      /\ ReadDays(FieldSet("weekday", listed)) = days
  BY WeekdaysAreReadBack
<1> HIDE DEF listed
<1>3. expr \in Expression
  BY <1>1, <1>2, AtIs, StarsAre DEF Expression
<1>4. IsValidCron(expr)
  <2>1. \A field \in Fields : FieldIsValid(field, Star)
    BY StarsAre
  <2> QED BY <1>1, <1>2, <1>3, <2>1, AtIs, ExpressionIsValid DEF Fields
<1>5. ReadDays(FieldSet("weekday", expr.weekday)) = days
  BY <1>1, <1>2
<1>6. /\ FieldSet("minute", expr.minute) = {minute} /\ FieldSet("hour", expr.hour) = {hour} /\ FieldSet("day", expr.day) = AllDays
      /\ FieldSet("month", expr.month) = 1..MonthCount /\ expr.day.star = TRUE /\ expr.weekday.star = FALSE
  BY <1>1, <1>2, AtIs, StarsAre DEF AllDays
<1> QED BY <1>3, <1>4, <1>5, <1>6, ParsedIs

LEMMA WeeklyIsReturned ==
  ASSUME NEW spec \in WeeklySpecs
  PROVE  SpecToCron(spec) \in Expression /\ IsValidCron(SpecToCron(spec)) /\ CronToSpec(SpecToCron(spec)) = spec
<1> DEFINE hour == spec.hour
           minute == spec.minute
           days == spec.days
           expr == SpecToCron(spec)
           p == ParseCron(expr)
<1>1. /\ hour \in Hours /\ minute \in Minutes /\ (hour # 0 \/ minute # 0)
      /\ days \in SUBSET (0..(WeekdayCount - 1)) /\ days # {} /\ spec = Weekly(days, hour, minute)
  BY DEF WeeklySpecs, Awake, Weekly
<1> HIDE DEF hour, minute, days, expr
<1>2. expr = SpecToCron(Weekly(days, hour, minute))
  BY <1>1 DEF expr
<1>3. expr \in Expression /\ IsValidCron(expr) /\ p = Parsed({minute}, {hour}, AllDays, days, TRUE, FALSE)
  BY <1>1, <1>2, WeeklyIsWritten
<1>4. p = ParseCron(expr)
  BY DEF p
<1> HIDE DEF p
<1>5. p.hours = {hour} /\ p.minutes = {minute} /\ p.months = 1..MonthCount /\ p.weekdays = days /\ p.dayWildcard /\ ~p.weekdayWildcard
  BY <1>3 DEF Parsed
<1>6. Once(p) /\ Only(p.hours) = hour /\ Only(p.minutes) = minute /\ ~MinuteTab(p) /\ ~HourTab(p)
  BY <1>1, <1>5, OneTimeIs
<1>7. ~AnyDay(p) /\ WeeklyTab(p)
  BY <1>5 DEF AnyDay, WeeklyTab
<1>8. CronToSpec(expr) = Weekly(p.weekdays, Only(p.hours), Only(p.minutes))
  BY <1>3, <1>4, <1>6, <1>7, TabOrder, Zenon
<1>9. CronToSpec(expr) = spec
  BY <1>1, <1>5, <1>6, <1>8
<1> QED BY <1>3, <1>9 DEF expr

LEMMA MonthlyIsWritten ==
  ASSUME NEW day \in AllDays, NEW hour \in Hours, NEW minute \in Minutes,
         NEW expr, expr = SpecToCron(Monthly(day, hour, minute))
  PROVE  /\ expr \in Expression /\ IsValidCron(expr)
         /\ ParseCron(expr) = Parsed({minute}, {hour}, {day}, AllWeekdays, FALSE, TRUE)
<1> DEFINE listed == List({day})
<1>1. expr = [minute |-> List({minute}), hour |-> List({hour}), day |-> listed, month |-> Star, weekday |-> Star]
  <2>1. expr = [At(hour, minute) EXCEPT !.day = listed]
    BY DEF SpecToCron, Monthly
  <2> QED BY <2>1 DEF At
<1>2. /\ listed \in FieldText /\ listed.star = FALSE /\ FieldIsValid("day", listed)
      /\ FieldSet("day", listed) = {day}
  <2>1. "day" \in Fields /\ {day} \in SUBSET (RangeOf["day"][1]..RangeOf["day"][2]) /\ {day} # {}
    BY RangesAre DEF Fields, AllDays
  <2> QED BY <2>1, ListIs
<1> HIDE DEF listed
<1>3. expr \in Expression
  BY <1>1, <1>2, AtIs, StarsAre DEF Expression
<1>4. IsValidCron(expr)
  <2>1. \A field \in Fields : FieldIsValid(field, Star)
    BY StarsAre
  <2> QED BY <1>1, <1>2, <1>3, <2>1, AtIs, ExpressionIsValid DEF Fields
<1>5. ReadDays(FieldSet("weekday", expr.weekday)) = AllWeekdays
  BY <1>1, StarsAre, StarWeekdays DEF AllWeekdays
<1>6. /\ FieldSet("minute", expr.minute) = {minute} /\ FieldSet("hour", expr.hour) = {hour} /\ FieldSet("day", expr.day) = {day}
      /\ FieldSet("month", expr.month) = 1..MonthCount /\ expr.day.star = FALSE /\ expr.weekday.star = TRUE
  BY <1>1, <1>2, AtIs, StarsAre
<1> QED BY <1>3, <1>4, <1>5, <1>6, ParsedIs

LEMMA MonthlyIsReturned ==
  ASSUME NEW spec \in MonthlySpecs
  PROVE  SpecToCron(spec) \in Expression /\ IsValidCron(SpecToCron(spec)) /\ CronToSpec(SpecToCron(spec)) = spec
<1> DEFINE hour == spec.hour
           minute == spec.minute
           day == spec.day
           expr == SpecToCron(spec)
           p == ParseCron(expr)
<1>1. /\ hour \in Hours /\ minute \in Minutes /\ (hour # 0 \/ minute # 0)
      /\ day \in AllDays /\ spec = Monthly(day, hour, minute)
  BY DEF MonthlySpecs, Awake, Monthly, AllDays
<1> HIDE DEF hour, minute, day, expr
<1>2. expr = SpecToCron(Monthly(day, hour, minute))
  BY <1>1 DEF expr
<1>3. expr \in Expression /\ IsValidCron(expr) /\ p = Parsed({minute}, {hour}, {day}, AllWeekdays, FALSE, TRUE)
  BY <1>1, <1>2, MonthlyIsWritten
<1>4. p = ParseCron(expr)
  BY DEF p
<1> HIDE DEF p
<1>5. p.hours = {hour} /\ p.minutes = {minute} /\ p.months = 1..MonthCount /\ p.days = {day} /\ ~p.dayWildcard /\ p.weekdayWildcard
  BY <1>3 DEF Parsed
<1>6. Once(p) /\ Only(p.hours) = hour /\ Only(p.minutes) = minute /\ ~MinuteTab(p) /\ ~HourTab(p)
  BY <1>1, <1>5, OneTimeIs
<1>7. ~AnyDay(p) /\ ~WeeklyTab(p) /\ MonthlyTab(p) /\ Only(p.days) = day
  <2>1. Cardinality({day}) = 1 /\ Only({day}) = day
    BY SingleIs
  <2> QED BY <1>5, <2>1 DEF AnyDay, WeeklyTab, MonthlyTab
<1>8. CronToSpec(expr) = Monthly(Only(p.days), Only(p.hours), Only(p.minutes))
  BY <1>3, <1>4, <1>6, <1>7, TabOrder, Zenon
<1>9. CronToSpec(expr) = spec
  BY <1>1, <1>6, <1>7, <1>8
<1> QED BY <1>3, <1>9 DEF expr

(* The field of an interval: "*" for every one, a step of the range else.  *)
SteppedField(field, every) == IF every = 1 THEN Star ELSE Every(field, every)

LEMMA SteppedIs ==
  ASSUME NEW field \in {"minute", "hour"}, NEW top, top = RangeOf[field][2], NEW every \in 1..top
  PROVE  /\ SteppedField(field, every) \in FieldText /\ FieldIsValid(field, SteppedField(field, every))
         /\ FieldSet(field, SteppedField(field, every)) = Multiples(every, top)
<1>1. field \in Fields /\ RangeOf[field][1] = 0 /\ top \in Nat
  BY RangesAre, Sizes DEF Fields
<1>2. CASE every = 1
  <2>1. Star \in FieldText /\ FieldIsValid(field, Star) /\ FieldSet(field, Star) = 0..top
    BY <1>1, StarIs
  <2> QED BY <1>1, <1>2, <2>1, AllAreMultiples DEF SteppedField
<1>3. CASE every # 1
  BY <1>3, EveryIs DEF SteppedField
<1> QED BY <1>2, <1>3

LEMMA OnTheHourIsNoMinuteTab ==
  ASSUME NEW p, p.minutes = {0}
  PROVE  ~MinuteTab(p)
<1>1. StepOf({0}) = 1
  BY DEF StepOf
<1>2. {0} # Minutes
  <2>1. 1 \in Minutes
    BY EditorSizes DEF Minutes
  <2> QED BY <2>1
<1> QED BY <1>1, <1>2 DEF MinuteTab

LEMMA MinutesAreWritten ==
  ASSUME NEW every \in 1..(MinutesPerHour - 1), NEW expr, expr = SpecToCron(Interval("minute", every))
  PROVE  /\ expr \in Expression /\ IsValidCron(expr)
         /\ ParseCron(expr) = Parsed(Multiples(every, MinutesPerHour - 1), Hours, AllDays, AllWeekdays, TRUE, TRUE)
<1> DEFINE field == SteppedField("minute", every)
<1>1. expr = [minute |-> field, hour |-> Star, day |-> Star, month |-> Star, weekday |-> Star]
  BY DEF SpecToCron, At, SteppedField, Interval
<1>2. field \in FieldText /\ FieldIsValid("minute", field) /\ FieldSet("minute", field) = Multiples(every, MinutesPerHour - 1)
  BY SteppedIs, RangesAre
<1> HIDE DEF field
<1>3. expr \in Expression
  BY <1>1, <1>2, StarsAre DEF Expression
<1>4. IsValidCron(expr)
  <2>1. \A f \in Fields : FieldIsValid(f, Star)
    BY StarsAre
  <2> QED BY <1>1, <1>2, <1>3, <2>1, ExpressionIsValid DEF Fields
<1>5. ReadDays(FieldSet("weekday", expr.weekday)) = AllWeekdays
  BY <1>1, StarsAre, StarWeekdays DEF AllWeekdays
<1>6. /\ FieldSet("minute", expr.minute) = Multiples(every, MinutesPerHour - 1) /\ FieldSet("hour", expr.hour) = Hours
      /\ FieldSet("day", expr.day) = AllDays
      /\ FieldSet("month", expr.month) = 1..MonthCount /\ expr.day.star = TRUE /\ expr.weekday.star = TRUE
  BY <1>1, <1>2, StarsAre DEF AllDays
<1> QED BY <1>3, <1>4, <1>5, <1>6, ParsedIs

LEMMA MinutesAreReturned ==
  ASSUME NEW spec \in MinuteSpecs
  PROVE  SpecToCron(spec) \in Expression /\ IsValidCron(SpecToCron(spec)) /\ CronToSpec(SpecToCron(spec)) = spec
<1> DEFINE every == spec.every
           top == MinutesPerHour - 1
           expr == SpecToCron(spec)
           p == ParseCron(expr)
<1>1. every \in 1..top /\ spec = Interval("minute", every)
  BY DEF MinuteSpecs, Interval
<1> HIDE DEF expr, every
<1>2. expr = SpecToCron(Interval("minute", every))
  BY <1>1 DEF expr
<1>3. expr \in Expression /\ IsValidCron(expr) /\ p = Parsed(Multiples(every, top), Hours, AllDays, AllWeekdays, TRUE, TRUE)
  BY <1>1, <1>2, MinutesAreWritten
<1>4. p = ParseCron(expr)
  BY DEF p
<1> HIDE DEF p
<1>5. top \in Nat \ {0}
  BY EditorSizes
<1>6. Minutes = 0..top
  BY DEF Minutes
<1> HIDE DEF top
<1>7. p.hours = Hours /\ p.months = 1..MonthCount /\ p.minutes = Multiples(every, top) /\ p.dayWildcard /\ p.weekdayWildcard
  BY <1>3 DEF Parsed
<1>8. StepOf(p.minutes) = every
  BY <1>1, <1>5, <1>7, StepOfMultiples
<1>9. every > 1 \/ p.minutes = Minutes
  <2>1. CASE every = 1
    <3>1. Multiples(1, top) = 0..top
      BY <1>5, AllAreMultiples
    <3> QED BY <1>6, <1>7, <2>1, <3>1
  <2>2. CASE every # 1
    BY <1>1, <1>5, <2>2
  <2> QED BY <2>1, <2>2
<1>10. MinuteTab(p)
  BY <1>7, <1>8, <1>9 DEF MinuteTab, AnyDay
<1>11. CronToSpec(expr) = Interval("minute", StepOf(p.minutes))
  BY <1>3, <1>4, <1>10, TabOrder, Zenon
<1>12. CronToSpec(expr) = spec
  BY <1>1, <1>8, <1>11
<1> QED BY <1>3, <1>12 DEF expr

LEMMA HoursAreWritten ==
  ASSUME NEW every \in 1..(HoursPerDay - 1), NEW expr, expr = SpecToCron(Interval("hour", every))
  PROVE  /\ expr \in Expression /\ IsValidCron(expr)
         /\ ParseCron(expr) = Parsed({0}, Multiples(every, HoursPerDay - 1), AllDays, AllWeekdays, TRUE, TRUE)
<1> DEFINE field == SteppedField("hour", every)
<1>1. expr = [minute |-> List({0}), hour |-> field, day |-> Star, month |-> Star, weekday |-> Star]
  BY DEF SpecToCron, At, SteppedField, Interval
<1>2. field \in FieldText /\ FieldIsValid("hour", field) /\ FieldSet("hour", field) = Multiples(every, HoursPerDay - 1)
  BY SteppedIs, RangesAre
<1>3. List({0}) \in FieldText /\ FieldIsValid("minute", List({0})) /\ FieldSet("minute", List({0})) = {0}
  <2>1. 0 \in Hours /\ 0 \in Minutes
    BY EditorSizes DEF Hours, Minutes
  <2> QED BY <2>1, AtIs
<1> HIDE DEF field
<1>4. expr \in Expression
  BY <1>1, <1>2, <1>3, StarsAre DEF Expression
<1>5. IsValidCron(expr)
  <2>1. \A f \in Fields : FieldIsValid(f, Star)
    BY StarsAre
  <2> QED BY <1>1, <1>2, <1>3, <1>4, <2>1, ExpressionIsValid DEF Fields
<1>6. ReadDays(FieldSet("weekday", expr.weekday)) = AllWeekdays
  BY <1>1, StarsAre, StarWeekdays DEF AllWeekdays
<1>7. /\ FieldSet("minute", expr.minute) = {0} /\ FieldSet("hour", expr.hour) = Multiples(every, HoursPerDay - 1)
      /\ FieldSet("day", expr.day) = AllDays
      /\ FieldSet("month", expr.month) = 1..MonthCount /\ expr.day.star = TRUE /\ expr.weekday.star = TRUE
  BY <1>1, <1>2, <1>3, StarsAre DEF AllDays
<1> QED BY <1>4, <1>5, <1>6, <1>7, ParsedIs

LEMMA HoursAreReturned ==
  ASSUME NEW spec \in HourSpecs
  PROVE  SpecToCron(spec) \in Expression /\ IsValidCron(SpecToCron(spec)) /\ CronToSpec(SpecToCron(spec)) = spec
<1> DEFINE every == spec.every
           top == HoursPerDay - 1
           expr == SpecToCron(spec)
           p == ParseCron(expr)
<1>1. every \in 1..top /\ spec = Interval("hour", every)
  BY DEF HourSpecs, Interval
<1> HIDE DEF expr, every
<1>2. expr = SpecToCron(Interval("hour", every))
  BY <1>1 DEF expr
<1>3. expr \in Expression /\ IsValidCron(expr) /\ p = Parsed({0}, Multiples(every, top), AllDays, AllWeekdays, TRUE, TRUE)
  BY <1>1, <1>2, HoursAreWritten
<1>4. p = ParseCron(expr)
  BY DEF p
<1> HIDE DEF p
<1>5. top \in Nat \ {0}
  BY EditorSizes
<1> HIDE DEF top
<1>6. p.hours = Multiples(every, top) /\ p.months = 1..MonthCount /\ p.minutes = {0} /\ p.dayWildcard /\ p.weekdayWildcard
  BY <1>3 DEF Parsed
<1>7. StepOf(p.hours) = every /\ every # 0
  <2>1. StepOf(p.hours) = every
    BY <1>1, <1>5, <1>6, StepOfMultiples
  <2> QED BY <1>1, <1>5, <2>1
<1>8. ~MinuteTab(p)
  BY <1>6, OnTheHourIsNoMinuteTab
<1>9. HourTab(p)
  BY <1>6, <1>7 DEF HourTab, AnyDay
<1>10. CronToSpec(expr) = Interval("hour", StepOf(p.hours))
  BY <1>3, <1>4, <1>8, <1>9, TabOrder, Zenon
<1>11. CronToSpec(expr) = spec
  BY <1>1, <1>7, <1>10
<1> QED BY <1>3, <1>11 DEF expr

(* What a structured tab writes, it reads back.                            *)
LEMMA TabsReadBack ==
  ASSUME NEW spec \in Structured
  PROVE  /\ SpecToCron(spec) \in Expression /\ IsValidCron(SpecToCron(spec)) /\ CronToSpec(SpecToCron(spec)) = spec
         /\ spec.kind # "custom"
<1>1. spec.kind # "custom"
  BY DEF Structured, DailySpecs, WeeklySpecs, MonthlySpecs, MinuteSpecs, HourSpecs
<1> QED BY <1>1, DailyIsReturned, WeeklyIsReturned, MonthlyIsReturned, MinutesAreReturned, HoursAreReturned DEF Structured

(* What a rule says, field by field.                                       *)
LEMMA RuleShape ==
  ASSUME NEW expr \in Expression, IsValidCron(expr), NEW p, p = ParseCron(expr)
  PROVE  /\ p.minutes \in SUBSET Minutes /\ p.hours \in SUBSET Hours /\ p.days \in SUBSET AllDays
         /\ p.weekdays \in SUBSET AllWeekdays /\ p.weekdays # {}
         /\ IsFiniteSet(p.minutes) /\ IsFiniteSet(p.hours) /\ IsFiniteSet(p.days)
         /\ p.dayWildcard \in BOOLEAN /\ p.weekdayWildcard \in BOOLEAN
         /\ (p.dayWildcard => p.days = AllDays) /\ (p.weekdayWildcard => p.weekdays = AllWeekdays)
         /\ (p.months = 1..MonthCount =>
               p = Parsed(p.minutes, p.hours, p.days, p.weekdays, p.dayWildcard, p.weekdayWildcard))
<1>1. /\ FieldIsValid("minute", expr.minute) /\ FieldIsValid("hour", expr.hour) /\ FieldIsValid("day", expr.day)
      /\ FieldIsValid("weekday", expr.weekday)
  BY ExpressionIsValid
<1>2. expr.minute \in FieldText /\ expr.hour \in FieldText /\ expr.day \in FieldText /\ expr.weekday \in FieldText
  BY DEF Expression
<1>3. "minute" \in Fields /\ "hour" \in Fields /\ "day" \in Fields /\ "weekday" \in Fields
  BY DEF Fields
<1>4. /\ p.minutes = FieldSet("minute", expr.minute) /\ p.hours = FieldSet("hour", expr.hour)
      /\ p.days = FieldSet("day", expr.day) /\ p.months = FieldSet("month", expr.month)
      /\ p.weekdays = ReadDays(FieldSet("weekday", expr.weekday))
      /\ p.dayWildcard = expr.day.star /\ p.weekdayWildcard = expr.weekday.star
  BY ParsedFields DEF ReadDays
<1>5. p.minutes \in SUBSET Minutes
  BY <1>1, <1>2, <1>3, <1>4, FieldSetIs, RangesAre DEF Minutes
<1>6. p.hours \in SUBSET Hours
  BY <1>1, <1>2, <1>3, <1>4, FieldSetIs, RangesAre DEF Hours
<1>7. p.days \in SUBSET AllDays /\ (p.dayWildcard => p.days = AllDays)
  BY <1>1, <1>2, <1>3, <1>4, FieldSetIs, RangesAre DEF AllDays
<1>8. p.dayWildcard \in BOOLEAN /\ p.weekdayWildcard \in BOOLEAN
  BY <1>2, <1>4 DEF FieldText
<1>9. /\ p.weekdays \in SUBSET AllWeekdays /\ p.weekdays # {}
      /\ (p.weekdayWildcard => p.weekdays = AllWeekdays)
  <2> DEFINE read == FieldSet("weekday", expr.weekday)
  <2>1. read \in SUBSET (0..WeekdayCount) /\ read # {} /\ (expr.weekday.star => read = 0..WeekdayCount)
    BY <1>1, <1>2, <1>3, FieldSetIs, RangesAre
  <2> HIDE DEF read
  <2>2. p.weekdays = ReadDays(read)
    BY <1>4 DEF read
  <2>3. ReadDays(0..WeekdayCount) = AllWeekdays
    BY StarWeekdays DEF AllWeekdays
  <2>4. ReadDays(read) \in SUBSET ReadDays(0..WeekdayCount) /\ ReadDays(read) # {}
    BY <2>1 DEF ReadDays
  <2> QED BY <1>4, <2>1, <2>2, <2>3, <2>4
<1>10. IsFiniteSet(Minutes) /\ IsFiniteSet(Hours) /\ IsFiniteSet(AllDays)
  BY FS_Interval, Sizes, ManyDays DEF Minutes, Hours, AllDays
<1>11. IsFiniteSet(p.minutes) /\ IsFiniteSet(p.hours) /\ IsFiniteSet(p.days)
  BY <1>5, <1>6, <1>7, <1>10, FS_Subset
<1>12. ASSUME p.months = 1..MonthCount
       PROVE  p = Parsed(p.minutes, p.hours, p.days, p.weekdays, p.dayWildcard, p.weekdayWildcard)
  BY <1>4, <1>12, ParsedIs
<1> QED BY <1>5, <1>6, <1>7, <1>8, <1>9, <1>11, <1>12

LEMMA EndsEarlyIs ==
  ASSUME NEW values, NEW top
  PROVE  EndsEarly(values, top) <=> StepOf(values) # 0 /\ values # Multiples(StepOf(values), top)
BY DEF EndsEarly, Multiples

(* A rule that two expressions give the same sets to has the same times.   *)
LEMMA SameTimesIs ==
  ASSUME NEW own, NEW expr, IsValidCron(own), IsValidCron(expr)
  PROVE  SameTimes(own, expr) <=> ParseCron(own) = ParseCron(expr)
BY DEF SameTimes

LEMMA RewrittenIs ==
  ASSUME NEW expr, IsValidCron(expr), NEW p, p = ParseCron(expr)
  PROVE  Rewritten(expr) <=>
           \/ HourTab(p) /\ EndsEarly(p.hours, HoursPerDay - 1)
           \/ MinuteTab(p) /\ StepOf(p.minutes) > 1 /\ EndsEarly(p.minutes, MinutesPerHour - 1)
<1>1. Rewritten(expr) <=>
        /\ AnyDay(p)
        /\ \/ p.minutes = {0} /\ EndsEarly(p.hours, HoursPerDay - 1)
           \/ p.hours = Hours /\ StepOf(p.minutes) > 1 /\ EndsEarly(p.minutes, MinutesPerHour - 1)
  BY Zenon DEF Rewritten, AnyDay, Hours
<1>2. EndsEarly(p.hours, HoursPerDay - 1) => StepOf(p.hours) # 0
  BY DEF EndsEarly
<1> QED BY <1>1, <1>2, Zenon DEF HourTab, MinuteTab

LEMMA MinutesAreRead ==
  ASSUME NEW expr \in Expression, IsValidCron(expr), NEW p, p = ParseCron(expr), MinuteTab(p)
  PROVE  CronToSpec(expr) \in MinuteSpecs /\ (SameTimes(SpecToCron(CronToSpec(expr)), expr) <=> ~Rewritten(expr))
<1> DEFINE top == MinutesPerHour - 1
           step == StepOf(p.minutes)
           spec == CronToSpec(expr)
           own == SpecToCron(spec)
<1>1. top \in Nat \ {0} /\ Minutes = 0..top
  BY EditorSizes DEF Minutes
<1>2. p.minutes \in SUBSET Minutes /\ p.hours = Hours /\ AnyDay(p)
  BY RuleShape DEF MinuteTab
<1> HIDE DEF top
<1>3. step \in 1..top
  <2>1. step \in 0..top
    BY <1>1, <1>2, StepIs
  <2>2. CASE step > 1
    BY <1>1, <2>1, <2>2
  <2>3. CASE p.minutes = Minutes
    <3>1. p.minutes = Multiples(1, top) /\ 1 \in 1..top
      BY <1>1, <2>3, AllAreMultiples
    <3>2. step = 1
      BY <1>1, <3>1, StepOfMultiples
    <3> QED BY <3>1, <3>2
  <2> QED BY <2>2, <2>3 DEF MinuteTab
<1>4. spec = Interval("minute", step)
  BY TabOrder, Zenon
<1> HIDE DEF step, spec, own
<1>5. spec \in MinuteSpecs
  BY <1>3, <1>4 DEF MinuteSpecs, Interval, top
<1>6. IsValidCron(own) /\ ParseCron(own) = Parsed(Multiples(step, top), Hours, AllDays, AllWeekdays, TRUE, TRUE)
  BY <1>3, <1>4, MinutesAreWritten DEF own, top
<1>7. p = Parsed(p.minutes, Hours, AllDays, AllWeekdays, TRUE, TRUE)
  <2>1. /\ p.months = 1..MonthCount /\ p.days = AllDays /\ p.weekdays = AllWeekdays
        /\ p.dayWildcard = TRUE /\ p.weekdayWildcard = TRUE
    BY <1>2, RuleShape DEF AnyDay
  <2>2. p = Parsed(p.minutes, p.hours, p.days, p.weekdays, p.dayWildcard, p.weekdayWildcard)
    BY <2>1, RuleShape
  <2> QED BY <1>2, <2>1, <2>2
<1>8. SameTimes(own, expr) <=> p.minutes = Multiples(step, top)
  <2>1. SameTimes(own, expr) <=> ParseCron(own) = p
    BY <1>6, SameTimesIs
  <2>2. ASSUME ParseCron(own) = p PROVE p.minutes = Multiples(step, top)
    BY <1>6, <2>2 DEF Parsed
  <2>3. ASSUME p.minutes = Multiples(step, top) PROVE ParseCron(own) = p
    BY <1>6, <1>7, <2>3
  <2> QED BY <2>1, <2>2, <2>3
<1>9. ~HourTab(p)
  BY OnTheHourIsNoMinuteTab DEF HourTab
<1>10. Rewritten(expr) <=> step > 1 /\ p.minutes # Multiples(step, top)
  <2>1. Rewritten(expr) <=> step > 1 /\ EndsEarly(p.minutes, top)
    BY <1>9, RewrittenIs DEF step, top
  <2>2. EndsEarly(p.minutes, top) <=> step # 0 /\ p.minutes # Multiples(step, top)
    BY EndsEarlyIs DEF step
  <2> QED BY <1>3, <2>1, <2>2
<1>11. step = 1 => p.minutes = Multiples(step, top)
  <2> SUFFICES ASSUME step = 1 PROVE p.minutes = Multiples(1, top)
    OBVIOUS
  <2>1. p.minutes = Minutes
    BY DEF MinuteTab, step
  <2> QED BY <1>1, <2>1, AllAreMultiples
<1>12. SameTimes(own, expr) <=> ~Rewritten(expr)
  BY <1>1, <1>3, <1>8, <1>10, <1>11
<1> QED BY <1>5, <1>12 DEF own, spec

LEMMA HoursAreRead ==
  ASSUME NEW expr \in Expression, IsValidCron(expr), NEW p, p = ParseCron(expr), ~MinuteTab(p), HourTab(p)
  PROVE  CronToSpec(expr) \in HourSpecs /\ (SameTimes(SpecToCron(CronToSpec(expr)), expr) <=> ~Rewritten(expr))
<1> DEFINE top == HoursPerDay - 1
           step == StepOf(p.hours)
           spec == CronToSpec(expr)
           own == SpecToCron(spec)
<1>1. top \in Nat \ {0} /\ Hours = 0..top
  BY EditorSizes DEF Hours
<1>2. p.hours \in SUBSET Hours /\ p.minutes = {0} /\ AnyDay(p) /\ step # 0
  BY RuleShape DEF HourTab
<1> HIDE DEF top
<1>3. step \in 1..top
  <2>1. step \in 0..top
    BY <1>1, <1>2, StepIs
  <2> QED BY <1>1, <1>2, <2>1
<1>4. spec = Interval("hour", step)
  BY TabOrder, Zenon
<1> HIDE DEF step, spec, own
<1>5. spec \in HourSpecs
  BY <1>3, <1>4 DEF HourSpecs, Interval, top
<1>6. IsValidCron(own) /\ ParseCron(own) = Parsed({0}, Multiples(step, top), AllDays, AllWeekdays, TRUE, TRUE)
  BY <1>3, <1>4, HoursAreWritten DEF own, top
<1>7. p = Parsed({0}, p.hours, AllDays, AllWeekdays, TRUE, TRUE)
  <2>1. /\ p.months = 1..MonthCount /\ p.days = AllDays /\ p.weekdays = AllWeekdays
        /\ p.dayWildcard = TRUE /\ p.weekdayWildcard = TRUE
    BY <1>2, RuleShape DEF AnyDay
  <2>2. p = Parsed(p.minutes, p.hours, p.days, p.weekdays, p.dayWildcard, p.weekdayWildcard)
    BY <2>1, RuleShape
  <2> QED BY <1>2, <2>1, <2>2
<1>8. SameTimes(own, expr) <=> p.hours = Multiples(step, top)
  <2>1. SameTimes(own, expr) <=> ParseCron(own) = p
    BY <1>6, SameTimesIs
  <2>2. ASSUME ParseCron(own) = p PROVE p.hours = Multiples(step, top)
    BY <1>6, <2>2 DEF Parsed
  <2>3. ASSUME p.hours = Multiples(step, top) PROVE ParseCron(own) = p
    BY <1>6, <1>7, <2>3
  <2> QED BY <2>1, <2>2, <2>3
<1>9. Rewritten(expr) <=> p.hours # Multiples(step, top)
  <2>1. Rewritten(expr) <=> EndsEarly(p.hours, top)
    BY RewrittenIs DEF top
  <2>2. EndsEarly(p.hours, top) <=> step # 0 /\ p.hours # Multiples(step, top)
    BY EndsEarlyIs DEF step
  <2> QED BY <1>2, <2>1, <2>2
<1>10. SameTimes(own, expr) <=> ~Rewritten(expr)
  BY <1>8, <1>9
<1> QED BY <1>5, <1>10 DEF own, spec

(* The tabs of one time: what they show is the rule.                       *)
LEMMA TimesAreRead ==
  ASSUME NEW expr \in Expression, IsValidCron(expr), NEW p, p = ParseCron(expr), ~MinuteTab(p), ~HourTab(p),
         CronToSpec(expr) # Custom(expr)
  PROVE  /\ CronToSpec(expr).kind # "custom" /\ SameTimes(SpecToCron(CronToSpec(expr)), expr)
         /\ (~AtMidnight(expr) => CronToSpec(expr) \in Structured)
<1> DEFINE spec == CronToSpec(expr)
           own == SpecToCron(spec)
           hour == Only(p.hours)
           minute == Only(p.minutes)
<1>1. spec = IF AnyDay(p) /\ Once(p) THEN Daily(hour, minute)
             ELSE IF WeeklyTab(p) /\ Once(p) THEN Weekly(p.weekdays, hour, minute)
             ELSE IF MonthlyTab(p) /\ Once(p) THEN Monthly(Only(p.days), hour, minute)
             ELSE Custom(expr)
  BY TabOrder, Zenon
<1>2. Once(p) /\ (AnyDay(p) \/ WeeklyTab(p) \/ MonthlyTab(p))
  BY <1>1
<1>3. p.hours = {hour} /\ hour \in Hours /\ p.minutes = {minute} /\ minute \in Minutes
  <2>1. hour \in p.hours /\ p.hours = {hour} /\ minute \in p.minutes /\ p.minutes = {minute}
    BY <1>2, RuleShape, OnlyIs DEF Once
  <2> QED BY <2>1, RuleShape
<1>4. p = Parsed({minute}, {hour}, p.days, p.weekdays, p.dayWildcard, p.weekdayWildcard)
  <2>1. p = Parsed(p.minutes, p.hours, p.days, p.weekdays, p.dayWildcard, p.weekdayWildcard)
    BY <1>2, RuleShape DEF Once
  <2> QED BY <1>3, <2>1
<1>5. ~AtMidnight(expr) => hour # 0 \/ minute # 0
  BY <1>3 DEF AtMidnight
<1> HIDE DEF hour, minute, own, spec
<1>6. CASE AnyDay(p)
  <2>1. spec = Daily(hour, minute)
    BY <1>1, <1>2, <1>6
  <2>2. IsValidCron(own) /\ ParseCron(own) = Parsed({minute}, {hour}, AllDays, AllWeekdays, TRUE, TRUE)
    BY <1>3, <2>1, DailyIsWritten DEF own
  <2>3. p.days = AllDays /\ p.weekdays = AllWeekdays /\ p.dayWildcard = TRUE /\ p.weekdayWildcard = TRUE
    BY <1>6, RuleShape DEF AnyDay
  <2>4. ParseCron(own) = p
    BY <1>4, <2>2, <2>3
  <2>5. spec.kind # "custom" /\ (~AtMidnight(expr) => spec \in DailySpecs)
    BY <1>3, <1>5, <2>1 DEF DailySpecs, Daily, Awake
  <2> QED BY <2>2, <2>4, <2>5, SameTimesIs DEF Structured, spec, own
<1>7. CASE ~AnyDay(p) /\ WeeklyTab(p)
  <2>1. spec = Weekly(p.weekdays, hour, minute)
    BY <1>1, <1>2, <1>7
  <2>2. p.weekdays \in SUBSET (0..(WeekdayCount - 1)) /\ p.weekdays # {}
    BY RuleShape DEF AllWeekdays
  <2>3. IsValidCron(own) /\ ParseCron(own) = Parsed({minute}, {hour}, AllDays, p.weekdays, TRUE, FALSE)
    <3> DEFINE days == p.weekdays
    <3>1. own = SpecToCron(Weekly(days, hour, minute)) /\ days \in SUBSET (0..(WeekdayCount - 1)) /\ days # {}
      BY <2>1, <2>2 DEF own
    <3> HIDE DEF days
    <3>2. IsValidCron(own) /\ ParseCron(own) = Parsed({minute}, {hour}, AllDays, days, TRUE, FALSE)
      BY <1>3, <3>1, WeeklyIsWritten
    <3> QED BY <3>2 DEF days
  <2>4. p.days = AllDays /\ p.dayWildcard = TRUE /\ p.weekdayWildcard = FALSE
    BY <1>7, RuleShape DEF WeeklyTab
  <2>5. ParseCron(own) = p
    BY <1>4, <2>3, <2>4
  <2>6. spec.kind # "custom" /\ (~AtMidnight(expr) => spec \in WeeklySpecs)
    BY <1>3, <1>5, <2>1, <2>2 DEF WeeklySpecs, Weekly, Awake
  <2> QED BY <2>3, <2>5, <2>6, SameTimesIs DEF Structured, spec, own
<1>8. CASE ~AnyDay(p) /\ ~WeeklyTab(p) /\ MonthlyTab(p)
  <2> DEFINE day == Only(p.days)
  <2>1. spec = Monthly(day, hour, minute)
    BY <1>1, <1>2, <1>8
  <2>2. p.days = {day} /\ day \in AllDays
    <3>1. day \in p.days /\ p.days = {day}
      BY <1>8, RuleShape, OnlyIs DEF MonthlyTab
    <3> QED BY <3>1, RuleShape
  <2> HIDE DEF day
  <2>3. IsValidCron(own) /\ ParseCron(own) = Parsed({minute}, {hour}, {day}, AllWeekdays, FALSE, TRUE)
    BY <1>3, <2>1, <2>2, MonthlyIsWritten DEF own
  <2>4. p.weekdays = AllWeekdays /\ p.dayWildcard = FALSE /\ p.weekdayWildcard = TRUE
    BY <1>8, RuleShape DEF MonthlyTab
  <2>5. ParseCron(own) = p
    BY <1>4, <2>2, <2>3, <2>4
  <2>6. spec.kind # "custom" /\ (~AtMidnight(expr) => spec \in MonthlySpecs)
    BY <1>3, <1>5, <2>1, <2>2 DEF MonthlySpecs, Monthly, Awake, AllDays
  <2> QED BY <2>3, <2>5, <2>6, SameTimesIs DEF Structured, spec, own
<1> QED BY <1>2, <1>6, <1>7, <1>8

(* The rules that their tab gives back are exactly those that are not      *)
(* named by Rewritten, over every calendar and every expression.           *)
LEMMA RulesAreRead ==
  ASSUME NEW expr \in Expression, IsValidCron(expr)
  PROVE  /\ Returned(expr) <=> ~Rewritten(expr)
         /\ ~AtMidnight(expr) => CronToSpec(expr) \in Structured \cup {Custom(expr)}
<1> DEFINE p == ParseCron(expr)
           spec == CronToSpec(expr)
<1>1. Returned(expr) <=> spec.kind = "custom" \/ SameTimes(SpecToCron(spec), expr)
  BY DEF Returned
<1>2. \A s \in MinuteSpecs \cup HourSpecs : s.kind # "custom"
  BY DEF MinuteSpecs, HourSpecs
<1>3. p = ParseCron(expr)
  OBVIOUS
<1>4. (HourTab(p) \/ MinuteTab(p)) \/ ~Rewritten(expr)
  BY RewrittenIs
<1> HIDE DEF p
<1>5. CASE MinuteTab(p)
  <2>1. spec \in MinuteSpecs /\ (SameTimes(SpecToCron(spec), expr) <=> ~Rewritten(expr))
    BY <1>3, <1>5, MinutesAreRead
  <2> QED BY <1>1, <1>2, <2>1 DEF Structured
<1>6. CASE ~MinuteTab(p) /\ HourTab(p)
  <2>1. spec \in HourSpecs /\ (SameTimes(SpecToCron(spec), expr) <=> ~Rewritten(expr))
    BY <1>3, <1>6, HoursAreRead
  <2> QED BY <1>1, <1>2, <2>1 DEF Structured
<1>7. CASE ~MinuteTab(p) /\ ~HourTab(p) /\ spec = Custom(expr)
  BY <1>1, <1>4, <1>7 DEF Custom
<1>8. CASE ~MinuteTab(p) /\ ~HourTab(p) /\ spec # Custom(expr)
  <2>1. /\ SameTimes(SpecToCron(spec), expr)
        /\ (~AtMidnight(expr) => spec \in Structured)
    BY <1>3, <1>8, TimesAreRead
  <2> QED BY <1>1, <1>4, <1>8, <2>1
<1> QED BY <1>5, <1>6, <1>7, <1>8

-----------------------------------------------------------------------------
(* The editor: the inductive invariant                                     *)

Typed == Expression \cup {NotCron}

(* A rule whose tab gives it back, and that is no tab's midnight.          *)
IsKept(expr) == expr \in Typed /\ Returned(expr) /\ CronToSpec(expr) \in Structured \cup {Custom(expr)}
IsRule(expr) == expr = Nothing \/ IsKept(expr)
Submissions == Seq({expr \in Typed : IsKept(expr)})

CustomSpecs == [kind : {"custom"}, cron : Typed]
OpenEditors == [kind : {"open"}, spec : Structured \cup CustomSpecs, text : Typed, emitted : Typed, lastValid : Typed]
IsOpen(e) ==
  /\ e \in OpenEditors /\ IsKept(e.text) /\ IsKept(e.emitted) /\ IsKept(e.lastValid)
  /\ (e.spec.kind # "custom" => SameTimes(SpecToCron(e.spec), e.emitted))

(* What the editor e and the section's copy c say of the card's rule r.    *)
Agreed(e, c, r, waiting, lost) ==
  e = Closed \/ (/\ IsOpen(e) /\ IsKept(c) /\ SameTimes(e.emitted, c)
                 /\ (waiting = <<>> /\ ~lost => c = Shown(r)))

EditorIInv ==
  /\ NoMidnight /\ IsRule(stored) /\ pending \in Submissions /\ adrift \in BOOLEAN
  /\ Agreed(editor, cron, stored, pending, adrift)

LEMMA SameTimesOrders ==
  /\ \A a : SameTimes(a, a)
  /\ \A a, b : SameTimes(a, b) => SameTimes(b, a)
  /\ \A a, b, c : SameTimes(a, b) /\ SameTimes(b, c) => SameTimes(a, c)
BY DEF SameTimes

LEMMA NotCronIsKept == ~IsValidCron(NotCron) /\ IsKept(NotCron)
<1>1. ~IsValidCron(NotCron)
  BY DEF IsValidCron
<1>2. CronToSpec(NotCron) = Custom(NotCron)
  BY <1>1 DEF CronToSpec
<1> QED BY <1>1, <1>2 DEF IsKept, Returned, Typed, Custom

LEMMA OtherRulesAreKept ==
  ASSUME NEW expr \in Expression, ~Rewritten(expr), ~AtMidnight(expr)
  PROVE  IsKept(expr)
<1>1. CASE IsValidCron(expr)
  BY <1>1, RulesAreRead DEF IsKept, Typed
<1>2. CASE ~IsValidCron(expr)
  <2>1. CronToSpec(expr) = Custom(expr)
    BY <1>2 DEF CronToSpec
  <2> QED BY <2>1 DEF IsKept, Returned, Typed, Custom
<1> QED BY <1>1, <1>2

LEMMA GivenRulesAreKept ==
  ASSUME NoMidnight, NEW expr \in StartRules \cup Texts
  PROVE  IsRule(expr)
<1>1. expr \in Expression \/ expr = Nothing \/ expr = NotCron
  BY EditorAssumption
<1>2. expr # Nothing => ~Rewritten(expr) /\ ~AtMidnight(expr)
  BY DEF NoMidnight
<1>3. expr \in Expression => expr # Nothing
  BY ExpressionIsNoText
<1> QED BY <1>1, <1>2, <1>3, OtherRulesAreKept, NotCronIsKept DEF IsRule

LEMMA TabsAreKept ==
  ASSUME NEW spec \in Structured
  PROVE  /\ IsKept(SpecToCron(spec)) /\ IsValidCron(SpecToCron(spec)) /\ SpecToCron(spec) # NotCron
         /\ SpecToCron(spec) # Nothing /\ spec.kind # "custom"
<1>1. /\ SpecToCron(spec) \in Expression /\ IsValidCron(SpecToCron(spec)) /\ CronToSpec(SpecToCron(spec)) = spec
      /\ spec.kind # "custom"
  BY TabsReadBack
<1>2. Returned(SpecToCron(spec))
  BY <1>1, SameTimesOrders DEF Returned
<1> QED BY <1>1, <1>2, ExpressionIsNoText DEF IsKept, Typed

LEMMA KeptIsNotNothing == ASSUME NEW expr, IsKept(expr) PROVE expr \in Typed /\ expr # Nothing
<1>1. NotCron.text = "no cron" /\ Nothing.text = "nothing"
  BY DEF NotCron, Nothing
<1>2. NotCron # Nothing
  BY <1>1
<1> QED BY <1>2, ExpressionIsNoText DEF IsKept, Typed

(* Nine o'clock, which a card without a rule shows.                        *)
LEMMA NineOClock ==
  /\ Daily(DefaultHour, 0) \in Structured /\ SpecToCron(Daily(DefaultHour, 0)) = At(DefaultHour, 0)
  /\ CronToSpec(At(DefaultHour, 0)) = Daily(DefaultHour, 0)
<1>1. Daily(DefaultHour, 0) \in DailySpecs
  BY EditorSizes DEF DailySpecs, Daily, Awake, Hours, Minutes
<1>2. SpecToCron(Daily(DefaultHour, 0)) = At(DefaultHour, 0)
  BY DEF SpecToCron, Daily
<1> QED BY <1>1, <1>2, DailyIsReturned DEF Structured

LEMMA ShownIsKept == ASSUME NEW r, IsRule(r) PROVE IsKept(Shown(r))
BY NineOClock, TabsAreKept DEF IsRule, Shown

(* The three ways a structured or a custom tab stands at a rule.           *)
LEMMA TabStands ==
  ASSUME NEW expr, IsKept(expr), NEW spec, spec = CronToSpec(expr), NEW own, own = SpecToCron(spec)
  PROVE  \/ /\ spec \in Structured /\ spec.kind # "custom" /\ own # NotCron /\ IsValidCron(own) /\ IsKept(own)
            /\ SameTimes(own, expr)
         \/ /\ spec = Custom(expr) /\ spec.kind = "custom" /\ spec \in CustomSpecs
            /\ own = (IF IsValidCron(expr) THEN expr ELSE NotCron)
<1>1. expr \in Typed /\ Returned(expr) /\ (spec \in Structured \/ spec = Custom(expr))
  BY DEF IsKept
<1>2. CASE spec \in Structured
  <2>1. spec.kind # "custom" /\ own # NotCron /\ IsValidCron(own) /\ IsKept(own)
    BY <1>2, TabsAreKept
  <2>2. SameTimes(own, expr)
    BY <1>1, <2>1 DEF Returned
  <2> QED BY <1>2, <2>1, <2>2
<1>3. CASE spec = Custom(expr)
  <2>1. own = IF IsValidCron(expr) THEN expr ELSE NotCron
    BY <1>3 DEF SpecToCron, Custom
  <2> QED BY <1>1, <1>3, <2>1 DEF Custom, CustomSpecs
<1> QED BY <1>1, <1>2, <1>3

LEMMA MountedIs ==
  ASSUME NEW expr, IsKept(expr)
  PROVE  /\ IsOpen(Mounted(expr)) /\ SameTimes(Mounted(expr).emitted, expr)
         /\ (CronToSpec(expr) \in Structured => Mounted(expr).emitted = SpecToCron(CronToSpec(expr)))
         /\ (CronToSpec(expr) \notin Structured => Mounted(expr).emitted = expr)
<1> DEFINE spec == CronToSpec(expr)
           own == SpecToCron(spec)
           text == IF spec.kind = "custom" THEN expr ELSE NotCron
           last == IF own = NotCron THEN expr ELSE own
           e == [kind |-> "open", spec |-> spec, text |-> text, emitted |-> expr, lastValid |-> last]
           eff == EffectiveCron(e)
           new == Mounted(expr)
<1>1. \/ /\ spec \in Structured /\ spec.kind # "custom" /\ own # NotCron /\ IsValidCron(own) /\ IsKept(own)
         /\ SameTimes(own, expr)
      \/ /\ spec = Custom(expr) /\ spec.kind = "custom" /\ spec \in CustomSpecs
         /\ own = (IF IsValidCron(expr) THEN expr ELSE NotCron)
  BY TabStands
<1>2. new = [kind |-> "open", spec |-> spec, text |-> text, emitted |-> eff, lastValid |-> eff]
  <2>1. new = [e EXCEPT !.emitted = eff, !.lastValid = eff]
    BY Zenon DEF Mounted
  <2> HIDE DEF spec, text, last, eff, new
  <2> QED BY <2>1
<1>3. eff = IF spec.kind = "custom" THEN (IF IsValidCron(text) THEN text ELSE last)
            ELSE (IF IsValidCron(own) THEN own ELSE last)
  <2>1. e.spec = spec /\ e.text = text /\ e.lastValid = last
    BY Zenon
  <2> HIDE DEF e, spec, text, last
  <2>2. own = SpecToCron(e.spec)
    BY <2>1
  <2> HIDE DEF own
  <2> QED BY <2>1, <2>2, Zenon DEF EffectiveCron
<1> HIDE DEF spec, own, eff, new
<1>4. IsKept(text) /\ expr \in Typed
  BY NotCronIsKept, KeptIsNotNothing
<1>5. CASE spec \in Structured /\ spec.kind # "custom"
  <2>1. eff = own /\ IsKept(eff) /\ SameTimes(own, eff) /\ SameTimes(eff, expr)
    BY <1>1, <1>3, <1>5, SameTimesOrders
  <2>2. new \in OpenEditors
    BY <1>2, <1>4, <1>5, <2>1, KeptIsNotNothing DEF OpenEditors
  <2>3. new.emitted = eff /\ new.lastValid = eff /\ new.text = text /\ new.spec = spec
    BY <1>2
  <2>4. IsOpen(new)
    BY <1>4, <2>1, <2>2, <2>3 DEF IsOpen, own
  <2> QED BY <1>5, <2>1, <2>3, <2>4 DEF new, own, spec
<1>6. CASE spec = Custom(expr) /\ spec.kind = "custom" /\ spec \in CustomSpecs
  <2>1. text = expr /\ eff = expr
    <3>1. IsValidCron(expr) => expr # NotCron
      BY NotCronIsKept
    <3>2. text = expr /\ eff = IF IsValidCron(expr) THEN expr ELSE last
      BY <1>3, <1>6
    <3>3. ~IsValidCron(expr) => last = expr
      BY <1>1, <1>6
    <3> QED BY <3>2, <3>3
  <2>2. new \in OpenEditors
    BY <1>2, <1>4, <1>6, <2>1 DEF OpenEditors
  <2>3. new.emitted = expr /\ new.lastValid = expr /\ new.text = expr /\ new.spec = spec
    BY <1>2, <2>1
  <2>4. IsOpen(new) /\ SameTimes(new.emitted, expr)
    BY <1>6, <2>2, <2>3, SameTimesOrders DEF IsOpen
  <2>5. spec \notin Structured
    BY <1>6, TabsAreKept
  <2> QED BY <2>3, <2>4, <2>5 DEF new, spec
<1> QED BY <1>1, <1>5, <1>6

LEMMA SyncedIs ==
  ASSUME NEW e, IsOpen(e), NEW expr, IsKept(expr)
  PROVE  IsOpen(Synced(e, expr)) /\ Synced(e, expr).emitted = expr
<1>1. e # Closed /\ e \in OpenEditors
  BY DEF IsOpen, OpenEditors, Closed
<1>2. CASE e.emitted = expr
  BY <1>1, <1>2 DEF Synced
<1>3. CASE e.emitted # expr
  <2> DEFINE spec == CronToSpec(expr)
             own == SpecToCron(spec)
             text == IF spec.kind = "custom" THEN expr ELSE NotCron
             last == IF own = NotCron THEN e.lastValid ELSE own
             new == Synced(e, expr)
  <2>1. \/ /\ spec \in Structured /\ spec.kind # "custom" /\ own # NotCron /\ IsValidCron(own) /\ IsKept(own)
           /\ SameTimes(own, expr)
        \/ /\ spec = Custom(expr) /\ spec.kind = "custom" /\ spec \in CustomSpecs
           /\ own = (IF IsValidCron(expr) THEN expr ELSE NotCron)
    BY TabStands
  <2>2. new = [e EXCEPT !.spec = spec, !.text = text, !.emitted = expr, !.lastValid = last]
    BY <1>1, <1>3 DEF Synced
  <2> HIDE DEF spec, own, new
  <2>3. IsKept(text) /\ IsKept(last) /\ spec \in Structured \cup CustomSpecs
    BY <2>1, NotCronIsKept DEF IsOpen
  <2>4. text \in Typed /\ last \in Typed /\ expr \in Typed
    BY <2>3, KeptIsNotNothing
  <2> HIDE DEF text, last
  <2>5. /\ new \in OpenEditors /\ new.spec = spec /\ new.text = text /\ new.emitted = expr /\ new.lastValid = last
    BY <1>1, <2>2, <2>3, <2>4 DEF OpenEditors
  <2>6. spec.kind # "custom" => SameTimes(own, expr)
    BY <2>1
  <2> QED BY <2>3, <2>5, <2>6 DEF IsOpen, new, own
<1> QED BY <1>2, <1>3

-----------------------------------------------------------------------------
(* The editor: its steps                                                   *)

LEMMA OpenIsNotClosed == ASSUME NEW e, IsOpen(e) PROVE e # Closed /\ e \in OpenEditors
BY DEF IsOpen, OpenEditors, Closed

(* The editor that is open agrees, and its spec is one of its tab.         *)
LEMMA OpenAgrees ==
  ASSUME EditorIInv, editor # Closed
  PROVE  /\ IsOpen(editor) /\ editor \in OpenEditors /\ IsKept(cron) /\ SameTimes(editor.emitted, cron)
         /\ (pending = <<>> /\ ~adrift => cron = Shown(stored))
BY OpenIsNotClosed DEF EditorIInv, Agreed

(* What is submitted waits last, unless it is the card's rule already.     *)
LEMMA SubmittedIs ==
  ASSUME NEW queue \in Submissions, NEW expr, IsKept(expr)
  PROVE  /\ Append(queue, expr) \in Submissions /\ Append(queue, expr) # <<>> /\ Last(Append(queue, expr)) = expr
<1> DEFINE Submitted == {e \in Typed : IsKept(e)}
<1>1. expr \in Submitted
  BY KeptIsNotNothing
<1>2. queue \in Seq(Submitted)
  BY DEF Submissions
<1> HIDE DEF Submitted
<1>3. /\ Append(queue, expr) \in Seq(Submitted) /\ Len(Append(queue, expr)) = Len(queue) + 1
      /\ Append(queue, expr)[Len(queue) + 1] = expr /\ Len(queue) \in Nat
  BY <1>1, <1>2
<1>4. Append(queue, expr) # <<>>
  BY <1>3
<1> QED BY <1>3, <1>4 DEF Last, Submissions, Submitted

(* What is applied was submitted, and the rest waits on.                   *)
LEMMA ServedIs ==
  ASSUME NEW queue \in Submissions, queue # <<>>
  PROVE  IsKept(Head(queue)) /\ Tail(queue) \in Submissions
<1> DEFINE Submitted == {e \in Typed : IsKept(e)}
<1>1. queue \in Seq(Submitted)
  BY DEF Submissions
<1> HIDE DEF Submitted
<1>2. Head(queue) \in Submitted /\ Tail(queue) \in Seq(Submitted)
  BY <1>1
<1> QED BY <1>2 DEF Submissions, Submitted

LEMMA HandUpStep ==
  ASSUME EditorIInv, NEW e, IsOpen(e), HandUp(e)
  PROVE  EditorIInv'
<1> DEFINE e1 == editor'
           c1 == cron'
           r1 == stored'
           p1 == pending'
           a1 == adrift'
<1>1. NoMidnight /\ IsRule(stored) /\ adrift \in BOOLEAN /\ pending \in Submissions
  BY DEF EditorIInv
<1>2. IsKept(e.emitted) /\ e.emitted # Nothing
  BY KeptIsNotNothing DEF IsOpen
<1>3. e1 = e /\ c1 = e.emitted /\ r1 = stored /\ p1 = (IF e.emitted = stored THEN pending ELSE Append(pending, e.emitted))
  BY DEF HandUp, Submit
<1>4. a1 \in BOOLEAN
  BY <1>1 DEF HandUp
<1> HIDE DEF e1, c1, r1, p1, a1
<1>5. IsRule(r1) /\ p1 \in Submissions
  BY <1>1, <1>2, <1>3, SubmittedIs
<1>6. p1 = <<>> => c1 = Shown(r1)
  BY <1>1, <1>2, <1>3, SubmittedIs DEF Shown
<1>7. Agreed(e1, c1, r1, p1, a1)
  BY <1>2, <1>3, <1>6, SameTimesOrders DEF Agreed
<1> QED BY <1>1, <1>4, <1>5, <1>7 DEF EditorIInv, e1, c1, r1, p1, a1

LEMMA UntouchedStep ==
  ASSUME EditorIInv, UNCHANGED <<stored, cron, editor, pending, adrift>>
  PROVE  EditorIInv'
BY DEF EditorIInv

(* A choice of a tab is handed up, a choice that is no rule is not taken.  *)
LEMMA CommitStep ==
  ASSUME EditorIInv, editor # Closed, NEW spec, spec \in Structured \/ SpecToCron(spec) = NotCron, Commit(spec)
  PROVE  EditorIInv'
<1> DEFINE expr == SpecToCron(spec)
           e == [editor EXCEPT !.spec = spec, !.lastValid = expr, !.emitted = expr]
<1>1. CASE expr = NotCron
  BY <1>1, UntouchedStep DEF Commit
<1>2. CASE expr # NotCron
  <2>1. spec \in Structured
    BY <1>2
  <2>2. IsKept(expr) /\ expr \in Typed
    BY <2>1, TabsAreKept, KeptIsNotNothing
  <2>3. editor \in OpenEditors /\ IsKept(editor.text)
    BY OpenAgrees DEF IsOpen
  <2>4. HandUp(e)
    BY <1>2 DEF Commit
  <2> HIDE DEF expr
  <2>5. e \in OpenEditors /\ e.spec = spec /\ e.text = editor.text /\ e.emitted = expr /\ e.lastValid = expr
    BY <2>1, <2>2, <2>3 DEF OpenEditors
  <2> HIDE DEF e
  <2>6. SameTimes(SpecToCron(e.spec), e.emitted)
    BY <2>5, SameTimesOrders DEF expr
  <2>7. IsOpen(e)
    BY <2>2, <2>3, <2>5, <2>6 DEF IsOpen
  <2> QED BY <2>4, <2>7, HandUpStep
<1> QED BY <1>1, <1>2

LEMMA TimedAre ==
  ASSUME NEW spec \in Structured \cup CustomSpecs
  PROVE  /\ (spec.kind = "daily" => spec \in DailySpecs) /\ (spec.kind = "weekly" => spec \in WeeklySpecs)
         /\ (spec.kind = "monthly" => spec \in MonthlySpecs) /\ (spec.kind = "interval" => spec \in MinuteSpecs \cup HourSpecs)
         /\ (spec.kind \in TimedTabs => spec.hour \in Hours /\ spec.minute \in Minutes /\ (spec.hour # 0 \/ spec.minute # 0))
<1>1. spec \in DailySpecs \/ spec \in WeeklySpecs \/ spec \in MonthlySpecs \/ spec \in MinuteSpecs \/ spec \in HourSpecs \/ spec \in CustomSpecs
  BY DEF Structured
<1>2. CASE spec \in DailySpecs
  BY <1>2 DEF DailySpecs, Awake, TimedTabs
<1>3. CASE spec \in WeeklySpecs
  BY <1>3 DEF WeeklySpecs, Awake, TimedTabs
<1>4. CASE spec \in MonthlySpecs
  BY <1>4 DEF MonthlySpecs, Awake, TimedTabs
<1>5. CASE spec \in MinuteSpecs \/ spec \in HourSpecs
  BY <1>5 DEF MinuteSpecs, HourSpecs, TimedTabs
<1>6. CASE spec \in CustomSpecs
  BY <1>6 DEF CustomSpecs, TimedTabs
<1> QED BY <1>1, <1>2, <1>3, <1>4, <1>5, <1>6

LEMMA SpecsAre ==
  ASSUME NEW hour \in Hours, NEW minute \in Minutes, hour # 0 \/ minute # 0
  PROVE  /\ Daily(hour, minute) \in Structured
         /\ \A days \in SUBSET (0..(WeekdayCount - 1)) : days # {} => Weekly(days, hour, minute) \in Structured
         /\ \A day \in AllDays : Monthly(day, hour, minute) \in Structured
<1>1. Daily(hour, minute) \in DailySpecs
  BY DEF Daily, DailySpecs, Awake
<1>2. ASSUME NEW days \in SUBSET (0..(WeekdayCount - 1)), days # {} PROVE Weekly(days, hour, minute) \in WeeklySpecs
  BY <1>2 DEF Weekly, WeeklySpecs, Awake
<1>3. ASSUME NEW day \in AllDays PROVE Monthly(day, hour, minute) \in MonthlySpecs
  BY DEF Monthly, MonthlySpecs, Awake, AllDays
<1> QED BY <1>1, <1>2, <1>3 DEF Structured

LEMMA IntervalsAre ==
  ASSUME NEW unit \in {"minute", "hour"}, NEW every \in 1..Longest(unit)
  PROVE  Interval(unit, every) \in Structured
BY DEF Interval, Longest, MinuteSpecs, HourSpecs, Structured

LEMMA OpenEditorStep ==
  ASSUME EditorIInv, OpenEditor
  PROVE  EditorIInv'
<1> DEFINE shown == Shown(stored)
           e1 == editor'
           c1 == cron'
           r1 == stored'
           p1 == pending'
           a1 == adrift'
<1>1. NoMidnight /\ IsRule(stored) /\ IsKept(shown) /\ pending \in Submissions
  BY ShownIsKept DEF EditorIInv
<1>2. e1 = Mounted(shown) /\ c1 = shown /\ r1 = stored /\ a1 = FALSE
  BY DEF OpenEditor
<1>3. p1 = (IF e1.emitted # c1 /\ e1.emitted # stored THEN Append(pending, e1.emitted) ELSE pending)
  BY DEF OpenEditor, Submit
<1> HIDE DEF shown, e1, c1, r1, p1, a1
<1>4. IsOpen(e1) /\ SameTimes(e1.emitted, c1) /\ IsKept(e1.emitted)
  BY <1>1, <1>2, MountedIs DEF IsOpen
<1>5. IsRule(r1) /\ p1 \in Submissions /\ a1 \in BOOLEAN
  BY <1>1, <1>2, <1>3, <1>4, SubmittedIs
<1>6. c1 = Shown(r1)
  BY <1>2 DEF shown
<1>7. Agreed(e1, c1, r1, p1, a1)
  BY <1>1, <1>2, <1>4, <1>6 DEF Agreed
<1> QED BY <1>1, <1>5, <1>7 DEF EditorIInv, e1, c1, r1, p1, a1

LEMMA SwitchTabStep ==
  ASSUME EditorIInv, NEW kind \in Tabs, SwitchTab(kind)
  PROVE  EditorIInv'
<1> DEFINE spec == editor.spec
           timed == spec.kind \in TimedTabs
           hour == IF timed THEN spec.hour ELSE DefaultHour
           minute == IF timed THEN spec.minute ELSE 0
<1>1. editor # Closed /\ spec.kind \in Tabs \ {kind}
  BY DEF SwitchTab, Usable
<1>2. IsOpen(editor) /\ editor \in OpenEditors /\ IsKept(cron) /\ SameTimes(editor.emitted, cron)
  BY <1>1, OpenAgrees
<1>3. spec \in Structured \cup CustomSpecs
  BY <1>2 DEF OpenEditors
<1>4. hour \in Hours /\ minute \in Minutes /\ (hour # 0 \/ minute # 0)
  <2>1. CASE timed
    BY <1>3, <2>1, TimedAre
  <2>2. CASE ~timed
    BY <2>2, EditorSizes DEF Hours, Minutes
  <2> QED BY <2>1, <2>2
<1>5. CASE kind = "custom"
  <2> DEFINE e1 == editor'
             text == EffectiveCron(editor)
  <2>1. /\ e1 = [editor EXCEPT !.spec = Custom(NotCron), !.text = text]
        /\ UNCHANGED <<stored, cron, pending, adrift>>
    BY <1>5 DEF SwitchTab
  <2>2. spec \in Structured
    BY <1>1, <1>3, <1>5 DEF CustomSpecs
  <2>3. text = SpecToCron(spec) /\ IsKept(text) /\ text \in Typed
    <3>1. IsValidCron(SpecToCron(spec)) /\ IsKept(SpecToCron(spec)) /\ spec.kind # "custom"
      BY <2>2, TabsAreKept
    <3>2. text = SpecToCron(spec)
      BY <3>1 DEF EffectiveCron
    <3> QED BY <3>1, <3>2, KeptIsNotNothing
  <2>4. Custom(NotCron) \in CustomSpecs /\ Custom(NotCron).kind = "custom"
    BY DEF Custom, CustomSpecs, Typed
  <2> HIDE DEF text, e1
  <2> DEFINE blank == Custom(NotCron)
  <2>5. blank \in CustomSpecs /\ blank.kind = "custom" /\ e1 = [editor EXCEPT !.spec = blank, !.text = text]
    BY <2>1, <2>4
  <2> HIDE DEF blank
  <2>6. /\ e1 \in OpenEditors /\ e1.spec = blank /\ e1.text = text
        /\ e1.emitted = editor.emitted /\ e1.lastValid = editor.lastValid
    BY <1>2, <2>3, <2>5 DEF OpenEditors
  <2>7. IsOpen(e1)
    BY <1>2, <2>3, <2>5, <2>6 DEF IsOpen
  <2>8. Agreed(e1, cron, stored, pending, adrift)
    BY <1>1, <1>2, <2>6, <2>7, OpenAgrees DEF Agreed
  <2> QED BY <2>1, <2>8 DEF EditorIInv, e1
<1>6. CASE kind = "daily"
  <2>1. Commit(Daily(hour, minute))
    BY <1>6 DEF SwitchTab
  <2> HIDE DEF hour, minute
  <2> QED BY <1>1, <1>4, <2>1, SpecsAre, CommitStep
<1>7. CASE kind = "weekly"
  <2>1. Commit(Weekly(Workdays, hour, minute))
    BY <1>7 DEF SwitchTab
  <2>2. Workdays \in SUBSET (0..(WeekdayCount - 1)) /\ Workdays # {}
    BY EditorAssumption
  <2> HIDE DEF hour, minute
  <2>3. Weekly(Workdays, hour, minute) \in Structured
    BY <1>4, <2>2, SpecsAre
  <2> QED BY <1>1, <2>1, <2>3, CommitStep
<1>8. CASE kind = "monthly"
  <2>1. Commit(Monthly(1, hour, minute))
    BY <1>8 DEF SwitchTab
  <2>2. 1 \in AllDays
    BY ManyDays DEF AllDays
  <2> HIDE DEF hour, minute
  <2>3. Monthly(1, hour, minute) \in Structured
    BY <1>4, <2>2, SpecsAre
  <2> QED BY <1>1, <2>1, <2>3, CommitStep
<1>9. CASE kind = "interval"
  <2>1. Commit(Interval("minute", DefaultEvery))
    BY <1>9 DEF SwitchTab
  <2>2. Interval("minute", DefaultEvery) \in Structured
    BY EditorSizes, IntervalsAre DEF Longest
  <2> QED BY <1>1, <2>1, <2>2, CommitStep
<1> QED BY <1>5, <1>6, <1>7, <1>8, <1>9 DEF Tabs, TimedTabs

LEMMA UsableEditor ==
  ASSUME EditorIInv, NEW kinds, Usable(kinds)
  PROVE  editor # Closed /\ editor.spec.kind \in kinds /\ editor.spec \in Structured \cup CustomSpecs
<1>1. editor # Closed /\ editor.spec.kind \in kinds
  BY DEF Usable
<1>2. editor \in OpenEditors
  BY <1>1, OpenAgrees
<1> QED BY <1>1, <1>2 DEF OpenEditors

LEMMA SetTimeStep ==
  ASSUME EditorIInv, SetTime
  PROVE  EditorIInv'
<1>1. PICK h \in HourInputs, m \in 0..(MinutesPerHour - 1) : Commit([editor.spec EXCEPT !.hour = h, !.minute = m])
  BY DEF SetTime
<1> DEFINE old == editor.spec
           spec == [old EXCEPT !.hour = h, !.minute = m]
<1>2. editor # Closed /\ old.kind \in TimedTabs /\ old \in Structured \cup CustomSpecs
  BY UsableEditor DEF SetTime
<1>3. h \in Hours /\ m \in Minutes /\ h # 0
  BY EditorAssumption DEF EditorIInv, NoMidnight, Hours, Minutes
<1> HIDE DEF old
<1>4. spec \in Structured
  <2>1. CASE old.kind = "daily"
    <3>1. old \in DailySpecs
      BY <1>2, <2>1, TimedAre
    <3>2. spec \in DailySpecs
      BY <1>3, <3>1 DEF DailySpecs, Awake
    <3> QED BY <3>2 DEF Structured
  <2>2. CASE old.kind = "weekly"
    <3>1. old \in WeeklySpecs
      BY <1>2, <2>2, TimedAre
    <3>2. spec \in WeeklySpecs
      BY <1>3, <3>1 DEF WeeklySpecs, Awake
    <3> QED BY <3>2 DEF Structured
  <2>3. CASE old.kind = "monthly"
    <3>1. old \in MonthlySpecs
      BY <1>2, <2>3, TimedAre
    <3>2. spec \in MonthlySpecs
      BY <1>3, <3>1 DEF MonthlySpecs, Awake
    <3> QED BY <3>2 DEF Structured
  <2> QED BY <1>2, <2>1, <2>2, <2>3 DEF TimedTabs
<1>5. Commit(spec)
  BY <1>1 DEF old
<1> HIDE DEF spec
<1> QED BY <1>2, <1>4, <1>5, CommitStep

LEMMA ToggleDayStep ==
  ASSUME EditorIInv, ToggleDay
  PROVE  EditorIInv'
<1>1. PICK d \in 0..(WeekdayCount - 1) :
        Commit([editor.spec EXCEPT !.days = IF d \in @ THEN @ \ {d} ELSE @ \cup {d}])
  BY DEF ToggleDay
<1> DEFINE old == editor.spec
           days == IF d \in old.days THEN old.days \ {d} ELSE old.days \cup {d}
           spec == [old EXCEPT !.days = days]
<1>2. editor # Closed /\ old.kind = "weekly" /\ old \in Structured \cup CustomSpecs
  BY UsableEditor DEF ToggleDay
<1>3. Commit(spec)
  BY <1>1
<1> HIDE DEF old
<1>4. old \in WeeklySpecs
  BY <1>2, TimedAre
<1>5. days \in SUBSET (0..(WeekdayCount - 1))
  BY <1>4 DEF WeeklySpecs
<1> HIDE DEF days
<1>6. CASE days # {}
  <2>1. spec \in WeeklySpecs
    BY <1>4, <1>5, <1>6 DEF WeeklySpecs, Awake
  <2> HIDE DEF spec
  <2> QED BY <1>2, <1>3, <2>1, CommitStep DEF Structured
<1>7. CASE days = {}
  <2>1. spec.kind = "weekly" /\ spec.days = {}
    BY <1>4, <1>7 DEF WeeklySpecs
  <2> HIDE DEF spec
  <2>2. SpecToCron(spec) = NotCron
    BY <2>1 DEF SpecToCron
  <2> QED BY <1>2, <1>3, <2>2, CommitStep
<1> QED BY <1>6, <1>7

LEMMA SetMonthDayStep ==
  ASSUME EditorIInv, SetMonthDay
  PROVE  EditorIInv'
<1>1. PICK d \in 1..MaxDays : Commit([editor.spec EXCEPT !.day = d])
  BY DEF SetMonthDay
<1> DEFINE old == editor.spec
           spec == [old EXCEPT !.day = d]
<1>2. editor # Closed /\ old.kind = "monthly" /\ old \in Structured \cup CustomSpecs
  BY UsableEditor DEF SetMonthDay
<1>3. Commit(spec)
  BY <1>1
<1> HIDE DEF old
<1>4. old \in MonthlySpecs
  BY <1>2, TimedAre
<1>5. spec \in MonthlySpecs
  BY <1>4 DEF MonthlySpecs, Awake
<1> HIDE DEF spec
<1> QED BY <1>2, <1>3, <1>5, CommitStep DEF Structured

LEMMA SetUnitStep ==
  ASSUME EditorIInv, SetUnit
  PROVE  EditorIInv'
<1>1. PICK unit \in {"minute", "hour"} : Commit(Interval(unit, Min({editor.spec.every, Longest(unit)})))
  BY DEF SetUnit
<1> DEFINE every == editor.spec.every
           longest == Longest(unit)
           choice == Min({every, longest})
<1>2. editor # Closed /\ editor.spec.kind = "interval" /\ editor.spec \in Structured \cup CustomSpecs
  BY UsableEditor DEF SetUnit
<1>3. every \in Nat \ {0}
  <2>1. editor.spec \in MinuteSpecs \cup HourSpecs
    BY <1>2, TimedAre
  <2> QED BY <2>1, EditorSizes DEF MinuteSpecs, HourSpecs
<1>4. longest \in Nat \ {0}
  BY EditorSizes DEF Longest
<1> HIDE DEF every, longest
<1>5. choice \in 1..longest
  <2> DEFINE both == {every, longest}
  <2>1. both \in SUBSET Nat /\ both # {} /\ longest \in both
    BY <1>3, <1>4
  <2> HIDE DEF both
  <2>2. Min(both) \in both /\ Min(both) <= longest
    BY <2>1, LeastOf
  <2> QED BY <1>3, <1>4, <2>2 DEF both
<1>6. Commit(Interval(unit, choice))
  BY <1>1 DEF every, longest
<1> HIDE DEF choice
<1>7. Interval(unit, choice) \in Structured
  BY <1>5, IntervalsAre DEF longest
<1> QED BY <1>2, <1>6, <1>7, CommitStep

LEMMA SetEveryStep ==
  ASSUME EditorIInv, SetEvery
  PROVE  EditorIInv'
<1>1. PICK every \in 1..Longest(editor.spec.unit) : Commit([editor.spec EXCEPT !.every = every])
  BY DEF SetEvery
<1> DEFINE old == editor.spec
           spec == [old EXCEPT !.every = every]
<1>2. editor # Closed /\ old.kind = "interval" /\ old \in Structured \cup CustomSpecs
  BY UsableEditor DEF SetEvery
<1>3. Commit(spec) /\ every \in 1..Longest(old.unit)
  BY <1>1
<1> HIDE DEF old
<1>4. old \in MinuteSpecs \cup HourSpecs
  BY <1>2, TimedAre
<1>5. spec \in MinuteSpecs \cup HourSpecs
  <2>1. CASE old \in MinuteSpecs
    <3>1. every \in 1..(MinutesPerHour - 1)
      BY <1>3, <2>1 DEF MinuteSpecs, Longest
    <3> QED BY <2>1, <3>1 DEF MinuteSpecs
  <2>2. CASE old \in HourSpecs
    <3>1. every \in 1..(HoursPerDay - 1)
      BY <1>3, <2>2 DEF HourSpecs, Longest
    <3> QED BY <2>2, <3>1 DEF HourSpecs
  <2> QED BY <1>4, <2>1, <2>2
<1> HIDE DEF spec
<1> QED BY <1>2, <1>3, <1>5, CommitStep DEF Structured

LEMMA TypeTextStep ==
  ASSUME EditorIInv, TypeText
  PROVE  EditorIInv'
<1>1. PICK text \in Texts : editor' = [editor EXCEPT !.text = text] /\ UNCHANGED <<stored, cron, pending, adrift>>
  BY DEF TypeText
<1> DEFINE e1 == editor'
<1>2. editor # Closed /\ editor.spec.kind = "custom"
  BY UsableEditor DEF TypeText
<1>3. IsOpen(editor) /\ editor \in OpenEditors /\ IsKept(cron) /\ SameTimes(editor.emitted, cron)
  BY <1>2, OpenAgrees
<1>4. IsKept(text) /\ text \in Typed
  <2>1. NoMidnight
    BY DEF EditorIInv
  <2>2. text # Nothing
    BY EditorAssumption
  <2>3. IsRule(text)
    BY <2>1, GivenRulesAreKept
  <2> QED BY <2>2, <2>3, KeptIsNotNothing DEF IsRule
<1>5. e1 = [editor EXCEPT !.text = text]
  BY <1>1
<1> HIDE DEF e1
<1>6. /\ e1 \in OpenEditors /\ e1.spec = editor.spec /\ e1.text = text
      /\ e1.emitted = editor.emitted /\ e1.lastValid = editor.lastValid
  BY <1>3, <1>4, <1>5 DEF OpenEditors
<1>7. IsOpen(e1)
  BY <1>3, <1>4, <1>6 DEF IsOpen
<1>8. Agreed(e1, cron, stored, pending, adrift)
  BY <1>2, <1>3, <1>6, <1>7, OpenAgrees DEF Agreed
<1> QED BY <1>1, <1>8 DEF EditorIInv, e1

LEMMA CommitCustomStep ==
  ASSUME EditorIInv, CommitCustom
  PROVE  EditorIInv'
<1> DEFINE text == editor.text
           e == [editor EXCEPT !.lastValid = text, !.emitted = text]
<1>1. HandUp(e)
  BY DEF CommitCustom
<1>2. editor # Closed /\ editor.spec.kind = "custom"
  BY UsableEditor DEF CommitCustom
<1>3. IsOpen(editor) /\ editor \in OpenEditors
  BY <1>2, OpenAgrees
<1>4. IsKept(text) /\ text \in Typed
  BY <1>3, KeptIsNotNothing DEF IsOpen
<1>5. /\ e \in OpenEditors /\ e.spec = editor.spec /\ e.text = text
      /\ e.emitted = text /\ e.lastValid = text
  BY <1>3, <1>4 DEF OpenEditors
<1> HIDE DEF e, text
<1>6. IsOpen(e)
  BY <1>2, <1>4, <1>5 DEF IsOpen
<1> QED BY <1>1, <1>6, HandUpStep

(* The section follows the rule that came.                                 *)
LEMMA FollowStep ==
  ASSUME EditorIInv, NEW expr, IsRule(expr), Follow(expr), NEW r, r = expr, NEW waiting, NEW lost
  PROVE  Agreed(editor', cron', r, waiting, lost)
<1> DEFINE e1 == editor'
           c1 == cron'
           shown == Shown(expr)
<1>1. CASE editor = Closed
  <2>1. editor' = Closed
    BY <1>1 DEF Follow
  <2> QED BY <2>1 DEF Agreed
<1>2. CASE editor # Closed
  <2>1. IsOpen(editor) /\ SameTimes(editor.emitted, cron)
    BY <1>2, OpenAgrees
  <2>2. IsKept(shown)
    BY ShownIsKept
  <2>3. c1 = shown /\ e1 = (IF c1 = cron THEN editor ELSE Synced(editor, c1))
    BY <1>2 DEF Follow
  <2> HIDE DEF e1, c1, shown
  <2>4. IsOpen(e1) /\ SameTimes(e1.emitted, c1)
    BY <2>1, <2>2, <2>3, SyncedIs, SameTimesOrders
  <2>5. c1 = Shown(r)
    BY <2>3 DEF shown
  <2> QED BY <2>2, <2>3, <2>4, <2>5 DEF Agreed, e1, c1
<1> QED BY <1>1, <1>2

LEMMA AppliedStep ==
  ASSUME EditorIInv, Applied
  PROVE  EditorIInv'
<1> DEFINE r1 == stored'
           p1 == pending'
           a1 == adrift'
<1> DEFINE first == Head(pending)
<1>1. NoMidnight /\ pending \in Submissions /\ pending # <<>>
  BY DEF EditorIInv, Applied
<1>2. r1 = first /\ p1 = Tail(pending) /\ a1 = FALSE /\ Follow(r1)
  BY DEF Applied
<1> HIDE DEF r1, p1, a1
<1>3. IsRule(first) /\ IsRule(r1) /\ p1 \in Submissions
  BY <1>1, <1>2, ServedIs DEF IsRule
<1> HIDE DEF first
<1>4. Follow(first)
  BY <1>2
<1>5. Agreed(editor', cron', r1, p1, a1)
  BY <1>2, <1>3, <1>4, FollowStep
<1> QED BY <1>1, <1>2, <1>3, <1>5 DEF EditorIInv, r1, p1, a1

LEMMA OtherClientStep ==
  ASSUME EditorIInv, OtherClient
  PROVE  EditorIInv'
<1>1. PICK expr \in StartRules \ {stored, Nothing, NotCron} : stored' = expr /\ Follow(expr)
  BY DEF OtherClient
<1> DEFINE r1 == stored'
           a1 == adrift'
<1>2. NoMidnight /\ pending \in Submissions
  BY DEF EditorIInv
<1>3. IsRule(expr)
  BY <1>2, GivenRulesAreKept
<1>4. r1 = expr /\ a1 = FALSE /\ UNCHANGED pending
  BY <1>1 DEF OtherClient
<1> HIDE DEF r1, a1
<1>5. Agreed(editor', cron', r1, pending, a1)
  BY <1>1, <1>3, <1>4, FollowStep
<1>6. IsRule(r1)
  BY <1>3, <1>4
<1> QED BY <1>2, <1>4, <1>5, <1>6 DEF EditorIInv, r1, a1

LEMMA RuleRollsStep ==
  ASSUME EditorIInv, RuleRolls
  PROVE  EditorIInv'
<1> DEFINE a1 == adrift'
<1>1. NoMidnight /\ IsRule(stored) /\ pending \in Submissions
  BY DEF EditorIInv
<1>2. a1 = FALSE /\ UNCHANGED <<stored, pending>> /\ Follow(stored)
  BY DEF RuleRolls
<1> HIDE DEF a1
<1>3. Agreed(editor', cron', stored, pending, a1)
  BY <1>1, <1>2, FollowStep
<1> QED BY <1>1, <1>2, <1>3 DEF EditorIInv, a1

LEMMA NeverSeenStep ==
  ASSUME EditorIInv, NeverSeen
  PROVE  EditorIInv'
<1>1. pending' = Tail(pending) /\ adrift' = TRUE /\ UNCHANGED <<stored, cron, editor>>
  BY DEF NeverSeen
<1>2. pending \in Submissions /\ pending # <<>>
  BY DEF EditorIInv, NeverSeen
<1>3. pending' \in Submissions
  BY <1>1, <1>2, ServedIs
<1> QED BY <1>1, <1>3 DEF EditorIInv, Agreed

LEMMA CloseEditorStep ==
  ASSUME EditorIInv, CloseEditor
  PROVE  EditorIInv'
BY DEF EditorIInv, CloseEditor, Agreed

LEMMA EditorIInvInit == NoMidnight /\ EditorInit => EditorIInv
<1> SUFFICES ASSUME NoMidnight, EditorInit PROVE EditorIInv
  OBVIOUS
<1>1. IsRule(stored) /\ pending \in Submissions
  BY GivenRulesAreKept DEF EditorInit, Submissions
<1> QED BY <1>1 DEF EditorInit, EditorIInv, Agreed

LEMMA EditorIInvStep == EditorIInv /\ [EditorNext]_editorVars => EditorIInv'
<1> SUFFICES ASSUME EditorIInv, [EditorNext]_editorVars PROVE EditorIInv'
  OBVIOUS
<1>1. CASE UNCHANGED editorVars
  BY <1>1, UntouchedStep DEF editorVars
<1>2. CASE OpenEditor
  BY <1>2, OpenEditorStep
<1>3. CASE CloseEditor
  BY <1>3, CloseEditorStep
<1>4. CASE \E kind \in Tabs : SwitchTab(kind)
  BY <1>4, SwitchTabStep
<1>5. CASE SetTime
  BY <1>5, SetTimeStep
<1>6. CASE ToggleDay
  BY <1>6, ToggleDayStep
<1>7. CASE SetMonthDay
  BY <1>7, SetMonthDayStep
<1>8. CASE SetUnit
  BY <1>8, SetUnitStep
<1>9. CASE SetEvery
  BY <1>9, SetEveryStep
<1>10. CASE TypeText
  BY <1>10, TypeTextStep
<1>11. CASE CommitCustom
  BY <1>11, CommitCustomStep
<1>12. CASE Applied
  BY <1>12, AppliedStep
<1>13. CASE NeverSeen
  BY <1>13, NeverSeenStep
<1>14. CASE OtherClient
  BY <1>14, OtherClientStep
<1>15. CASE RuleRolls
  BY <1>15, RuleRollsStep
<1> QED BY <1>1, <1>2, <1>3, <1>4, <1>5, <1>6, <1>7, <1>8, <1>9, <1>10, <1>11, <1>12, <1>13, <1>14, <1>15 DEF EditorNext

-----------------------------------------------------------------------------
(* The editor: what it promises                                            *)

(* The tab of a rule gives back its times, or leaves the rule to the       *)
(* custom tab, for every expression but the ones that are stepped from     *)
(* midnight or from the hour and end early (cronToSpec, stepOf): at every  *)
(* length of a day, and for no other rule.                                 *)
THEOREM TabsReturnRules == CronSpec => []TabReturnsRule
<1> DEFINE RuleInv == rule \in Rules
<1>1. CronInit => RuleInv
  BY DEF CronInit
<1>2. RuleInv /\ [ClockTicks]_cronVars => RuleInv'
  BY DEF ClockTicks, cronVars
<1>3. RuleInv => TabReturnsRule
  <2> SUFFICES ASSUME RuleInv, IsValidCron(rule) PROVE Returned(rule) <=> ~Rewritten(rule)
    BY DEF TabReturnsRule
  <2>1. rule \in Expression
    BY EditorAssumption, NotCronIsKept
  <2> QED BY <2>1, RulesAreRead
<1> HIDE DEF RuleInv
<1> QED BY <1>1, <1>2, <1>3, PTL DEF CronSpec

(* The card, the section's copy of its rule, the editor in it and the tab  *)
(* that is shown agree, whoever set the rule last and whatever was refused *)
(* (ScheduleSection, ScheduleEditor): as long as no rule is one that its   *)
(* tab rewrites and nobody asks for midnight.                              *)
THEOREM EditorAgreesWithCard == NoMidnight /\ EditorSpec => []EditorAgrees
<1>1. EditorIInv => EditorAgrees
  BY OpenAgrees DEF EditorAgrees, TabShowsRule, EditorFollows, IsOpen
<1> QED BY <1>1, EditorIInvInit, EditorIInvStep, PTL DEF EditorSpec

(* Opening the editor of a card leaves it on its way to the same times     *)
(* (the mount effect of ScheduleEditor), under the same condition: it      *)
(* submits nothing else, however many submissions of the card wait, but    *)
(* the old rule behind a waiting choice when no tab writes it as it stands.*)
THEOREM OpeningTheEditorKeepsTheRule == NoMidnight /\ EditorSpec => OpeningKeepsRule
<1> DEFINE Kept == editor = Closed /\ editor' # Closed => SameTimes(Wanted', Wanted) \/ UndoesChoice
<1>1. EditorIInv /\ [EditorNext]_editorVars => [Kept]_editorVars
  <2> SUFFICES ASSUME EditorIInv, EditorNext, editor = Closed, editor' # Closed
               PROVE  SameTimes(Wanted', Wanted) \/ UndoesChoice
    BY DEF Kept
  <2>1. OpenEditor
    BY DEF EditorNext, CloseEditor, SwitchTab, SetTime, ToggleDay, SetMonthDay, SetUnit, SetEvery, TypeText, CommitCustom,
           Usable, Applied, NeverSeen, OtherClient, RuleRolls, Follow
  <2> DEFINE shown == Shown(stored)
             e1 == editor'
             p1 == pending'
             w1 == Wanted'
  <2>2. IsRule(stored) /\ IsKept(shown) /\ pending \in Submissions
    BY ShownIsKept DEF EditorIInv
  <2>3. e1 = Mounted(shown) /\ w1 = (IF p1 = <<>> THEN stored ELSE Last(p1))
    BY <2>1 DEF OpenEditor, Wanted
  <2>4. p1 = (IF e1.emitted # shown /\ e1.emitted # stored THEN Append(pending, e1.emitted) ELSE pending)
    BY <2>1 DEF OpenEditor, Submit
  <2> HIDE DEF e1, p1, w1
  <2>5. CASE ~(e1.emitted # shown /\ e1.emitted # stored)
    <3>1. w1 = Wanted
      BY <2>3, <2>4, <2>5 DEF Wanted
    <3> QED BY <3>1, SameTimesOrders DEF w1
  <2>6. CASE e1.emitted # shown /\ e1.emitted # stored
    <3>1. stored # Nothing
      <4> SUFFICES ASSUME stored = Nothing PROVE FALSE
        OBVIOUS
      <4>1. shown = At(DefaultHour, 0)
        BY DEF Shown
      <4>2. Mounted(shown).emitted = shown
        BY <2>2, <4>1, NineOClock, MountedIs
      <4> QED BY <2>3, <2>6, <4>2
    <3>2. shown = stored
      BY <3>1 DEF Shown
    <3>3. SameTimes(e1.emitted, stored) /\ IsKept(e1.emitted)
      BY <2>2, <2>3, <3>2, MountedIs DEF IsOpen
    <3>4. w1 = e1.emitted
      BY <2>2, <2>3, <2>4, <2>6, <3>3, SubmittedIs
    <3>5. CASE pending = <<>>
      BY <3>3, <3>4, <3>5 DEF Wanted, w1
    <3>6. CASE pending # <<>>
      <4>1. SpecToCron(CronToSpec(shown)) \notin {stored, NotCron}
        <5> DEFINE spec == CronToSpec(shown)
                   own == SpecToCron(spec)
        <5>1. \/ spec \in Structured /\ own # NotCron
              \/ spec = Custom(shown)
          BY <2>2, TabStands
        <5>2. CASE spec \in Structured /\ own # NotCron
          BY <2>2, <2>3, <2>6, <5>2, MountedIs
        <5>3. CASE spec = Custom(shown)
          <6>1. spec \notin Structured
            BY <5>3, TabsAreKept DEF Custom
          <6> QED BY <2>2, <2>3, <2>6, <6>1, MountedIs
        <5> QED BY <5>1, <5>2, <5>3
      <4> QED BY <3>3, <3>4, <3>6, <4>1 DEF UndoesChoice, w1
    <3> QED BY <3>5, <3>6
  <2> QED BY <2>5, <2>6
<1> QED BY <1>1, EditorIInvInit, EditorIInvStep, PTL DEF EditorSpec, OpeningKeepsRule
=============================================================================
