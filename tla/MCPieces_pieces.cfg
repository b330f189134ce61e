\* The clock, the schedule editor, the settings card and the imports, each on its own.
CONSTANTS
  MinutesPerHour = 2
  HoursPerDay = 4
  WeekdayCount = 2
  MonthCount = 2
  YearCount = 5
  MonthDays <- MCMonthDays
  LeapYears = {2, 4}
  SummerStart = 4
  SummerEnd = 20
  Horizon = 48
  Rules <- MCRules
  LastInstant = 40
  DefaultHour = 1
  DefaultEvery = 1
  Workdays = {1}
  HourInputs = {1, 3}
  Texts <- MCTexts
  StartRules <- MCStartRules
  MaxSteps = 4
  MaxQueued = 3
  Field <- Fields2
  Unset = Unset
  Default <- Defaults
  Draft <- Drafts
  MaxEdits = 4
  Browser = {"b1", "b2"}
  Card = {1, 2}
  Project = {"p1"}
  Name = {"Default", "Work"}
  Color = {1, 2}
  HistoryLimit = 2
  NextRunAtMs <- MCNextRunAtMs
  Files <- MCFiles
  Legacy <- MCLegacy
  MaxOps = 5
  MaxTime = 3
SPECIFICATION PieceSpec
INVARIANTS
  NextRunIsFirst
  EditorAgrees
  TabReturnsRule
  BoardSound
PROPERTIES
  OpeningKeepsRule
  DraftsSurvive
  CardsKept
  DeletedStaysDeleted
  RestartKeepsDocument
CHECK_DEADLOCK FALSE
