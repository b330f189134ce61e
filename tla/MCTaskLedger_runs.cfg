\* Two cards: gates, cap, notes and restarts, without schedules or permissions.
CONSTANTS
  TaskId = {t1, t2}
  SessionId = {s1}
  NoSession = NoSession
  Permissions = {}
  SessionDefault = 0
  Crons = {}
  Horizon = 2
  CapInputs = {1, 2}
  ParentInputs <- NoneOrAll
  HistoryLimit = 2
  MaxSerial = 2
  MaxRuns = 2
  MaxNotes = 1
  MaxTime = 0
SYMMETRY CardSymmetry
CONSTRAINT NoStamp
SPECIFICATION Spec
INVARIANTS
  TypeOK
  OneRunAtATime
  OpenCarriesPending
PROPERTIES
  SettledForGood
  GatedOpening
  CapHonoured
