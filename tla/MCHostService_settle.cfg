\* One card bound to a session somebody else types in: every run settles.
CONSTANTS
  t1 = t1
  t2 = t2
  s0 = s0
  TaskId = {t1}
  SessionId = {s0}
  NoSession = NoSession
  Permissions = {}
  SessionDefault = 0
  Crons = {}
  Horizon = 2
  CapInputs = {1}
  ParentInputs = {{}}
  HistoryLimit = 2
  MaxSerial = 1
  MaxRuns = 2
  MaxNotes = 0
  MaxTime = 0
  SourceOf <- OneSource
  Reusing = {t1}
  ExistingSessions = {s0}
  PatrolEnabled = FALSE
  MaxCrashes = 0
  MaxPrompts = 1
SPECIFICATION FairHostSpec
PROPERTIES
  EveryRunSettles
