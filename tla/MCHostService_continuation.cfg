\* A parent and a child, caps 1 and 2: who hands the child on.
CONSTANTS
  t1 = t1
  t2 = t2
  s0 = s0
  TaskId = {t1, t2}
  SessionId = {s0}
  NoSession = NoSession
  Permissions = {}
  SessionDefault = 0
  Crons = {}
  Horizon = 2
  CapInputs = {1, 2}
  ParentInputs <- MCParentInputs
  HistoryLimit = 2
  MaxSerial = 2
  MaxRuns = 2
  MaxNotes = 0
  MaxTime = 0
  SourceOf <- NoSource
  Reusing = {}
  ExistingSessions = {}
  PatrolEnabled = FALSE
  MaxCrashes = 0
  MaxPrompts = 0
CONSTRAINT OneChild
SPECIFICATION FairHostSpec
PROPERTIES
  ContinuationIsPrompt
  ChildrenContinue
