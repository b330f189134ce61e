\* Two cards with a cron rule, cap 1, a crash, patrol on; no session can be created, so every launch fails.
CONSTANTS
  t1 = t1
  t2 = t2
  s0 = s0
  TaskId = {t1, t2}
  SessionId = {}
  NoSession = NoSession
  Permissions = {}
  SessionDefault = 0
  Crons = {{1, 2, 5}}
  Horizon = 2
  CapInputs = {1}
  ParentInputs = {{}}
  HistoryLimit = 2
  MaxSerial = 2
  MaxRuns = 2
  MaxNotes = 0
  MaxTime = 2
  SourceOf <- NoSource
  Reusing = {}
  ExistingSessions = {}
  PatrolEnabled = TRUE
  MaxCrashes = 1
  MaxPrompts = 0
CONSTRAINT NoHandMoves
SPECIFICATION HostSpec
PROPERTIES
  NoBackfill
