\* One card, two runs, two sessions, a note and a crash: launches, polls and reports against the ledger.
CONSTANTS
  t1 = t1
  t2 = t2
  s0 = s0
  TaskId = {t1}
  SessionId = {s0, s1}
  NoSession = NoSession
  Permissions = {}
  SessionDefault = 0
  Crons = {}
  Horizon = 2
  CapInputs = {1}
  ParentInputs = {{}}
  HistoryLimit = 2
  MaxSerial = 1
  MaxRuns = 2
  MaxNotes = 1
  MaxTime = 0
  SourceOf <- NoSource
  Reusing = {t1}
  ExistingSessions = {}
  PatrolEnabled = FALSE
  MaxCrashes = 1
  MaxPrompts = 0
CONSTRAINT OnBoard
SPECIFICATION HostSpec
INVARIANTS
  HostSound
PROPERTIES
  NotesReachASession
