\* One card with every permission that matters (at and above the default), a
\* rule that runs out of sight, deletions that mint its id again, and more runs
\* than the history holds.
CONSTANTS
  TaskId = {t1}
  SessionId = {s1}
  NoSession = NoSession
  Permissions = {0, 1}
  SessionDefault = 0
  Crons = {{1, 4}}
  Horizon = 2
  CapInputs = {1}
  ParentInputs <- NoParents
  HistoryLimit = 2
  MaxSerial = 2
  MaxRuns = 3
  MaxNotes = 0
  MaxTime = 2
SPECIFICATION Spec
INVARIANTS
  RulesAtRest
PROPERTIES
  OpenNeverLost
  GatedOpening
  SerialsNeverReissued
