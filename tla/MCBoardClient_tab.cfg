\* One tab, one card, one project: overtaken answers, time-outs, restarts.
CONSTANTS
  c1 = c1
  p1 = p1
  Card = {c1}
  Project = {p1}
  MaxCalls = 2
  Nothing = Nothing
  StartBoards <- EmptyOrFull
  OldCards = {{c1}}
  MaxChanges = 1
  MaxCommands = 2
  MaxFaults = 1
  MaxRestarts = 1
  MaxBoots = 2
  MaxEvents = 4
CONSTRAINT Quiet
SPECIFICATION FairReplicaSpec
INVARIANTS
  ViewSound
  ToldIsApplied
PROPERTIES
  NeverBackwards
  ShowsTheLedger
  QueueDrains
  EndsWithHost
CHECK_DEADLOCK FALSE
