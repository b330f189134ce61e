\* The retry button imports what the tab shows, a card deleted elsewhere included.
CONSTANTS
  c1 = c1
  p1 = p1
  Card = {c1}
  Project = {}
  MaxCalls = 2
  Nothing = Nothing
  StartBoards <- EmptyOrFull
  OldCards = {{}}
  MaxChanges = 1
  MaxCommands = 1
  MaxFaults = 1
  MaxRestarts = 0
  MaxBoots = 2
  MaxEvents = 4
SPECIFICATION ReplicaSpec
INVARIANTS
  NoResurrection
CHECK_DEADLOCK FALSE
