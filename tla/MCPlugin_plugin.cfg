\* The plugin entry, the Host service and the helpers together.
CONSTANTS
  h1 = h1
  h2 = h2
  Helper = {h1, h2}
  Nobody = Nobody
  Platform <- Both
  MaxRetry = 1
  MaxFaults = 1
  StartSettings <- Awake
  MaxChanges = 2
SPECIFICATION PluginSpec
INVARIANTS
  InhibitorSound
PROPERTIES
  SavedIsHeld
  FreedWhenIdle
CHECK_DEADLOCK FALSE
