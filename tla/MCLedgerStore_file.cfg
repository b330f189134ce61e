\* Three starts over a new, old, spoiled or unmigratable directory; crashes, failed writes, retries.
CONSTANTS
  h1 = h1
  h2 = h2
  h3 = h3
  Host = {h1, h2, h3}
  NoHost = NoHost
  Unprobed = {h1, h2, h3}
  RequestId = {r1, r2}
  Fingerprint = {f1}
  CacheLimit = 1
  StartFiles <- AnyDirectory
  MaxEffects = 2
  MaxTicks = 1
  MaxDamage = 1
  MaxIds = 2
CONSTRAINT TwoOrEmpty
SYMMETRY AnyHost
SPECIFICATION StoreSpec
INVARIANTS
  FilesSound
  OneOwner
  AcknowledgedKept
  RetryActsOnce
PROPERTIES
  RevisionForward
  KeepsAJournal
CHECK_DEADLOCK FALSE
