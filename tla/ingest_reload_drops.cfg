SPECIFICATION Spec
CONSTANTS
  Agents = {a1, a2}
  Unsendable <- NoBatch
  Bad <- NoBatch
  Batches = 1
  Items = 2
  Slots = 2
  QueueSize = 3
  MaxConnections = 2
  RecentLimit = 3
  MaxTroubles = 0
  MaxCloses = 1
  MaxCrashes = 0
INVARIANT ReloadDrains
SYMMETRY Sym
CHECK_DEADLOCK FALSE
