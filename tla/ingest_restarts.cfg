SPECIFICATION LivenessSpec
CONSTANTS
  Agents = {a1, a2}
  Unsendable <- FirstOfOne
  Bad <- FirstOfOther
  Batches = 2
  Items = 1
  Slots = 2
  QueueSize = 1
  MaxConnections = 2
  RecentLimit = 3
  MaxTroubles = 1
  MaxCloses = 0
  MaxCrashes = 1
INVARIANT GivenUpOnlyHopeless
PROPERTY Delivered
CHECK_DEADLOCK FALSE
