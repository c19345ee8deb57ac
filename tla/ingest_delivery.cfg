SPECIFICATION Spec
CONSTANTS
  Agents = {a1, a2}
  Unsendable <- LastOfOther
  Bad <- NoBatch
  Batches = 2
  Items = 2
  Slots = 2
  QueueSize = 3
  MaxConnections = 2
  RecentLimit = 3
  MaxTroubles = 1
  MaxCloses = 1
  MaxCrashes = 0
INVARIANT AckedTaken
INVARIANT TakenOnce
INVARIANT Unbroken
CHECK_DEADLOCK FALSE
