SPECIFICATION Spec
CONSTANTS
  Ids = {1, 3, 5}
  DiagIds = {}
  LegacyIds = {}
  Stamp <- McStamp
  Size <- McSize
  ReasonBytes = 1
  MaxAge = 1
  MaxRecords = 2
  MaxBytes = 4
  PeekLimit = 2
  CompactAt = 2
  Poison = {3}
  Corruptible = {}
  MaxClock = 3
  MaxCrashes = 1
  Faults = TRUE
INVARIANTS
  NoSilentLoss
  NothingStranded
PROPERTIES
  OldestFirst
  ImplementsContract
