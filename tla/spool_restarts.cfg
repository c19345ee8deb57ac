SPECIFICATION LivenessSpec
CONSTANTS
  Ids = {1, 2, 3, 4, 5, 6, 7, 8, 9}
  DiagIds = {3, 4, 5, 7, 8, 9}
  LegacyIds = {1, 2}
  Stamp <- LegacyStamp
  Size <- LegacySize
  ReasonBytes = 1
  MaxAge = 1
  MaxRecords = 3
  MaxBytes = 4
  PeekLimit = 2
  CompactAt = 2
  Poison = {2}
  Corruptible = {1}
  MaxClock = 2
  MaxCrashes = 2
  Faults = FALSE
INVARIANTS
  IInv
  DiskBounded
PROPERTIES
  Drains
