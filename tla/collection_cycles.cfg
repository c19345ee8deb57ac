SPECIFICATION Spec
CONSTANTS
  Keys = {k1, k2}
  Payloads = {p1}
  Gone = Gone
  MaxItems = 1
  PageLines = 1
  Interval <- LogSeldom
  RetryInterval = 1
  FullInterval = 2
  SplitInstant = FALSE
  StateSyncFails = FALSE
  MaxCycles = 3
  MaxLines = 1
  MaxChanges = 2
  MaxFaults = 1
  MaxCrashes = 1
  MaxMerges = 1
SYMMETRY KeysAlike
INVARIANTS IInv NoLineSkipped FileHonest WatermarkWhole DashboardTrue
CHECK_DEADLOCK FALSE
