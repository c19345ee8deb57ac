SPECIFICATION Spec
CONSTANTS
  Chunks = {c1, c2}
  Legacy = {l1}
  Items <- TwoItems
  Size <- Uneven
  RowsIn <- Mixed
  BatchSize = 2
  MaxPendingGroups = 1
  MaxPendingItems = 3
  MaxPendingBytes = 4
  MaxDlqRecords = 1
  RepliesLost = TRUE
  DlqFails = TRUE
  MaxFailures = 2
  MaxPending = 2
  MaxQueueBytes = 5
  EventBytes <- WithOverhead
  Unserializable = {}
  DrainBatch = 1
  Copies = 1
  HotAdd = FALSE
  MaxStops = 0
INVARIANTS CanonicalWhole MemoryBounded
CHECK_DEADLOCK FALSE
