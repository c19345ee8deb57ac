SPECIFICATION LivenessSpec
CONSTANTS
  Chunks = {c1}
  Legacy = {}
  Items <- TwoItems
  Size <- UnitSize
  RowsIn <- Mixed
  BatchSize = 2
  MaxPendingGroups = 2
  MaxPendingItems = 2
  MaxPendingBytes = 4
  MaxDlqRecords = 1
  RepliesLost = TRUE
  DlqFails = TRUE
  MaxFailures = 1
  MaxPending = 2
  MaxQueueBytes = 4
  EventBytes <- WithOverhead
  Unserializable = {}
  DrainBatch = 1
  Copies = 2
  HotAdd = FALSE
  MaxStops = 1
INVARIANTS NothingVanishes ChunkOnce HalfWrittenRetained RetryArmed
PROPERTY Settles
CHECK_DEADLOCK FALSE
