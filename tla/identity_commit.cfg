SPECIFICATION LivenessSpec
CONSTANTS
  Targets = {ca, client, metadata}
  Versions = {v1, v2}
  NoFile = NoFile
  Initial <- Starts
  MarkerSyncFails = FALSE
  MaxFaults = 2
  MaxCrashes = 2
INVARIANTS
  IInv
  AnswerTrue
PROPERTIES
  ImplementsContract
  Recovers
