SPECIFICATION FairSpec
CONSTANTS
  Depth = 1
  MaxLen = 2
  MaxTransfers = 3
  Modes <- BothModes
  CallbackStarts <- AnyStarts
INVARIANTS CleanMeansReceived
CHECK_DEADLOCK FALSE
