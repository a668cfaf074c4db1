SPECIFICATION FairSpec
CONSTANTS
  Depth = 1
  MaxLen = 2
  MaxTransfers = 3
  Modes <- BothModes
  CallbackStarts <- AnyStarts
INVARIANTS CleanUntilOverrun OneOutcome IdleIsClean
PROPERTIES TransfersEnd
CHECK_DEADLOCK FALSE
