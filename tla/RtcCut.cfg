SPECIFICATION BackupSpec
CONSTANTS
  Contexts <- Boards
  MaxBoots = 1
  MaxDomainCalls = 2
INVARIANTS RtcInitTold
CHECK_DEADLOCK FALSE
