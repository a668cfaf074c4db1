SPECIFICATION DomainSpec
CONSTANTS
  AdcConfigs <- AdcPairs
  MaxInits = 4
  MaxFaults = 1
  Contexts <- Boards
  MaxBoots = 3
  MaxDomainCalls = 3
  PinContexts <- BoardPins
  ItEdges <- PinEdges
  MaxGpioCalls = 5
  MaxEdges = 2
INVARIANTS ChannelTrue BackupKept PinsServed
CHECK_DEADLOCK FALSE
