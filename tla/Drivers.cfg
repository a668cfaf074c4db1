SPECIFICATION DriversSpec
CONSTANTS
  Period = 6
  Latency = 2
  CountSize = 2
  MaxTicks = 15
  MaxTimCalls = 2
  Users <- SharingUsers
  Switchable <- SwitchedPeriphs
  MaxStarts = 3
  MaxSwitches = 2
  SectorTotal = 2
  Ranges <- EdgeRanges
  MaxFlashCalls = 3
  MaxCalls = 4
  MaxChanges = 5
  Banks = 1
  Ids <- FilterIds
  Masks <- FilterMasks
  MaxSets = 2
  Clocks <- ClockRates
  Bitrates = {0, 1, 2}
  CrcContexts <- Polynomials
  OtherInitial = "other"
  MaxData = 7
  MaxCrcCalls = 4
INVARIANTS PeriodTrue StartedClocked FlashTold ToldIsState FilterExact TimingBest CrcSame
CHECK_DEADLOCK FALSE
