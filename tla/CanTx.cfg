SPECIFICATION FairSpec
CONSTANTS
  Slots = {0, 1}
  Drivers = {"dedicated", "fifo", "bxcan"}
  CallbackSends = {FALSE, TRUE}
INVARIANTS OutcomeTold TaskFramesReported NothingLeftBehind
PROPERTIES TransmitReturns
CHECK_DEADLOCK FALSE
