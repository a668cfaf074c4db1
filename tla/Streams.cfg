SPECIFICATION StreamsSpec
CONSTANTS
  a = a
  b = b
  Byte = {a, b}
  Pattern <- Overlapping
  RxSize = 2
  Window = 6
  Habit = {TRUE, FALSE}
  FifoSize = 2
  QueueSize = 2
  MaxFrames = 5
  Task = {t1, t2}
  NoTask = NoTask
  MaxBits = 4
INVARIANTS MatchIsLongest KeptPatternFound NothingMissed
INVARIANTS ReceptionAccounted
INVARIANTS SuccessMeansDone WaiterInformed RecoverTells
PROPERTIES QuietCallReturns FrameLeaves CallReturns
CHECK_DEADLOCK FALSE
