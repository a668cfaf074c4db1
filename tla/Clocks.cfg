SPECIFICATION FairSpec
CONSTANTS
  NPll = 2
  H7Freqs = {0, 80, 120, 480}
  L4Freqs = {48, 80}
  MaxInit = 2
INVARIANTS FlashCovers StatusTrue
PROPERTIES InitReturns
CHECK_DEADLOCK FALSE
