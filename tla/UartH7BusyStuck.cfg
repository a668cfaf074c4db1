SPECIFICATION FairSpec
CONSTANTS
  Byte = {b1, b2}
  Chunk <- BlockChunks
  Task = {t1}
  Peer = {}
  TxSize = 2
  RxSize = 1
  Tunnel = "none"
  IrqControl = FALSE
  Latency = "none"
  MaxTx = 3
  MaxRx = 0
PROPERTIES BusyEnds
CHECK_DEADLOCK FALSE
