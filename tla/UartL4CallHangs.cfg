SPECIFICATION FairSpec
CONSTANTS
  Byte = {b1}
  Chunk <- BlockChunks
  Task = {t1}
  Peer = {}
  TxSize = 2
  RxSize = 1
  Tunnel = "none"
  IrqControl = FALSE
  Latency = "handler"
  MaxTx = 2
  MaxRx = 0
PROPERTIES CallsReturn
CHECK_DEADLOCK FALSE
