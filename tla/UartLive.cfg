SPECIFICATION UartSpec
CONSTANTS
  Byte = {b1, b2}
  Chunk <- BlockChunks
  Task = {t1, t2}
  Peer = {}
  TxSize = 2
  RxSize = 1
  Tunnel = "opaque"
  IrqControl = FALSE
  Latency = "any"
  MaxTx = 3
  MaxRx = 4
INVARIANTS NotBusyMeansDone NoStall ReceivedInOrder LossReported
PROPERTIES StreamFairSpec CallsOfH7Return
CHECK_DEADLOCK FALSE
