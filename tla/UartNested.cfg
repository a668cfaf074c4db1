SPECIFICATION NestedSpec
CONSTANTS
  Byte = {b1, b2}
  Chunk <- AnyChunks
  Task = {t1, t2}
  Peer = {p1}
  TxSize = 2
  RxSize = 1
  Tunnel = "none"
  IrqControl = TRUE
  Latency = "any"
  MaxTx = 2
  MaxRx = 1
INVARIANTS PortInv
PROPERTIES StreamSpec
