SPECIFICATION Spec
CONSTANTS
  Transports = {"tcp", "ws", "wss"}
  MaxSeq = 2
INVARIANT ReturnsClosed
