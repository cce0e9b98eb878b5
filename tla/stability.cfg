SPECIFICATION FairSpec
CONSTANTS
  Transports = {"tcp", "ws", "wss"}
  MaxSeq = 4
INVARIANTS
  TypeOK
  ReportAddsUp
  AtMostOneConnection
  NoStaleEcho
PROPERTIES
  ReturnsAfterDuration
  ImplementsEchoLedger
