SPECIFICATION Spec
CONSTANTS
  c1 = c1
  r1 = r1
  r2 = r2
  t1 = t1
  Port = {443, 8080}
  TCPPorts <- CoreTCPPorts
  UDPPorts <- CoreUDPPorts
  HTTPPort = 8080
  WebSocketPort = 8080
  TLSPort = 0
  HTTPPorts = {8080}
  Conn = {c1}
  ConnPort <- AllConnPort
  MaxUnread = 1
  MaxPackets = 1
  Request = {r1, r2}
  ReqPort <- OneReqPort
  ReqKind <- DownloadAndWS
  TLSConn = {}
INVARIANTS
  GaugesExact
  StatsLedger
  PacketsCounted
  StoppedQuiet
  WaitGroupExact
PROPERTY AddBeforeWait
