SPECIFICATION FairSpec
CONSTANTS
  c1 = c1
  r1 = r1
  r2 = r2
  t1 = t1
  Port = {443, 8080, 8443}
  TCPPorts <- CoreTCPPorts
  UDPPorts <- NoPorts
  HTTPPort = 8080
  WebSocketPort = 0
  TLSPort = 8443
  HTTPPorts = {8080}
  Conn = {c1}
  ConnPort <- AllConnPort
  MaxUnread = 1
  MaxPackets = 0
  Request = {r1}
  ReqPort <- AllReqPort
  ReqKind <- OneSimple
  TLSConn = {t1}
PROPERTIES
  StopsWhenQuiet
  HandlerFinishes
