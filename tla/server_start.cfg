SPECIFICATION Spec
CONSTANTS
  c1 = c1
  r1 = r1
  r2 = r2
  t1 = t1
  Port = {443, 8080, 8443}
  TCPPorts <- StartTCPPorts
  UDPPorts <- CoreUDPPorts
  HTTPPort = 8080
  WebSocketPort = 8443
  TLSPort = 8443
  HTTPPorts = {8080, 8443}
  Conn = {}
  ConnPort <- Nothing
  MaxUnread = 1
  MaxPackets = 0
  Request = {}
  ReqPort <- Nothing
  ReqKind <- Nothing
  TLSConn = {t1}
INVARIANTS
  TypeOK
  RunningMeansStarted
  
PROPERTIES
  ImplementsTaskGroup
