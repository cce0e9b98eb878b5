SPECIFICATION FairSpec
CONSTANTS
  TCPPorts <- OnePort
  UDPPorts <- TwicePorts
  TLSAddress = TRUE
  DownloadTests = 2
  DownloadRepeat = TRUE
  MaxResults = 4
INVARIANTS
  TypeOK
  ReportComplete
PROPERTIES
  ImplementsTaskGroup
  EndsAfterDuration

