SPECIFICATION Spec
CONSTANTS
  Reports <- MCReports
  FallsShort <- MCFallsShort
INVARIANTS
  TypeOK
  StableWebSocketFirst
  
  
  BestCarriedTraffic
