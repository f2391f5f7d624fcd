SPECIFICATION Spec
CONSTANTS
  p1 = p1
  p2 = p2
  r1 = r1
  r2 = r2
  Processes <- TwoProcesses
  Requests <- TwoRequests
  ServedBy <- Homes
  LocalTTL = 2
  RedisTTL = 1
  Timeout = 1
  MaxTime = 7
INVARIANTS
  TypeOK
  BoundedStaleness
