SPECIFICATION Spec
CONSTANTS
  Garbage <- MCGarbage
  IntMax = 100
  MaxRequests = 2
  MaxEnds = 2
  ReadSizes <- MCReadSizes
  Datagrams <- MCDatagrams
INVARIANT TypeOK
INVARIANT DialsLoopback
INVARIANT TesterServed
PROPERTY AcksReported
PROPERTY ReconnectsEventually
CHECK_DEADLOCK FALSE
