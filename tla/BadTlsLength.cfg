SPECIFICATION Spec
CONSTANTS
  Garbage <- MCGarbage
  IntMax <- MCIntMax
  Requests <- AllRequests
  MaxRequests = 2
  Parts = {"some", "header", "all"}
  InactivityTimes = {0}
  AppAcks = {TRUE}
  TlsModes = {TRUE}
  MaxLoad = 2
  Fd = 3
INVARIANT ProcessedWasReceived
