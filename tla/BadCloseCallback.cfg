SPECIFICATION Spec
CONSTANTS
  Garbage <- MCGarbage
  IntMax <- MCIntMax
  Requests <- TimerRequests
  MaxRequests = 2
  Parts = {"some", "header", "all"}
  InactivityTimes = {1}
  AppAcks = {TRUE}
  TlsModes = {FALSE}
  MaxLoad = 2
  Fd = 3
INVARIANT CloseCallbackAtMostOnce
