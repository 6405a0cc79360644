SPECIFICATION Spec
CONSTANTS
  Garbage <- MCGarbage
  IntMax <- MCIntMax
  Requests <- TimerRequests
  MaxRequests = 2
  Parts = {"all"}
  InactivityTimes = {3}
  AppAcks = {TRUE}
  TlsModes = {FALSE}
  MaxLoad = 2
  Fd = 3
PROPERTY TimeoutAfterInactivityTime
