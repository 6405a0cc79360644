SPECIFICATION Spec
CONSTANTS
  Garbage <- MCGarbage
  IntMax <- MCIntMax
  Requests <- TimerRequests
  MaxRequests = 2
  Parts = {"some", "header", "all"}
  InactivityTimes = {0}
  AppAcks = {TRUE}
  TlsModes = {TRUE}
  MaxLoad = 2
  Fd = 3
INVARIANT NoShutdownAfterFatal
