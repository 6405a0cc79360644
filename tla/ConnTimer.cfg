SPECIFICATION FairSpec
CONSTANTS
  Garbage <- MCGarbage
  IntMax <- MCIntMax
  Requests <- TimerRequests
  MaxRequests = 2
  Parts = {"some", "header", "all"}
  InactivityTimes = {3}
  AppAcks = {TRUE}
  TlsModes = {FALSE, TRUE}
  MaxLoad = 2
  Fd = 3
INVARIANT DescriptorReleased
INVARIANT TimerThreadJoined
INVARIANT TimeoutOnlyIfRouted
PROPERTY TimeoutNeedsSilence
PROPERTY RefusedNotServed
PROPERTY TimeoutClosesPlainDescriptor
PROPERTY ClientGoneReleases
