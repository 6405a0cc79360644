SPECIFICATION FairSpec
CONSTANTS
  Garbage <- MCGarbage
  IntMax <- MCIntMax
  Requests <- AllRequests
  MaxRequests = 2
  Parts = {"some", "header", "all"}
  InactivityTimes = {0}
  AppAcks = {TRUE, FALSE}
  TlsModes = {TRUE, FALSE}
  MaxLoad = 2
  Fd = 3
INVARIANT TypeOK
INVARIANT DescriptorReleased
INVARIANT DeliveredOnlyRouted
INVARIANT OnlyOwnObjects
INVARIANT CloseCallbackOnce
PROPERTY RefusedNotServed
PROPERTY ClientGoneReleases
PROPERTY ImplementsSession
PROPERTY ClosedIsReported
