SPECIFICATION Spec
CONSTANTS
  Garbage <- MCGarbage
  Datagrams <- AllDatagrams
  MaxDatagrams = 1
  MaxClients = 2
  QueueLength = 2
  AnnounceNum = 1
INVARIANT ListenersOnOwnPorts
