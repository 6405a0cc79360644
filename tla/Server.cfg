SPECIFICATION FairSpec
CONSTANTS
  Garbage <- MCGarbage
  Datagrams <- AllDatagrams
  MaxDatagrams = 1
  MaxClients = 2
  QueueLength = 2
  AnnounceNum = 1
INVARIANT TypeOK
INVARIANT PortsServed
INVARIANT OwnResponseNotRefused
PROPERTY TcpClientsServed
