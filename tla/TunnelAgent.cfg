CONSTANTS
  s1 = s1
  s2 = s2
  s3 = s3
  h1 = h1
  h2 = h2
  u1 = u1
  NoSocket = NoSocket
  Sockets <- MCSockets
  HttpCallers <- MCHttpCallers
  UpgradeCallers <- MCUpgradeCallers
  MaxTcpSockets = 2
SPECIFICATION FairSpec
INVARIANTS
  TypeOK
  PoolOrQueueEmpty
  CountExact
  ExclusiveSockets
  CallbackOnce
  ClosedIsQuiet
  SocketsAccounted
PROPERTIES
  DueAnswersArrive
  ImplementsLease
