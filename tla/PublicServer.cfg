CONSTANTS
  s1 = s1
  s2 = s2
  h1 = h1
  u1 = u1
  u2 = u2
  NoSocket = NoSocket
  Sockets <- MCSockets
  HttpCallers <- MCHttpCallers
  UpgradeCallers <- MCUpgradeCallers
  MaxTcpSockets = 1
SPECIFICATION PublicFairSpec
INVARIANTS
  PublicTypeOK
  OnlineIsConnected
  RefusedTakesNoSocket
PROPERTIES
  ImplementsLife
  QueueGrowsOnlyAtBirth
  UpgradesSettle
  QueuedWithoutTunnelEnds
CHECK_DEADLOCK FALSE
