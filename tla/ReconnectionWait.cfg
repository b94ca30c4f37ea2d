CONSTANTS
  s1 = s1
  s2 = s2
  h1 = h1
  u1 = u1
  u2 = u2
  NoSocket = NoSocket
  Sockets <- MCSockets
  HttpCallers <- MCHttpCallers
  UpgradeCallers <- MCOneUpgradeCaller
  MaxTcpSockets = 2
SPECIFICATION PublicSpec
INVARIANTS
  ReconnectionEndsTheWait
CHECK_DEADLOCK FALSE
