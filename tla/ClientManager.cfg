CONSTANTS
  a = a
  b = b
  size = size
  x = x
  y = y
  k1 = k1
  k2 = k2
  k3 = k3
  None = None
  Ids <- MCIds
  Accessors <- MCAccessors
  Identities <- MCIdentities
  Clients <- MCClients
  PortStart = 1
  PortEnd = 2
  MaxSockets = 2
  Strict = FALSE
  HriFresh = TRUE
  ListenFails = TRUE
  MaxDrift = 1
SPECIFICATION Spec
SYMMETRY MCSymmetry
INVARIANTS
  TypeOK
  PortsConserved
  PortsHeld
  MapMatchesClients
  GraceWatchesOffline
  TunnelsNeverOvercount
PROPERTIES
  PortsLeaveWithClients
  HandoverOnlyToOwner
  OnlineClientStays
  ImplementsRegistry
CHECK_DEADLOCK FALSE
