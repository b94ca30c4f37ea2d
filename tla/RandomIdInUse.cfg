CONSTANTS
  a = a
  b = b
  size = size
  x = x
  y = y
  k1 = k1
  k2 = k2
  k3 = k3
  None = None
  Ids <- MCIds
  Accessors <- MCAccessors
  Identities <- MCIdentities
  Clients <- MCClients
  PortStart = 1
  PortEnd = 2
  MaxSockets = 1
  Strict = FALSE
  HriFresh = FALSE
  ListenFails = FALSE
  MaxDrift = 1
SPECIFICATION Spec
PROPERTIES
  OnlineClientStays
CHECK_DEADLOCK FALSE
