CONSTANTS
  a = a
  b = b
  size = size
  x = x
  y = y
  k1 = k1
  k2 = k2
  k3 = k3
  None = None
  Ids <- MCIds
  Accessors <- MCAccessors
  Identities <- MCIdentities
  Clients <- MCTwoClients
  PortStart = 1
  PortEnd = 2
  MaxSockets = 1
  Strict = FALSE
  HriFresh = TRUE
  ListenFails = TRUE
  MaxDrift = 1
SPECIFICATION FairSpec
PROPERTIES
  NewClientSettles
CHECK_DEADLOCK FALSE
