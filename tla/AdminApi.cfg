CONSTANTS
  a = a
  b = b
  size = size
  bad = bad
  token1 = token1
  address1 = address1
  proxy1 = proxy1
  k1 = k1
  k2 = k2
  r1 = r1
  r2 = r2
  None = None
  NoHeader = NoHeader
  Absent = Absent
  Ids <- MCIds
  Accessors <- MCAccessors
  Identities <- MCIdentities
  Clients <- MCClients
  PortStart = 1
  PortEnd = 1
  MaxSockets = 1
  Strict = TRUE
  HriFresh = TRUE
  ListenFails = TRUE
  MaxDrift = 1
  Secure = FALSE
  HttpProxyPort = Absent
  HttpsProxyPort = Absent
  Port <- MCPort
  Domain <- MCDomain
  Requests <- MCRequests
  Names <- MCNames
  Shape <- MCShape
  Headers <- MCHeaders
  Hosts <- MCHosts
  HmacEnabled = TRUE
  TrustProxy = TRUE
SPECIFICATION AdminFairSpec
INVARIANTS
  AdminTypeOK
  OwnerNotRefused
PROPERTIES
  GrantIsLive
  RequestsSettle
  OfflineClientLeaves
CHECK_DEADLOCK FALSE
