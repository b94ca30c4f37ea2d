CONSTANTS
  Tolerance = 1
  Threshold = 1
  TTL = 5
  Timestamps <- MCTimestamps
  Nonces <- MCNonces
  Steps <- MCSteps
  StartTime = 0
  MaxTime = 9000
SPECIFICATION FairSpec
INVARIANTS
  TypeOK
  AcceptedOnce
  RemembersForTTL
PROPERTIES
  CacheForgets
