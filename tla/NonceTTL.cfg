CONSTANTS
  Tolerance = 1
  Threshold = 2
  TTL = 2
  Timestamps <- MCTimestamps
  Nonces <- MCNonces
  Steps <- MCSteps
  StartTime = 0
  MaxTime = 9000
SPECIFICATION Spec
INVARIANTS
  AcceptedOnce
