CONSTANTS
  Unset = Unset
  Garbage = Garbage
  u1 = u1
  DefaultGrace = 5
  DefaultMaxGrace = 6
  DefaultWsTimeout = 8
  TimeoutMax = 100
  Second = 3
  Upgrades = {}
  GraceEnv <- MCGraceEnv
  MaxGraceEnv <- MCMaxGraceEnv
  WsEnv <- MCWsEnv
  MaxTime = 13
SPECIFICATION Spec
PROPERTIES
  AdviceHolds
CHECK_DEADLOCK FALSE
