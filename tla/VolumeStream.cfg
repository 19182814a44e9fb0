SPECIFICATION Spec
CONSTANTS
  m1 = m1
  m2 = m2
  Mints = {m1, m2}
  Window = 1
  Settle = 1
  Retention = 3
  Silence = 1
  MaxLag = 3
  MaxSkew = 1
  FutureTolerance = 1
  MaxSeen = 8
  MaxBuckets = 1
  MaxMintStates = 2
  Idle = 3
  PruneEvery = 2
  Scale = 100
  FeeBps = 0
  CreatorBps = 0
  Worlds <- MCWorlds
  Ladder <- MCLadder
  Entry = 2
  MaxTime = 4
  MaxEvents = 3
  MaxEchoes = 1
  MaxFaults = 1
INVARIANT WindowExact
INVARIANT CurveCurrent
INVARIANT NeverPricesGraduated
CHECK_DEADLOCK FALSE
