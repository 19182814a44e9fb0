SPECIFICATION Spec
CONSTANTS
  s1 = s1
  m2 = m2
  m1 = m1
  Strategies <- MCStrategies
  Gains <- MCGains
  Mints = {m1, m2}
  Offsets = {1, 2}
  DayLength = 3
  Lag = 1
  MaxTime = 3
  MaxTrades = 2
  MaxFaults = 1
  PositionSize = 1
  MaxPositions = 1
  MaxExposure = 2
  MaxReentries = 0
  ConsecutiveLossLimit = 2
  Cooldown = 1
  DailyLossLimitPct = 10
  StartingBalance = 10
INVARIANT ShadowLimits
INVARIANT DailyAccounts
INVARIANT PathMatchesTrade
PROPERTY PathFinal
SYMMETRY MCSymmetry
CHECK_DEADLOCK FALSE
