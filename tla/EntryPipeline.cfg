CONSTANTS
  Mints = {m1, m2, m3}
  PositionSize = 2
  MaxPositions = 2
  MaxExposure = 5
  MaxReentries = 1
  DailyLossLimitPct = 50
  ConsecutiveLossLimit = 2
  Cooldown = 1
  StartingBalance = 2
  Timeout = 1
  DayLength = 2
  ExitPnls <- SmallPnls
  MaxTime = 2
  MaxEvals = 3
  MaxCrashes = 1
SPECIFICATION Spec
SYMMETRY MintSymmetry
INVARIANTS OnePositionPerMint ExposureCap ReservationsMatchBuys LeasesMatchEvaluations ReentryCap
PROPERTIES NoSupersededEntry BreakerLatched ImplementsEntryBook
CHECK_DEADLOCK FALSE
