CONSTANTS
  Mints = {m1}
  PositionSize = 1
  MaxPositions = 1
  MaxExposure = 1
  MaxReentries = 0
  DailyLossLimitPct = 50
  ConsecutiveLossLimit = 2
  Cooldown = 1
  StartingBalance = 2
  Timeout = 1
  DayLength = 10
  ExitPnls = {}
  MaxTime = 2
  MaxEvals = 2
  MaxCrashes = 0
  MaxTop10 = 60
  MigrationReserve = 200
  MaxLoss = 4
  Fallback = FALSE
  Filters <- MCFilters
  HardMaxImpact = 100
  Slippage = 30
  Weights <- MCWeights
  MinScore = 600
  Edge <- MCEdge
  Histories <- MCHistories
  DataTtl = 1
  QuoteTtl = 0
  MaxAge = 1
  MaxFlight = 0
SPECIFICATION ReadsSpec
PROPERTIES EntryJustified MarketJustified ReadsAnswered StuckTokenRetried
CHECK_DEADLOCK FALSE
