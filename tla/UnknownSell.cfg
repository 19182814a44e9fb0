CONSTANTS
  Trades = {t1}
  Polls = {p1}
  ExitPnls <- SmallPnls
  DailyLossLimitPct = 50
  StartingBalance = 2
  MaxCrashes = 1
SPECIFICATION Spec
INVARIANT UnknownNeverRetried
\* Every position may be closed or flagged: nothing is left to poll then.
CHECK_DEADLOCK FALSE
