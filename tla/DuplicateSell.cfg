CONSTANTS
  Trades = {t1}
  Polls = {p1, p2}
  ExitPnls <- SmallPnls
  DailyLossLimitPct = 50
  StartingBalance = 2
  MaxCrashes = 0
SPECIFICATION Spec
INVARIANT NoDuplicateSell
\* Every position may be closed or flagged: nothing is left to poll then.
CHECK_DEADLOCK FALSE
