CONSTANTS
  Trades = {t1, t2}
  Polls = {p1}
  ExitPnls <- SmallPnls
  DailyLossLimitPct = 50
  StartingBalance = 2
  MaxCrashes = 1
SPECIFICATION FairSpec
INVARIANTS Accounts NoDuplicateSell LeftAlone OpenIsManaged
PROPERTIES ForcedExit
\* Every position may be closed or flagged: nothing is left to poll then.
CHECK_DEADLOCK FALSE
