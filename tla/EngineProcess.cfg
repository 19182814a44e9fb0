SPECIFICATION ProcessSpec
CONSTANTS
  t1 = t1
  t2 = t2
  t3 = t3
  t4 = t4
  Mints = {t1, t2, t3, t4}
  MaxConcurrent = 2
  Txs <- MCTxs
  MaxFetches = 1
INVARIANT SlotAccounting
INVARIANT WorkConserving
INVARIANT DiscoveredGenuine
PROPERTY NoBarging
PROPERTY PendingServed
PROPERTY QuietAfterAbort
PROPERTY ShutdownEnds
\* The process exits.
CHECK_DEADLOCK FALSE
