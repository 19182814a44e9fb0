CONSTANTS
  Requests = {r1, r2, r3}
  NumEndpoints = 2
  MaxConcurrent = 1
  Timeout = 2
  MaxRetries = 1
  MaxTotal = 2
  Threshold = 2
  Cooldown = 2
  UnsupportedCooldown = 2
  Spacing = 1
  Grace = 1
  Delays = {0, 1}
  MaxTime = 4
SPECIFICATION Spec
SYMMETRY RequestSymmetry
INVARIANTS TypeOK SlotAccounting NoIdleSlot RateClockTruthful SettlesInTime
PROPERTIES FailuresAreEvidence
\* Every request is made once: nothing is left to do in the end.
CHECK_DEADLOCK FALSE
