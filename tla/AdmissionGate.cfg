CONSTANTS
  High = {h1, h2}
  Low = {l1, l2, l3}
  Endpoints = {primary, fallback}
  MaxConcurrent = 2
SPECIFICATION FairSpec
INVARIANTS NeverQueues
PROPERTIES HighFirst WaitersServed
\* Nothing is left to do once the gate is shut down.
CHECK_DEADLOCK FALSE
