----------------------------- MODULE RiskEngine ------------------------------
(***************************************************************************)
(* The entry-time risk checks: risk/riskEngine.ts and the rules it         *)
(* composes (exposure, re-entry, daily loss circuit breaker).  All are     *)
(* pure functions of what the caller read from the ledger.  SOL amounts    *)
(* are integers in an arbitrary unit; the reason strings are left out.     *)
(***************************************************************************)
EXTENDS DailyLoss, Sequences, FiniteSets

CONSTANTS
  PositionSize,          \* hard.positionSizeSol
  MaxPositions,          \* hard.maxConcurrentPositions
  MaxExposure,           \* hard.maxTotalExposureSol
  MaxReentries,          \* hard.maxReentriesPerToken
  ConsecutiveLossLimit,  \* cfg.reentry.consecutiveLossLimit
  Cooldown               \* cfg.reentry.cooldownMs

ASSUME RiskAssumption ==
  /\ PositionSize \in Nat \ {0}
  /\ MaxPositions \in Nat \ {0}
  /\ MaxExposure \in Nat
  /\ MaxReentries \in Nat
  /\ ConsecutiveLossLimit \in Nat \ {0}
  /\ Cooldown \in Nat

\* Every position has the one fixed size (computePositionSize), so the
\* exposure of n open or reserved positions is n times that size.
CanOpenNewPosition(n) ==
  /\ n < MaxPositions
  /\ n * PositionSize + PositionSize <= MaxExposure

\* Variant: one re-entry too many.
CanReenterOffByOne(history, now) ==
  /\ history.totalTrades <= MaxReentries + 1
  /\ history.totalTrades > 0 =>
       /\ history.consecutiveLosses < ConsecutiveLossLimit
       /\ history.lastExit # -1 => now - history.lastExit >= Cooldown

\* `history` is a TokenTradeHistory; lastExit is -1 for "no closed trade".
CanReenter(history, now) ==
  /\ history.totalTrades <= MaxReentries
  /\ history.totalTrades > 0 =>
       /\ history.consecutiveLosses < ConsecutiveLossLimit
       /\ history.lastExit # -1 => now - history.lastExit >= Cooldown

\* evaluateEntryRisk: `daily` is the day's risk state, `n` the number of open
\* and reserved positions.
EntryAllowed(emergencyStop, daily, n, history, now) ==
  /\ ~emergencyStop
  /\ ~ShouldLatchCircuitBreaker(daily.latched, daily.pnl, StartingBalance)
  /\ CanOpenNewPosition(n)
  /\ CanReenter(history, now)

==============================================================================
