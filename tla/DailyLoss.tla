------------------------------ MODULE DailyLoss ------------------------------
(***************************************************************************)
(* The daily loss limit: risk/dailyLossCircuitBreaker.ts.  SOL amounts are *)
(* integers in an arbitrary unit; the day's starting balance is the        *)
(* configured one, which is what each day's row is created with.           *)
(***************************************************************************)
EXTENDS Integers

CONSTANTS
  DailyLossLimitPct,  \* hard.dailyLossLimitPct
  StartingBalance     \* cfg.risk.dailyStartingBalanceSol

ASSUME DailyLossAssumption ==
  /\ DailyLossLimitPct \in Nat \ {0}
  /\ StartingBalance \in Int

\* Realized loss reached the percentage of the day's starting balance; a
\* non-positive balance fails closed.
IsDailyLossLimitBreached(realizedPnl, startingBalance) ==
  \/ startingBalance <= 0
  \/ (-realizedPnl) * 100 >= DailyLossLimitPct * startingBalance

ShouldLatchCircuitBreaker(alreadyTriggered, realizedPnl, startingBalance) ==
  alreadyTriggered \/ IsDailyLossLimitBreached(realizedPnl, startingBalance)

\* Variant: the exit does not look at the breaker.
AfterExitUnlatched(day, pnl) == [day EXCEPT !.pnl = @ + pnl]

\* The day's row after the exit transaction of positionMonitor.closePosition
\* realized `pnl`: the total moves and the breaker latches with it.
AfterExit(day, pnl) ==
  LET total == day.pnl + pnl
  IN  [pnl |-> total,
       latched |-> day.latched \/ IsDailyLossLimitBreached(total, StartingBalance)]

==============================================================================
