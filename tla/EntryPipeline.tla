---------------------------- MODULE EntryPipeline ----------------------------
(***************************************************************************)
(* The path from an evaluation tick to an open position:                   *)
(*   orchestrator/loop.ts            evaluateToken, evaluateTokenInner     *)
(*   orchestrator/evaluationGuard.ts EvaluationGuard, EntryReservations    *)
(*   ledger/tradeLedger.ts           the rows the entry reads and writes   *)
(* Evaluations of many tokens, and (after a takeover) several of one       *)
(* token, interleave at their awaits.  Between two awaits the code runs    *)
(* as one task, so an evaluation has three atomic segments: the tick that  *)
(* starts it, the decision that rejects it or commits to an entry, and     *)
(* what follows the executor's buy.  What is awaited before the decision   *)
(* (prices, quotes, the safety gate) only decides whether the evaluation   *)
(* is rejected.                                                            *)
(*                                                                         *)
(* Positions are closed by the position monitor, which has a module of     *)
(* its own; here a close is the one step its ledger transaction makes.     *)
(***************************************************************************)
EXTENDS RiskEngine

CONSTANTS
  Mints,       \* tokens
  Timeout,     \* EvaluationGuard timeoutMs: age at which a lease is stuck
  DayLength,   \* clock units of a UTC day
  ExitPnls,    \* the realized results a closed position can have
  MaxTime,     \* bound on the clock
  MaxEvals,    \* bound on the evaluations ever started (so also on trades)
  MaxCrashes   \* bound on the restarts

ASSUME PipelineAssumption ==
  /\ IsFiniteSet(Mints)
  /\ Timeout \in Nat \ {0}
  /\ DayLength \in Nat \ {0}
  /\ ExitPnls \subseteq Int
  /\ MaxTime \in Nat
  /\ MaxEvals \in Nat
  /\ MaxCrashes \in Nat

VARIABLES
  now,        \* the clock
  held,       \* guard.held: the id of each token's live lease, 0 when none
  evals,      \* the evaluations ever started; the index is the lease id
  reserved,   \* reservations.pending
  monitored,  \* trades the position monitor tracks
  emergency,  \* emergencyStop.triggered
  stopping,   \* stopOrchestrator was called
  trades,     \* ledger: rows of the trades table, in insertion order
  daily,      \* ledger: rows of daily_risk_state
  crashes     \* restarts so far

vars == <<now, held, evals, reserved, monitored, emergency, stopping,
          trades, daily, crashes>>

Day(t) == t \div DayLength
Days == 0..Day(MaxTime)
EvalIds == 1..Len(evals)
Buying == {e \in EvalIds : evals[e].pc = "buying"}
TradeIds == 1..Len(trades)
OpenTrades == {i \in TradeIds : trades[i].status = "open"}
TradesOf(m) == {i \in TradeIds : trades[i].mint = m}
ClosedTradesOf(m) == {i \in TradesOf(m) : trades[i].status = "closed"}
OpenMints == {trades[i].mint : i \in OpenTrades}

\* ORDER BY exit_time_ms DESC: how many of the token's exits come before i's.
Recency(i) ==
  Cardinality({j \in ClosedTradesOf(trades[i].mint) :
                 \/ trades[j].exitAt > trades[i].exitAt
                 \/ trades[j].exitAt = trades[i].exitAt /\ j > i})

\* getTokenTradeHistory: rows of the token, the open one included; losses are
\* counted back from its latest exit, among its last 20 exits.
History(m) ==
  LET closed == ClosedTradesOf(m)
      streak == {i \in closed : /\ Recency(i) < 20
                                /\ \A j \in closed : Recency(j) <= Recency(i) => trades[j].pnl < 0}
  IN  [totalTrades |-> Cardinality(TradesOf(m)),
       consecutiveLosses |-> Cardinality(streak),
       lastExit |-> IF closed = {} THEN -1
                    ELSE trades[CHOOSE i \in closed : Recency(i) = 0].exitAt]

Init ==
  /\ now = 0
  /\ held = [m \in Mints |-> 0]
  /\ evals = <<>>
  /\ reserved = {}
  /\ monitored = {}
  /\ emergency = FALSE
  /\ stopping = FALSE
  /\ trades = <<>>
  /\ daily = [d \in Days |-> [pnl |-> 0, latched |-> FALSE]]
  /\ crashes = 0

------------------------------------------------------------------------------
\* Leases

\* Variant: a stuck evaluation keeps its token for ever.
MayAcquireNoTakeover(m) == held[m] = 0

\* tryAcquire: the token is not being evaluated, or its evaluation has been
\* running for so long that it is stuck and may be superseded.
MayAcquire(m) ==
  \/ held[m] = 0
  \/ held[m] # 0 /\ now - evals[held[m]].startedAt >= Timeout

IsCurrent(e) == held[evals[e].mint] = e

\* Variant: a superseded evaluation frees its successor's lease.
ReleasedAlways(e) == [held EXCEPT ![evals[e].mint] = 0]

\* release(lease): only the holder frees the token.
Released(e) == IF IsCurrent(e) THEN [held EXCEPT ![evals[e].mint] = 0] ELSE held

\* The evaluation settles; evaluateToken releases its lease on every path.
Finish(e) ==
  /\ evals' = [evals EXCEPT ![e].pc = "done"]
  /\ held' = Released(e)

------------------------------------------------------------------------------
\* The tick

Tick ==
  /\ now < MaxTime
  /\ now' = now + 1
  /\ UNCHANGED <<held, evals, reserved, monitored, emergency, stopping, trades, daily, crashes>>

\* A dispatched tick of m whose evaluation awaits its first provider call.
StartEvaluation(m) ==
  /\ ~stopping
  /\ ~emergency
  /\ MayAcquire(m)
  /\ Len(evals) < MaxEvals
  /\ evals' = Append(evals, [mint |-> m, startedAt |-> now, pc |-> "gathering", landed |-> FALSE])
  /\ held' = [held EXCEPT ![m] = Len(evals) + 1]
  /\ UNCHANGED <<now, reserved, monitored, emergency, stopping, trades, daily, crashes>>

\* A dispatched tick of m that acquires the lease and ends at once, because
\* the token is outside its age window or the emergency stop is triggered.
SkipEvaluation(m) ==
  /\ ~stopping
  /\ MayAcquire(m)
  /\ held' = [held EXCEPT ![m] = 0]
  /\ UNCHANGED <<now, evals, reserved, monitored, emergency, stopping, trades, daily, crashes>>

------------------------------------------------------------------------------
\* The decision

\* A gate before the risk decision fails, or a provider call throws.
Reject(e) ==
  /\ evals[e].pc = "gathering"
  /\ Finish(e)
  /\ UNCHANGED <<now, reserved, monitored, emergency, stopping, trades, daily, crashes>>

\* Every gate passed: the decision uses the clock, hence the day, that the
\* evaluation read when it started.
DecisionDay(e) == Day(evals[e].startedAt)

\* Variant: entries under way are not counted.
RecordedOnly == Cardinality(OpenTrades)

\* What counts against the limits: recorded positions and entries under way.
Commitments == Cardinality(OpenTrades) + Cardinality(reserved)

RiskAllows(e) ==
  EntryAllowed(emergency, daily[DecisionDay(e)], Commitments,
               History(evals[e].mint), evals[e].startedAt)

\* Variants: one of the three conditions is forgotten.
MayCommitSuperseded(e) == evals[e].mint \notin OpenMints \union reserved
MayCommitDespitePosition(e) == IsCurrent(e) /\ evals[e].mint \notin reserved
MayCommitDespiteBuy(e) == IsCurrent(e) /\ evals[e].mint \notin OpenMints

\* The entry commit that follows a favourable risk decision: the evaluation
\* is not superseded, and the token has neither a position nor a buy under way.
MayCommit(e) ==
  /\ IsCurrent(e)
  /\ evals[e].mint \notin OpenMints
  /\ evals[e].mint \notin reserved

\* The decision persists the circuit breaker whenever it finds it triggered.
LatchOnDecision(e) ==
  LET d == DecisionDay(e)
  IN  daily' = [daily EXCEPT ![d].latched =
                  ShouldLatchCircuitBreaker(daily[d].latched, daily[d].pnl, StartingBalance)]

\* The decision, the commit and the call of executor.buy are one segment.
Commit(e) ==
  /\ evals[e].pc = "gathering"
  /\ RiskAllows(e)
  /\ MayCommit(e)
  /\ LatchOnDecision(e)
  /\ reserved' = reserved \union {evals[e].mint}
  /\ evals' = [evals EXCEPT ![e].pc = "buying"]
  /\ UNCHANGED <<now, held, monitored, emergency, stopping, trades, crashes>>

Refuse(e) ==
  /\ evals[e].pc = "gathering"
  /\ ~(RiskAllows(e) /\ MayCommit(e))
  /\ LatchOnDecision(e)
  /\ Finish(e)
  /\ UNCHANGED <<now, reserved, monitored, emergency, stopping, trades, crashes>>

------------------------------------------------------------------------------
\* The buy

\* The venue executes the buy.  `landed` is cleared when a trade row records
\* it, so it marks tokens the ledger does not know of.
BuyLands(e) ==
  /\ evals[e].pc = "buying"
  /\ ~evals[e].landed
  /\ evals' = [evals EXCEPT ![e].landed = TRUE]
  /\ UNCHANGED <<now, held, reserved, monitored, emergency, stopping, trades, daily, crashes>>

\* The entry row; reentryIndex is read from the ledger after the buy.
EntryRow(m) ==
  [mint |-> m, status |-> "open", pnl |-> 0, exitAt |-> -1,
   reentryIndex |-> History(m).totalTrades]

\* Variant: the finally block is missing.
StillReserved(e) == reserved

Unreserved(e) == reserved \ {evals[e].mint}

RecordEntry(e) ==
  /\ trades' = Append(trades, EntryRow(evals[e].mint))
  /\ evals' = [evals EXCEPT ![e].pc = "done", ![e].landed = FALSE]
  /\ held' = Released(e)
  /\ reserved' = Unreserved(e)

\* buy answers success: the entry is recorded and handed to the monitor.
BuyFilled(e) ==
  /\ evals[e].pc = "buying"
  /\ evals[e].landed
  /\ RecordEntry(e)
  /\ monitored' = monitored \union {Len(trades) + 1}
  /\ UNCHANGED <<now, emergency, stopping, daily, crashes>>

\* buy answers success, the trade row is written, and a later ledger call of
\* the same segment throws: the monitor is never told.
BuyFilledHalfRecorded(e) ==
  /\ evals[e].pc = "buying"
  /\ evals[e].landed
  /\ RecordEntry(e)
  /\ UNCHANGED <<now, monitored, emergency, stopping, daily, crashes>>

\* buy throws or answers that nothing was executed.
BuyFailed(e) ==
  /\ evals[e].pc = "buying"
  /\ ~evals[e].landed
  /\ Finish(e)
  /\ reserved' = Unreserved(e)
  /\ UNCHANGED <<now, monitored, emergency, stopping, trades, daily, crashes>>

\* The buy landed, but it answers that its outcome is unknown or throws, or
\* the ledger throws before the trade row is written: only fill.success leads
\* to a row, and the finally block drops the reservation all the same.
BuyLost(e) ==
  /\ evals[e].pc = "buying"
  /\ evals[e].landed
  /\ Finish(e)
  /\ reserved' = Unreserved(e)
  /\ UNCHANGED <<now, monitored, emergency, stopping, trades, daily, crashes>>

------------------------------------------------------------------------------
\* The rest of the engine, as the entry path sees it

\* The exit transaction of positionMonitor.closePosition: the day's realized
\* result, the trade's exit and the breaker's latch commit together.
ClosePosition(i, pnl) ==
  /\ i \in monitored
  /\ trades' = [trades EXCEPT ![i].status = "closed", ![i].pnl = pnl, ![i].exitAt = now]
  /\ daily' = [daily EXCEPT ![Day(now)] = AfterExit(@, pnl)]
  /\ monitored' = monitored \ {i}
  /\ UNCHANGED <<now, held, evals, reserved, emergency, stopping, crashes>>

\* markReconciliationNeeded, or a sell of unknown outcome: the position is
\* left alone from here on, and the emergency stop is triggered.
GiveUpPosition(i) ==
  /\ i \in monitored
  /\ monitored' = monitored \ {i}
  /\ emergency' = TRUE
  /\ UNCHANGED <<now, held, evals, reserved, stopping, trades, daily, crashes>>

\* Evaluations under way are left to finish; they do not look at `stopping`.
StopOrchestrator ==
  /\ ~stopping
  /\ stopping' = TRUE
  /\ UNCHANGED <<now, held, evals, reserved, monitored, emergency, trades, daily, crashes>>

\* getRecoverableOpenPositions: the rows recovery looks at.
Recoverable == OpenTrades

\* The process dies and starts again: its memory is lost, and recovery hands
\* the monitor the open trades it can rebuild and stops entries for the rest.
Restart ==
  /\ crashes < MaxCrashes
  /\ crashes' = crashes + 1
  /\ held' = [m \in Mints |-> 0]
  /\ evals' = [e \in EvalIds |-> [evals[e] EXCEPT !.pc = "done"]]
  /\ reserved' = {}
  /\ stopping' = FALSE
  /\ monitored' \in SUBSET Recoverable
  /\ emergency' = (monitored' # Recoverable)
  /\ UNCHANGED <<now, trades, daily>>

Ticks(m) == StartEvaluation(m) \/ SkipEvaluation(m)

Next ==
  \/ Tick \/ StopOrchestrator \/ Restart
  \/ \E m \in Mints : Ticks(m)
  \/ \E e \in EvalIds :
       \/ Reject(e) \/ Commit(e) \/ Refuse(e)
       \/ BuyLands(e) \/ BuyFilled(e) \/ BuyFilledHalfRecorded(e) \/ BuyFailed(e) \/ BuyLost(e)
  \/ \E i \in TradeIds : GiveUpPosition(i) \/ \E pnl \in ExitPnls : ClosePosition(i, pnl)

Spec == Init /\ [][Next]_vars

------------------------------------------------------------------------------

Evaluation == [mint : Mints, startedAt : Nat, pc : {"gathering", "buying", "done"}, landed : BOOLEAN]
TradeRow == [mint : Mints, status : {"open", "closed"}, pnl : Int, exitAt : Int, reentryIndex : Nat]

TypeOK ==
  /\ now \in 0..MaxTime
  /\ evals \in Seq(Evaluation)
  /\ \A e \in EvalIds : evals[e].startedAt <= now
  /\ held \in [Mints -> 0..Len(evals)]
  /\ reserved \subseteq Mints
  /\ trades \in Seq(TradeRow)
  /\ monitored \subseteq OpenTrades
  /\ emergency \in BOOLEAN
  /\ stopping \in BOOLEAN
  /\ daily \in [Days -> [pnl : Int, latched : BOOLEAN]]
  /\ crashes \in 0..MaxCrashes

\* A token never has two open positions, nor an open position and another
\* entry under way (loop.ts: "a second concurrent position on one token would
\* double its exposure"), whatever takeovers and late buys do.
OnePositionPerMint ==
  /\ \A i, j \in OpenTrades : trades[i].mint = trades[j].mint => i = j
  /\ reserved \intersect OpenMints = {}

\* The concurrent-position and exposure limits hold of recorded positions and
\* buys under way together, although tokens decide while others' buys are
\* awaited.
ExposureCap ==
  LET engaged == Cardinality(OpenTrades) + Cardinality(reserved)
  IN  engaged <= MaxPositions /\ engaged * PositionSize <= MaxExposure

\* A reservation is dropped exactly when its own buy ends: no evaluation
\* frees another's, and no buy is under way without one.
ReservationsMatchBuys ==
  /\ reserved = {evals[e].mint : e \in Buying}
  /\ \A e, f \in Buying : evals[e].mint = evals[f].mint => e = f

\* A lease belongs to an unfinished evaluation of its token, and an
\* unfinished evaluation that is not yet stuck holds its lease: nothing an
\* older one does when it finishes late takes the token from it, so no two
\* fresh evaluations of a token run at once.
LeasesMatchEvaluations ==
  /\ \A m \in Mints : held[m] # 0 =>
       evals[held[m]].mint = m /\ evals[held[m]].pc # "done"
  /\ \A e \in EvalIds :
       evals[e].pc # "done" /\ now - evals[e].startedAt < Timeout => IsCurrent(e)

\* A superseded evaluation never starts a buy.
NoSupersededEntry ==
  [][\A e \in EvalIds :
       (evals[e].pc = "gathering" /\ evals'[e].pc = "buying") =>
         \A f \in EvalIds : f > e => evals[f].mint # evals[e].mint]_vars

\* Over its whole life a token is traded at most 1 + MaxReentries times, and
\* its trades are numbered 0, 1, 2... although the number is read only after
\* the buy was awaited.
ReentryCap ==
  \A m \in Mints :
    /\ Cardinality(TradesOf(m)) <= MaxReentries + 1
    /\ \A i \in TradesOf(m) :
         trades[i].reentryIndex = Cardinality({j \in TradesOf(m) : j < i})

\* Whichever close, of whichever token, brings a day's realized loss to the
\* limit latches the day's breaker with it, and nothing that follows, a gain,
\* a restart or a decision of an evaluation older than midnight, releases it.
BreakerLatched ==
  [][\A d \in Days :
       (\/ daily[d].latched
        \/ daily'[d] # daily[d] /\ IsDailyLossLimitBreached(daily'[d].pnl, StartingBalance))
       => daily'[d].latched]_vars

\* Where each token stands: its open row, or its reservation, or neither.
Engagements ==
  [m \in Mints |-> IF m \in OpenMints THEN "open"
                   ELSE IF m \in reserved THEN "entering" ELSE "flat"]

\* The pipeline implements the entry book: reservations and rows together
\* behave as one atomic ledger of engagements.
Book == INSTANCE EntryBook WITH book <- Engagements
ImplementsEntryBook == Book!Spec

\* An evaluation that hangs for ever does not disable its token: its lease is
\* taken over or dropped, unless the engine stops.  (A lease so young that the
\* bounded clock cannot reach its time limit is left out.)
StuckTokenRetried ==
  \A m \in Mints : \A e \in 1..MaxEvals :
    (held[m] = e /\ evals[e].startedAt + Timeout <= MaxTime) ~> (held[m] # e \/ stopping)

\* evaluationGuard.ts and loop.ts: a reservation is released after the
\* position is recorded or the buy failed, never before, so that tokens
\* bought and not recorded keep a second entry out.
ReservationCoversBuy ==
  \A e \in EvalIds : evals[e].landed => evals[e].mint \in reserved

==============================================================================
