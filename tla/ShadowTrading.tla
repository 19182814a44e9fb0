----------------------------- MODULE ShadowTrading -----------------------------
(***************************************************************************)
(* Shadow trading: every strategy trades on paper on the ticks that the    *)
(* evaluation loop has anyway                                              *)
(*   shadow/shadowRunner.ts                 what a tick does               *)
(*   shadow/dataQualityMonitor.ts           which ticks count              *)
(*   shadow/shadowLedger.ts                 trades and days of a strategy  *)
(*   shadow/pricePath.ts                    the path of a trade: PricePath *)
(* A tick is processed in one synchronous call, whose ledger statements    *)
(* are not one transaction: a throw, or the end of the process, may fall   *)
(* between two of them.                                                    *)
(***************************************************************************)
EXTENDS PricePath, RiskEngine, SequencesExt

CONSTANTS
  Strategies,   \* the strategies, in their order: a sequence
  Mints,
  Gains,        \* what a closed trade may have realised
  DayLength,    \* milliseconds of a UTC day
  Lag,          \* bound: age of a tick when it is processed
  MaxTime,      \* bound
  MaxTrades,    \* bound: trades in all
  MaxFaults     \* bound: statements that throw, restarts

ASSUME ShadowAssumption ==
  /\ Strategies \in Seq(ToSet(Strategies))
  /\ DayLength \in Nat \ {0}
  /\ Gains \subseteq Int
  /\ {Lag, MaxTime, MaxTrades, MaxFaults} \subseteq Nat

VARIABLES
  now,
  phase,     \* "up", "stopping" once pathRecorder.stop() ran, or "down"
  bootAt,    \* when the process started
  lastTick,  \* lastTickByMint: the tick each mint is compared with
  trades,    \* shadow_trades, in order of entry
  daily,     \* shadow_daily_risk_state, of each strategy and day
  paths,     \* the path of each trade
  torn,      \* trades whose exit was recorded and no more
  faults

vars == <<now, phase, bootAt, lastTick, trades, daily, paths, torn, faults>>

------------------------------------------------------------------------------
\* ShadowLedger.

Names == ToSet(Strategies)
DayOf(t) == t \div DayLength
Days == 0..DayOf(MaxTime)

TradesOf(book, s, m) == {i \in DOMAIN book : book[i].strategy = s /\ book[i].mint = m}

\* Variant: open positions are those this process has entered.
OpenSinceBoot(book, s) == {i \in DOMAIN book : book[i].strategy = s /\ book[i].open /\ book[i].entryAt >= bootAt}

OpenOf(book, s) == {i \in DOMAIN book : book[i].strategy = s /\ book[i].open}

\* getTokenTradeHistory().
TokenHistory(book, s, m) ==
  LET closed == {i \in TradesOf(book, s, m) : ~book[i].open}
      Recent == SetToSortSeq(closed, LAMBDA i, j : book[i].exitAt > book[j].exitAt)
      wins == {k \in DOMAIN Recent : book[Recent[k]].pnl >= 0}
  IN  [totalTrades |-> Cardinality(TradesOf(book, s, m)),
       consecutiveLosses |-> IF wins = {} THEN Cardinality(closed) ELSE Min(wins) - 1,
       lastExit |-> IF closed = {} THEN -1 ELSE book[Recent[1]].exitAt]

FreshDay == [pnl |-> 0, latched |-> FALSE]

------------------------------------------------------------------------------
\* checkTickDataQuality(): a tick drives a decision, and is what the next one is
\* compared with, only if it is newer than the last such tick of its mint and
\* its numbers are sound (not malformed, no impossible jump of the price).  The
\* last of several jumps in a row is blocked too, but becomes the baseline.
NoTick == -1

Late(tick) == lastTick[tick.mint] # NoTick /\ tick.at <= lastTick[tick.mint]
Blocked(tick) == tick.quality # "sound" \/ Late(tick)

Baseline(tick) ==
  IF tick.quality = "unsound" \/ Late(tick) THEN lastTick ELSE [lastTick EXCEPT ![tick.mint] = tick.at]

------------------------------------------------------------------------------
\* What a tick does for one strategy.  `w` holds the ledger and the paths so
\* far; `tick.wish` are the strategies that would act on it:
\* exit with a known sell impact, or enter after every filter, score and edge.
\* `tick.fault` is the statement that throws.

\* Variant: the exit latches the breaker without the day's total.
PostExitLatchOnly(w, s, tick) ==
  [w EXCEPT !.daily[s][DayOf(tick.at)].latched =
     AfterExit(w.daily[s][DayOf(tick.at)], tick.gain).latched]

\* applyRealizedPnl() and latchCircuitBreaker(), two statements.
PostExit(w, s, tick) ==
  LET after == AfterExit(w.daily[s][DayOf(tick.at)], tick.gain)
  IN  CASE tick.fault = "pnl" -> w
        [] tick.fault = "latch" -> [w EXCEPT !.daily[s][DayOf(tick.at)].pnl = after.pnl]
        [] OTHER -> [w EXCEPT !.daily[s][DayOf(tick.at)] = after]

ProcessExit(w, s, i, tick) ==
  IF s \notin tick.wish THEN w
  ELSE LET recorded == [w EXCEPT !.trades[i] = [@ EXCEPT !.open = FALSE, !.pnl = tick.gain, !.exitAt = tick.at],
                                 !.paths[i] = RecordExit(@, tick.at - w.trades[i].entryAt, tick.fault)]
           tears == tick.fault \in {"pnl", "latch"}
       IN  [PostExit(recorded, s, tick) EXCEPT
              !.torn = IF tears THEN @ \union {<<i, tick.fault>>} ELSE @,
              !.halted = tears]

ProcessEntry(w, s, tick) ==
  LET day == w.daily[s][DayOf(tick.at)]
      looked == [w EXCEPT !.daily[s][DayOf(tick.at)].latched =
                   ShouldLatchCircuitBreaker(day.latched, day.pnl, StartingBalance)]
      history == TokenHistory(w.trades, s, tick.mint)
  IN  IF s \notin tick.wish THEN w
      ELSE IF ~EntryAllowed(FALSE, day, Cardinality(OpenOf(w.trades, s)), history, tick.at)
      THEN looked
      ELSE IF Len(w.trades) = MaxTrades THEN w
      ELSE [looked EXCEPT
              !.trades = Append(@, [strategy |-> s, mint |-> tick.mint, entryAt |-> tick.at, open |-> TRUE,
                                    exitAt |-> -1, pnl |-> 0]),
              !.paths[Len(w.trades) + 1] = StartTrade(@, tick.fault)]

ProcessStrategyTick(w, s, tick) ==
  LET open == OpenOf(w.trades, s) \intersect TradesOf(w.trades, s, tick.mint)
  IN  IF w.halted THEN w
      ELSE IF open = {} THEN ProcessEntry(w, s, tick)
      ELSE ProcessExit(w, s, Min(open), tick)

\* Every strategy in turn, on what those before it left.
ProcessTick(before, tick) ==
  LET After[k \in 0..Len(Strategies)] ==
        IF k = 0 THEN before ELSE ProcessStrategyTick(After[k - 1], Strategies[k], tick)
  IN  After[Len(Strategies)]

------------------------------------------------------------------------------
\* The process.

Running == phase # "down"
Stumble(fault) ==
  /\ fault # "none" => faults < MaxFaults
  /\ faults' = IF fault = "none" THEN faults ELSE faults + 1

\* A throw leaves the strategies that follow out.
OnMarketTick(tick) ==
  LET before == [trades |-> trades, daily |-> daily, paths |-> paths, torn |-> torn, halted |-> FALSE]
      after == IF Blocked(tick) THEN before ELSE ProcessTick(before, tick)
  IN  /\ Running
      /\ tick.at >= bootAt
      /\ Stumble(tick.fault)
      /\ lastTick' = Baseline(tick)
      /\ trades' = after.trades
      /\ daily' = after.daily
      /\ paths' = after.paths
      /\ torn' = after.torn
      /\ UNCHANGED <<now, phase, bootAt>>

\* A choice that no strategy looks at is not varied.
Tick ==
  \E mint \in Mints, at \in {t \in (now - Lag)..now : t >= 0}, quality \in {"sound", "unsound", "rebased"} :
    \E wish \in IF Blocked([mint |-> mint, at |-> at, quality |-> quality]) THEN {{}} ELSE SUBSET Names :
      LET exits == \E s \in wish : OpenOf(trades, s) \intersect TradesOf(trades, s, mint) # {}
      IN  \E gain \in IF exits THEN Gains ELSE {0},
             fault \in {"none"} \union (IF wish # {} THEN {"metrics"} ELSE {})
                              \union (IF exits THEN {"point", "pnl", "latch"} ELSE {}) :
            OnMarketTick([mint |-> mint, at |-> at, quality |-> quality, wish |-> wish, gain |-> gain, fault |-> fault])

\* The timer of an offset, due at its time or late.
ObserveTimer(i, o, status, fault) ==
  /\ Running
  /\ o \in paths[i].mem.timers
  /\ now >= trades[i].entryAt + o
  /\ Stumble(fault)
  /\ paths' = [paths EXCEPT ![i] = Observe(@, o, status, fault)]
  /\ UNCHANGED <<now, phase, bootAt, lastTick, trades, daily, torn>>

\* pathRecorder.stop().  Evaluations that are still running go on feeding ticks.
StopPricePaths(fault) ==
  /\ phase = "up"
  /\ Stumble(fault)
  /\ phase' = "stopping"
  /\ paths' = [i \in DOMAIN paths |-> StopPath(paths[i], fault)]
  /\ UNCHANGED <<now, bootAt, lastTick, trades, daily, torn>>

\* The memory of the process is gone; the ledger stays.
Forgotten(p) == [p EXCEPT !.mem = NoPath.mem]

Down ==
  /\ phase' = "down"
  /\ lastTick' = [m \in Mints |-> NoTick]
  /\ paths' = [i \in DOMAIN paths |-> Forgotten(paths[i])]
  /\ UNCHANGED <<now, bootAt, trades, daily, torn>>

\* The process ends, after its shutdown or not.
Crash ==
  /\ Running
  /\ Down
  /\ UNCHANGED faults

Restart ==
  /\ phase = "down"
  /\ Stumble("restart")
  /\ phase' = "up"
  /\ bootAt' = now
  /\ UNCHANGED <<now, lastTick, trades, daily, paths, torn>>

TimePasses ==
  /\ now < MaxTime
  /\ now' = now + 1
  /\ UNCHANGED <<phase, bootAt, lastTick, trades, daily, paths, torn, faults>>

Init ==
  /\ now = 0
  /\ phase = "up"
  /\ bootAt = 0
  /\ lastTick = [m \in Mints |-> NoTick]
  /\ trades = <<>>
  /\ daily = [s \in Names |-> [d \in Days |-> FreshDay]]
  /\ paths = [i \in 1..MaxTrades |-> NoPath]
  /\ torn = {}
  /\ faults = 0

Next ==
  \/ Tick
  \/ \E i \in DOMAIN trades, status \in {"observed", "missing"}, fault \in {"none", "point", "metrics"} :
       \E o \in paths[i].mem.timers : ObserveTimer(i, o, status, fault)
  \/ \E fault \in {"none", "point", "metrics"} : StopPricePaths(fault)
  \/ Crash
  \/ Restart
  \/ TimePasses

Spec == Init /\ [][Next]_vars

------------------------------------------------------------------------------
\* Every strategy keeps to the hard limits on its own, across restarts: one
\* open trade of a mint, the concurrent positions, the re-entries of a mint
\* (processStrategyTick, evaluateEntryRisk on the strategy's own rows).
ShadowLimits ==
  \A s \in Names :
    LET own == {i \in DOMAIN trades : trades[i].strategy = s}
        open == {i \in own : trades[i].open}
    IN  /\ Cardinality(open) <= MaxPositions
        /\ \A m \in Mints :
             /\ Cardinality({i \in open : trades[i].mint = m}) <= 1
             /\ Cardinality({i \in own : trades[i].mint = m}) <= MaxReentries + 1

\* The day of a strategy is the sum of its own trades closed that day, and a
\* loss beyond the limit has latched its breaker, except for the trades whose
\* exit was torn between its statements (processExit).
DailyAccounts ==
  \A s \in Names, d \in Days :
    LET closed == {i \in DOMAIN trades : trades[i].strategy = s /\ ~trades[i].open /\ DayOf(trades[i].exitAt) = d}
        posted == {i \in closed : <<i, "pnl">> \notin torn}
    IN  /\ daily[s][d].pnl = SumFunctionOnSet([i \in DOMAIN trades |-> trades[i].pnl], posted)
        /\ IsDailyLossLimitBreached(daily[s][d].pnl, StartingBalance) =>
             daily[s][d].latched \/ \E i \in closed : <<i, "latch">> \in torn

\* A path that was finalised is never written again: no late timer, second
\* exit, shutdown or restart changes what was concluded (closed, cancelTimers).
PathFinal ==
  [][\A i \in DOMAIN paths : paths[i].disk.final => paths'[i].disk = paths[i].disk]_vars

\* A path that ended with an exit is that of a closed trade, and says of every
\* offset whether the exit preempted it or came first; and no timer of a closed
\* trade is left (recordExit).
PathMatchesTrade ==
  \A i \in DOMAIN trades :
    LET disk == paths[i].disk
        hold == trades[i].exitAt - trades[i].entryAt
    IN  /\ disk.status \in {"exited_early", "exited_after_path"} =>
             /\ ~trades[i].open
             /\ \A o \in Offsets :
                  /\ disk.points[o] # "interrupted"
                  /\ disk.points[o] = "after_exit" => o > hold
                  /\ disk.points[o] = "preempted" => o <= hold
        /\ ~trades[i].open => paths[i].mem.timers = {}

==============================================================================
