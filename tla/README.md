# A formal model of the scalp trading engine

TLA+ modules, TLC runs and TLAPS proofs about the engine of this repository
(`src/engine/src`, TypeScript on one event loop). Every definition is translated
from the source; `PROJECT.json` maps each one to its lines.

## 1. Inventory

JavaScript runs one task at a time. The concurrency of the engine is that of
its `await`s: everything between two awaits is atomic, and any other callback may run
at an await. Two stores outlive the process: the SQLite ledger (synchronous
calls, one transaction at most at a time) and the venue. Everything else is
lost when the process dies.

| part | state | operations | how it interacts | what is hard | what makes it correct |
|---|---|---|---|---|---|
| Evaluation scheduler `orchestrator/evaluationScheduler.ts` | running dispatches (total, per token), pending signals, stopped | requestTick, forget, dispatch/settle, promote, stop | called by the watch timers of `loop.ts`; runs `evaluateToken` | overload, coalescing, a token unwatched while it waits, stop | bound, no leaked or idle slot, order, no starvation |
| Evaluation guard and reservations `orchestrator/evaluationGuard.ts` | lease per token, reserved tokens | tryAcquire (with takeover), isCurrent, release; reserve, release | inside `loop.ts` | an evaluation that hangs, is superseded and wakes | one fresh evaluation per token, no superseded buy |
| Evaluation loop `orchestrator/loop.ts` | watched tokens, stopping | evaluateToken, watchToken, stopOrchestrator | reads and writes the ledger, calls risk, executor, monitor | decisions made while buys are awaited | limits hold of rows and buys together |
| Risk `risk/` | emergency stop; otherwise pure | evaluateEntryRisk, canReenter, breaker | reads ledger rows handed to it | midnight, re-entry counting | exposure, positions, re-entries, daily loss |
| Position monitor `orchestrator/positionMonitor.ts` | positions, closing, deferredSince, reconciliationNeeded | addPosition, pollAll, closePosition, escalate, stop | exit engine, executor, ledger, emergency stop | polls overlap; a sell's outcome is unknown; a write fails | one sell, exact accounts, forced exits |
| Recovery `orchestrator/positionRecovery.ts` | none | recoverOpenPositions | ledger, monitor, emergency stop | a crash between a sale and its record | no open row forgotten |
| Ledger `ledger/` | trades, daily_risk_state, evaluations, market data | recordEntry, runExitTransaction, ... | everything | entry writes are not one transaction | exits all or nothing |
| Exit engine `exit/` | none | evaluateExit | monitor | data that is missing | an outage suppresses no forced exit |
| Execution `execution/` | none | buy, sell | price source; the venue | outcomes: executed, not executed, unknown, throw | contract of `execution/types.ts` |
| Provider path `providers/` | admission queues, endpoint slots, rate clock, circuits | run, execute, acquire, release, shutdown | safety data, quotes, discovery | wake-ups, deadlines, abandoned requests | bounds, priority, no starvation |
| Single-flight cache `providers/singleFlightCache.ts` | entries, flights | get, prune | provider clients | failing loads | one flight per key, freshness |
| Discovery `discovery/` | fetch windows, fetches under way, subscriptions | onLogs, fetch, detect, stop | log stream of the RPC provider; reports tokens to `loop.ts` | look-alike transactions; fetches that answer after the stop | only genuine tokens are watched |
| Volume engine `volume/` | windows, identities, watermark, coverage, curve states | notifications, connection events, watchdog | discovery's log tap; `loop.ts` reads snapshots | breaks, duplicates, late events, lost graduations | no partial window reported as whole, no dead curve priced |
| Market decision `orchestrator/`, `scoring/` | none (the price history of `marketHistory.ts`) | source policy, filters, score, edge | reads the native snapshot or DexScreener and Jupiter | sources that change while an evaluation waits | an entry rests on one source at one moment |
| Safety gate `safety/` | none (its caches) | runSafetyGate and its checks | reads through the provider path | facts of different moments, shared loads | no entry on a fact that is missing or old |
| Shadow trading `shadow/` | paper trades, days, timers of price paths, buffered observations | tick, entry, exit, observe, stop | observes the ticks of `loop.ts` | statements that throw, late timers, restarts | each strategy keeps its limits; a path agrees with its trade |
| Process life cycle `index.ts`, `lifecycle/` | the shutdown step | bounded steps in order | stops everything | work that goes on after its stop step, steps that hang | nothing starts a request after the abort; a shutdown ends |
| Learning `src/python/learning` | candidates, stages | decide, apply | its own database | verdicts that age | no promotion without all stages |

Signers, metrics, configuration, migrations, backtest and analytics keep no state
that a protocol depends on; `PROJECT.json` lists each with its reason, and every
behaviour that is hard to test at the line where it bites.

How the parts fit together: discovery reports a token; the loop watches it; its timer
asks the scheduler for a dispatch; the evaluation takes the token's lease, reads the
market (volume engine or provider path), the filters, the safety gate and the score
decide; risk is asked, the token reserved, the executor buys, the ledger records, the
monitor takes the position over until the exit engine ends it. Shadow trading
looks on. Four modules compose others along that path:
`EngineProcess` (discovery, scheduler, shutdown), `EvaluationReads` (caches, safety,
market and `EntryPipeline`), `VolumeStream` (the stream and `VolumeEngine`) and `ShadowTrading`
(paper trades, `RiskEngine` and `PricePath`).

## 2. What is modelled

### EvaluationScheduler
State: `active`, `activeByMint`, `pending` (insertion order of the JavaScript
Map), `stopped`, and from `loop.ts` the `watched` timers. Actions:
`WatchToken` and `TimerTick` (requestTick), `Settle` (the finally handler and
promoteNext), `StopOrchestrator`, `Age`. A dispatched evaluation runs up to its
first await inside the action that dispatches it; there it may unwatch its own
token, which forgets the token's pending signal. The model keeps that nesting
because it is where a promotion and a `forget` meet.

### CreationDetection, EngineProcess
`CreationDetection` is pure: the attribution of log lines to the program whose call
is innermost (`programLogs.ts`), the filter before a fetch, and the evidence in the
fetched transaction (`creationDetector.ts`). A transaction is its calls with their depth,
its signers and the mints it initialises; what it really creates is a field the code
cannot see. `EngineProcess` composes it with the scheduler: `HandleLogs` (filter, rate
limiter, fetch), `FetchReturns` / `FetchFails`, and the shutdown: `BeginShutdown`
(stopOrchestrator and the first source's `stop`), then one action for the end of each
step of `index.ts`. `Unsubscribed` is the one step that may hang and `StepTimesOut` is
its bound (`runBounded`). A source is deaf from the moment its `stop` is called.

### DailyLoss, RiskEngine
Pure operators over integers (an arbitrary unit of SOL): the daily loss rule and
the day's row after an exit; exposure, re-entry and the entry decision.

### EntryPipeline
An evaluation has the three segments its awaits leave: `StartEvaluation` /
`SkipEvaluation` (tick, lease); `Reject`, `Commit`, `Refuse` (the decision: risk,
lease still current, no position, no reservation, then the reservation and the
call of `buy`); `BuyFilled`, `BuyFilledHalfRecorded`, `BuyFailed`, `BuyLost` (what follows
the buy, the finally blocks included). `BuyLands` is the venue. `ClosePosition`
and `GiveUpPosition` are what the monitor does to the same ledger; `Restart`
loses the memory. The gates before the decision are abstracted to `Reject`;
`EvaluationReads` fills them in.

### EntryBook
The abstract specification of the pipeline: each token is flat, being entered or
open; at most `MaxPositions` are not flat; a token is entered from flat only.
`EntryPipeline!Engagements` is the refinement mapping.

### SafetyPolicy, MarketDecision
Pure operators. `SafetyPolicy` is the verdict of the gate over the facts it has read:
authorities and Token-2022 extensions, holder concentration with the verified vault of
a live curve left out, the round trip. Beside it stands what the verdict is for, said of
facts the code cannot see (which accounts are people, what an extension does):
`Harmless`. `MarketDecision` is the choice of the source, the filters, the score and the
expected net edge, in integers rounded down.

### EvaluationReads
`EntryPipeline` with its gates filled in. The chain takes each token through a sequence
of states (`history`, `phase`, `since`); an evaluation reads market, quotes, mint, holders,
curve, liquidity, buy and sell quote one after the other (`gates`), through the
caches (`cached`, `flights`: `SingleFlightCache`). `TicksAgain` is a tick
up to its first await; `MarketAnswers`, `QuotesAnswer`, `FetchFails`, `LiquidityAnswers`
resume it; `Ask` is `get()`; `LoadReturns` / `LoadFails` answer everyone who waits;
`Decide` is what follows the last read and is `Commit`, `Refuse` or `Reject` of the
pipeline. A load reads the token in any state it showed between its beginning and its
end. Resumed code runs before anything else (`Running`).

### PositionMonitor
An entry is `Enter` (row, link and hand-over in one segment) or `EntryHalfRecorded`, when the
link throws after the insert: nobody watches that position, and nothing is stopped.
`halfEntered` is a history the code does not keep, the trades left so since the last
restart; `OpenIsManaged` excepts them and nothing else. A poll has three segments: `PollStart` (the checks), `ReadReturns` /
`ReadThrows` (price and liquidity arrived, decide, start the sell), and the sell's
answer: `SellConfirmed`, `ExitWriteFails`, `SellDeferred`, `SellRefused`, `SellUnknown`,
`SellThrows`. `SellLands` is the venue, so a crash (`Restart`) can come between
a sale and its record. Several polls of one position may be under way
(`Polls`). `Restart` is the whole of `recoverOpenPositions`.

### AdmissionGate
The callers of the RPC provider: evaluations (high) and discovery (low). State: the
ticket counter, the two queues, the callers inside `run`'s `fn`, and per endpoint the
callers whose attempt holds a slot. `Acquire`, `Finish` (the finally block, with the
wake-up inside) and `Shutdown` are the class; `BeginAttempt` / `EndAttempt` stand
for the provider gate, which the slots are all it needs of. That at most
`maxConcurrent` evaluations call at once is the scheduler's bound (`loop.ts:115`); each
awaits its reads one after another.

### ProviderGate
One gate with its endpoints, used by many requests (`execute`, `tryEndpoint`, `acquire`,
`release`, `shutdown`). A request is `queued`, `woken`, `spacing`, `fetching`, `aborting` (past
its time limit, ignoring the abort), in `backoff`, or `settled` (its visit's outcome is
on its way to `execute`). Two states are pending microtasks: `woken` and `settled`.
Others may run before them, timers may not (`Quiet`), and timers fire on time (`Tick`
waits for what is `Due`); a late timer would delay the deadlines by the same
amount. The microtask between `acquire`'s return and the call of `fetch` is merged
with the former. Time is in units of the shortest delay; a duration of the constants is
a whole number of them.

### CurveMath, VolumeEngine, VolumeStream
`CurveMath` is the integer arithmetic of the bonding curve (fees, outputs, price impact,
the state before a trade). `VolumeEngine` is `pumpfunVolumeEngine.ts` as a record and
operators on it: identities, buckets and their caps, watermark, coverage, epochs,
the acceptance of trades and lifecycle events, and the two queries, `Compute` and
`Snapshot`. `VolumeStream` is the world around it. `Execute` is the chain: an event of a
new transaction or a further one of the last. `Deliver`, `DeliverDamaged`, `DeliverAgain` and
`DeliverFailedTx` are notifications, each with every event of its transaction: `Ingest` accepts
the lifecycle events first, then the trades, in the order of the log. `Close`, `Open`,
`StreamError`, `FallSilent` and `SpeakAgain` are the websocket, and `Watchdog` the service's
timer. The properties compare what the engine reports with the record of what executed.

A damaged notification (a log that was cut, or events that cannot be read) tells of any part of
its events. The engine breaks coverage first and accepts that part in the new epoch
(`pumpfunVolumeEngine.ts:317-328`), so an event before the cut proves its mint, or dates its
creation, although a later one is lost. `torn` is a history variable, which the code does not
keep: the lost events of a mint that the same notification told an earlier event of, until the
next break. The three properties say exactly what they spoil (§6) and that they spoil nothing
else: a window misses torn trades, and only of a mint created in the same epoch; a valid curve
is the one after the last event that is not torn; and a graduated curve is priced only while its
completion is under way or torn.

The states a mint trades between are a ladder of curves. `StreamAssumption` says that a
purchase adds SOL to the virtual and to the real reserves alike and takes tokens out of
both, as the state before a trade is computed (`bondingCurveMath.ts:93-95`); TLC evaluates
it on the ladder of the run.

The stream keeps these premises, each stated at its action:

* at most two trades of a mint in a slot, the second not the exact reverse of the first
  (`OrderRecoverable`). Beyond that the reserves do not tell the order of execution,
  and `updateCurve` (449-462) may anchor the curve on an older state;
* a notification is at most `Settle` seconds late, and a creation arrives before
  the trades of its mint (`Deliverable`). `settleSec` states the former;
* when a damaged notification loses something, nothing that executed earlier is
  under way. An earlier event that came after it would be the first of the new coverage and
  prove its mint, as one before the cut does;
* the watchdog has seen a silence before the stream speaks again. With a
  notification between the end of a silence and the next firing of the watchdog,
  the silence goes unnoticed (`pumpfunVolumeService.ts`).

### PricePath, ShadowTrading
`PricePath` is the recorder of one trade's path, as operators on what the recorder
tracks and what the database holds, with the write that throws as a parameter.
`ShadowTrading` is the tick: data quality, then each strategy in turn, which exits
or enters on its own rows (`ProcessExit`, `ProcessEntry`), with a statement that
throws left where it throws; `ObserveTimer`, `StopPricePaths`, `Crash`, `Restart`.

## 3. Runs

| run | question | bounds, and why they are enough |
|---|---|---|
| `scheduler` | Are slots kept, ordered and never idle, is every waiting token served, are only genuine tokens evaluated, and does a shutdown end with nothing starting requests? | 3 genuine tokens and a fake one, 2 slots: the queue fills, a token can be dispatched twice, one can wait behind another; 5 transactions, one for each way to look like a creation; 1 fetch in a window, so the limiter drops some |
| `entry_pipeline` | Do the limits hold of positions and buys together, whatever evaluations do to each other? Is the book implemented? | 3 tokens for 2 positions, 3 evaluations (a superseded one, its successor and another token), clock 0..2 over two days, 1 restart; a single loss reaches the daily limit |
| `entry_pipeline_liveness` | Does each entry rest on facts that are there, recent and of one market? Is every reader of a load answered, and a token freed of an evaluation that hangs? | 1 token, 2 evaluations (a superseded one and its successor share loads), 6 histories: sound then hoarded, sound then graduated, taxed, in a pool, too deep, unproven; clock 0..2 with data valid for 1, so a state can be too old. A load ends in the unit of time in which it began |
| `position_monitor` | Are accounts exact, positions managed, sells single, forced exits certain? | 2 positions, 1 poll of each at a time, every sell outcome, 1 crash |
| `rpc_admission` | Are evaluations first, is nobody starved, and the gate's own queue empty? | 2 tickets, 2 evaluations, 3 discovery requests: both queues fill, and order within a queue matters; 2 endpoints |
| `provider_gate` | Are slots and rate clock exact under every mix of waits, failures and aborts? Does each request end in time, do circuits open on evidence only? | 3 requests, 2 endpoints with 1 slot: two wait behind one, and fall back; budget 2, time limit 2 (so one that waits is truncated), grace 1, clock to 4, one more than the latest end of the first request |
| `native_market` | Is a reported volume the traded one, a valid curve the current one, a graduated curve never priced? | 2 mints (one is created in the run or one trade from its end; the other is in mayhem mode, or quoted in another currency), at most 3 events in all, so a transaction can create and trade, trade twice, or trade and complete, and be cut anywhere; 4 curve states, windows of 1 s, 1 echo, 1 fault, clock to 4: two windows, the retention and the sweep of idle mints all pass; 1 bucket, so the cap is met |
| `shadow` | Does each strategy keep its limits, do its days add up, does a path agree with its trade? | 1 strategy, 2 tokens, 2 trades, 2 offsets, 1 statement that throws or restart, clock over two days; one loss reaches the daily limit. Strategies share nothing but the ticks and a throw, which ends the tick for those that follow |
| `entry_reservation` (violation) | Does a reservation outlive its buy until the buy is recorded? | as `entry_pipeline` |
| `duplicate_sell` (violation) | Can overlapping polls sell twice? | 1 position, 2 polls |
| `unknown_sell` (violation) | Is a sell of unknown outcome ever retried? | 1 position, 1 poll, 1 crash |
| `gate_over_admission` (violation) | Does the concurrency bound hold of the bare gate? | as `provider_gate` |

`MaxTime`, `MaxEvals`, `MaxTxs`, `MaxEchoes`, `MaxTrades`, `MaxFaults`, `Lag` and `MaxCrashes`
bound the counters of the models and appear in guards. Deadlock is not checked:
the process exits, the orchestrator may stop, bounded clocks and evaluations run
out, and a request is made once. `Fallback` is `FALSE` and the native market is
enabled in `entry_pipeline_liveness`, as the configuration has it by default.

What the violation runs show:

* A reservation is released when the awaited buy ends without a recorded
  position. That includes buys which landed: an `unknown` outcome, a `buy` that
  throws, or a ledger write that throws after the fill. Then the token counts
  as free although it was bought, against `loop.ts:728` and
  `evaluationGuard.ts:84`. The dry-run executor answers no `unknown`; a ledger
  write that throws reaches this today.
* The poll timer does not wait for the poll before it, and `closing` and
  `reconciliationNeeded` are read only before the awaits. So two polls of one
  position can both sell, against `positionMonitor.ts:47-49`. `NoDuplicateSell` holds
  while a position is polled one poll at a time (`position_monitor`).
* `unknown` is remembered in memory only, so a restart recovers the trade and sells
  it again, against `execution/types.ts`. This waits for an executor that can
  answer `unknown`.
* The bare gate can exceed `maxConcurrent`: `release` frees the slot and only resolves
  the waiter's promise, so a request that acquires in a microtask before the
  waiter's continuation takes the slot as well. `NeverQueues` shows that RPC callers never
  reach that queue; the quote gate has no admission gate above it.

Comments that are looser than the code, and have no run:

* `priorityAdmissionGate.ts:30-31` has `execute` settle "within its own `maxTotalMs`
  budget". A call that ignores its abort may end one grace period later
  (`HARD_ABANDON_GRACE_MS`), which is what `SettlesInTime` states.
* `pumpFunLogSubscriber.ts:113` and `raydiumLogSubscriber.ts:80` have no provider request
  start "once shutdown has begun". Evaluations that are under way still make some; what
  holds is `QuietAfterAbort`, from `abort_provider_requests` on.
* `index.ts:132-133` has no more ticks after `stop_orchestrator`. Evaluations still under way
  may deliver some, to the price paths and the observation buffer too; `PathFinal` holds
  of those as well.
* `marketSourcePolicy.ts:7-9` keeps sources from being mixed. With
  `dexscreenerFallbackForCurveTokens` on, a price of DexScreener can meet the native
  volume and quotes; `MarketJustified` is checked with the default, off.

## 4. Fairness

* Process: `WF(EvaluationSettles)`. Every call an evaluation awaits has a deadline in the
  provider gate and `evaluateToken` catches what it throws. `WF(StepEnds)` and
  `WF(StepTimesOut)`: synchronous steps end and timers fire. Ticks, discovery, fetches,
  unsubscriptions and the signal are not fair. The process exits without
  waiting for evaluations, so no property says that they end.
* Admission: `WF(EndAttempt)`, as attempts end at their time limit or are abandoned
  (`SettlesInTime`), and `SF(Finish)`, as a request makes a bounded number of attempts, so it
  cannot for ever start another instead of settling. Arrivals and attempts are not
  fair. `ProviderGate` has no liveness property: its deadlines are stated on the clock.
* Evaluations and their reads: weak fairness of the clock, the token's interval timer,
  code that was resumed, and the loads, which the gate ends at their deadline. Nothing
  is assumed of the market, of liquidity and of the buy: an evaluation may hang there for
  ever. A lease too young to reach its timeout within the bounded clock is left out of
  `StuckTokenRetried`.
* Monitor: `WF(PollStart)` (the timer), `WF(DeferralExpires)` (the clock),
  `SF(ReadReturns)` and `SF(SellAnswers)`. Strong, because a throw ends the poll and
  disables them: the price sources and the executor of the repository have deadlines and
  turn failures into null or `not_executed`, so they do not throw for ever. A sell that
  did throw for ever would never escalate.

## 5. Proofs

Checked for every value of the constants under the named assumptions of the modules
(`SchedulerAssumption`, `ProcessAssumption`, `DailyLossAssumption`, `RiskAssumption`,
`PipelineAssumption`, `ReadsAssumption`, `AdmissionAssumption`, `GateAssumption`, ...). An
assumption about the instance that the code does not enforce stands in the theorem
itself. Where one component contains another, both are proved in one module:
`EngineProcessProofs` (scheduler and process), `EvaluationReadsProofs` (pipeline and reads).
`Sums` holds what several need of numbers: the least element of a set, which stands in
for induction, and the sum of a function over a finite set.

* `EngineProcessProofs!SchedulerSafety`: types, `Backpressure`,
  `WorkConserving`, `PendingSignals`. They are inductive together:
  a promotion takes a slot only if the ending dispatch left one free, and the queue
  may keep its other tokens only because all slots are then taken again.
* `EngineProcessProofs!ServedInOrder`: `NoBarging`, from the same invariant: a tick
  finds a free slot only if nobody waits, and what a promotion leaves in line stood
  behind the token it dispatches.
* `EngineProcessProofs!SlotsAccounted`: `SlotAccounting`, which says by pairs of a
  token and a number that `active` is the sum of the tokens' counts; a lemma of
  cardinality says what one more or one less does to the pairs.
* `EngineProcessProofs!ProcessSchedules`: the same of the whole process. Each of its
  steps is a step of the scheduler or leaves it alone; what discovery reports is a token,
  which the theorem assumes of the transactions (`Reportable`).
* `EngineProcessProofs!OnlyCreated`: `DiscoveredGenuine`, supposing `CreationsReal`: in a
  transaction that succeeds, a Pump.fun `create` whose mint signs creates that mint, and the
  LP mint of a Raydium `initialize2` that is initialised there is created there. The chain's
  programs ensure it; what is proved is that nothing else in a transaction (logs
  of other programs, nested calls, foreign instructions) leads to a report. `fetching`
  holds transactions only that succeeded.
* `EngineProcessProofs!QuietAfter`: once the provider layer is shut down, no step
  fetches or dispatches. `ProcessInv` adds that behind each shutdown step the scheduler is
  stopped with nothing pending, and each source whose step has begun is deaf.
* `EvaluationReadsProofs!PipelineSafety`: types, `OnePositionPerMint`,
  `ExposureCap`, `ReservationsMatchBuys`. `ExposureCap` is not inductive alone.
  When a buy is recorded the count stays the same only if its token was reserved
  (`ReservationsMatchBuys`: every buy under way has its reservation, and no two share
  one) and had no open row (`OnePositionPerMint`). The invariant is the
  conjunction; cardinality lemmas on the open rows carry the count.
* `EvaluationReadsProofs!ReentriesCapped`: `ReentryCap`. The invariant adds that while a
  buy is under way its token has room for one more row; no other buy of the token can
  take that room, because the token is reserved.
* `EvaluationReadsProofs!BreakerHolds`: no step releases a day's breaker, and
  the step that brings a day's loss to the limit sets it.
* `EvaluationReadsProofs!Refinement`: the pipeline implements `EntryBook`.
  Each action maps to a step of the book or to a stutter, by the same invariant.
* `EvaluationReadsProofs!LeasesHold` and `SupersededNeverEnter`: `LeasesMatchEvaluations`, and
  no entry by an evaluation that was superseded while it awaited. The invariant adds
  that the holder of a lease is the latest evaluation of its token; so a takeover leaves
  no fresh evaluation behind, and a late one cannot give the lease away.
* `EvaluationReadsProofs!ReadsPipeline`: with its gates filled in, an evaluation still
  is one of the pipeline: each step of `EvaluationReads` is a step of `EntryPipeline` or
  a stutter, so the limits hold for every history of the tokens and all caches.
* `EvaluationReadsProofs!FactsRecent`: each fact an entry was decided on (mint, holders,
  curve, both quotes) is of a moment at most `MaxAge + MaxFlight` ago, and together they
  pass the gate; no hypothesis. The invariant `ReadsInv` follows the data: a cached
  entry is a state the token showed between the beginning and the end of its load,
  a load lasts at most `MaxFlight`, and an evaluation's `oldest` bounds the
  age of everything it was given; `DataFresh` refuses what is older at the decision.
* `EvaluationReadsProofs!EntriesHarmless`: `EntryJustified`, supposing `TokensReal`: an
  extension the policy passes has no effect; the vault of a live curve, when verified, holds what the
  program holds; and of each list, what holds of amounts sorted in descending order when no person
  owns the vault; and `MaxTop10 < 100`, as 100 % is no limit. From that the arithmetic of the
  policy is proved: its share, rounded down, over the right accounts and supply, bounds the
  share of ten people on a live curve and, off it, of nine people beside the pool, even when
  accounts and curve are of different moments. Off the curve the code counts the pool as one of
  ten accounts (`holderPolicy.ts:83-86`) and so says nothing of a tenth person; the
  run's graduated token has a pool and ten of them.
* `EvaluationReadsProofs!MarketRecent`: `MarketJustified`, supposing `MarketsReal` (a token
  that has left the curve, or was never on one, has no valid native state, and its volume
  is unknown: `resolveCurve`, `compute`) and `~Fallback`, the default (`schema.ts`). The invariant
  `PricedInv` says that the values an evaluation carries are those of one moment of the
  native market, that they have passed the filters, and that no step after replaces a part
  of them. The net edge, with four roundings, leaves a profit by `EdgeProfit`.
* `AdmissionGateProofs!AdmissionSafety`: types, `TicketAccounting`, `NoIdleTicket`,
  `NeverQueues`. The invariant adds that every caller stands in the line at most once
  and that attempts are made by admitted callers only. So the attempts at an
  endpoint, without a caller that has none, are fewer than the tickets, and the
  tickets are as many as the endpoint's slots.
* `AdmissionGateProofs!EvaluationsFirst`: an action property of each step: only
  `Acquire` with a free ticket and `Promote` admit a discovery request, and then no
  evaluation waits (`NoIdleTicket` for the former).
* `ProviderGateProofs!GateSafety`: `SlotAccounting`, `RateClockTruthful`, `SettlesInTime`, for any
  number of requests and endpoints. The invariant `GateInv` says of each request that
  its record is sound (its deadlines agree with where it stands), that slots are
  exactly the requests that hold them, and that each place on an endpoint's rate clock
  that lies ahead belongs to a request that sleeps until then, no two to the same. The
  last, by counting, bounds how far the clock is ahead of time.
* `ProviderGateProofs!GateTypes`: types of queues, clocks, circuits and requests.
* `ProviderGateProofs!SlotsNeverIdle`: `NoIdleSlot`. The invariant `LineInv` adds that a
  queue holds waiting requests of its endpoint only, each once; so a release always
  calls somebody, and the slots in use and those promised never become fewer while
  someone waits.
* `ProviderGateProofs!EvidenceOnly`: an endpoint's count of failures rises only when a
  visit concludes that had an attempt fail there.
* `PositionMonitorProofs!OneSale` and `MonitorTypes`, under `OnePoll` (no two polls of a
  position overlap; the violation run shows that the code does not enforce it): a trade is
  sold at most once more than there were restarts, and not while it waits for a human.
  The invariant `Sound` says of each trade that a poll of it found it tracked and
  not put aside, and which of a landing sale, a record or the flag accounts for the
  sales so far; a restart forgets at most one.
* `PositionMonitorProofs!NothingForgotten`, with overlapping polls too: an open trade is
  monitored, or put aside with new entries stopped, or its entry threw half-way since
  the last restart; recovery leaves none of the last kind.
* `PositionMonitorProofs!AccountsHold`: `Accounts`, under `OnePoll` and a positive starting
  balance, which `schema.ts:89` demands (the limit is a share of it, so with none of it the
  limit counts as reached before an exit has latched the breaker). The sum over the closed
  rows is reduced to a number that grows by a result when its row is closed (`Sums!SumGrows`);
  its lemmas show that this number satisfies the library's recursion, by the smallest set
  on which it would not. `Booked` needs that an exit under way is of an open row, which
  is `Sound` of `OneSale`: a second record of one sale would book its result twice.
* `VolumeStreamProofs!GraduatedNeverPriced`: `NeverPricesGraduated`, for every chain and stream
  and all limits with `Idle >= Retention` (7200 s and 180 s by default,
  `pumpfunVolumeEngine.ts:216` and 224), as long as the tables have room (`Roomy`; the run never
  leaves it). The invariant `NewsKept` says of each curve that has ended: the news is under
  way or torn; or it was told, and forgotten at most when the end was further back
  than the retention; or it was lost, the mint is unproven, and nothing under way could
  prove it. To keep it, a notification that comes again must change nothing, so `Heeds`
  follows every identity the engine has let go: it is too old to be accepted. Both caps are needed
  in `Roomy`: with `MaxMintStates = 1` in `VolumeStream.cfg` TLC finds a late trade that makes
  a graduated mint active again, and with `MaxSeen = 1`, `MaxEvents = 4` and the world
  `MCWorld(2, "mayhem", 3, 1)` a repeated trade that proves a mint whose end was lost.
* `VolumeStreamProofs!WindowIsExact` and `CurveIsCurrent`: `WindowExact` and `CurveCurrent`, under
  the same hypotheses, with the ladder and the worlds of `StreamAssumption` (§2). All three follow
  from `BooksAreTrue`, which keeps `VolumeInv`. Its parts: `Executes`, that time
  does not run back, a creation is the first event of its mint, and the trades of one slot
  follow each other; and of the engine (`Hold`) `Heeds` and `NewsKept`, `Orderly`, that nothing
  under way is older than the settling time allows and a creation is told before the trades of its
  mint, and `Keeps`, that the engine's books are those of the chain. For the buckets (`Book`): in
  every second that is covered and within the
  retention, an active mint has a bucket exactly if it traded, holding those trades once each, and
  a mint is forgotten only when its trades are old. For the curves (`Followed`): each is the one
  after the latest trade told; a later trade was lost only if the mint is
  unproven and nothing earlier that is under way could prove it. What is torn is in neither, and is
  older than the coverage that follows it (`Heeds`): so it can be missed only where a creation, not
  coverage, makes a window count as whole. Neither query implies this, since
  a bucket outside every window now is inside one after the clock or coverage has moved. The
  engine handles an event in steps (listing, advance of the watermark, touch of the mint,
  count) and there is a lemma for each that it keeps the books; the breaks of coverage and the
  passing of time have theirs. A notification tells its events in an order of its own, creations
  before trades: `HearsOne` keeps `Hold` over one event, `TellsAll` over all of them, by
  the first event after which it would fail; a break on the way ends what is torn.
  A window's sum over buckets is regrouped into one over trades by
  `Regroups` and `Sums!SumJoins`. TLC found `VolumeInv` and `Roomy` true on the instance of
  `VolumeStream.cfg` before they were proved.
* `ShadowTradingProofs!LimitsHold`: `ShadowLimits`, for any number of strategies on one tick.
  The invariant `ShadowInv` holds of the ledger as each strategy leaves it to the next, and the
  first strategy to break it would have been handed a ledger that kept it (`TickStep`).
* `ShadowTradingProofs!ConclusionsStay` and `PathsTellTheTrade`: `PathFinal` and
  `PathMatchesTrade`. The invariant adds that a path that is final is not tracked, that one that
  is not tracked has no timer, and that the path of an open trade holds observations only;
  so what the exit settles is told apart by the time the trade was held, whichever write
  throws, and neither a second exit nor a shutdown can conclude it again.
* `ShadowTradingProofs!DaysAddUp`: `DailyAccounts`, with a positive starting balance as above.
  The invariant `DaysOk` adds that only a closed trade was ever torn: the exit that
  tears is the one that closes, so what it leaves out is never blamed on another trade.

Only model-checked:

* what needs fairness: `PendingServed`, `ShutdownEnds`, `StuckTokenRetried`, `ReadsAnswered`,
  `ForcedExit`, `WaitersServed` (the prover does not handle fairness and ENABLED).

## 6. What is not modelled

Fills, scores and percentages are integers rounded down where a decision depends on
them, and arbitrary verdicts where it does not; the error of floating point is left to
the tests. The emergency stop's `reset` and the direct operator trigger are not called
by the engine's own code. The rows of evaluations and market data are written and not
read by any decision. Further:

* the price velocity of `marketHistory.ts` is an input of a token's state, and the await
  of the sell quote on the DexScreener route is merged with that of the buy quote;
* the caches' cap of 512 entries and their prune, which only forget; a loader that throws
  before its first await, which no caller has;
* the recorders of trade events and of shadow observations, and the replay of
  either, which no decision of the engine reads;
* subscribing, resubscribing and the log tap of discovery; bytes, addresses and
  signatures everywhere;
* backtest, learning and analytics: sequential tools beside the engine.

Other parts are listed in `PROJECT.json` with the reason.

Noticed while modelling, outside what the runs state: an entry that throws after the insert
of its row leaves a position nobody watches, with no emergency stop, until a restart
(`loop.ts:700`); the deferral of a sell is not cleared when its exit condition subsides
(`positionMonitor.ts:313`), so that a later sell may escalate at its first refusal; off the
curve the pool takes one of the ten places of the concentration check; a notification that is
cut counts against the claim that coverage is explicit (`pumpfunVolumeEngine.ts:41-48`): after
`create`, cut, `buy` the window is reported as complete without the purchase (317, 391-402),
after two trades with a cut between the older curve is valid, and after a trade, cut,
`complete` the graduated curve is valid, each until coverage breaks again or the curve's
age ends it; creation detection does not look at
the error of the transaction it fetched, only at that of the log; a mint whose state was
evicted after its graduation is active again when a late trade of it arrives; with a
volume provider configured, a token on any other route has no volume and is never
entered; the age of the price that `marketHistory.ts` compares with is unbounded; holders,
supply and vault may be read at moments up to the cache's time apart (`EntryJustified`
says so: each fact has a moment of its own).

## 7. Plan

Done, in this order: the money path (`DailyLoss`, `RiskEngine`, `EntryPipeline` over
`EntryBook`), the scheduler, the monitor, the two gates, the native market
(`VolumeEngine` under `VolumeStream`), the process around the scheduler
(`EngineProcess`), shadow trading, and the reads of an evaluation (`EvaluationReads` over
`EntryPipeline`); the proofs of section 5.

Left: the gate as an implementation of the slots the admission gate assumes;
the promotion of learned strategies.
