--------------------------- MODULE PositionMonitor ---------------------------
(***************************************************************************)
(* How an open position is watched, sold, recorded and recovered:          *)
(*   orchestrator/positionMonitor.ts   PositionMonitor                     *)
(*   orchestrator/positionRecovery.ts  recoverOpenPositions                *)
(*   ledger/tradeLedger.ts             runExitTransaction, recordExit, ... *)
(*   exit/exitEngine.ts                evaluateExit                        *)
(* An interval timer starts a poll of every tracked position once a        *)
(* second, whether or not the position's earlier polls have ended.  A poll *)
(* awaits the market, decides, and may await a sell, so it has three       *)
(* atomic segments.  A sell lands at the venue in a step of its own: the   *)
(* process can die between the sale and its record.                        *)
(***************************************************************************)
EXTENDS DailyLoss, FiniteSets, Functions

CONSTANTS
  Trades,     \* trade ids
  Polls,      \* the polls of one position that can overlap
  ExitPnls,   \* the realized results a sell can have
  MaxCrashes  \* bound on the restarts

ASSUME MonitorAssumption ==
  /\ IsFiniteSet(Trades)
  /\ IsFiniteSet(Polls)
  /\ ExitPnls \subseteq Int
  /\ MaxCrashes \in Nat

VARIABLES
  row,          \* ledger: the row of each trade
  daily,        \* ledger: the row of the trading day
  positions,    \* the trades being monitored
  closing,      \* trades with a sell in flight, as the monitor believes
  deferred,     \* deferredSince: no deferral, within the bound, or past it
  recon,        \* reconciliationNeeded
  emergency,    \* emergencyStop.triggered
  running,      \* the poll timer is set
  polls,        \* where each poll of each position stands
  overdue,      \* trades held past the maximum hold time
  sold,         \* sells executed at the venue, per trade
  unconfirmed,  \* trades with a sell that answered 'unknown'
  crashes,      \* restarts so far
  halfEntered   \* a history the code does not keep: the trades whose entry
                \* threw after their row was written, since the last restart

ledger == <<row, daily>>
world == <<overdue, sold, unconfirmed, crashes, halfEntered>>
vars == <<row, daily, positions, closing, deferred, recon, emergency, running,
          polls, overdue, sold, unconfirmed, crashes, halfEntered>>

OpenRows == {t \in Trades : row[t].status = "open"}
ClosedRows == {t \in Trades : row[t].status = "closed"}

AllIdle == [t \in Trades |-> [p \in Polls |-> "idle"]]

Init ==
  /\ row = [t \in Trades |-> [status |-> "none", complete |-> TRUE, flagged |-> FALSE, pnl |-> 0]]
  /\ daily = [pnl |-> 0, latched |-> FALSE]
  /\ positions = {}
  /\ closing = {}
  /\ deferred = [t \in Trades |-> "no"]
  /\ recon = {}
  /\ emergency = FALSE
  /\ running = TRUE
  /\ polls = AllIdle
  /\ overdue = {}
  /\ sold = [t \in Trades |-> 0]
  /\ unconfirmed = {}
  /\ crashes = 0
  /\ halfEntered = {}

At(t, p, stage) == polls' = [polls EXCEPT ![t][p] = stage]

------------------------------------------------------------------------------
\* Entry and time

\* The insert of the trade's row; `complete` says whether it holds what a sell
\* needs (the token amount may be unknown).
RecordEntry(t, complete) ==
  /\ row[t].status = "none"
  /\ row' = [row EXCEPT ![t].status = "open", ![t].complete = complete]

AddPosition(t) == positions' = positions \union {t}

\* The entry path records a trade, links its evaluation to it and hands it
\* over, all in one segment.
Enter(t, complete) ==
  /\ RecordEntry(t, complete)
  /\ AddPosition(t)
  /\ UNCHANGED <<daily, closing, deferred, recon, emergency, running, polls, world>>

\* The link throws: the row stays, and the monitor is never told of it.
EntryHalfRecorded(t, complete) ==
  /\ RecordEntry(t, complete)
  /\ halfEntered' = halfEntered \union {t}
  /\ UNCHANGED <<daily, positions, closing, deferred, recon, emergency, running, polls,
                 overdue, sold, unconfirmed, crashes>>

MaxHoldPasses(t) ==
  /\ row[t].status = "open"
  /\ t \notin overdue
  /\ overdue' = overdue \union {t}
  /\ UNCHANGED <<ledger, positions, closing, deferred, recon, emergency, running, polls,
                 sold, unconfirmed, crashes, halfEntered>>

\* MAX_SELL_DEFERRAL_MS passes since the first deferral.
DeferralExpires(t) ==
  /\ deferred[t] = "fresh"
  /\ deferred' = [deferred EXCEPT ![t] = "expired"]
  /\ UNCHANGED <<ledger, positions, closing, recon, emergency, running, polls, world>>

------------------------------------------------------------------------------
\* A poll

\* Variant: a trade flagged for reconciliation is polled like any other.
MayPollFlagged(t) == running /\ t \in positions /\ t \notin closing

\* pollAll and the checks pollOne makes, once, before its first await.
MayPoll(t) ==
  /\ running
  /\ t \in positions
  /\ t \notin closing
  /\ t \notin recon

\* The poll reads the clock, then awaits price and liquidity.
PollStart(t, p) ==
  /\ polls[t][p] = "idle"
  /\ MayPoll(t)
  /\ At(t, p, IF t \in overdue THEN "reading late" ELSE "reading")
  /\ UNCHANGED <<ledger, positions, closing, deferred, recon, emergency, running, world>>

Reading(t, p) == polls[t][p] \in {"reading", "reading late"}

\* What a market reading says: unavailable, or whether a condition that
\* depends on it demands an exit.
Readings == {"unavailable", "hold", "exit"}

\* Variant: no exit is evaluated while the price is unavailable.
ExitDuePriced(late, price, liquidity) ==
  price # "unavailable" /\ (emergency \/ late \/ price = "exit" \/ liquidity = "exit")

\* evaluateExit: the emergency stop and the maximum hold need no reading.
ExitDue(late, price, liquidity) ==
  \/ emergency
  \/ late
  \/ price = "exit"
  \/ liquidity = "exit"

\* The readings arrive; the poll decides and, in the same segment, starts the
\* sell.  It checks neither `closing` nor `recon` again.
ReadReturns(t, p) ==
  /\ Reading(t, p)
  /\ \E price, liquidity \in Readings :
       IF ExitDue(polls[t][p] = "reading late", price, liquidity)
       THEN At(t, p, "selling") /\ closing' = closing \union {t}
       ELSE At(t, p, "idle") /\ closing' = closing
  /\ UNCHANGED <<ledger, positions, deferred, recon, emergency, running, world>>

\* A market source throws: the tick is logged and ends.
ReadThrows(t, p) ==
  /\ Reading(t, p)
  /\ At(t, p, "idle")
  /\ UNCHANGED <<ledger, positions, closing, deferred, recon, emergency, running, world>>

------------------------------------------------------------------------------
\* The sell

\* The venue executes it; a position of unknown token amount cannot be sold.
SellLands(t, p) ==
  /\ polls[t][p] = "selling"
  /\ row[t].complete
  /\ At(t, p, "landed")
  /\ sold' = [sold EXCEPT ![t] = @ + 1]
  /\ UNCHANGED <<ledger, positions, closing, deferred, recon, emergency, running,
                 overdue, unconfirmed, crashes, halfEntered>>

\* executor.sell settles: the poll ends, whatever comes of it, in this segment.
SellSettles(t, p) ==
  /\ At(t, p, "idle")
  /\ closing' = closing \ {t}

\* The trade is not sold again in this process, and a human is called.
Escalate(t) ==
  /\ recon' = recon \union {t}
  /\ emergency' = TRUE

\* 'executed': the exit transaction commits, and only then the position is
\* dropped.
SellConfirmed(t, p, pnl) ==
  /\ polls[t][p] = "landed"
  /\ SellSettles(t, p)
  /\ row' = [row EXCEPT ![t].status = "closed", ![t].pnl = pnl]
  /\ daily' = AfterExit(daily, pnl)
  /\ deferred' = [deferred EXCEPT ![t] = "no"]
  /\ positions' = positions \ {t}
  /\ UNCHANGED <<recon, emergency, running, world>>

\* Variant: the day's total is written outside the transaction.
DailyKeptOnFailure(pnl) == AfterExit(daily, pnl)

\* A failed exit transaction leaves the day's row as it was.
DailyOnFailure(pnl) == daily

\* 'executed', but the exit transaction fails: the trade is flagged in the
\* ledger as well (`marked`), unless that write fails too.
ExitWriteFails(t, p, pnl, marked) ==
  /\ polls[t][p] = "landed"
  /\ SellSettles(t, p)
  /\ row' = IF marked THEN [row EXCEPT ![t].flagged = TRUE] ELSE row
  /\ daily' = DailyOnFailure(pnl)
  /\ Escalate(t)
  /\ UNCHANGED <<positions, deferred, running, world>>

\* 'not_executed' and retryable, within the deferral bound: the sell is
\* simply tried again by a later poll.
SellDeferred(t, p) ==
  /\ polls[t][p] = "selling"
  /\ deferred[t] # "expired"
  /\ SellSettles(t, p)
  /\ deferred' = [deferred EXCEPT ![t] = "fresh"]
  /\ UNCHANGED <<ledger, positions, recon, emergency, running, world>>

\* 'not_executed' and not retryable, or deferred past the bound.
SellRefused(t, p) ==
  /\ polls[t][p] = "selling"
  /\ SellSettles(t, p)
  /\ deferred' = [deferred EXCEPT ![t] = "no"]
  /\ Escalate(t)
  /\ UNCHANGED <<ledger, positions, running, world>>

\* 'unknown': the sell may or may not have landed.  The escalation is kept in
\* memory only.
SellUnknown(t, p) ==
  /\ polls[t][p] \in {"selling", "landed"}
  /\ SellSettles(t, p)
  /\ deferred' = [deferred EXCEPT ![t] = "no"]
  /\ Escalate(t)
  /\ unconfirmed' = unconfirmed \union {t}
  /\ UNCHANGED <<ledger, positions, running, overdue, sold, crashes, halfEntered>>

\* sell throws; an executor that has sent anything answers 'unknown' instead.
SellThrows(t, p) ==
  /\ polls[t][p] = "selling"
  /\ SellSettles(t, p)
  /\ UNCHANGED <<ledger, positions, deferred, recon, emergency, running, world>>

------------------------------------------------------------------------------
\* Stop and restart

\* stop(): no poll starts any more; those under way go on.
Stop ==
  /\ running
  /\ running' = FALSE
  /\ UNCHANGED <<ledger, positions, closing, deferred, recon, emergency, polls, world>>

\* Variant: the persisted flag is ignored.
ResumableByData(t) == row[t].status = "open" /\ row[t].complete

\* recoverOpenPositions tracks an open trade again if no reason to reconcile
\* it is persisted and its row holds what a sell needs.
Resumable(t) ==
  /\ row[t].status = "open"
  /\ row[t].complete
  /\ ~row[t].flagged

\* Variant: a row that lacks data is passed over in silence.
FlaggedRowsOnly == {t \in OpenRows : row[t].flagged}

\* The open trades that recovery leaves to a human.
NotResumable == {t \in OpenRows : ~Resumable(t)}

\* The process dies, starts again and recovers the open trades: memory is
\* lost, and a row that lacks data is flagged for the next restart as well.
Restart ==
  /\ crashes < MaxCrashes
  /\ crashes' = crashes + 1
  /\ positions' = {t \in Trades : Resumable(t)}
  /\ recon' = NotResumable
  /\ row' = [t \in Trades |->
               [row[t] EXCEPT !.flagged = @ \/ (row[t].status = "open" /\ ~row[t].complete)]]
  /\ emergency' = (recon' # {})
  /\ running' = TRUE
  /\ closing' = {}
  /\ deferred' = [t \in Trades |-> "no"]
  /\ polls' = AllIdle
  /\ halfEntered' = {}
  /\ UNCHANGED <<daily, overdue, sold, unconfirmed>>

SellAnswers(t, p) ==
  \/ \E pnl \in ExitPnls :
       SellConfirmed(t, p, pnl) \/ \E marked \in BOOLEAN : ExitWriteFails(t, p, pnl, marked)
  \/ SellDeferred(t, p)
  \/ SellRefused(t, p)
  \/ SellUnknown(t, p)

Next ==
  \/ \E t \in Trades :
       \/ \E complete \in BOOLEAN : Enter(t, complete) \/ EntryHalfRecorded(t, complete)
       \/ MaxHoldPasses(t)
       \/ DeferralExpires(t)
       \/ \E p \in Polls :
            \/ PollStart(t, p) \/ ReadReturns(t, p) \/ ReadThrows(t, p)
            \/ SellLands(t, p) \/ SellThrows(t, p) \/ SellAnswers(t, p)
  \/ Stop
  \/ Restart

Spec == Init /\ [][Next]_vars

\* The timer keeps polling and time passes.  Market reads and sells settle,
\* and do not throw for ever: the repository's price sources and executor
\* have deadlines and turn what fails into null or 'not_executed'.
FairSpec ==
  /\ Spec
  /\ \A t \in Trades :
       /\ WF_vars(DeferralExpires(t))
       /\ \A p \in Polls :
            /\ WF_vars(PollStart(t, p))
            /\ SF_vars(ReadReturns(t, p))
            /\ SF_vars(SellAnswers(t, p))

------------------------------------------------------------------------------

TypeOK ==
  /\ row \in [Trades -> [status : {"none", "open", "closed"}, complete : BOOLEAN,
                         flagged : BOOLEAN, pnl : Int]]
  /\ daily \in [pnl : Int, latched : BOOLEAN]
  /\ positions \subseteq OpenRows
  /\ closing \subseteq Trades
  /\ deferred \in [Trades -> {"no", "fresh", "expired"}]
  /\ recon \subseteq OpenRows
  /\ emergency \in BOOLEAN
  /\ running \in BOOLEAN
  /\ polls \in [Trades -> [Polls -> {"idle", "reading", "reading late", "selling", "landed"}]]
  /\ overdue \subseteq Trades
  /\ sold \in [Trades -> Nat]
  /\ unconfirmed \subseteq Trades
  /\ crashes \in 0..MaxCrashes
  /\ halfEntered \subseteq OpenRows

\* No exit is made up: a trade is closed only if it was really sold, and the
\* day's total is that of the recorded exits, with the breaker latched if it
\* reached the limit.  This holds after failed transactions and crashes too.
Accounts ==
  /\ \A t \in ClosedRows : sold[t] > 0
  /\ daily.pnl = SumFunctionOnSet([t \in Trades |-> row[t].pnl], ClosedRows)
  /\ IsDailyLossLimitBreached(daily.pnl, StartingBalance) => daily.latched

\* A position is not sold twice, except that a process that dies before it
\* recorded a sale takes the knowledge of that sale with it.
NoDuplicateSell == \A t \in Trades : sold[t] <= 1 + crashes

\* A trade that needs reconciliation is never sold again: not in the process
\* that flagged it and, if the flag reached the ledger, not after a restart.
LeftAlone ==
  \A t \in Trades : t \in recon \/ row[t].flagged =>
    \A p \in Polls : polls[t][p] \notin {"selling", "landed"}

\* Every open trade is monitored or waits for a human, with new entries
\* stopped, whatever exit was not written or process died.  One kind is
\* forgotten, with nothing stopped, until the next restart finds it: the trade
\* whose entry threw between its row and the monitor (loop.ts:700-721).
OpenIsManaged ==
  \A t \in OpenRows : t \in positions \/ (t \in recon /\ emergency) \/ t \in halfEntered

\* An emergency stop or the maximum hold time ends a position even if prices
\* and liquidity stay unavailable for ever: it is closed, or handed to a
\* human once the sell has been deferred for too long.
ForcedExit ==
  \A t \in Trades :
    (t \in positions /\ (emergency \/ t \in overdue)) ~>
      (t \notin positions \/ t \in recon \/ ~running \/ ~(emergency \/ t \in overdue))

\* execution/types.ts on 'unknown': "MUST NOT be retried automatically under
\* any circumstance", since the position may already have been sold.
UnknownNeverRetried ==
  \A t \in unconfirmed : \A p \in Polls : polls[t][p] \notin {"selling", "landed"}

==============================================================================
