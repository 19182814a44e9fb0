----------------------------- MODULE EngineProcess -----------------------------
(***************************************************************************)
(* The life of the engine's process around the evaluation scheduler: where *)
(* tokens come from and how everything that starts work is stopped         *)
(*   discovery/pumpFunLogSubscriber.ts, discovery/raydiumLogSubscriber.ts, *)
(*   discovery/fetchRateLimiter.ts         a log notification may cost a   *)
(*                                         fetch, which may report a token *)
(*   orchestrator/loop.ts                  watchToken, stopOrchestrator    *)
(*   index.ts, lifecycle/shutdown.ts       the bounded steps of a shutdown *)
(* The scheduler and what it dispatches are those of EvaluationScheduler.  *)
(***************************************************************************)
EXTENDS EvaluationScheduler, CreationDetection

CONSTANTS
  Txs,         \* the transactions whose logs may be pushed, any number of times
  MaxFetches   \* maxFetchesPerSecond of a source

ASSUME ProcessAssumption == MaxFetches \in Nat \ {0}

VARIABLES
  fetching,  \* fetches under way: pairs of a source and a transaction
  window,    \* FetchRateLimiter of each source: fetches counted, and whether
             \* the window they were counted in is over
  deaf,      \* sources whose stop() was called
  step       \* the shutdown step under way, "running" before, "exited" after

processVars == <<active, activeByMint, pending, stopped, watched, aged, fetching, window, deaf, step>>

Sources == {"raydium", "pumpfun"}

\* runShutdown(): stop_orchestrator contains a step for each source.
Steps == <<"running", "stop_raydium", "stop_pumpfun", "abort_provider_requests", "stop_price_paths",
           "stop_volume_service", "stop_shadow_observability", "flush_provider_metrics", "close_ledger", "exited">>
StepNumber(s) == CHOOSE k \in DOMAIN Steps : Steps[k] = s
StepAfter(s) == Steps[StepNumber(s) + 1]
Aborted == StepNumber(step) >= StepNumber("abort_provider_requests")

------------------------------------------------------------------------------
\* Discovery.

\* allow(): the window is restarted by the first use after it is over.
Allow(w) == w.over \/ w.count < MaxFetches
AfterUse(w) == IF w.over THEN [count |-> 1, over |-> FALSE] ELSE [w EXCEPT !.count = @ + 1]

\* What handleLogs() decides on before it asks the limiter.
WorthFetching(source, tx) ==
  /\ \E i \in DOMAIN tx.calls : tx.calls[i].program = source
  /\ IF source = "pumpfun" THEN MightBeCreation(tx) ELSE tx.ok

Fetchable == {f \in Sources \X Txs : WorthFetching(f[1], f[2])}

\* The token that a fetched transaction is found to create.
Detected ==
  [f \in Sources \X Txs |->
     IF f[1] = "pumpfun" THEN DetectPumpFunCreation(f[2]) ELSE DetectRaydiumPoolCreation(f[2])]

\* handleLogs() up to its await.  What the limiter rejects is dropped.
HandleLogs(source, tx) ==
  /\ step # "exited"
  /\ source \notin deaf
  /\ Allow(window[source])
  /\ <<source, tx>> \notin fetching
  /\ window' = [window EXCEPT ![source] = AfterUse(@)]
  /\ fetching' = fetching \union {<<source, tx>>}
  /\ UNCHANGED <<vars, deaf, step>>

WindowElapses(source) ==
  /\ window[source].count > 0 /\ ~window[source].over
  /\ window' = [window EXCEPT ![source].over = TRUE]
  /\ UNCHANGED <<vars, fetching, deaf, step>>

\* The fetch brings the transaction: a token it creates is watched, unless it
\* is watched already or the orchestrator is stopping.
FetchReturns(source, tx) ==
  /\ step # "exited" /\ ~Aborted
  /\ <<source, tx>> \in fetching
  /\ fetching' = fetching \ {<<source, tx>>}
  /\ LET m == Detected[<<source, tx>>] IN
     \/ m # Nobody /\ WatchToken(m)
     \/ m = Nobody /\ UNCHANGED vars
     \/ m # Nobody /\ (stopped \/ m \in watched) /\ UNCHANGED vars
  /\ UNCHANGED <<window, deaf, step>>

\* It fails, or is cut by the shutdown of the provider layer.
FetchFails(source, tx) ==
  /\ step # "exited"
  /\ <<source, tx>> \in fetching
  /\ fetching' = fetching \ {<<source, tx>>}
  /\ UNCHANGED <<vars, window, deaf, step>>

------------------------------------------------------------------------------
\* Shutdown.

\* Variant: a source is deaf once its unsubscription succeeded.
DeafOnceUnsubscribed(d, s) == d

\* source.stop() is called when its step begins, and is deaf from then on.
DeafAfter(d, s) ==
  CASE s = "stop_raydium" -> d \union {"raydium"}
    [] s = "stop_pumpfun" -> d \union {"pumpfun"}
    [] OTHER -> d

\* The signal arrives: what starts evaluations stops first, and the sources
\* are stopped one after the other.
BeginShutdown ==
  /\ step = "running"
  /\ StopOrchestrator
  /\ step' = "stop_raydium"
  /\ deaf' = DeafAfter(deaf, step')
  /\ UNCHANGED <<fetching, window>>

MoveOn ==
  /\ step' = StepAfter(step)
  /\ deaf' = DeafAfter(deaf, step')
  /\ fetching' = IF step' = "exited" THEN {} ELSE fetching
  /\ UNCHANGED <<vars, window>>

\* The unsubscription of a source may hang; all other steps are synchronous.
\* A step that fails ends just as well.
MayHang == step \in {"stop_raydium", "stop_pumpfun"}
StepEnds == step \notin {"running", "exited"} /\ ~MayHang /\ MoveOn
Unsubscribed == MayHang /\ MoveOn

\* Variant: the step is not raced against a timer.
NoTimer == FALSE

\* runBounded() of the source and of its step.  Both sources together stay
\* within the limit of stop_orchestrator (2 * 3 s against 3 * 4 s).
StepTimesOut == MayHang /\ MoveOn

------------------------------------------------------------------------------

\* The scheduler's own steps, as long as the process runs.
Alongside == step # "exited" /\ UNCHANGED <<fetching, window, deaf, step>>
TimerFires(m) == TimerTick(m) /\ Alongside
EvaluationSettles(m) == Settle(m) /\ Alongside
TokenAges(m) == Age(m) /\ Alongside

ProcessInit ==
  /\ Init
  /\ fetching = {}
  /\ window = [s \in Sources |-> [count |-> 0, over |-> FALSE]]
  /\ deaf = {}
  /\ step = "running"

ProcessNext ==
  \/ \E m \in Mints : TimerFires(m) \/ EvaluationSettles(m) \/ TokenAges(m)
  \/ \E f \in Fetchable : HandleLogs(f[1], f[2]) \/ FetchReturns(f[1], f[2]) \/ FetchFails(f[1], f[2])
  \/ \E s \in Sources : WindowElapses(s)
  \/ BeginShutdown
  \/ StepEnds
  \/ Unsubscribed
  \/ StepTimesOut

\* Every dispatched evaluation settles: each provider call it awaits is cut at
\* its own deadline and evaluateToken catches whatever it throws.  Timers fire
\* and synchronous steps end; nothing is assumed of fetches and unsubscriptions.
ProcessSpec ==
  /\ ProcessInit /\ [][ProcessNext]_processVars
  /\ \A m \in Mints : WF_processVars(EvaluationSettles(m))
  /\ WF_processVars(StepEnds)
  /\ WF_processVars(StepTimesOut)

------------------------------------------------------------------------------

\* What the chain makes true of the transactions: when one succeeds, the
\* account that signs as the mint of a Pump.fun create is created by it, and so
\* is a new mint that a Raydium initialize2 names as its LP mint.
CreationsReal ==
  \A tx \in Txs :
    /\ DOMAIN tx.calls = 1..Len(tx.calls)
    /\ tx.makes \subseteq Mints
    /\ tx.ok => \A i \in DOMAIN tx.calls :
         LET c == tx.calls[i] IN
         \/ c.program = "pumpfun" /\ IsCreate(c, tx)
         \/ c.program = "raydium" /\ c.tag = "initialize2" /\ c.accounts[1] \in FreshMints(tx)
         => c.accounts[1] \in tx.makes

\* Only tokens that a transaction really created are ever watched or
\* evaluated: not those of failed transactions, of other programs that use the
\* same instruction names, or of calls nested in somebody else's
\* (handleLogs, detectPumpFunCreation, detectRaydiumAmmV4PoolCreation).
DiscoveredGenuine ==
  \A m \in Mints :
    m \in watched \/ activeByMint[m] > 0 => \E tx \in Txs : tx.ok /\ m \in tx.makes

\* Once the provider layer is being shut down nothing starts a request any
\* more, even if a source never managed to unsubscribe: neither discovery nor
\* the scheduler (stop() of the sources, stopOrchestrator, index.ts: "Order
\* matters: first stop everything that STARTS provider requests").
QuietAfterAbort ==
  [][Aborted => /\ fetching' \subseteq fetching
                /\ \A m \in Mints : activeByMint'[m] <= activeByMint[m]]_processVars

\* A shutdown ends, whatever hangs (runBounded).
ShutdownEnds == step # "running" ~> step = "exited"

==============================================================================
