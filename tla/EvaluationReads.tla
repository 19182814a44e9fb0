---------------------------- MODULE EvaluationReads ----------------------------
(***************************************************************************)
(* What an evaluation reads before its entry decision, and how it shares   *)
(* those reads with other evaluations of its token:                        *)
(*   orchestrator/loop.ts             the market, filters and decision     *)
(*   safety/safetyGate.ts             the sequence of reads                *)
(*   safety/dataSource.ts             CachedSafetyDataSource               *)
(*   execution/jupiterQuoteClient.ts  the round-trip quote                 *)
(*   providers/singleFlightCache.ts   reuse and deduplication of loads     *)
(* The evaluations are those of EntryPipeline; this module says which of   *)
(* them come to a decision, and on which facts.  What becomes of positions *)
(* is not followed here, nor are the end of the orchestrator and restarts, *)
(* which empty the caches.                                                 *)
(*                                                                         *)
(* The chain shows each token in a sequence of states: the facts of        *)
(* SafetyPolicy and, as `market`, those of MarketDecision.  A value that   *)
(* the gate read is the number of the first state that shows it, 0         *)
(* for null: a load that failed, or an account that does not decode.       *)
(***************************************************************************)
EXTENDS EntryPipeline, SafetyPolicy, MarketDecision

CONSTANTS
  Histories,  \* the sequences of states a token may go through
  DataTtl,    \* providers.rpc.safetyDataTtlMs
  QuoteTtl,   \* cacheTtlMs of the quote client
  MaxAge,     \* MAX_QUOTE_AGE_MS, also the limits of both ttls and of market data
  MaxFlight   \* the longest a load takes: each request has its own deadline

ASSUME ReadsAssumption ==
  /\ MaxAge \in Nat /\ MaxFlight \in Nat
  /\ DataTtl \in 1..MaxAge /\ QuoteTtl \in 0..MaxAge
  /\ \A h \in Histories : Len(h) \in Nat \ {0} /\ \A p \in 1..Len(h) : h[p].market \in Market

VARIABLES
  history,  \* the states of each token on the chain, from the first
  phase,    \* how many of them there have been so far
  since,    \* when each of these began
  cached,   \* SingleFlightCache.entries: the values that may be reused
  flights,  \* SingleFlightCache.inflight: loads under way
  gates     \* how far each evaluation's gathering has come

readVars == <<vars, history, phase, since, cached, flights, gates>>
chain == <<history, phase, since>>

Sources == {"mint", "holders", "curve", "buy", "sell"}
Keys == Sources \X Mints
None == [value |-> 0, at |-> 0]
NoValues == [source |-> "none"]
Infinity == MaxTime + 1
Ttl(source) == IF source \in {"buy", "sell"} THEN QuoteTtl ELSE DataTtl
Token(m, p) == history[m][p]

\* The value that the source has in state p.
Shown(source, m, p) ==
  CHOOSE q \in 1..p : /\ Token(m, q)[source] = Token(m, p)[source]
                      /\ \A r \in 1..p : Token(m, r)[source] = Token(m, p)[source] => q <= r

\* A value is null when the account does not decode or there is no route.
Readable(source, token) ==
  CASE source = "mint" -> MintReadable(token)
    [] source = "buy" -> token.buy >= 0
    [] source = "sell" -> token.sell >= 0
    [] OTHER -> TRUE

------------------------------------------------------------------------------
\* The course of one gathering.

\* Once the source is chosen: the native snapshot is there at once, what
\* another source has must be fetched.
Starting(values, at) ==
  [stage |-> IF values = NoValues THEN "market" ELSE "mint", waiting |-> values = NoValues,
   values |-> values, market |-> at, oldest |-> Infinity,
   liquid |-> FALSE, got |-> [s \in Sources |-> 0]]
Ended == Starting(NoValues, 0)

\* runSafetyGate(), getRoundTripQuote(): the next read, which depends on
\* whether there was a value.
StageAfter(stage, value) ==
  CASE stage = "mint" -> IF value # 0 THEN "holders" ELSE "liquidity"
    [] stage = "holders" -> IF value # 0 THEN "curve" ELSE "liquidity"
    [] stage = "curve" -> "liquidity"
    [] stage = "liquidity" -> "buy"
    [] stage = "buy" -> IF value # 0 THEN "sell" ELSE "decide"
    [] stage = "sell" -> "decide"

\* Variant: the verdict is as old as the last of its facts.
NewestOnly(oldest, at) == at

\* dataAsOfMs: the verdict is as old as the oldest of its facts.
AsOf(oldest, at) == IF at < oldest THEN at ELSE oldest

\* The gathering `g` obtains a value that was loaded at `at`.
Given(g, value, at) ==
  [g EXCEPT !.got[g.stage] = value, !.oldest = IF value # 0 THEN AsOf(@, at) ELSE @,
            !.stage = StageAfter(g.stage, value),
            !.waiting = StageAfter(g.stage, value) = "liquidity"]

KeyOf(e) == <<gates[e].stage, evals[e].mint>>
Waiting(k) == {e \in EvalIds : evals[e].pc = "gathering" /\ gates[e].waiting /\ KeyOf(e) = k}

\* Resumed evaluations run before anything else does.
Running == {e \in EvalIds : evals[e].pc = "gathering" /\ ~gates[e].waiting}

\* The evaluation ends without a decision.
Discard(e) == Reject(e) /\ gates' = [gates EXCEPT ![e] = Ended]

\* The filters decide on what another source has shown.
FiltersDecide(e, values, at) ==
  IF FiltersPass(values) /\ Coherent(evals[e].startedAt, at, MaxAge)
  THEN gates' = [gates EXCEPT ![e] = Starting(values, at)] /\ UNCHANGED vars
  ELSE Discard(e)

\* Price, liquidity and volume arrive, and a quote is asked for.
MarketAnswers(e) ==
  /\ evals[e].pc = "gathering"
  /\ gates[e].stage = "market"
  /\ LET market == Token(evals[e].mint, phase[evals[e].mint]).market IN
     IF ~market.dex.listed THEN Discard(e)
     ELSE IF MayDelegate(market.native)
     THEN /\ gates' = [gates EXCEPT ![e].stage = "quote", ![e].market = now, ![e].values = DexValues(market)]
          /\ UNCHANGED vars
     ELSE FiltersDecide(e, WithNativeQuotes(DexValues(market), market.native), now)
  /\ UNCHANGED <<chain, cached, flights>>

\* The quotes arrive.  (The sell quote is asked for only after the filters;
\* that it comes later still is left out.)
QuotesAnswer(e) ==
  /\ evals[e].pc = "gathering"
  /\ gates[e].stage = "quote"
  /\ LET market == Token(evals[e].mint, phase[evals[e].mint]).market IN
     FiltersDecide(e, WithDexQuotes(gates[e].values, market), gates[e].market)
  /\ UNCHANGED <<chain, cached, flights>>

\* Liquidity answers; an unavailable answer is too little.
LiquidityAnswers(e) ==
  /\ evals[e].pc = "gathering"
  /\ gates[e].stage = "liquidity"
  /\ \E enough \in BOOLEAN :
       gates' = [gates EXCEPT ![e].stage = "buy", ![e].waiting = FALSE, ![e].liquid = enough]
  /\ UNCHANGED <<vars, chain, cached, flights>>

------------------------------------------------------------------------------
\* SingleFlightCache.

\* What of an entry may be reused at time t.  get() deletes an entry that is
\* too old when it next meets it; here it is gone at once.
Kept(k, t) == IF t - cached[k].at <= Ttl(k[1]) THEN cached[k] ELSE None

\* get(): a value that may be reused, or the load under way, or a new load.
\* The load keeps the value that there is when it begins.
Ask(e) ==
  LET k == KeyOf(e) IN
  /\ e \in Running
  /\ gates[e].stage \in Sources
  /\ \/ /\ cached[k] # None
        /\ gates' = [gates EXCEPT ![e] = Given(@, cached[k].value, cached[k].at)]
        /\ UNCHANGED flights
     \/ /\ cached[k] = None
        /\ flights' = IF flights[k] # None THEN flights
                      ELSE [flights EXCEPT ![k] = [value |-> Shown(k[1], k[2], phase[k[2]]), at |-> now]]
        /\ gates' = [gates EXCEPT ![e].waiting = TRUE]
  /\ UNCHANGED <<vars, chain, cached>>

\* Variant: only one of those who wait is answered.
AnsweredOne(k, value) ==
  LET first == CHOOSE e \in Waiting(k) : \A f \in Waiting(k) : e <= f
  IN  gates' = IF Waiting(k) = {} THEN gates ELSE [gates EXCEPT ![first] = Given(@, value, now)]

\* Everyone who waits for the load obtains its outcome.
Answered(k, value) ==
  gates' = [e \in EvalIds |-> IF e \in Waiting(k) THEN Given(gates[e], value, now) ELSE gates[e]]

\* A load ends; only a value is kept.
Landed(k, value) ==
  /\ flights' = [flights EXCEPT ![k] = None]
  /\ cached' = IF value # 0 /\ Ttl(k[1]) > 0
               THEN [cached EXCEPT ![k] = [value |-> value, at |-> now]] ELSE cached
  /\ Answered(k, value)
  /\ UNCHANGED <<vars, chain>>

\* It read the token in one of its states since it began.
LoadReturns(k) ==
  /\ flights[k] # None
  /\ \E p \in {flights[k].value} \union {q \in 2..phase[k[2]] : since[k[2]][q] >= flights[k].at} :
       Landed(k, IF Readable(k[1], Token(k[2], p)) THEN Shown(k[1], k[2], p) ELSE 0)

LoadFails(k) == flights[k] # None /\ Landed(k, 0)

------------------------------------------------------------------------------
\* The decision.

\* The gate passes: every fact is there, and nothing speaks against the token.
Verdict(e) ==
  LET g == gates[e]
      T(s) == Token(evals[e].mint, g.got[s])
  IN  /\ \A s \in Sources : g.got[s] # 0
      /\ g.liquid
      /\ GatePasses(T("mint").mint, T("holders").holders, T("curve").curve, T("buy").buy, T("sell").sell)

\* stale_safety_data_at_decision, stale_market_data_at_decision.
DataFresh(e) == now - gates[e].oldest <= MaxAge /\ ~StaleAtDecision(gates[e].market, now, MaxAge)

\* The score and the expected profit of what was seen of the market.
Promising(e) == ScorePasses(gates[e].values) /\ EdgeFavorable(gates[e].values)

\* What follows the last read.
Decide(e) ==
  /\ e \in Running
  /\ gates[e].stage = "decide"
  /\ IF Verdict(e) /\ DataFresh(e) /\ Promising(e) THEN Commit(e) \/ Refuse(e) ELSE Reject(e)
  /\ gates' = [gates EXCEPT ![e] = Ended]
  /\ UNCHANGED <<chain, cached, flights>>

------------------------------------------------------------------------------
\* The rest of the engine, and the chain.

\* The token's state changes.
ChainMoves(m) ==
  /\ phase[m] < Len(history[m])
  /\ phase' = [phase EXCEPT ![m] = @ + 1]
  /\ since' = [since EXCEPT ![m] = Append(@, now)]
  /\ UNCHANGED <<vars, history, cached, flights, gates>>

\* The clock does not pass the deadline of a load.
TimePasses ==
  /\ \A k \in Keys : flights[k] # None => now - flights[k].at < MaxFlight
  /\ Tick
  /\ cached' = [k \in Keys |-> Kept(k, now + 1)]
  /\ UNCHANGED <<chain, flights, gates>>

\* A tick: evaluateTokenInner() up to its first await.  Where the route or
\* the filters reject the token at once, the tick is one that is skipped.
TicksAgain(m) ==
  /\ \/ SkipEvaluation(m) /\ UNCHANGED gates
     \/ LET market == Token(m, phase[m]).market
            native == Route(market) = "native" IN
        /\ IF native THEN FiltersPass(NativeValues(market))
           ELSE Route(market) = "dexscreener" /\ MayDelegate(market.native)
        /\ StartEvaluation(m)
        /\ gates' = Append(gates, Starting(IF native THEN NativeValues(market) ELSE NoValues, now))
  /\ UNCHANGED <<chain, cached, flights>>

\* A fetch fails: no price, no quote.
FetchFails(e) ==
  /\ gates[e].stage \in {"market", "quote"}
  /\ Discard(e)
  /\ UNCHANGED <<chain, cached, flights>>

BuyGoesOn(e) ==
  /\ BuyLands(e) \/ BuyFilled(e) \/ BuyFilledHalfRecorded(e) \/ BuyFailed(e) \/ BuyLost(e)
  /\ UNCHANGED <<chain, cached, flights, gates>>

ReadsInit ==
  /\ Init
  /\ history \in [Mints -> Histories]
  /\ phase = [m \in Mints |-> 1]
  /\ since = [m \in Mints |-> <<0>>]
  /\ cached = [k \in Keys |-> None]
  /\ flights = [k \in Keys |-> None]
  /\ gates = <<>>

ReadsNext ==
  \/ \E e \in Running : Ask(e) \/ Decide(e)
  \/ /\ Running = {}
     /\ \/ TimePasses
        \/ \E m \in Mints : TicksAgain(m) \/ ChainMoves(m)
        \/ \E e \in EvalIds : MarketAnswers(e) \/ QuotesAnswer(e) \/ FetchFails(e) \/ LiquidityAnswers(e) \/ BuyGoesOn(e)
        \/ \E k \in Keys : LoadReturns(k) \/ LoadFails(k)

\* The clock runs, timers fire, resumed code goes on, and the gate ends every
\* request at its deadline.  The market, liquidity and the buy may hang.
ReadsSpec ==
  /\ ReadsInit /\ [][ReadsNext]_readVars
  /\ WF_readVars(Running = {} /\ TimePasses)
  /\ \A m \in Mints : WF_readVars(Running = {} /\ TicksAgain(m))
  /\ WF_readVars(\E e \in Running : Ask(e) \/ Decide(e))
  /\ WF_readVars(Running = {} /\ \E k \in Keys : LoadReturns(k) \/ LoadFails(k))

------------------------------------------------------------------------------

\* What the theorems suppose of tokens.  A market is of one venue; a token
\* that has left the curve, or never was on one, has no valid native state; and
\* the volume of a token that is not on a curve is unknown (resolveCurve(),
\* compute()).
MarketsReal ==
  \A h \in Histories : \A p \in 1..Len(h) :
    /\ MayDelegate(h[p].market.native) => h[p].market.native.volume = -1
    /\ h[p].market.found # "pumpfun" \/ h[p].market.native.quality = "GRADUATED" =>
         \A q \in p..Len(h) : h[q].market.native.quality # "VALID"

\* An extension that passes has no effect, and the old token program has none.
\* The vault of a live curve holds what the curve holds when it is verified.
\* The rest is what a list of amounts, largest first, comes to when no person
\* owns the vault: ten people hold no more than the ten largest accounts beside
\* it, and nine people with the largest account that no person owns no more
\* than the ten largest.
TokensReal ==
  \A h \in Histories : \A a, b, c \in 1..Len(h) :
    LET mint == h[a].mint
        holders == h[b].holders
        curve == h[c].curve
        ten == Largest(10, People(holders))
        nine == Largest(9, People(holders))
        pooled == Largest(1, Pools(holders))
        nonVault == TopTen(NonVault(holders, curve.vault))
    IN  /\ \A x \in mint.extensions : mint.program = "token-2022" /\ (ExtensionPasses(x, mint.supply) => x.effect = "none")
        /\ {mint.supply, TopTen(holders), ten, nine, pooled, nonVault, curve.inventory} \subseteq Nat
        /\ nine + pooled <= TopTen(holders)
        /\ curve.exists /\ ~curve.complete =>
             ten <= nonVault /\ (VaultVerified(curve, mint.supply) => curve.inventory = curve.vaultAmount)

\* States of the token that the chain showed within `age`.
Recent(m, age) == {p \in 1..phase[m] : p = phase[m] \/ now - since[m][p + 1] <= age}

\* No entry rests on a fact that is missing, or that the chain has not shown
\* for longer than the bound on data and one load: neither reuse, nor a load
\* begun by an evaluation that is long superseded, nor six reads in a row can
\* stretch it (runSafetyGate, SingleFlightCache.get, loop.ts "a safety verdict
\* built from data older than the decision bound is never acted on").  Each
\* fact may be of a moment of its own.
EntryJustified ==
  [][\A e \in EvalIds :
       evals[e].pc = "gathering" /\ evals'[e].pc = "buying" =>
         LET m == evals[e].mint IN
         \E a, b, c, d, f \in Recent(m, MaxAge + MaxFlight) :
           Harmless(Token(m, a).mint, Token(m, b).holders, Token(m, c).curve,
                    Token(m, d).buy, Token(m, f).sell)]_readVars

\* Every entry rests on values that the native market of the token showed all
\* at one moment, no longer ago than the bound on data: it was valid, deep and
\* busy enough then, buying stayed within the hard limit, and the way in and
\* out left a profit.  No other source, no mixture of two, and no curve that
\* ended longer ago is traded, whatever the token becomes while its evaluation
\* waits (decideMarketSource, NativeFirstPriceSource, isStaleAtDecision).
MarketJustified ==
  [][\A e \in EvalIds :
       evals[e].pc = "gathering" /\ evals'[e].pc = "buying" =>
         LET v == gates[e].values IN
         /\ \E p \in Recent(evals[e].mint, MaxAge) :
              LET market == Token(evals[e].mint, p).market
              IN  market.native.quality = "VALID" /\ v = NativeValues(market)
         /\ v.liquidity >= Filters.liquidity /\ v.volume >= Filters.volume
         /\ v.impact \in 0..HardMaxImpact /\ v.sellImpact >= 0
         /\ SellFill(v, BuyFill(v) + Part(BuyFill(v), Edge.move)) > Edge.size]_readVars

\* An evaluation that waits for a load is answered, even if the load was begun
\* by another one, and whatever has become of that one.
AwaitsLoad(e) == e \in EvalIds /\ \E k \in Keys : e \in Waiting(k)
ReadsAnswered == \A e \in 1..MaxEvals : AwaitsLoad(e) ~> ~AwaitsLoad(e)

==============================================================================
