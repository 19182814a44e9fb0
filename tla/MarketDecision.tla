---------------------------- MODULE MarketDecision ----------------------------
(***************************************************************************)
(* What an evaluation concludes from the market of its token:              *)
(*   orchestrator/marketSourcePolicy.ts  which source is authoritative     *)
(*   orchestrator/nativeFirst.ts         when another source may answer    *)
(*   orchestrator/baselineFilters.ts     the filters before the gate       *)
(*   orchestrator/snapshotCoherence.ts   the age of an observation         *)
(*   scoring/entryScorer.ts, scoring/expectedNetEdge.ts,                   *)
(*   execution/fillSimulation.ts         the score and the expected profit *)
(*   orchestrator/loop.ts                how these are put together        *)
(* All are pure functions.  The sources are wired as index.ts wires them   *)
(* when the native market is enabled, which is the default.                *)
(*                                                                         *)
(* The market of a token is a record:                                      *)
(*   found   the discovery source, "pumpfun" or "raydium"                  *)
(*   native  the native snapshot: its `quality`, the `reason` when that is *)
(*           "UNAVAILABLE", and what it shows when it is "VALID" (the      *)
(*           volume may be there in any case)                              *)
(*   dex     `listed`, and what the aggregator and Jupiter show            *)
(* A token that was found in a pool is not on a curve: its native snapshot *)
(* is never valid.                                                         *)
(* Percentages and ratios are in hundredths, -1 stands for null.           *)
(* The price velocity is taken as given: marketHistory.ts derives it from  *)
(* what earlier ticks recorded.                                            *)
(***************************************************************************)
EXTENDS Integers

CONSTANTS
  Fallback,       \* volume.dexscreenerFallbackForCurveTokens
  Filters,        \* filters.*: least `liquidity`, `volume`, `ratio`,
                  \* `velocity`, `acceleration`; greatest `impact`
  HardMaxImpact,  \* HARD_RISK_PARAMETERS.maxPriceImpactBps
  Slippage,       \* execution.latencySlippageBufferPct
  Weights,        \* scoring.weights, by the names of the code
  MinScore,       \* scoring.minEntryScore, in the unit of weight by signal
  Edge            \* `size` of an entry, `move` (exits.quickTpMinPct), `flatFee`
                  \* (dexFeeBps + swapFeeBps), `fixed` cost of a leg, `margin`

ASSUME MarketAssumption ==
  /\ Fallback \in BOOLEAN
  /\ HardMaxImpact \in Nat /\ Slippage \in Nat /\ MinScore \in Int
  /\ Edge.size \in Nat \ {0} /\ Edge.flatFee \in Nat /\ Edge.flatFee <= 10000
  /\ Edge.move \in Nat /\ Edge.fixed \in Nat /\ Edge.margin \in Nat

\* Number.POSITIVE_INFINITY: a ratio whose denominator is zero.
Boundless == 1000000

Market ==
  [found : {"pumpfun", "raydium"},
   native : [quality : STRING, reason : STRING, liquidity : Int, volume : Int, ratio : Int, velocity : Int,
             acceleration : Int, txRate : Int, impact : Int, sellImpact : Int, fee : Nat \union {-1}],
   dex : [listed : BOOLEAN, liquidity : Int, ratio : Int, velocity : Int, txRate : Int, impact : Int,
          sellImpact : Int]]

------------------------------------------------------------------------------
\* The source.

\* decideMarketSource(): one source per evaluation.
Route(market) ==
  CASE market.found # "pumpfun" -> "dexscreener"
    [] market.native.quality = "VALID" -> "native"
    [] market.native.quality = "GRADUATED" -> "dexscreener"
    [] OTHER -> IF Fallback THEN "dexscreener" ELSE "unavailable"

\* The native-first sources ask no other for a token that may be on a curve.
MayDelegate(native) ==
  \/ native.quality = "GRADUATED"
  \/ native.quality = "UNAVAILABLE" /\ native.reason = "mint_not_observed"

\* The values of the native snapshot, all of one moment.
NativeValues(market) ==
  [source |-> "native", liquidity |-> market.native.liquidity, volume |-> market.native.volume,
   ratio |-> market.native.ratio, velocity |-> market.native.velocity,
   acceleration |-> market.native.acceleration, txRate |-> market.native.txRate,
   impact |-> market.native.impact, sellImpact |-> market.native.sellImpact, fee |-> market.native.fee]

\* getPrice() and getLiquidityAndVolume() on the other route; the volume is the
\* native one even there, for the aggregator has none.
DexValues(market) ==
  [source |-> "dexscreener", liquidity |-> market.dex.liquidity, volume |-> market.native.volume,
   ratio |-> market.dex.ratio, velocity |-> market.dex.velocity,
   acceleration |-> IF market.native.volume = -1 THEN -1 ELSE market.native.acceleration,
   txRate |-> market.dex.txRate, impact |-> -1, sellImpact |-> -1, fee |-> -1]

\* getBuyExecutionQuote(), getSellPriceImpactPct(): a quote of Jupiter, which
\* knows nothing of the fee of the venue, or that of the curve.
WithDexQuotes(values, market) ==
  [values EXCEPT !.impact = market.dex.impact, !.sellImpact = market.dex.sellImpact]
WithNativeQuotes(values, native) ==
  IF native.quality # "VALID" THEN values
  ELSE [values EXCEPT !.impact = native.impact, !.sellImpact = native.sellImpact, !.fee = native.fee]

------------------------------------------------------------------------------
\* The filters.

\* Variant: an unknown volume, and so an unknown acceleration, is enough.
UnknownVolumePasses(v) ==
  /\ v.liquidity >= Filters.liquidity
  /\ v.volume = -1 \/ v.volume >= Filters.volume
  /\ v.ratio # -1 /\ v.ratio >= Filters.ratio
  /\ v.velocity >= Filters.velocity
  /\ v.impact # -1 /\ v.impact <= HardMaxImpact /\ v.impact <= Filters.impact

\* collectBaselineFilterFailures() is empty: what is unknown never passes.
FiltersPass(v) ==
  /\ v.liquidity >= Filters.liquidity
  /\ v.volume # -1 /\ v.volume >= Filters.volume
  /\ v.ratio # -1 /\ v.ratio >= Filters.ratio
  /\ v.velocity >= Filters.velocity
  /\ v.acceleration # -1 /\ v.acceleration >= Filters.acceleration
  /\ v.impact # -1 /\ v.impact <= HardMaxImpact /\ v.impact <= Filters.impact

\* snapshotCoherenceIssues() is empty, of a tick that began at `observed` and
\* had its market data at `fetched`; the time of a quote is known only to
\* shadow trading.
Coherent(observed, fetched, maxSkew) == fetched >= observed /\ fetched - observed <= maxSkew

\* isStaleAtDecision().
StaleAtDecision(fetched, decision, maxAge) == decision - fetched > maxAge

------------------------------------------------------------------------------
\* The score.

\* A signal without bound counts as the worst.
Safe(x) == IF x = Boundless THEN 0 ELSE x

\* computeEntryScore(): reaching a filter's value is worth about one weight.
ScorePasses(v) ==
  Weights.momentum * v.velocity
    + Weights.volume * (Safe(v.acceleration) - 100)
    + Weights.buyPressure * (Safe(v.ratio) - 100)
    + Weights.txVelocity * v.txRate
    + Weights.liquidityQuality * ((v.liquidity * 100) \div 20)
    - Weights.slippageRisk * Slippage
    - Weights.priceImpactRisk * v.impact >= MinScore

------------------------------------------------------------------------------
\* The expected profit of a round trip.  The code computes in floating point;
\* here every quotient is rounded down to the unit of Edge.size.

\* x, changed by a rate in basis points.
Part(x, bps) == (x * bps) \div 10000
NotBelowZero(x) == IF x < 0 THEN 0 ELSE x

\* simulateBuyFill(): a curve takes its fee before the trade, the generic
\* model takes everything from the amount spent.
BuyFill(v) ==
  LET net == IF v.fee # -1 THEN (Edge.size * 10000) \div (10000 + v.fee) ELSE Edge.size
      value == IF v.fee # -1 THEN (net * 10000) \div (10000 + v.impact)
               ELSE Edge.size - Part(Edge.size, Edge.flatFee) - Part(Edge.size, v.impact)
  IN  NotBelowZero(value - Part(Edge.size, Slippage) - Edge.fixed)

\* simulateSellFill(): a curve takes its fee from the proceeds.
SellFill(v, gross) ==
  LET proceeds == gross - Part(gross, v.sellImpact)
      fee == IF v.fee # -1 THEN Part(proceeds, v.fee) ELSE Part(gross, Edge.flatFee)
  IN  NotBelowZero(proceeds - fee - Part(gross, Slippage) - Edge.fixed)

\* computeExpectedNetEdge(): the least aimed-at move pays for both ways and
\* leaves more than the margin; a way out that cannot be priced does not.
EdgeFavorable(v) ==
  LET gross == BuyFill(v) + Part(BuyFill(v), Edge.move)
  IN  /\ v.sellImpact >= 0 /\ v.impact >= 0
      /\ ((SellFill(v, gross) - Edge.size) * 10000) \div Edge.size > Edge.margin

==============================================================================
