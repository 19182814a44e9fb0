--------------------------- MODULE MCEvaluationReads ---------------------------
(***************************************************************************)
(* Evaluations and their reads on a small instance: a token that is sound  *)
(* until someone hoards it or its curve ends, and tokens that never are,   *)
(* for what they are or where they are traded.                             *)
(***************************************************************************)
EXTENDS EvaluationReads

SmallPnls == {1}

MCHolder(account, amount, person) == [account |-> account, amount |-> amount, person |-> person]

MCFilters == [liquidity |-> 20, volume |-> 5, ratio |-> 150, velocity |-> 100, acceleration |-> 150, impact |-> 100]
MCEdge == [size |-> 30000, move |-> 600, flatFee |-> 30, fixed |-> 50, margin |-> 50]
MCWeights == [momentum |-> 2, volume |-> 2, buyPressure |-> 2, txVelocity |-> 1, liquidityQuality |-> 2,
              slippageRisk |-> 2, priceImpactRisk |-> 2]

\* What the curve shows, and the aggregator next to it.
MCMarket ==
  [found |-> "pumpfun",
   native |-> [quality |-> "VALID", reason |-> "ok", liquidity |-> 40, volume |-> 8, ratio |-> Boundless,
               velocity |-> 300, acceleration |-> 200, txRate |-> 100, impact |-> 60, sellImpact |-> 60, fee |-> 95],
   dex |-> [listed |-> TRUE, liquidity |-> 60, ratio |-> 200, velocity |-> 300, txRate |-> 100,
            impact |-> 20, sellImpact |-> 20]]

\* A token on a live curve that has sold 40 % of its supply.
MCSound ==
  [mint |-> [decodes |-> TRUE, mintAuthority |-> FALSE, freezeAuthority |-> FALSE, program |-> "token-2022",
             extensions |-> {[id |-> 19, payload |-> "inert", effect |-> "none"]}, supply |-> 1000],
   holders |-> <<MCHolder("vault", 600, FALSE), MCHolder("ann", 140, TRUE), MCHolder("bob", 60, TRUE)>>,
   curve |-> [exists |-> TRUE, genuine |-> TRUE, complete |-> FALSE, real |-> 400, total |-> 1000,
              mayhem |-> "no", vault |-> "vault", vaultAmount |-> 600, inventory |-> 600],
   buy |-> 1, sell |-> 1, market |-> MCMarket]

\* The same token when one person has bought most of what the curve sold.
MCWhale ==
  [MCSound EXCEPT !.holders = <<MCHolder("eve", 500, TRUE), MCHolder("vault", 300, FALSE), MCHolder("ann", 140, TRUE)>>,
                  !.curve = [@ EXCEPT !.real = 100, !.vaultAmount = 300, !.inventory = 300]]

MCBuyers == <<"ann", "bob", "cat", "dan", "eli", "fay", "gus", "hal", "ida", "joe">>

\* The same token once the curve has ended and its liquidity lies in a pool,
\* which takes one of the ten places: of ten persons nine are counted.
MCGraduated ==
  [MCSound EXCEPT !.holders = <<MCHolder("pool", 300, FALSE)>> \o [k \in 1..10 |-> MCHolder(MCBuyers[k], 30, TRUE)],
                  !.curve = [@ EXCEPT !.complete = TRUE, !.real = 0, !.vaultAmount = 0, !.inventory = 0],
                  !.market.native = [@ EXCEPT !.quality = "GRADUATED", !.volume = -1]]

\* A token that charges a fee by an extension that is not known.
MCTaxed == [MCSound EXCEPT !.mint.extensions = {[id |-> 99, payload |-> "inert", effect |-> "tax"]}]

\* A token that was found in a pool, which the stream does not observe.
MCPooled ==
  [MCSound EXCEPT !.market.found = "raydium",
                  !.market.native = [@ EXCEPT !.quality = "UNAVAILABLE", !.reason = "mint_not_observed", !.volume = -1]]

\* A curve on which a buy no longer pays for its way out.
MCDeep == [MCSound EXCEPT !.market.native.sellImpact = 250]

\* A token whose native state cannot be proven.
MCUnproven ==
  [MCSound EXCEPT !.market.native = [@ EXCEPT !.quality = "UNAVAILABLE", !.reason = "token_state_unproven", !.volume = -1]]

MCHistories == {<<MCSound, MCWhale>>, <<MCSound, MCGraduated>>, <<MCTaxed>>, <<MCPooled>>, <<MCDeep>>, <<MCUnproven>>}

ASSUME MarketsReal /\ TokensReal

==============================================================================
