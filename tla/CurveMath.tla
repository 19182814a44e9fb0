------------------------------- MODULE CurveMath -------------------------------
(***************************************************************************)
(* Bonding curve arithmetic: volume/bondingCurveMath.ts.  The code works   *)
(* in bigint, whose division truncates; every operand here is a natural    *)
(* number.  A curve is a record of its four reserves, `vs` and `vt` the    *)
(* virtual SOL and tokens, `rs` and `rt` the real ones.  -1 stands for the *)
(* null by which a function declines to answer.                            *)
(***************************************************************************)
EXTENDS Integers

CONSTANTS
  Scale,       \* SCALE: fixed point of the impacts
  FeeBps,      \* protocol fee of the curve, in basis points
  CreatorBps   \* its creator fee

ASSUME CurveAssumption ==
  /\ Scale \in Nat \ {0}
  /\ FeeBps \in 0..10000
  /\ CreatorBps \in 0..10000

BPS == 10000

\* The part of a SOL spend that reaches the curve after both fees.
EntryNetLamports(total) == (total * BPS) \div (BPS + FeeBps + CreatorBps)

\* Constant product, rounded down.
TokensOutForNetSol(c, net) ==
  IF net <= 0 \/ c.vs <= 0 \/ c.vt <= 0 THEN 0
  ELSE (net * c.vt) \div (c.vs + net)

SolOutForTokens(c, tokens) ==
  IF tokens <= 0 \/ c.vs <= 0 \/ c.vt <= 0 THEN 0
  ELSE (tokens * c.vs) \div (c.vt + tokens)

\* Execution price against spot price, scaled; -1 when the buy cannot be
\* priced: nothing comes out, or more than the curve still holds.
BuyPriceImpact(c, net) ==
  LET out == TokensOutForNetSol(c, net)
  IN  IF out <= 0 \/ out > c.rt THEN -1
      ELSE (net * c.vt * Scale) \div (out * c.vs) - Scale

\* How far a sale falls below the spot price, scaled; -1 when the curve does
\* not hold the proceeds.
SellPriceImpact(c, tokens) ==
  LET out == SolOutForTokens(c, tokens)
  IN  IF out <= 0 \/ out > c.rs THEN -1
      ELSE Scale - (out * c.vt * Scale) \div (tokens * c.vs)

\* The reserves before a trade, recovered from those after it.
PreTradeState(post, isBuy, sol, tok) ==
  LET s == IF isBuy THEN -sol ELSE sol
      t == IF isBuy THEN tok ELSE -tok
  IN  [vs |-> post.vs + s, vt |-> post.vt + t, rs |-> post.rs + s, rt |-> post.rt + t]

Abs(n) == IF n < 0 THEN -n ELSE n

\* The trade is a constant-product step: k preserved within 1e-6.
IsConstantProductStep(post, isBuy, sol, tok) ==
  LET pre == PreTradeState(post, isBuy, sol, tok)
  IN  /\ pre.vs > 0 /\ pre.vt > 0 /\ pre.rs >= 0 /\ pre.rt >= 0
      /\ post.vs > 0 /\ post.vt > 0
      /\ post.rs <= post.vs /\ post.rt <= post.vt
      /\ Abs(post.vs * post.vt - pre.vs * pre.vt) * 1000000 <= pre.vs * pre.vt

\* No trade is missing between the curve `prev` and this trade.
ChainLinks(prev, post, isBuy, sol, tok) == PreTradeState(post, isBuy, sol, tok) = prev

==============================================================================
