---------------------------- MODULE MCEngineProcess ----------------------------
(***************************************************************************)
(* The engine's process on a small instance: two creations on Pump.fun,    *)
(* one of them nested in the call of a launchpad, a Raydium pool, and      *)
(* transactions that only look like creations.                             *)
(***************************************************************************)
EXTENDS EngineProcess

CONSTANTS t1, t2, t3, t4  \* t4 is never created

MCCall(depth, program, tag, accounts) ==
  [depth |-> depth, program |-> program, tag |-> tag, accounts |-> accounts]

MCTx(calls, signers, inits, makes) ==
  [ok |-> TRUE, calls |-> calls, signers |-> signers, inits |-> inits, held |-> {}, makes |-> makes]

MCPool(lp) == <<lp, "pool", "coin", "sol", "v1", "v2", "market", "user">>

MCTxs ==
  {\* a creation, and a creation nested in a launchpad that has an instruction
   \* of the same name
   MCTx(<<MCCall(1, "pumpfun", "createV2", <<t1>>), MCCall(2, "ata", "createAccount", <<"user">>)>>,
        {t1, "user"}, {}, {t1}),
   MCTx(<<MCCall(1, "launchpad", "create", <<t4>>), MCCall(2, "pumpfun", "create", <<t2>>)>>,
        {t2, t4, "user"}, {}, {t2}),
   \* a pool, beside an initialize2 whose LP mint exists already
   MCTx(<<MCCall(1, "raydium", "initialize2", MCPool(t4)), MCCall(1, "raydium", "initialize2", MCPool(t3))>>,
        {"user"}, {t3}, {t3}),
   \* a creation that failed
   [MCTx(<<MCCall(1, "pumpfun", "create", <<t4>>)>>, {t4, "user"}, {}, {}) EXCEPT !.ok = FALSE],
   \* a purchase that opens an account for its buyer
   MCTx(<<MCCall(1, "pumpfun", "buy", <<t4>>), MCCall(2, "ata", "createAccount", <<t4>>)>>,
        {"user"}, {}, {})}

ASSUME CreationsReal

==============================================================================
