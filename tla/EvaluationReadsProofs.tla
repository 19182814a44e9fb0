------------------------- MODULE EvaluationReadsProofs -------------------------
(***************************************************************************)
(* For every set of tokens, every limit and every interleaving: a token    *)
(* never has two positions, recorded positions and buys under way together *)
(* stay within the position and exposure limits, each reservation belongs  *)
(* to exactly one buy under way, at most one fresh evaluation of a token   *)
(* runs, and none of those it superseded enters a position.                *)
(*                                                                         *)
(* Evaluations that share their reads are evaluations of the entry         *)
(* pipeline: whatever its theorems say holds of them too, for every        *)
(* history of the tokens, all caches and all limits.  And what they decide *)
(* on was true not long before.                                            *)
(***************************************************************************)
EXTENDS EvaluationReads, Sums, SequenceTheorems

------------------------------------------------------------------------------
\* The entry pipeline on its own.

\* The inductive invariant.  The exposure limit is inductive only together
\* with the match of reservations and buys: recording an entry adds a row and
\* must remove a reservation, or the sum would grow.
Inv ==
  /\ TypeOK
  /\ OnePositionPerMint
  /\ ExposureCap
  /\ ReservationsMatchBuys

------------------------------------------------------------------------------

\* Open rows and reservations are finitely many.
LEMMA Counts ==
  ASSUME TypeOK
  PROVE  /\ IsFiniteSet(OpenTrades) /\ Cardinality(OpenTrades) \in Nat
         /\ IsFiniteSet(reserved) /\ Cardinality(reserved) \in Nat
         /\ Len(trades) \in Nat /\ Len(evals) \in Nat
<1>1. Len(trades) \in Nat /\ Len(evals) \in Nat
  BY LenProperties DEF TypeOK
<1>2. IsFiniteSet(TradeIds)
  BY <1>1, FS_Interval DEF TradeIds
<1>3. IsFiniteSet(OpenTrades)
  BY <1>2, FS_Subset DEF OpenTrades
<1>4. IsFiniteSet(reserved)
  BY PipelineAssumption, FS_Subset DEF TypeOK
<1>5. QED
  BY <1>1, <1>3, <1>4, FS_CardinalityType

\* The ledger numbers a token's trades with natural numbers.
LEMMA EntryRowType ==
  ASSUME TypeOK, NEW m \in Mints
  PROVE  EntryRow(m) \in TradeRow /\ EntryRow(m).mint = m /\ EntryRow(m).status = "open"
<1>1. IsFiniteSet(TradeIds)
  BY Counts, FS_Interval DEF TradeIds
<1>2. IsFiniteSet(TradesOf(m))
  BY <1>1, FS_Subset DEF TradesOf
<1>3. Cardinality(TradesOf(m)) \in Nat
  BY <1>2, FS_CardinalityType
<1>4. History(m).totalTrades = Cardinality(TradesOf(m))
  BY DEF History
<1>5. QED
  BY <1>3, <1>4 DEF EntryRow, TradeRow

\* What it means that one evaluation e moves to r.
LEMMA EvalMoves ==
  ASSUME TypeOK, NEW e \in EvalIds, NEW r \in Evaluation,
         evals' = [evals EXCEPT ![e] = r]
  PROVE  /\ evals' \in Seq(Evaluation)
         /\ EvalIds' = EvalIds
         /\ Len(evals') = Len(evals)
         /\ \A f \in EvalIds : evals'[f] = IF f = e THEN r ELSE evals[f]
<1>1. evals \in Seq(Evaluation) /\ e \in 1..Len(evals)
  BY DEF TypeOK, EvalIds
<1>2. QED
  BY <1>1, ExceptSeq DEF EvalIds

\* An evaluation is a record of its type.
LEMMA EvalType ==
  ASSUME TypeOK, NEW e \in EvalIds
  PROVE  /\ evals[e] \in Evaluation
         /\ evals[e].mint \in Mints
         /\ evals[e].startedAt <= now
<1>1. evals \in Seq(Evaluation) /\ e \in 1..Len(evals) /\ evals[e].startedAt <= now
  BY DEF TypeOK, EvalIds
<1>2. evals[e] \in Evaluation
  BY <1>1, ElementOfSeq
<1>3. QED
  BY <1>1, <1>2 DEF Evaluation

\* Releasing a lease leaves the leases well typed.
LEMMA ReleasedType ==
  ASSUME TypeOK, NEW e \in EvalIds
  PROVE  Released(e) \in [Mints -> 0..Len(evals)]
<1>1. Len(evals) \in Nat /\ held \in [Mints -> 0..Len(evals)]
  BY Counts DEF TypeOK
<1>2. 0 \in 0..Len(evals)
  BY <1>1
<1>3. QED
  BY <1>1, <1>2 DEF Released

\* TypeOK of the next state, from the parts a step of an evaluation touches.
LEMMA EvalTypeInv ==
  ASSUME TypeOK, NEW e \in EvalIds, NEW r \in Evaluation,
         evals' = [evals EXCEPT ![e] = r],
         r.startedAt = evals[e].startedAt,
         held' \in [Mints -> 0..Len(evals)],
         reserved' \subseteq Mints,
         trades' \in Seq(TradeRow),
         monitored' \subseteq OpenTrades',
         daily' \in [Days -> [pnl : Int, latched : BOOLEAN]],
         UNCHANGED <<now, emergency, stopping, crashes>>
  PROVE  TypeOK'
<1>1. /\ evals' \in Seq(Evaluation)
      /\ EvalIds' = EvalIds
      /\ Len(evals') = Len(evals)
      /\ \A f \in EvalIds : evals'[f] = IF f = e THEN r ELSE evals[f]
  BY EvalMoves
<1>2. \A f \in EvalIds' : evals'[f].startedAt <= now'
  BY <1>1, EvalType
<1>3. held' \in [Mints -> 0..Len(evals')]
  BY <1>1
<1>4. now' \in 0..MaxTime /\ crashes' \in 0..MaxCrashes
  BY DEF TypeOK
<1>5. emergency' \in BOOLEAN /\ stopping' \in BOOLEAN
  BY Zenon DEF TypeOK
<1>6. QED
  BY <1>1, <1>2, <1>3, <1>4, <1>5 DEF TypeOK

\* One evaluation moves and the reservations follow: unchanged with the buys,
\* one more for a buy that starts, one less for a buy that ends.
LEMMA MatchInv ==
  ASSUME TypeOK, ReservationsMatchBuys, NEW e \in EvalIds, NEW r \in Evaluation,
         evals' = [evals EXCEPT ![e] = r],
         r.mint = evals[e].mint,
         \/ /\ r.pc = "buying" <=> evals[e].pc = "buying"
            /\ reserved' = reserved
         \/ /\ evals[e].pc # "buying" /\ r.pc = "buying"
            /\ r.mint \notin reserved
            /\ reserved' = reserved \union {r.mint}
         \/ /\ evals[e].pc = "buying" /\ r.pc # "buying"
            /\ reserved' = reserved \ {r.mint}
  PROVE  ReservationsMatchBuys'
<1>1. /\ EvalIds' = EvalIds
      /\ \A f \in EvalIds : evals'[f] = IF f = e THEN r ELSE evals[f]
  BY EvalMoves
<1>2. \A f \in EvalIds : evals'[f].mint = evals[f].mint
  BY <1>1
<1>3. Buying' = IF r.pc = "buying" THEN Buying \union {e} ELSE Buying \ {e}
  BY <1>1 DEF Buying
<1>4. Buying \subseteq EvalIds /\ (e \in Buying <=> evals[e].pc = "buying")
  BY DEF Buying
<1>5. /\ reserved = {evals[f].mint : f \in Buying}
      /\ \A f, g \in Buying : evals[f].mint = evals[g].mint => f = g
  BY DEF ReservationsMatchBuys
<1>6. Buying' \subseteq EvalIds
  BY <1>3, <1>4
<1>7. {evals'[f].mint : f \in Buying'} = {evals[f].mint : f \in Buying'}
  BY <1>2, <1>6
<1>8. \A f, g \in Buying' : evals'[f].mint = evals'[g].mint => evals[f].mint = evals[g].mint
  BY <1>2, <1>6
<1>9. CASE (r.pc = "buying" <=> evals[e].pc = "buying") /\ reserved' = reserved
  <2>1. Buying' = Buying
    BY <1>3, <1>4, <1>9
  <2>2. QED
    BY <1>5, <1>7, <1>8, <1>9, <2>1 DEF ReservationsMatchBuys
<1>10. CASE /\ evals[e].pc # "buying" /\ r.pc = "buying"
            /\ r.mint \notin reserved
            /\ reserved' = reserved \union {r.mint}
  <2>1. Buying' = Buying \union {e} /\ e \notin Buying
    BY <1>3, <1>4, <1>10
  <2>2. reserved' = {evals[f].mint : f \in Buying'}
    BY <1>5, <1>10, <2>1
  <2>3. \A f \in Buying : evals[f].mint # evals[e].mint
    BY <1>5, <1>10
  <2>4. \A f, g \in Buying' : evals[f].mint = evals[g].mint => f = g
    BY <1>5, <2>1, <2>3
  <2>5. QED
    BY <1>7, <1>8, <2>2, <2>4 DEF ReservationsMatchBuys
<1>11. CASE /\ evals[e].pc = "buying" /\ r.pc # "buying"
            /\ reserved' = reserved \ {r.mint}
  <2>1. Buying' = Buying \ {e} /\ e \in Buying
    BY <1>3, <1>4, <1>11
  <2>2. \A f \in Buying' : evals[f].mint # evals[e].mint
    BY <1>5, <2>1
  <2>3. reserved' = {evals[f].mint : f \in Buying'}
    BY <1>5, <1>11, <2>1, <2>2
  <2>4. QED
    BY <1>5, <1>7, <1>8, <2>1, <2>3 DEF ReservationsMatchBuys
<1>12. QED
  BY <1>9, <1>10, <1>11

\* The exposure of n positions, in terms of the limits.
LEMMA ExposureArithmetic ==
  ASSUME NEW n \in Nat
  PROVE  /\ CanOpenNewPosition(n) => n + 1 <= MaxPositions /\ (n + 1) * PositionSize <= MaxExposure
         /\ \A k \in Nat : k <= n => k * PositionSize <= n * PositionSize
         /\ 0 * PositionSize <= MaxExposure
<1>1. PositionSize \in Nat /\ MaxPositions \in Nat /\ MaxExposure \in Nat
  BY RiskAssumption
<1>2. (n + 1) * PositionSize = n * PositionSize + PositionSize
  BY <1>1
<1>3. CanOpenNewPosition(n) => n + 1 <= MaxPositions /\ (n + 1) * PositionSize <= MaxExposure
  BY <1>1, <1>2 DEF CanOpenNewPosition
<1>4. ASSUME NEW k \in Nat, k <= n PROVE k * PositionSize <= n * PositionSize
  <2>1. n * PositionSize = k * PositionSize + (n - k) * PositionSize
    BY <1>1
  <2>2. n - k \in Nat
    BY <1>4
  <2>3. (n - k) * PositionSize \in Nat /\ k * PositionSize \in Nat
    BY <1>1, <2>2
  <2>4. QED
    BY <2>1, <2>3
<1>5. QED
  BY <1>1, <1>3, <1>4

\* The limits hold of no more positions than before.
LEMMA FewerPositions ==
  ASSUME TypeOK, ExposureCap,
         Cardinality(OpenTrades)' \in Nat, Cardinality(reserved)' \in Nat,
         Cardinality(OpenTrades)' + Cardinality(reserved)'
           <= Cardinality(OpenTrades) + Cardinality(reserved)
  PROVE  ExposureCap'
<1> DEFINE n == Cardinality(OpenTrades) + Cardinality(reserved)
           k == Cardinality(OpenTrades)' + Cardinality(reserved)'
<1>1. n \in Nat /\ k \in Nat /\ k <= n
  BY Counts
<1>2. n <= MaxPositions /\ n * PositionSize <= MaxExposure
  BY DEF ExposureCap
<1>3. k * PositionSize <= n * PositionSize
  <2> HIDE DEF n, k
  <2> QED
    BY <1>1, ExposureArithmetic
<1>4. k * PositionSize \in Int /\ n * PositionSize \in Int /\ MaxPositions \in Nat /\ MaxExposure \in Nat
  <2> HIDE DEF n, k
  <2> QED
    BY <1>1, RiskAssumption
<1>5. k <= MaxPositions /\ k * PositionSize <= MaxExposure
  <2> HIDE DEF n, k
  <2> QED
    BY <1>1, <1>2, <1>3, <1>4
<1>6. QED
  BY <1>5 DEF ExposureCap

------------------------------------------------------------------------------

\* Rows that stay keep the open trades and their tokens.
LEMMA SameTrades ==
  ASSUME trades' = trades
  PROVE  OpenTrades' = OpenTrades /\ OpenMints' = OpenMints
BY DEF OpenTrades, OpenMints, TradeIds

\* An evaluation that neither starts nor ends a buy: it is rejected or
\* refused, or its buy lands.
LEMMA EvalOnlyInv ==
  ASSUME Inv, NEW e \in EvalIds, NEW r \in Evaluation,
         evals' = [evals EXCEPT ![e] = r],
         r.mint = evals[e].mint, r.startedAt = evals[e].startedAt,
         r.pc = "buying" <=> evals[e].pc = "buying",
         held' \in [Mints -> 0..Len(evals)],
         daily' \in [Days -> [pnl : Int, latched : BOOLEAN]],
         UNCHANGED <<now, reserved, monitored, emergency, stopping, trades, crashes>>
  PROVE  Inv'
<1>1. TypeOK'
  BY EvalTypeInv, SameTrades DEF Inv, TypeOK
<1>2. OnePositionPerMint'
  BY SameTrades DEF Inv, OnePositionPerMint
<1>3. ExposureCap'
  BY SameTrades DEF Inv, ExposureCap
<1>4. ReservationsMatchBuys'
  BY MatchInv DEF Inv
<1>5. QED
  BY <1>1, <1>2, <1>3, <1>4 DEF Inv

\* The decision leaves the day's rows well typed.
LEMMA LatchType ==
  ASSUME TypeOK, NEW e \in EvalIds, LatchOnDecision(e)
  PROVE  daily' \in [Days -> [pnl : Int, latched : BOOLEAN]]
<1> DEFINE d == DecisionDay(e)
           b == ShouldLatchCircuitBreaker(daily[d].latched, daily[d].pnl, StartingBalance)
<1>1. daily' = [daily EXCEPT ![d].latched = b]
  BY DEF LatchOnDecision
<1>2. daily \in [Days -> [pnl : Int, latched : BOOLEAN]]
  BY DEF TypeOK
<1>3. d \in Days => b \in BOOLEAN
  BY <1>2, Zenon DEF ShouldLatchCircuitBreaker, IsDailyLossLimitBreached
<1> HIDE DEF d, b
<1>4. d \in Days => [daily[d] EXCEPT !.latched = b] \in [pnl : Int, latched : BOOLEAN]
  BY <1>2, <1>3
<1>5. QED
  BY <1>1, <1>2, <1>4

LEMMA RejectInv ==
  ASSUME Inv, NEW e \in EvalIds, Reject(e)
  PROVE  Inv'
<1> DEFINE r == [evals[e] EXCEPT !.pc = "done"]
<1>1. r \in Evaluation /\ r.mint = evals[e].mint /\ r.startedAt = evals[e].startedAt /\ r.pc = "done"
  BY EvalType DEF Inv, Evaluation
<1>2. evals' = [evals EXCEPT ![e] = r] /\ held' = Released(e)
  BY DEF Reject, Finish
<1>3. held' \in [Mints -> 0..Len(evals)] /\ daily' \in [Days -> [pnl : Int, latched : BOOLEAN]]
  BY <1>2, ReleasedType DEF Inv, TypeOK, Reject
<1> HIDE DEF r
<1>4. QED
  BY <1>1, <1>2, <1>3, EvalOnlyInv DEF Reject

LEMMA RefuseInv ==
  ASSUME Inv, NEW e \in EvalIds, Refuse(e)
  PROVE  Inv'
<1> DEFINE r == [evals[e] EXCEPT !.pc = "done"]
<1>1. r \in Evaluation /\ r.mint = evals[e].mint /\ r.startedAt = evals[e].startedAt /\ r.pc = "done"
  BY EvalType DEF Inv, Evaluation
<1>2. evals' = [evals EXCEPT ![e] = r] /\ held' = Released(e)
  BY DEF Refuse, Finish
<1>3. held' \in [Mints -> 0..Len(evals)] /\ daily' \in [Days -> [pnl : Int, latched : BOOLEAN]]
  BY <1>2, ReleasedType, LatchType DEF Inv, Refuse
<1> HIDE DEF r
<1>4. QED
  BY <1>1, <1>2, <1>3, EvalOnlyInv DEF Refuse

LEMMA BuyLandsInv ==
  ASSUME Inv, NEW e \in EvalIds, BuyLands(e)
  PROVE  Inv'
<1> DEFINE r == [evals[e] EXCEPT !.landed = TRUE]
<1>1. r \in Evaluation /\ r.mint = evals[e].mint /\ r.startedAt = evals[e].startedAt /\ r.pc = evals[e].pc
  BY EvalType DEF Inv, Evaluation
<1>2. evals' = [evals EXCEPT ![e] = r]
  BY DEF BuyLands
<1>3. held' \in [Mints -> 0..Len(evals)] /\ daily' \in [Days -> [pnl : Int, latched : BOOLEAN]]
  BY DEF Inv, TypeOK, BuyLands
<1> HIDE DEF r
<1>4. QED
  BY <1>1, <1>2, <1>3, EvalOnlyInv DEF BuyLands

\* A commit adds one reservation, of a token that had neither position nor
\* buy, after the risk decision found room for one more.
LEMMA CommitInv ==
  ASSUME Inv, NEW e \in EvalIds, Commit(e)
  PROVE  Inv'
<1> DEFINE r == [evals[e] EXCEPT !.pc = "buying"]
           m == evals[e].mint
<1>1. /\ r \in Evaluation /\ r.mint = m /\ r.startedAt = evals[e].startedAt /\ r.pc = "buying"
      /\ m \in Mints
  BY EvalType DEF Inv, Evaluation
<1>2. /\ evals' = [evals EXCEPT ![e] = r]
      /\ evals[e].pc = "gathering"
      /\ reserved' = reserved \union {m}
      /\ m \notin reserved /\ m \notin OpenMints
      /\ CanOpenNewPosition(Commitments)
      /\ UNCHANGED <<now, held, monitored, emergency, stopping, trades, crashes>>
  BY DEF Commit, MayCommit, RiskAllows, EntryAllowed
<1>3. daily' \in [Days -> [pnl : Int, latched : BOOLEAN]]
  BY LatchType DEF Inv, Commit
<1> HIDE DEF r
<1>4. TypeOK'
  <2>1. held' \in [Mints -> 0..Len(evals)] /\ reserved' \subseteq Mints /\ trades' \in Seq(TradeRow)
    BY <1>1, <1>2 DEF Inv, TypeOK
  <2>2. monitored' \subseteq OpenTrades'
    BY <1>2, SameTrades DEF Inv, TypeOK
  <2>3. QED
    BY <1>1, <1>2, <1>3, <2>1, <2>2, EvalTypeInv DEF Inv
<1>5. OnePositionPerMint'
  BY <1>2, SameTrades DEF Inv, OnePositionPerMint
<1>6. ExposureCap'
  <2>1. Cardinality(reserved') = Cardinality(reserved) + 1
    BY <1>2, Counts, FS_AddElement DEF Inv
  <2>2. Cardinality(OpenTrades)' + Cardinality(reserved)' = Commitments + 1 /\ Commitments \in Nat
    BY <1>2, <2>1, Counts, SameTrades DEF Inv, Commitments
  <2>3. Commitments + 1 <= MaxPositions /\ (Commitments + 1) * PositionSize <= MaxExposure
    BY <1>2, <2>2, ExposureArithmetic
  <2>4. QED
    BY <2>2, <2>3 DEF ExposureCap
<1>7. ReservationsMatchBuys'
  BY <1>1, <1>2, MatchInv DEF Inv
<1>8. QED
  BY <1>4, <1>5, <1>6, <1>7 DEF Inv

\* A buy that ends without a row gives up its reservation.
LEMMA BuyEndsInv ==
  ASSUME Inv, NEW e \in EvalIds, BuyFailed(e) \/ BuyLost(e)
  PROVE  Inv'
<1> DEFINE r == [evals[e] EXCEPT !.pc = "done"]
           m == evals[e].mint
<1>1. /\ r \in Evaluation /\ r.mint = m /\ r.startedAt = evals[e].startedAt /\ r.pc = "done"
      /\ m \in Mints
  BY EvalType DEF Inv, Evaluation
<1>2. /\ evals' = [evals EXCEPT ![e] = r]
      /\ evals[e].pc = "buying"
      /\ held' = Released(e)
      /\ reserved' = reserved \ {m}
      /\ UNCHANGED <<now, monitored, emergency, stopping, trades, daily, crashes>>
  BY DEF BuyFailed, BuyLost, Finish, Unreserved
<1> HIDE DEF r
<1>3. TypeOK'
  <2>1. held' \in [Mints -> 0..Len(evals)]
    BY <1>2, ReleasedType DEF Inv
  <2>2. reserved' \subseteq Mints /\ trades' \in Seq(TradeRow)
        /\ daily' \in [Days -> [pnl : Int, latched : BOOLEAN]]
    BY <1>2 DEF Inv, TypeOK
  <2>3. monitored' \subseteq OpenTrades'
    BY <1>2, SameTrades DEF Inv, TypeOK
  <2>4. QED
    BY <1>1, <1>2, <2>1, <2>2, <2>3, EvalTypeInv DEF Inv
<1>4. OnePositionPerMint'
  BY <1>2, SameTrades DEF Inv, OnePositionPerMint
<1>5. ExposureCap'
  <2>1. Cardinality(reserved') \in Nat /\ Cardinality(reserved') <= Cardinality(reserved)
    BY <1>2, Counts, FS_Subset, FS_CardinalityType DEF Inv
  <2>2. Cardinality(OpenTrades)' = Cardinality(OpenTrades) /\ Cardinality(OpenTrades) \in Nat
    BY <1>2, SameTrades, Counts DEF Inv
  <2>3. QED
    BY <2>1, <2>2, Counts, FewerPositions DEF Inv
<1>6. ReservationsMatchBuys'
  BY <1>1, <1>2, MatchInv DEF Inv
<1>7. QED
  BY <1>3, <1>4, <1>5, <1>6 DEF Inv

\* The new row is one more open trade, of its token.
LEMMA RowAppended ==
  ASSUME TypeOK, NEW m \in Mints, trades' = Append(trades, EntryRow(m))
  PROVE  /\ trades' \in Seq(TradeRow)
         /\ OpenTrades' = OpenTrades \union {Len(trades) + 1}
         /\ Len(trades) + 1 \notin OpenTrades
         /\ trades'[Len(trades) + 1].mint = m
         /\ \A i \in OpenTrades : trades'[i] = trades[i]
         /\ OpenMints' = OpenMints \union {m}
<1>1. /\ EntryRow(m) \in TradeRow /\ EntryRow(m).mint = m /\ EntryRow(m).status = "open"
      /\ Len(trades) \in Nat /\ trades \in Seq(TradeRow)
  BY EntryRowType, Counts DEF TypeOK
<1>2. /\ trades' \in Seq(TradeRow)
      /\ Len(trades') = Len(trades) + 1
      /\ \A i \in 1..Len(trades) : trades'[i] = trades[i]
      /\ trades'[Len(trades) + 1] = EntryRow(m)
  BY <1>1, AppendProperties
<1>3. TradeIds' = TradeIds \union {Len(trades) + 1} /\ Len(trades) + 1 \notin TradeIds
  BY <1>1, <1>2 DEF TradeIds
<1>4. OpenTrades' = OpenTrades \union {Len(trades) + 1}
  BY <1>1, <1>2, <1>3 DEF OpenTrades, TradeIds
<1>5. \A i \in OpenTrades : trades'[i] = trades[i] /\ i # Len(trades) + 1
  BY <1>2, <1>3 DEF OpenTrades, TradeIds
<1>6. OpenMints' = OpenMints \union {m}
  BY <1>1, <1>2, <1>4, <1>5 DEF OpenMints
<1>7. QED
  BY <1>1, <1>2, <1>4, <1>5, <1>6

\* A recorded entry turns its reservation into a row.
LEMMA RecordInv ==
  ASSUME Inv, NEW e \in EvalIds, BuyFilled(e) \/ BuyFilledHalfRecorded(e)
  PROVE  Inv'
<1> DEFINE r == [evals[e] EXCEPT !.pc = "done", !.landed = FALSE]
           m == evals[e].mint
<1>1. /\ r \in Evaluation /\ r.mint = m /\ r.startedAt = evals[e].startedAt /\ r.pc = "done"
      /\ m \in Mints
  BY EvalType DEF Inv, Evaluation
<1>2. /\ evals' = [evals EXCEPT ![e] = r]
      /\ evals[e].pc = "buying"
      /\ held' = Released(e)
      /\ reserved' = reserved \ {m}
      /\ trades' = Append(trades, EntryRow(m))
      /\ monitored' \subseteq monitored \union {Len(trades) + 1}
      /\ UNCHANGED <<now, emergency, stopping, daily, crashes>>
  BY DEF BuyFilled, BuyFilledHalfRecorded, RecordEntry, Unreserved
<1>3. m \in reserved
  <2>1. e \in Buying
    BY <1>2 DEF Buying
  <2>2. QED
    BY <2>1 DEF Inv, ReservationsMatchBuys
<1>4. /\ trades' \in Seq(TradeRow)
      /\ OpenTrades' = OpenTrades \union {Len(trades) + 1}
      /\ Len(trades) + 1 \notin OpenTrades
      /\ trades'[Len(trades) + 1].mint = m
      /\ \A i \in OpenTrades : trades'[i] = trades[i]
      /\ OpenMints' = OpenMints \union {m}
  BY <1>1, <1>2, RowAppended DEF Inv
<1>5. m \notin OpenMints
  BY <1>3 DEF Inv, OnePositionPerMint
<1> HIDE DEF r
<1>6. TypeOK'
  <2>1. held' \in [Mints -> 0..Len(evals)]
    BY <1>2, ReleasedType DEF Inv
  <2>2. reserved' \subseteq Mints /\ monitored' \subseteq OpenTrades'
        /\ daily' \in [Days -> [pnl : Int, latched : BOOLEAN]]
    BY <1>2, <1>4 DEF Inv, TypeOK
  <2>3. QED
    BY <1>1, <1>2, <1>4, <2>1, <2>2, EvalTypeInv DEF Inv
<1>7. OnePositionPerMint'
  <2>1. \A i \in OpenTrades : trades[i].mint # m
    BY <1>5 DEF OpenMints
  <2>2. \A i, j \in OpenTrades' : trades'[i].mint = trades'[j].mint => i = j
    BY <1>4, <2>1 DEF Inv, OnePositionPerMint
  <2>3. reserved' \intersect OpenMints' = {}
    BY <1>2, <1>4 DEF Inv, OnePositionPerMint
  <2>4. QED
    BY <2>2, <2>3 DEF OnePositionPerMint
<1>8. ExposureCap'
  <2>1. Cardinality(reserved)' = Cardinality(reserved) - 1
    BY <1>2, <1>3, Counts, FS_RemoveElement DEF Inv
  <2>2. Cardinality(OpenTrades)' = Cardinality(OpenTrades) + 1
    BY <1>4, Counts, FS_AddElement DEF Inv
  <2>3. Cardinality(OpenTrades)' + Cardinality(reserved)' = Cardinality(OpenTrades) + Cardinality(reserved)
    BY <2>1, <2>2, Counts DEF Inv
  <2>4. QED
    BY <2>3 DEF Inv, ExposureCap
<1>9. ReservationsMatchBuys'
  BY <1>1, <1>2, MatchInv DEF Inv
<1>10. QED
  BY <1>6, <1>7, <1>8, <1>9 DEF Inv

\* A new evaluation is no buy.
LEMMA StartEvaluationInv ==
  ASSUME Inv, NEW m \in Mints, StartEvaluation(m)
  PROVE  Inv'
<1> DEFINE r == [mint |-> m, startedAt |-> now, pc |-> "gathering", landed |-> FALSE]
<1>1. /\ evals \in Seq(Evaluation) /\ Len(evals) \in Nat
      /\ now \in Nat /\ now \in 0..MaxTime
      /\ held \in [Mints -> 0..Len(evals)]
  BY PipelineAssumption, Counts DEF Inv, TypeOK
<1>2. r \in Evaluation
  BY <1>1 DEF Evaluation
<1>3. /\ evals' = Append(evals, r)
      /\ held' = [held EXCEPT ![m] = Len(evals) + 1]
      /\ UNCHANGED <<now, reserved, monitored, emergency, stopping, trades, daily, crashes>>
  BY DEF StartEvaluation
<1>4. /\ evals' \in Seq(Evaluation)
      /\ Len(evals') = Len(evals) + 1
      /\ \A f \in EvalIds : evals'[f] = evals[f]
      /\ evals'[Len(evals) + 1] = r
  BY <1>1, <1>2, <1>3, AppendProperties DEF EvalIds
<1>5. EvalIds' = EvalIds \union {Len(evals) + 1} /\ Len(evals) + 1 \notin EvalIds
  BY <1>1, <1>4 DEF EvalIds
<1>6. TypeOK'
  <2>1. \A f \in EvalIds' : evals'[f].startedAt <= now'
    <3>1. \A f \in EvalIds : evals'[f].startedAt <= now'
      BY <1>3, <1>4 DEF Inv, TypeOK
    <3>2. evals'[Len(evals) + 1].startedAt <= now'
      BY <1>1, <1>3, <1>4
    <3>3. QED
      BY <1>5, <3>1, <3>2
  <2>2. held' \in [Mints -> 0..Len(evals')]
    BY <1>1, <1>3, <1>4
  <2>3. monitored' \subseteq OpenTrades'
    BY <1>3, SameTrades DEF Inv, TypeOK
  <2>4. emergency' \in BOOLEAN /\ stopping' \in BOOLEAN
    BY <1>3, Zenon DEF Inv, TypeOK
  <2>5. QED
    BY <1>1, <1>3, <1>4, <2>1, <2>2, <2>3, <2>4 DEF Inv, TypeOK
<1>7. OnePositionPerMint' /\ ExposureCap'
  BY <1>3, SameTrades DEF Inv, OnePositionPerMint, ExposureCap
<1>8. ReservationsMatchBuys'
  <2>1. Buying' = Buying /\ Buying \subseteq EvalIds
    BY <1>4, <1>5 DEF Buying
  <2>2. \A f \in Buying : evals'[f].mint = evals[f].mint
    BY <1>4, <2>1
  <2>3. {evals'[f].mint : f \in Buying'} = {evals[f].mint : f \in Buying}
    BY <2>1, <2>2
  <2>4. reserved' = {evals'[f].mint : f \in Buying'}
    BY <1>3, <2>3 DEF Inv, ReservationsMatchBuys
  <2>5. \A f, g \in Buying' : evals'[f].mint = evals'[g].mint => f = g
    BY <2>1, <2>2 DEF Inv, ReservationsMatchBuys
  <2>6. QED
    BY <2>4, <2>5 DEF ReservationsMatchBuys
<1>9. QED
  BY <1>6, <1>7, <1>8 DEF Inv

\* A close removes one open trade and touches no other.
LEMMA ClosePositionInv ==
  ASSUME Inv, NEW i \in TradeIds, NEW pnl \in ExitPnls, ClosePosition(i, pnl)
  PROVE  Inv'
<1> DEFINE row == [trades[i] EXCEPT !.status = "closed", !.pnl = pnl, !.exitAt = now]
<1>1. /\ trades \in Seq(TradeRow) /\ i \in 1..Len(trades) /\ trades[i] \in TradeRow
      /\ now \in Int /\ pnl \in Int
  BY PipelineAssumption, ElementOfSeq DEF Inv, TypeOK, TradeIds
<1>2. row \in TradeRow /\ row.mint = trades[i].mint /\ row.status = "closed"
  BY <1>1 DEF TradeRow
<1>3. /\ trades' = [trades EXCEPT ![i] = row]
      /\ i \in monitored /\ monitored' = monitored \ {i}
      /\ daily' = [daily EXCEPT ![Day(now)] = AfterExit(@, pnl)]
      /\ UNCHANGED <<now, held, evals, reserved, emergency, stopping, crashes>>
  BY DEF ClosePosition
<1> HIDE DEF row
<1>4. /\ trades' \in Seq(TradeRow)
      /\ Len(trades') = Len(trades)
      /\ \A j \in TradeIds : trades'[j] = IF j = i THEN row ELSE trades[j]
  BY <1>1, <1>2, <1>3, ExceptSeq DEF TradeIds
<1>5. OpenTrades' = OpenTrades \ {i} /\ i \in OpenTrades
  BY <1>2, <1>3, <1>4 DEF OpenTrades, TradeIds, Inv, TypeOK
<1>6. \A j \in OpenTrades' : j \in OpenTrades /\ trades'[j] = trades[j]
  BY <1>4, <1>5 DEF OpenTrades
<1>7. TypeOK'
  <2>1. daily' \in [Days -> [pnl : Int, latched : BOOLEAN]]
    <3>1. daily \in [Days -> [pnl : Int, latched : BOOLEAN]]
      BY DEF Inv, TypeOK
    <3>2. ASSUME NEW day \in [pnl : Int, latched : BOOLEAN]
          PROVE  AfterExit(day, pnl) \in [pnl : Int, latched : BOOLEAN]
      <4>1. day.pnl + pnl \in Int
        BY <1>1
      <4>2. (day.latched \/ IsDailyLossLimitBreached(day.pnl + pnl, StartingBalance)) \in BOOLEAN
        BY Zenon DEF IsDailyLossLimitBreached
      <4>3. QED
        BY <4>1, <4>2 DEF AfterExit
    <3>3. QED
      BY <1>3, <3>1, <3>2
  <2>2. monitored' \subseteq OpenTrades'
    BY <1>3, <1>5 DEF Inv, TypeOK
  <2>3. \A e \in EvalIds' : evals'[e].startedAt <= now'
    BY <1>3 DEF Inv, TypeOK, EvalIds
  <2>4. emergency' \in BOOLEAN /\ stopping' \in BOOLEAN
    BY <1>3, Zenon DEF Inv, TypeOK
  <2>5. QED
    BY <1>3, <1>4, <2>1, <2>2, <2>3, <2>4 DEF Inv, TypeOK
<1>8. OnePositionPerMint'
  <2>1. OpenMints' \subseteq OpenMints
    BY <1>6 DEF OpenMints
  <2>2. QED
    BY <1>3, <1>6, <2>1 DEF Inv, OnePositionPerMint
<1>9. ExposureCap'
  <2>1. Cardinality(OpenTrades)' = Cardinality(OpenTrades) - 1 /\ Cardinality(OpenTrades)' \in Nat
    BY <1>5, Counts, FS_RemoveElement, FS_CardinalityType DEF Inv
  <2>2. QED
    BY <1>3, <2>1, Counts, FewerPositions DEF Inv
<1>10. ReservationsMatchBuys'
  BY <1>3 DEF Inv, ReservationsMatchBuys, Buying, EvalIds
<1>11. QED
  BY <1>7, <1>8, <1>9, <1>10 DEF Inv

\* A restart ends every buy and forgets every reservation.
LEMMA RestartInv ==
  ASSUME Inv, Restart
  PROVE  Inv'
<1>1. /\ evals' = [e \in EvalIds |-> [evals[e] EXCEPT !.pc = "done"]]
      /\ held' = [m \in Mints |-> 0]
      /\ reserved' = {}
      /\ stopping' = FALSE
      /\ monitored' \in SUBSET Recoverable
      /\ emergency' = (monitored' # Recoverable)
      /\ crashes < MaxCrashes /\ crashes' = crashes + 1
      /\ UNCHANGED <<now, trades, daily>>
  BY DEF Restart
<1>2. evals \in Seq(Evaluation) /\ Len(evals) \in Nat
  BY Counts DEF Inv, TypeOK
<1>3. evals' \in Seq(Evaluation) /\ Len(evals') = Len(evals)
  <2>1. \A e \in EvalIds : [evals[e] EXCEPT !.pc = "done"] \in Evaluation
    BY EvalType DEF Inv, Evaluation
  <2>2. evals' \in [1..Len(evals) -> Evaluation]
    BY <1>1, <2>1 DEF EvalIds
  <2>3. QED
    BY <1>2, <2>2
<1>4. EvalIds' = EvalIds /\ \A e \in EvalIds : evals'[e] = [evals[e] EXCEPT !.pc = "done"]
  BY <1>1, <1>3 DEF EvalIds
<1>5. \A e \in EvalIds : evals'[e].pc = "done" /\ evals'[e].startedAt = evals[e].startedAt
  BY <1>4, EvalType DEF Inv, Evaluation
<1>6. TypeOK'
  <2>1. held' \in [Mints -> 0..Len(evals')]
    <3>1. 0 \in 0..Len(evals')
      BY <1>2, <1>3
    <3>2. QED
      BY <1>1, <3>1
  <2>2. monitored' \subseteq OpenTrades'
    BY <1>1, SameTrades DEF Recoverable
  <2>3. \A e \in EvalIds' : evals'[e].startedAt <= now'
    BY <1>1, <1>4, <1>5 DEF Inv, TypeOK
  <2>4. emergency' \in BOOLEAN /\ stopping' \in BOOLEAN /\ reserved' \subseteq Mints
    BY <1>1, Zenon
  <2>5. crashes' \in 0..MaxCrashes
    BY <1>1, PipelineAssumption DEF Inv, TypeOK
  <2>6. QED
    BY <1>1, <1>3, <2>1, <2>2, <2>3, <2>4, <2>5 DEF Inv, TypeOK
<1>7. OnePositionPerMint'
  BY <1>1, SameTrades DEF Inv, OnePositionPerMint
<1>8. ExposureCap'
  <2>1. Cardinality(reserved)' = 0
    BY <1>1, FS_EmptySet
  <2>2. Cardinality(OpenTrades)' = Cardinality(OpenTrades)
    BY <1>1, SameTrades
  <2>3. QED
    BY <2>1, <2>2, Counts, FewerPositions DEF Inv
<1>9. ReservationsMatchBuys'
  <2>1. Buying' = {}
    BY <1>4, <1>5 DEF Buying
  <2>2. QED
    BY <1>1, <2>1 DEF ReservationsMatchBuys
<1>10. QED
  BY <1>6, <1>7, <1>8, <1>9 DEF Inv

\* The steps that touch neither evaluations nor rows.
LEMMA OtherInv ==
  ASSUME Inv,
         \/ Tick \/ StopOrchestrator \/ UNCHANGED vars
         \/ \E m \in Mints : SkipEvaluation(m)
         \/ \E i \in TradeIds : GiveUpPosition(i)
  PROVE  Inv'
<1>1. UNCHANGED <<evals, reserved, trades, daily, crashes>> /\ monitored' \subseteq monitored
  BY DEF Tick, StopOrchestrator, SkipEvaluation, GiveUpPosition, vars
<1>2. now' \in 0..MaxTime /\ now' >= now
  BY PipelineAssumption DEF Inv, TypeOK, Tick, StopOrchestrator, SkipEvaluation, GiveUpPosition, vars
<1>3. held' \in [Mints -> 0..Len(evals)]
  <2>1. Len(evals) \in Nat /\ held \in [Mints -> 0..Len(evals)] /\ 0 \in 0..Len(evals)
    BY Counts DEF Inv, TypeOK
  <2>2. CASE UNCHANGED held
    BY <2>1, <2>2
  <2>3. CASE \E m \in Mints : SkipEvaluation(m)
    BY <2>1, <2>3 DEF SkipEvaluation
  <2>4. QED
    BY <2>2, <2>3 DEF Tick, StopOrchestrator, GiveUpPosition, vars
<1>4. emergency' \in BOOLEAN /\ stopping' \in BOOLEAN
  <2>1. emergency \in BOOLEAN /\ stopping \in BOOLEAN
    BY DEF Inv, TypeOK
  <2>2. /\ emergency' = emergency \/ emergency' = TRUE
        /\ stopping' = stopping \/ stopping' = TRUE
    BY Zenon DEF Tick, StopOrchestrator, SkipEvaluation, GiveUpPosition, vars
  <2>3. QED
    BY <2>1, <2>2, Zenon
<1>5. TypeOK'
  <2>1. \A e \in EvalIds' : evals'[e].startedAt <= now'
    <3>1. EvalIds' = EvalIds
      BY <1>1 DEF EvalIds
    <3>2. ASSUME NEW e \in EvalIds PROVE evals[e].startedAt <= now'
      <4>1. evals[e].startedAt \in Nat /\ evals[e].startedAt <= now
        BY EvalType DEF Inv, Evaluation
      <4>2. QED
        BY <1>2, <4>1 DEF Inv, TypeOK
    <3>3. QED
      BY <1>1, <3>1, <3>2
  <2>2. monitored' \subseteq OpenTrades'
    BY <1>1, SameTrades DEF Inv, TypeOK
  <2>3. QED
    BY <1>1, <1>2, <1>3, <1>4, <2>1, <2>2 DEF Inv, TypeOK
<1>6. OnePositionPerMint' /\ ExposureCap'
  BY <1>1, SameTrades DEF Inv, OnePositionPerMint, ExposureCap
<1>7. ReservationsMatchBuys'
  BY <1>1 DEF Inv, ReservationsMatchBuys, Buying, EvalIds
<1>8. QED
  BY <1>5, <1>6, <1>7 DEF Inv

\* Every step keeps the invariant.
LEMMA NextInv ==
  ASSUME Inv, [Next]_vars
  PROVE  Inv'
<1>1. CASE \/ Tick \/ StopOrchestrator \/ UNCHANGED vars
           \/ \E m \in Mints : SkipEvaluation(m)
           \/ \E i \in TradeIds : GiveUpPosition(i)
  BY <1>1, OtherInv
<1>2. CASE Restart
  BY <1>2, RestartInv
<1>3. CASE \E m \in Mints : StartEvaluation(m)
  BY <1>3, StartEvaluationInv
<1>4. CASE \E e \in EvalIds : Reject(e)
  BY <1>4, RejectInv
<1>5. CASE \E e \in EvalIds : Commit(e)
  BY <1>5, CommitInv
<1>6. CASE \E e \in EvalIds : Refuse(e)
  BY <1>6, RefuseInv
<1>7. CASE \E e \in EvalIds : BuyLands(e)
  BY <1>7, BuyLandsInv
<1>8. CASE \E e \in EvalIds : BuyFilled(e) \/ BuyFilledHalfRecorded(e)
  BY <1>8, RecordInv
<1>9. CASE \E e \in EvalIds : BuyFailed(e) \/ BuyLost(e)
  BY <1>9, BuyEndsInv
<1>10. CASE \E i \in TradeIds : \E pnl \in ExitPnls : ClosePosition(i, pnl)
  BY <1>10, ClosePositionInv
<1>11. QED
  BY <1>1, <1>2, <1>3, <1>4, <1>5, <1>6, <1>7, <1>8, <1>9, <1>10 DEF Next, Ticks

\* Nothing is open, reserved or under way at the start.
LEMMA InitInv ==
  ASSUME Init
  PROVE  Inv
<1>1. /\ now = 0 /\ held = [m \in Mints |-> 0] /\ evals = <<>> /\ reserved = {}
      /\ monitored = {} /\ emergency = FALSE /\ stopping = FALSE /\ trades = <<>>
      /\ daily = [d \in Days |-> [pnl |-> 0, latched |-> FALSE]] /\ crashes = 0
  BY DEF Init
<1>2. Len(evals) = 0 /\ evals \in Seq(Evaluation) /\ EvalIds = {}
  BY <1>1 DEF EvalIds
<1>3. Len(trades) = 0 /\ trades \in Seq(TradeRow) /\ TradeIds = {}
  BY <1>1 DEF TradeIds
<1>4. OpenTrades = {} /\ OpenMints = {} /\ Buying = {}
  BY <1>2, <1>3 DEF OpenTrades, OpenMints, Buying
<1>5. TypeOK
  <2>1. held \in [Mints -> 0..Len(evals)]
    BY <1>1, <1>2
  <2>2. now \in 0..MaxTime /\ crashes \in 0..MaxCrashes
    BY <1>1, PipelineAssumption
  <2>3. daily \in [Days -> [pnl : Int, latched : BOOLEAN]]
    BY <1>1
  <2>4. emergency \in BOOLEAN /\ stopping \in BOOLEAN /\ reserved \subseteq Mints
        /\ monitored \subseteq OpenTrades
    BY <1>1
  <2>5. QED
    BY <1>2, <1>3, <2>1, <2>2, <2>3, <2>4 DEF TypeOK
<1>6. OnePositionPerMint
  BY <1>1, <1>4 DEF OnePositionPerMint
<1>7. ExposureCap
  <2>1. Cardinality(OpenTrades) = 0 /\ Cardinality(reserved) = 0
    BY <1>1, <1>4, FS_EmptySet
  <2>2. 0 + 0 <= MaxPositions /\ (0 + 0) * PositionSize <= MaxExposure
    BY RiskAssumption
  <2>3. QED
    BY <2>1, <2>2 DEF ExposureCap
<1>8. ReservationsMatchBuys
  BY <1>1, <1>4 DEF ReservationsMatchBuys
<1>9. QED
  BY <1>5, <1>6, <1>7, <1>8 DEF Inv

\* However evaluations, takeovers, late buys, closes and restarts interleave,
\* a token has at most one position, the position and exposure limits hold of
\* positions and buys under way together, and reservations are exactly the
\* buys under way.
THEOREM PipelineSafety ==
  Spec => [](TypeOK /\ OnePositionPerMint /\ ExposureCap /\ ReservationsMatchBuys)
<1>1. Init => Inv
  BY InitInv
<1>2. Inv /\ [Next]_vars => Inv'
  BY NextInv
<1>3. Inv => TypeOK /\ OnePositionPerMint /\ ExposureCap /\ ReservationsMatchBuys
  BY DEF Inv
<1>4. QED
  BY <1>1, <1>2, <1>3, PTL DEF Spec

------------------------------------------------------------------------------

\* A decision changes the day it decided on only, and never releases it.
LEMMA DecisionLatches ==
  ASSUME TypeOK, NEW e \in EvalIds, LatchOnDecision(e), NEW d \in Days,
         \/ daily[d].latched
         \/ daily'[d] # daily[d] /\ IsDailyLossLimitBreached(daily'[d].pnl, StartingBalance)
  PROVE  daily'[d].latched
<1> DEFINE dd == DecisionDay(e)
           b == ShouldLatchCircuitBreaker(daily[dd].latched, daily[dd].pnl, StartingBalance)
<1>1. daily \in [Days -> [pnl : Int, latched : BOOLEAN]]
  BY DEF TypeOK
<1>2. daily' = [daily EXCEPT ![dd].latched = b]
  BY DEF LatchOnDecision
<1> HIDE DEF dd
<1>3. CASE d = dd
  <2>1. daily'[d] = [daily[d] EXCEPT !.latched = b]
    <3> HIDE DEF b
    <3> QED  BY <1>1, <1>2, <1>3
  <2>2. daily'[d].pnl = daily[d].pnl /\ daily'[d].latched = b
    <3> HIDE DEF b
    <3> QED  BY <1>1, <2>1
  <2>3. b
    BY <1>3, <2>2 DEF ShouldLatchCircuitBreaker
  <2>4. QED
    BY <2>2, <2>3
<1>4. CASE d # dd
  <2>1. daily'[d] = daily[d]
    <3> HIDE DEF b
    <3> QED  BY <1>1, <1>2, <1>4
  <2>2. QED
    BY <2>1
<1>5. QED
  BY <1>3, <1>4

\* A close adds its result to its day and latches with it.
LEMMA CloseLatches ==
  ASSUME TypeOK, NEW i \in TradeIds, NEW pnl \in ExitPnls, ClosePosition(i, pnl), NEW d \in Days,
         \/ daily[d].latched
         \/ daily'[d] # daily[d] /\ IsDailyLossLimitBreached(daily'[d].pnl, StartingBalance)
  PROVE  daily'[d].latched
<1>1. daily \in [Days -> [pnl : Int, latched : BOOLEAN]]
  BY DEF TypeOK
<1>2. daily' = [daily EXCEPT ![Day(now)] = AfterExit(daily[Day(now)], pnl)]
  BY DEF ClosePosition
<1>3. CASE d = Day(now)
  <2>1. daily'[d] = AfterExit(daily[d], pnl)
    BY <1>1, <1>2, <1>3
  <2>2. /\ daily'[d].pnl = daily[d].pnl + pnl
        /\ daily'[d].latched =
             (daily[d].latched \/ IsDailyLossLimitBreached(daily[d].pnl + pnl, StartingBalance))
    BY <2>1 DEF AfterExit
  <2>3. QED
    BY <2>2, Zenon
<1>4. CASE d # Day(now)
  BY <1>1, <1>2, <1>4
<1>5. QED
  BY <1>3, <1>4

\* Whatever brings a day's realized loss to the limit latches its breaker,
\* and no step releases one.
THEOREM BreakerHolds == Spec => BreakerLatched
<1> DEFINE A == \A d \in Days :
                  (\/ daily[d].latched
                   \/ daily'[d] # daily[d] /\ IsDailyLossLimitBreached(daily'[d].pnl, StartingBalance))
                  => daily'[d].latched
<1>1. TypeOK /\ [Next]_vars => A
  <2> SUFFICES ASSUME TypeOK, [Next]_vars PROVE A
    OBVIOUS
  <2>1. CASE \E e \in EvalIds : Commit(e) \/ Refuse(e)
    BY <2>1, DecisionLatches DEF Commit, Refuse
  <2>2. CASE \E i \in TradeIds : \E pnl \in ExitPnls : ClosePosition(i, pnl)
    BY <2>2, CloseLatches
  <2>3. CASE UNCHANGED daily
    BY <2>3
  <2>4. CASE \/ Tick \/ StopOrchestrator \/ Restart \/ UNCHANGED vars
             \/ \E m \in Mints : Ticks(m)
             \/ \E e \in EvalIds : \/ Reject(e) \/ BuyLands(e) \/ BuyFilled(e)
                                   \/ BuyFilledHalfRecorded(e) \/ BuyFailed(e) \/ BuyLost(e)
             \/ \E i \in TradeIds : GiveUpPosition(i)
    <3>1. UNCHANGED daily
      BY <2>4, Zenon
         DEF vars, Tick, StopOrchestrator, Restart, Ticks, StartEvaluation, SkipEvaluation, Reject,
             BuyLands, BuyFilled, BuyFilledHalfRecorded, BuyFailed, BuyLost, GiveUpPosition
    <3>2. QED
      BY <2>3, <3>1
  <2>5. QED
    BY <2>1, <2>2, <2>4, Zenon DEF Next
<1>2. Spec => []TypeOK
  <2>1. TypeOK /\ OnePositionPerMint /\ ExposureCap /\ ReservationsMatchBuys => TypeOK
    OBVIOUS
  <2>2. QED
    BY <2>1, PipelineSafety, PTL
<1>3. QED
  BY <1>1, <1>2, PTL DEF Spec, BreakerLatched

------------------------------------------------------------------------------

\* With one row per token there are no more tokens than commitments.
LEMMA EngagedCount ==
  ASSUME Inv
  PROVE  Cardinality(OpenMints \union reserved) <= Commitments
<1>1. /\ IsFiniteSet(OpenTrades) /\ Cardinality(OpenTrades) \in Nat
      /\ IsFiniteSet(reserved) /\ Cardinality(reserved) \in Nat
  BY Counts DEF Inv
<1> DEFINE f == [i \in OpenTrades |-> trades[i].mint]
<1>2. f \in Surjection(OpenTrades, OpenMints)
  BY DEF Surjection, OpenMints
<1>3. IsFiniteSet(OpenMints) /\ Cardinality(OpenMints) <= Cardinality(OpenTrades)
  BY <1>1, <1>2, FS_Surjection
<1>4. Cardinality(OpenMints) \in Nat
  BY <1>3, FS_CardinalityType
<1>5. IsFiniteSet(OpenMints \intersect reserved)
  BY <1>3, FS_Subset
<1>6. Cardinality(OpenMints \intersect reserved) \in Nat
  BY <1>5, FS_CardinalityType
<1>7. Cardinality(OpenMints \union reserved) =
        Cardinality(OpenMints) + Cardinality(reserved) - Cardinality(OpenMints \intersect reserved)
  BY <1>1, <1>3, FS_Union
<1>8. QED
  BY <1>1, <1>3, <1>4, <1>6, <1>7 DEF Commitments

\* Tokens of rows are tokens.
LEMMA OpenMintsType ==
  ASSUME TypeOK
  PROVE  OpenMints \subseteq Mints
<1>1. \A i \in OpenTrades : trades[i] \in TradeRow
  BY ElementOfSeq DEF TypeOK, OpenTrades, TradeIds
<1>2. QED
  BY <1>1 DEF OpenMints, TradeRow

\* The tokens the book counts are those with a row or a reservation.
LEMMA EngagedMints ==
  ASSUME Inv
  PROVE  Book!Engaged = OpenMints \union reserved
<1>1. OpenMints \subseteq Mints /\ reserved \subseteq Mints
  BY OpenMintsType DEF Inv, TypeOK
<1>2. QED
  BY <1>1 DEF Book!Engaged, Engagements

\* A commit claims its token in the book.
LEMMA CommitClaims ==
  ASSUME Inv, NEW e \in EvalIds, Commit(e)
  PROVE  Book!Claim(evals[e].mint)
<1> DEFINE m == evals[e].mint
<1>1. /\ m \in Mints /\ m \notin OpenMints /\ m \notin reserved
      /\ reserved' = reserved \union {m} /\ trades' = trades
      /\ CanOpenNewPosition(Commitments)
  BY EvalType DEF Inv, Commit, MayCommit, RiskAllows, EntryAllowed
<1>2. Commitments \in Nat /\ Commitments + 1 <= MaxPositions
  BY <1>1, Counts, ExposureArithmetic DEF Inv, Commitments
<1>3. Cardinality(Book!Engaged) <= Commitments
  BY EngagedMints, EngagedCount
<1>4. Cardinality(Book!Engaged) \in Nat
  <2>1. IsFiniteSet(Mints) /\ Book!Engaged \subseteq Mints
    BY PipelineAssumption DEF Book!Engaged
  <2>2. QED
    BY <2>1, FS_Subset, FS_CardinalityType
<1>5. Cardinality(Book!Engaged) < MaxPositions
  BY <1>2, <1>3, <1>4, RiskAssumption
<1>6. OpenMints' = OpenMints
  BY <1>1, SameTrades
<1>7. Engagements[m] = "flat"
  BY <1>1 DEF Engagements
<1>8. Engagements' = [Engagements EXCEPT ![m] = "entering"]
  BY <1>1, <1>6 DEF Engagements
<1>9. Book!Cardinality(Book!Engaged) = Cardinality(Book!Engaged)
  BY DEF Book!Cardinality, Cardinality
<1>10. QED
  BY <1>5, <1>7, <1>8, <1>9 DEF Book!Claim

\* A recorded entry opens its token in the book.
LEMMA RecordOpens ==
  ASSUME Inv, NEW e \in EvalIds, BuyFilled(e) \/ BuyFilledHalfRecorded(e)
  PROVE  Book!Open(evals[e].mint)
<1> DEFINE m == evals[e].mint
<1>1. /\ m \in Mints /\ evals[e].pc = "buying"
      /\ reserved' = reserved \ {m} /\ trades' = Append(trades, EntryRow(m))
  BY EvalType DEF Inv, BuyFilled, BuyFilledHalfRecorded, RecordEntry, Unreserved
<1>2. OpenMints' = OpenMints \union {m}
  BY <1>1, RowAppended DEF Inv
<1>3. m \in reserved /\ m \notin OpenMints
  <2>1. e \in Buying
    BY <1>1 DEF Buying
  <2>2. m \in reserved
    BY <2>1 DEF Inv, ReservationsMatchBuys
  <2>3. QED
    BY <2>2 DEF Inv, OnePositionPerMint
<1>4. Engagements[m] = "entering"
  BY <1>1, <1>3 DEF Engagements
<1>5. Engagements' = [Engagements EXCEPT ![m] = "open"]
  BY <1>1, <1>2 DEF Engagements
<1>6. QED
  BY <1>4, <1>5 DEF Book!Open

\* A buy that leaves no row abandons its token in the book.
LEMMA BuyEndAbandons ==
  ASSUME Inv, NEW e \in EvalIds, BuyFailed(e) \/ BuyLost(e)
  PROVE  Book!Abandon(evals[e].mint)
<1> DEFINE m == evals[e].mint
<1>1. /\ m \in Mints /\ evals[e].pc = "buying"
      /\ reserved' = reserved \ {m} /\ trades' = trades
  BY EvalType DEF Inv, BuyFailed, BuyLost, Unreserved
<1>2. OpenMints' = OpenMints
  BY <1>1, SameTrades
<1>3. m \in reserved /\ m \notin OpenMints
  <2>1. e \in Buying
    BY <1>1 DEF Buying
  <2>2. m \in reserved
    BY <2>1 DEF Inv, ReservationsMatchBuys
  <2>3. QED
    BY <2>2 DEF Inv, OnePositionPerMint
<1>4. Engagements[m] = "entering"
  BY <1>1, <1>3 DEF Engagements
<1>5. Engagements' = [Engagements EXCEPT ![m] = "flat"]
  BY <1>1, <1>2, <1>3 DEF Engagements
<1>6. QED
  BY <1>4, <1>5 DEF Book!Abandon

\* A close frees its token in the book: it was the token's only open row.
LEMMA CloseCloses ==
  ASSUME Inv, NEW i \in TradeIds, NEW pnl \in ExitPnls, ClosePosition(i, pnl)
  PROVE  Book!Close(trades[i].mint)
<1> DEFINE row == [trades[i] EXCEPT !.status = "closed", !.pnl = pnl, !.exitAt = now]
           m == trades[i].mint
<1>1. /\ trades \in Seq(TradeRow) /\ i \in 1..Len(trades) /\ trades[i] \in TradeRow
      /\ i \in OpenTrades
  BY ElementOfSeq DEF Inv, TypeOK, TradeIds, ClosePosition
<1>2. row.status = "closed"
  BY <1>1 DEF TradeRow
<1>3. trades' = [trades EXCEPT ![i] = row] /\ reserved' = reserved
  BY DEF ClosePosition
<1> HIDE DEF row
<1>4. /\ TradeIds' = TradeIds
      /\ \A j \in TradeIds : trades'[j] = IF j = i THEN row ELSE trades[j]
  BY <1>1, <1>3 DEF TradeIds
<1>5. OpenTrades' = OpenTrades \ {i} /\ \A j \in OpenTrades' : trades'[j] = trades[j]
  BY <1>2, <1>4 DEF OpenTrades
<1>6. m \in OpenMints /\ m \notin reserved
  BY <1>1 DEF OpenMints, Inv, OnePositionPerMint
<1>7. OpenMints' = OpenMints \ {m}
  <2>1. \A j \in OpenTrades : trades[j].mint = m => j = i
    BY <1>1 DEF Inv, OnePositionPerMint
  <2>2. OpenMints' = {trades[j].mint : j \in OpenTrades \ {i}}
    BY <1>5 DEF OpenMints
  <2>3. QED
    BY <1>1, <2>1, <2>2 DEF OpenMints
<1>8. m \in Mints
  BY <1>6, OpenMintsType DEF Inv
<1>9. Engagements[m] = "open"
  BY <1>6, <1>8 DEF Engagements
<1>10. Engagements' = [Engagements EXCEPT ![m] = "flat"]
  BY <1>3, <1>6, <1>7, <1>8 DEF Engagements
<1>11. QED
  BY <1>9, <1>10 DEF Book!Close

\* A restart forgets the entries under way.
LEMMA RestartForgets ==
  ASSUME Inv, Restart
  PROVE  Book!Restart
<1>1. OpenMints' = OpenMints /\ reserved' = {}
  BY SameTrades DEF Restart
<1>2. QED
  BY <1>1 DEF Book!Restart, Engagements, Inv, OnePositionPerMint

\* The other steps are invisible in the book.
LEMMA InvisibleSteps ==
  ASSUME \/ Tick \/ StopOrchestrator \/ UNCHANGED vars
         \/ \E m \in Mints : Ticks(m)
         \/ \E e \in EvalIds : Reject(e) \/ Refuse(e) \/ BuyLands(e)
         \/ \E i \in TradeIds : GiveUpPosition(i)
  PROVE  UNCHANGED Engagements
<1>1. reserved' = reserved /\ trades' = trades
  BY Zenon DEF vars, Tick, StopOrchestrator, Ticks, StartEvaluation, SkipEvaluation, Reject, Refuse,
               BuyLands, GiveUpPosition
<1>2. OpenMints' = OpenMints
  BY <1>1, SameTrades
<1>3. QED
  BY <1>1, <1>2 DEF Engagements

\* The pipeline, with its leases, takeovers, awaits, ledger and restarts,
\* implements the entry book: engagements as one atomic ledger.
THEOREM Refinement == Spec => ImplementsEntryBook
<1>1. Init => Book!Init
  <2> SUFFICES ASSUME Init PROVE Engagements = [m \in Mints |-> "flat"]
    BY DEF Book!Init
  <2>1. reserved = {} /\ trades = <<>>
    BY DEF Init
  <2>2. OpenMints = {}
    BY <2>1 DEF OpenMints, OpenTrades, TradeIds
  <2>3. QED
    BY <2>1, <2>2 DEF Engagements
<1>2. Inv /\ [Next]_vars => [Book!Next]_Engagements
  <2> SUFFICES ASSUME Inv, [Next]_vars PROVE Book!Next \/ UNCHANGED Engagements
    OBVIOUS
  <2>1. CASE \E e \in EvalIds : Commit(e)
    <3>1. PICK e \in EvalIds : Commit(e)
      BY <2>1
    <3>2. QED
      BY <3>1, CommitClaims, EvalType DEF Book!Next, Inv
  <2>2. CASE \E e \in EvalIds : BuyFilled(e) \/ BuyFilledHalfRecorded(e)
    <3>1. PICK e \in EvalIds : BuyFilled(e) \/ BuyFilledHalfRecorded(e)
      BY <2>2
    <3>2. QED
      BY <3>1, RecordOpens, EvalType DEF Book!Next, Inv
  <2>3. CASE \E e \in EvalIds : BuyFailed(e) \/ BuyLost(e)
    <3>1. PICK e \in EvalIds : BuyFailed(e) \/ BuyLost(e)
      BY <2>3
    <3>2. QED
      BY <3>1, BuyEndAbandons, EvalType DEF Book!Next, Inv
  <2>4. CASE \E i \in TradeIds : \E pnl \in ExitPnls : ClosePosition(i, pnl)
    <3>1. PICK i \in TradeIds, pnl \in ExitPnls : ClosePosition(i, pnl)
      BY <2>4
    <3>2. trades[i].mint \in Mints
      BY <3>1, OpenMintsType DEF Inv, TypeOK, OpenMints, ClosePosition
    <3>3. QED
      BY <3>1, <3>2, CloseCloses DEF Book!Next
  <2>5. CASE Restart
    BY <2>5, RestartForgets DEF Book!Next
  <2>6. CASE \/ Tick \/ StopOrchestrator \/ UNCHANGED vars
             \/ \E m \in Mints : Ticks(m)
             \/ \E e \in EvalIds : Reject(e) \/ Refuse(e) \/ BuyLands(e)
             \/ \E i \in TradeIds : GiveUpPosition(i)
    BY <2>6, InvisibleSteps
  <2>7. QED
    BY <2>1, <2>2, <2>3, <2>4, <2>5, <2>6, Zenon DEF Next
<1>3. Spec => []Inv
  BY InitInv, NextInv, PTL DEF Spec
<1>4. QED
  BY <1>1, <1>2, <1>3, PTL DEF Spec, ImplementsEntryBook, Book!Spec

------------------------------------------------------------------------------

\* What ReentryCap needs to be inductive: a buy under way has left room for
\* the row it will add, and nobody else can take that room.
ReentryInv ==
  /\ ReentryCap
  /\ \A m \in reserved : Cardinality(TradesOf(m)) <= MaxReentries

\* A token's rows are finitely many.
LEMMA TradesCount ==
  ASSUME TypeOK, NEW m
  PROVE  IsFiniteSet(TradesOf(m)) /\ Cardinality(TradesOf(m)) \in Nat
<1>1. IsFiniteSet(TradeIds)
  BY Counts, FS_Interval DEF TradeIds
<1>2. IsFiniteSet(TradesOf(m))
  BY <1>1, FS_Subset DEF TradesOf
<1>3. QED
  BY <1>2, FS_CardinalityType

\* Steps that leave token and number of every row alone, and reserve nothing.
LEMMA SameRows ==
  ASSUME ReentryInv, reserved' \subseteq reserved, Len(trades') = Len(trades),
         \A i \in TradeIds : /\ trades'[i].mint = trades[i].mint
                             /\ trades'[i].reentryIndex = trades[i].reentryIndex
  PROVE  ReentryInv'
<1>1. TradeIds' = TradeIds
  BY DEF TradeIds
<1>2. \A m : TradesOf(m)' = TradesOf(m)
  BY <1>1 DEF TradesOf
<1>3. \A m : TradesOf(m) \subseteq TradeIds
  BY DEF TradesOf
<1>4. QED
  BY <1>2, <1>3 DEF ReentryInv, ReentryCap

\* A commit finds room for one more row of its token (canReenter).
LEMMA CommitReenters ==
  ASSUME Inv, ReentryInv, NEW e \in EvalIds, Commit(e)
  PROVE  ReentryInv'
<1> DEFINE m == evals[e].mint
<1>1. reserved' = reserved \union {m} /\ trades' = trades /\ History(m).totalTrades <= MaxReentries
  BY DEF Commit, RiskAllows, EntryAllowed, CanReenter
<1>2. History(m).totalTrades = Cardinality(TradesOf(m))
  BY DEF History
<1>3. TradeIds' = TradeIds /\ \A k : TradesOf(k)' = TradesOf(k)
  BY <1>1 DEF TradeIds, TradesOf
<1>4. QED
  BY <1>1, <1>2, <1>3 DEF ReentryInv, ReentryCap

\* A recorded entry takes the room its reservation kept, and the number that
\* the ledger gives it after the buy is the one it was allowed for.
LEMMA RecordNumbers ==
  ASSUME Inv, ReentryInv, NEW m \in Mints, m \in reserved,
         reserved' = reserved \ {m}, trades' = Append(trades, EntryRow(m))
  PROVE  ReentryInv'
<1> DEFINE n == Len(trades) + 1
           row == EntryRow(m)
<1>1. trades' = Append(trades, row)
  OBVIOUS
<1>2. row.mint = m /\ row.reentryIndex = Cardinality(TradesOf(m))
  BY DEF EntryRow, History
<1>3. trades \in Seq(TradeRow) /\ Len(trades) \in Nat /\ row \in TradeRow
  BY Counts, EntryRowType DEF Inv, TypeOK
<1> HIDE DEF row
<1>4. /\ TradeIds' = TradeIds \union {n} /\ n \notin TradeIds /\ trades'[n] = row
      /\ \A i \in TradeIds : trades'[i] = trades[i] /\ i < n /\ i \in Nat
  BY <1>1, <1>3, AppendProperties DEF TradeIds
<1>5. /\ TradesOf(m)' = TradesOf(m) \union {n} /\ n \notin TradesOf(m)
      /\ \A k \in Mints : k # m => TradesOf(k)' = TradesOf(k)
      /\ \A k \in Mints : TradesOf(k) \subseteq TradeIds
  BY <1>2, <1>4 DEF TradesOf
<1>6. \A k \in Mints : IsFiniteSet(TradesOf(k)) /\ Cardinality(TradesOf(k)) \in Nat
  BY TradesCount DEF Inv
<1>7. Cardinality(TradesOf(m)') = Cardinality(TradesOf(m)) + 1
  BY <1>5, <1>6, FS_AddElement
<1>8. \A k \in Mints : Cardinality(TradesOf(k)') <= MaxReentries + 1
  <2>1. Cardinality(TradesOf(m)) <= MaxReentries /\ MaxReentries \in Nat
    BY RiskAssumption DEF ReentryInv
  <2>2. Cardinality(TradesOf(m)') <= MaxReentries + 1
    BY <1>6, <1>7, <2>1
  <2>3. ASSUME NEW k \in Mints, k # m PROVE Cardinality(TradesOf(k)') <= MaxReentries + 1
    <3>1. Cardinality(TradesOf(k)) <= MaxReentries + 1
      BY DEF ReentryInv, ReentryCap
    <3>2. TradesOf(k)' = TradesOf(k)
      BY <1>5, <2>3
    <3>3. QED
      BY <3>1, <3>2
  <2>4. QED
    BY <2>2, <2>3
<1>9. ASSUME NEW k \in Mints, NEW i \in TradesOf(k)'
      PROVE  trades'[i].reentryIndex = Cardinality({j \in TradesOf(k)' : j < i})
  <2>1. CASE i \in TradesOf(k)
    <3>1. {j \in TradesOf(k)' : j < i} = {j \in TradesOf(k) : j < i}
      <4>1. TradesOf(k)' = TradesOf(k) \/ TradesOf(k)' = TradesOf(k) \union {n}
        BY <1>5
      <4>2. i < n /\ i \in Nat /\ n \in Nat
        BY <1>3, <1>4, <1>5, <2>1
      <4>3. ~(n < i)
        BY <4>2
      <4>4. QED
        BY <4>1, <4>3
    <3>2. trades'[i].reentryIndex = trades[i].reentryIndex
      BY <1>4, <1>5, <2>1
    <3>3. QED
      BY <2>1, <3>1, <3>2 DEF ReentryInv, ReentryCap
  <2>2. CASE i \notin TradesOf(k)
    <3>1. k = m /\ i = n
      BY <1>5, <1>9, <2>2
    <3>2. {j \in TradesOf(k)' : j < i} = TradesOf(m)
      <4>1. \A j \in TradesOf(m) : j < n
        BY <1>4, <1>5
      <4>2. ~(n < n)
        BY <1>3
      <4>3. QED
        BY <1>5, <3>1, <4>1, <4>2
    <3>3. QED
      BY <1>2, <1>4, <3>1, <3>2
  <2>3. QED
    BY <2>1, <2>2
<1>10. \A k \in reserved' : Cardinality(TradesOf(k)') <= MaxReentries
  <2>1. reserved \subseteq Mints
    BY DEF Inv, TypeOK
  <2>2. QED
    BY <1>5, <2>1 DEF ReentryInv
<1>11. QED
  BY <1>8, <1>9, <1>10 DEF ReentryInv, ReentryCap

LEMMA ReentryStep == ASSUME Inv, ReentryInv, [Next]_vars PROVE ReentryInv'
<1>1. CASE \E e \in EvalIds : Commit(e)
  BY <1>1, CommitReenters
<1>2. CASE \E e \in EvalIds : BuyFilled(e) \/ BuyFilledHalfRecorded(e)
  <2>1. PICK e \in EvalIds : BuyFilled(e) \/ BuyFilledHalfRecorded(e)
    BY <1>2
  <2>2. PICK m : m = evals[e].mint
    OBVIOUS
  <2>3. /\ m \in Mints /\ evals[e].pc = "buying"
        /\ reserved' = reserved \ {m} /\ trades' = Append(trades, EntryRow(m))
    BY <2>1, <2>2, EvalType DEF Inv, BuyFilled, BuyFilledHalfRecorded, RecordEntry, Unreserved
  <2>4. m \in reserved
    BY <2>2, <2>3 DEF Inv, ReservationsMatchBuys, Buying
  <2>5. QED
    BY <2>3, <2>4, RecordNumbers
<1>3. CASE \E i \in TradeIds : \E pnl \in ExitPnls : ClosePosition(i, pnl)
  <2>1. PICK i \in TradeIds, pnl \in ExitPnls : ClosePosition(i, pnl)
    BY <1>3
  <2> DEFINE row == [trades[i] EXCEPT !.status = "closed", !.pnl = pnl, !.exitAt = now]
  <2>2. trades' = [trades EXCEPT ![i] = row] /\ reserved' = reserved
    BY <2>1 DEF ClosePosition
  <2>3. trades \in Seq(TradeRow) /\ i \in 1..Len(trades) /\ trades[i] \in TradeRow
    BY <2>1, ElementOfSeq DEF Inv, TypeOK, TradeIds
  <2>4. row.mint = trades[i].mint /\ row.reentryIndex = trades[i].reentryIndex
    BY <2>3 DEF TradeRow
  <2> HIDE DEF row
  <2>5. Len(trades') = Len(trades) /\ \A j \in TradeIds : trades'[j] = IF j = i THEN row ELSE trades[j]
    BY <2>2, <2>3 DEF TradeIds
  <2>6. QED
    BY <2>2, <2>4, <2>5, SameRows
<1>4. CASE \/ Tick \/ StopOrchestrator \/ Restart \/ UNCHANGED vars
           \/ \E m \in Mints : Ticks(m)
           \/ \E e \in EvalIds : Reject(e) \/ Refuse(e) \/ BuyLands(e) \/ BuyFailed(e) \/ BuyLost(e)
           \/ \E i \in TradeIds : GiveUpPosition(i)
  <2>1. trades' = trades /\ (reserved' = reserved \/ reserved' = {} \/ \E e \in EvalIds : reserved' = reserved \ {evals[e].mint})
    BY <1>4, Zenon
       DEF Tick, StopOrchestrator, Restart, vars, Ticks, StartEvaluation, SkipEvaluation, Reject, Refuse,
           BuyLands, BuyFailed, BuyLost, Unreserved, GiveUpPosition
  <2>2. reserved' \subseteq reserved
    BY <2>1
  <2>3. QED
    BY <2>1, <2>2, SameRows
<1>5. QED
  BY <1>1, <1>2, <1>3, <1>4, Zenon DEF Next

\* A token is traded at most once more than it may be re-entered, and its
\* trades are numbered in order, although the cap is checked before the buy is
\* awaited and the number read after it (loop.ts, reentryTracker.ts).
THEOREM ReentriesCapped == Spec => []ReentryCap
<1>1. Init => ReentryInv
  <2> SUFFICES ASSUME Init PROVE ReentryInv
    OBVIOUS
  <2>1. TradeIds = {} /\ reserved = {}
    BY DEF Init, TradeIds
  <2>2. \A m : TradesOf(m) = {}
    BY <2>1 DEF TradesOf
  <2>3. QED
    BY <2>1, <2>2, FS_EmptySet, RiskAssumption DEF ReentryInv, ReentryCap
<1>2. Inv /\ ReentryInv /\ [Next]_vars => ReentryInv'
  BY ReentryStep
<1>3. ReentryInv => ReentryCap
  BY DEF ReentryInv
<1>4. QED
  BY <1>1, <1>2, <1>3, InitInv, NextInv, PTL DEF Spec

------------------------------------------------------------------------------
\* Leases.

\* The holder of a token's lease is the latest evaluation of the token: a
\* takeover is by a newer one, and nobody gives a lease back to an older one.
HolderIsLatest ==
  \A m \in Mints : held[m] # 0 => \A f \in EvalIds : f > held[m] => evals[f].mint # m

LeaseInv == TypeOK /\ LeasesMatchEvaluations /\ HolderIsLatest

------------------------------------------------------------------------------

\* The leases say something of existing evaluations and their tokens only.
LEMMA LeaseTypes ==
  ASSUME TypeOK
  PROVE  /\ Len(evals) \in Nat /\ now \in Nat /\ Timeout \in Nat
         /\ held \in [Mints -> 0..Len(evals)]
         /\ \A m \in Mints : held[m] # 0 => held[m] \in EvalIds
         /\ \A e \in EvalIds : e \in Nat /\ e # 0 /\ evals[e].mint \in Mints /\ evals[e].startedAt \in Nat
<1>1. Len(evals) \in Nat /\ held \in [Mints -> 0..Len(evals)] /\ now \in Nat
  BY Counts, PipelineAssumption DEF TypeOK
<1>2. \A m \in Mints : held[m] # 0 => held[m] \in EvalIds
  BY <1>1 DEF EvalIds
<1>3. \A e \in EvalIds : e \in Nat /\ e # 0
  BY <1>1 DEF EvalIds
<1>4. \A e \in EvalIds : evals[e].mint \in Mints /\ evals[e].startedAt \in Nat
  BY EvalType DEF Evaluation
<1>5. QED
  BY <1>1, <1>2, <1>3, <1>4, PipelineAssumption

\* An evaluation that goes on keeps its lease, and one that lost it does not
\* get it back.
LEMMA GoesOn ==
  ASSUME LeaseInv, TypeOK', NEW e \in EvalIds, NEW r \in Evaluation,
         evals' = [evals EXCEPT ![e] = r],
         r.mint = evals[e].mint, r.startedAt = evals[e].startedAt,
         evals[e].pc # "done", r.pc # "done",
         held' = held, now' = now
  PROVE  LeaseInv'
<1>1. /\ EvalIds' = EvalIds
      /\ \A f \in EvalIds : evals'[f] = IF f = e THEN r ELSE evals[f]
  BY EvalMoves DEF LeaseInv
<1>2. \A f \in EvalIds : /\ evals'[f].mint = evals[f].mint
                         /\ evals'[f].startedAt = evals[f].startedAt
                         /\ evals'[f].pc = "done" <=> evals[f].pc = "done"
  BY <1>1
<1>3. \A m \in Mints : held[m] # 0 => held[m] \in EvalIds
  BY LeaseTypes DEF LeaseInv
<1>4. LeasesMatchEvaluations'
  BY <1>1, <1>2, <1>3 DEF LeaseInv, LeasesMatchEvaluations, IsCurrent
<1>5. HolderIsLatest'
  BY <1>1, <1>2 DEF LeaseInv, HolderIsLatest
<1>6. QED
  BY <1>4, <1>5 DEF LeaseInv

\* An evaluation that settles frees its token if it still holds it, and leaves
\* the lease of its successor alone.
LEMMA Settles ==
  ASSUME LeaseInv, TypeOK', NEW e \in EvalIds, NEW r \in Evaluation,
         evals' = [evals EXCEPT ![e] = r],
         r.mint = evals[e].mint, r.startedAt = evals[e].startedAt, r.pc = "done",
         held' = Released(e), now' = now
  PROVE  LeaseInv'
<1>1. /\ EvalIds' = EvalIds
      /\ \A f \in EvalIds : evals'[f] = IF f = e THEN r ELSE evals[f]
  BY EvalMoves DEF LeaseInv
<1>2. \A f \in EvalIds : /\ evals'[f].mint = evals[f].mint
                         /\ evals'[f].startedAt = evals[f].startedAt
                         /\ f # e => evals'[f].pc = evals[f].pc
  BY <1>1
<1>3. /\ held \in [Mints -> 0..Len(evals)] /\ evals[e].mint \in Mints /\ e # 0
      /\ \A m \in Mints : held[m] # 0 => held[m] \in EvalIds
      /\ \A f \in EvalIds : evals[f].mint \in Mints
  BY LeaseTypes DEF LeaseInv
<1>4. \A m \in Mints : held'[m] = IF m = evals[e].mint /\ held[m] = e THEN 0 ELSE held[m]
  BY <1>3 DEF Released, IsCurrent
<1>5. \A m \in Mints : held'[m] # 0 => held'[m] = held[m] /\ held[m] # e
  <2>1. \A m \in Mints : held[m] = e => m = evals[e].mint
    BY <1>3 DEF LeaseInv, LeasesMatchEvaluations
  <2>2. QED
    BY <1>4, <2>1
<1>6. ASSUME NEW m \in Mints, held'[m] # 0
      PROVE  evals'[held'[m]].mint = m /\ evals'[held'[m]].pc # "done"
  BY <1>2, <1>3, <1>5, <1>6 DEF LeaseInv, LeasesMatchEvaluations
<1>7. ASSUME NEW f \in EvalIds, evals'[f].pc # "done", now' - evals'[f].startedAt < Timeout
      PROVE  held'[evals'[f].mint] = f
  <2>1. f # e
    BY <1>1, <1>7
  <2>2. held[evals[f].mint] = f
    BY <1>2, <1>7, <2>1 DEF LeaseInv, LeasesMatchEvaluations, IsCurrent
  <2>3. QED
    BY <1>2, <1>3, <1>4, <2>1, <2>2
<1>8. LeasesMatchEvaluations'
  BY <1>1, <1>6, <1>7 DEF LeasesMatchEvaluations, IsCurrent
<1>9. HolderIsLatest'
  BY <1>1, <1>2, <1>5 DEF LeaseInv, HolderIsLatest
<1>10. QED
  BY <1>8, <1>9 DEF LeaseInv

\* Whoever takes a token finds no fresh evaluation of it: the token was free,
\* or held by one that is stuck (tryAcquire).
LEMMA NoFreshOne ==
  ASSUME LeaseInv, NEW m \in Mints, MayAcquire(m), NEW e \in EvalIds,
         evals[e].mint = m, evals[e].pc # "done"
  PROVE  ~(now - evals[e].startedAt < Timeout)
<1>1. e # 0 /\ now \in Nat /\ evals[e].startedAt \in Nat /\ Timeout \in Nat
  BY LeaseTypes DEF LeaseInv
<1>2. now - evals[e].startedAt < Timeout => held[m] = e
  BY DEF LeaseInv, LeasesMatchEvaluations, IsCurrent
<1>3. QED
  BY <1>1, <1>2 DEF MayAcquire

\* A new evaluation is the latest, and the only fresh one of its token.
LEMMA Starts ==
  ASSUME LeaseInv, TypeOK', NEW m \in Mints, StartEvaluation(m)
  PROVE  LeaseInv'
<1> DEFINE n == Len(evals) + 1
           r == [mint |-> m, startedAt |-> now, pc |-> "gathering", landed |-> FALSE]
<1>1. /\ MayAcquire(m) /\ now' = now
      /\ evals' = Append(evals, r) /\ held' = [held EXCEPT ![m] = n]
  BY DEF StartEvaluation
<1>2. /\ Len(evals) \in Nat /\ evals \in Seq(Evaluation) /\ r \in Evaluation
      /\ held \in [Mints -> 0..Len(evals)]
      /\ \A k \in Mints : held[k] # 0 => held[k] \in EvalIds
      /\ \A f \in EvalIds : evals[f].mint \in Mints
  BY LeaseTypes DEF LeaseInv, TypeOK, Evaluation
<1>3. /\ EvalIds' = EvalIds \union {n} /\ n \notin EvalIds /\ evals'[n] = r
      /\ \A f \in EvalIds : evals'[f] = evals[f] /\ f < n
  <2> HIDE DEF r
  <2> QED
    BY <1>1, <1>2, AppendProperties DEF EvalIds
<1>4. held'[m] = n /\ \A k \in Mints : k # m => held'[k] = held[k]
  BY <1>1, <1>2
<1>5. r.mint = m /\ r.pc = "gathering" /\ n # 0
  BY <1>2
<1> HIDE DEF n, r
<1>6. ASSUME NEW k \in Mints, held'[k] # 0
      PROVE  evals'[held'[k]].mint = k /\ evals'[held'[k]].pc # "done"
  <2>1. CASE k = m
    BY <1>3, <1>4, <1>5, <2>1
  <2>2. CASE k # m
    BY <1>2, <1>3, <1>4, <1>6, <2>2 DEF LeaseInv, LeasesMatchEvaluations
  <2>3. QED
    BY <2>1, <2>2
<1>7. ASSUME NEW f \in EvalIds', evals'[f].pc # "done", now' - evals'[f].startedAt < Timeout
      PROVE  held'[evals'[f].mint] = f
  <2>1. CASE f = n
    BY <1>3, <1>4, <1>5, <2>1
  <2>2. CASE f \in EvalIds
    <3>1. evals'[f] = evals[f]
      BY <1>3, <2>2
    <3>2. evals[f].mint # m
      BY <1>1, <1>7, <2>2, <3>1, NoFreshOne
    <3>3. held[evals[f].mint] = f
      BY <1>1, <1>7, <2>2, <3>1 DEF LeaseInv, LeasesMatchEvaluations, IsCurrent
    <3>4. QED
      BY <1>2, <1>4, <2>2, <3>1, <3>2, <3>3
  <2>3. QED
    BY <1>3, <2>1, <2>2
<1>8. LeasesMatchEvaluations'
  BY <1>6, <1>7 DEF LeasesMatchEvaluations, IsCurrent
<1>9. ASSUME NEW k \in Mints, held'[k] # 0, NEW f \in EvalIds', f > held'[k]
      PROVE  evals'[f].mint # k
  <2>1. CASE k = m
    <3>1. f = n \/ (f \in EvalIds /\ f < n)
      BY <1>3
    <3>2. n \in Nat /\ \A g \in EvalIds : g \in Nat
      BY <1>2 DEF n, EvalIds
    <3>3. QED
      BY <1>4, <1>9, <2>1, <3>1, <3>2
  <2>2. CASE k # m /\ f = n
    BY <1>3, <1>5, <2>2
  <2>3. CASE k # m /\ f \in EvalIds
    BY <1>3, <1>4, <1>9, <2>3 DEF LeaseInv, HolderIsLatest
  <2>4. QED
    BY <1>3, <2>1, <2>2, <2>3
<1>10. HolderIsLatest'
  BY <1>9 DEF HolderIsLatest
<1>11. QED
  BY <1>8, <1>10 DEF LeaseInv

\* A tick that ends at once has taken the lease of a stuck evaluation, or of
\* nobody, and leaves the token free.
LEMMA Skips ==
  ASSUME LeaseInv, TypeOK', NEW m \in Mints, SkipEvaluation(m)
  PROVE  LeaseInv'
<1>1. MayAcquire(m) /\ held' = [held EXCEPT ![m] = 0] /\ evals' = evals /\ now' = now
  BY DEF SkipEvaluation
<1>2. EvalIds' = EvalIds /\ held \in [Mints -> 0..Len(evals)] /\ \A f \in EvalIds : evals[f].mint \in Mints
  BY <1>1, LeaseTypes DEF LeaseInv, EvalIds
<1>3. \A k \in Mints : held'[k] = IF k = m THEN 0 ELSE held[k]
  BY <1>1, <1>2
<1>4. ASSUME NEW f \in EvalIds, evals[f].pc # "done", now - evals[f].startedAt < Timeout
      PROVE  held'[evals[f].mint] = f
  <2>1. evals[f].mint # m
    BY <1>1, <1>4, NoFreshOne
  <2>2. QED
    BY <1>2, <1>3, <1>4, <2>1 DEF LeaseInv, LeasesMatchEvaluations, IsCurrent
<1>5. LeasesMatchEvaluations'
  BY <1>1, <1>2, <1>3, <1>4 DEF LeaseInv, LeasesMatchEvaluations, IsCurrent
<1>6. HolderIsLatest'
  BY <1>1, <1>2, <1>3 DEF LeaseInv, HolderIsLatest
<1>7. QED
  BY <1>5, <1>6 DEF LeaseInv

\* With time evaluations only become stuck.
LEMMA Ages == ASSUME LeaseInv, TypeOK', Tick PROVE LeaseInv'
<1>1. now' = now + 1 /\ held' = held /\ evals' = evals /\ EvalIds' = EvalIds
  BY DEF Tick, EvalIds
<1>2. \A f \in EvalIds : now' - evals[f].startedAt < Timeout => now - evals[f].startedAt < Timeout
  BY <1>1, LeaseTypes DEF LeaseInv
<1>3. LeasesMatchEvaluations'
  BY <1>1, <1>2 DEF LeaseInv, LeasesMatchEvaluations, IsCurrent
<1>4. HolderIsLatest'
  BY <1>1 DEF LeaseInv, HolderIsLatest
<1>5. QED
  BY <1>3, <1>4 DEF LeaseInv

\* A restart ends all evaluations and frees all tokens.
LEMMA Restarts == ASSUME LeaseInv, TypeOK', Restart PROVE LeaseInv'
<1>1. /\ held' = [m \in Mints |-> 0]
      /\ evals' = [e \in EvalIds |-> [evals[e] EXCEPT !.pc = "done"]]
      /\ Len(evals) \in Nat
  BY LeaseTypes DEF LeaseInv, Restart
<1>2. EvalIds' = EvalIds
  <2>1. evals' \in Seq(Evaluation) /\ DOMAIN evals' = 1..Len(evals)
    BY <1>1 DEF TypeOK, EvalIds
  <2>2. Len(evals') = Len(evals)
    BY <1>1, <2>1, LenProperties
  <2>3. QED
    BY <2>2 DEF EvalIds
<1>3. \A e \in EvalIds : evals'[e].pc = "done"
  <2>1. \A e \in EvalIds : evals[e] \in Evaluation
    BY EvalType DEF LeaseInv
  <2>2. QED
    BY <1>1, <2>1 DEF Evaluation
<1>4. QED
  BY <1>1, <1>2, <1>3 DEF LeaseInv, LeasesMatchEvaluations, HolderIsLatest

------------------------------------------------------------------------------

\* Steps of an evaluation: it goes on or settles.
LEMMA EvaluationStep ==
  ASSUME LeaseInv, TypeOK', NEW e \in EvalIds,
         \/ Reject(e) \/ Commit(e) \/ Refuse(e)
         \/ BuyLands(e) \/ BuyFilled(e) \/ BuyFilledHalfRecorded(e) \/ BuyFailed(e) \/ BuyLost(e)
  PROVE  LeaseInv'
<1>1. evals[e] \in Evaluation
  BY EvalType DEF LeaseInv
<1>2. CASE Commit(e)
  <2> DEFINE r == [evals[e] EXCEPT !.pc = "buying"]
  <2>1. /\ r \in Evaluation /\ r.mint = evals[e].mint /\ r.startedAt = evals[e].startedAt
        /\ r.pc = "buying"
    BY <1>1 DEF Evaluation
  <2>2. evals' = [evals EXCEPT ![e] = r] /\ evals[e].pc = "gathering" /\ held' = held /\ now' = now
    BY <1>2 DEF Commit
  <2> HIDE DEF r
  <2>3. QED
    BY <2>1, <2>2, GoesOn
<1>3. CASE BuyLands(e)
  <2> DEFINE r == [evals[e] EXCEPT !.landed = TRUE]
  <2>1. /\ r \in Evaluation /\ r.mint = evals[e].mint /\ r.startedAt = evals[e].startedAt
        /\ r.pc = evals[e].pc
    BY <1>1 DEF Evaluation
  <2>2. evals' = [evals EXCEPT ![e] = r] /\ evals[e].pc = "buying" /\ held' = held /\ now' = now
    BY <1>3 DEF BuyLands
  <2> HIDE DEF r
  <2>3. QED
    BY <2>1, <2>2, GoesOn
<1>4. CASE Reject(e) \/ Refuse(e) \/ BuyFailed(e) \/ BuyLost(e)
  <2> DEFINE r == [evals[e] EXCEPT !.pc = "done"]
  <2>1. /\ r \in Evaluation /\ r.mint = evals[e].mint /\ r.startedAt = evals[e].startedAt
        /\ r.pc = "done"
    BY <1>1 DEF Evaluation
  <2>2. evals' = [evals EXCEPT ![e] = r] /\ held' = Released(e) /\ now' = now
    BY <1>4 DEF Reject, Refuse, BuyFailed, BuyLost, Finish
  <2> HIDE DEF r
  <2>3. QED
    BY <2>1, <2>2, Settles
<1>5. CASE BuyFilled(e) \/ BuyFilledHalfRecorded(e)
  <2> DEFINE r == [evals[e] EXCEPT !.pc = "done", !.landed = FALSE]
  <2>1. /\ r \in Evaluation /\ r.mint = evals[e].mint /\ r.startedAt = evals[e].startedAt
        /\ r.pc = "done"
    BY <1>1 DEF Evaluation
  <2>2. evals' = [evals EXCEPT ![e] = r] /\ held' = Released(e) /\ now' = now
    BY <1>5 DEF BuyFilled, BuyFilledHalfRecorded, RecordEntry
  <2> HIDE DEF r
  <2>3. QED
    BY <2>1, <2>2, Settles
<1>6. QED
  BY <1>2, <1>3, <1>4, <1>5

LEMMA LeaseStep == ASSUME LeaseInv, TypeOK', [Next]_vars PROVE LeaseInv'
<1>1. CASE UNCHANGED <<now, held, evals>>
  <2>1. EvalIds' = EvalIds
    BY <1>1 DEF EvalIds
  <2>2. LeasesMatchEvaluations' /\ HolderIsLatest'
    BY <1>1, <2>1 DEF LeaseInv, LeasesMatchEvaluations, HolderIsLatest, IsCurrent
  <2>3. QED
    BY <2>2 DEF LeaseInv
<1>2. CASE \/ StopOrchestrator \/ UNCHANGED vars
           \/ \E i \in TradeIds : GiveUpPosition(i) \/ \E pnl \in ExitPnls : ClosePosition(i, pnl)
  <2>1. UNCHANGED <<now, held, evals>>
    BY <1>2, Zenon DEF StopOrchestrator, GiveUpPosition, ClosePosition, vars
  <2>2. QED
    BY <1>1, <2>1
<1>3. CASE \E m \in Mints : Ticks(m)
  BY <1>3, Starts, Skips DEF Ticks
<1>4. CASE \E e \in EvalIds :
             \/ Reject(e) \/ Commit(e) \/ Refuse(e)
             \/ BuyLands(e) \/ BuyFilled(e) \/ BuyFilledHalfRecorded(e) \/ BuyFailed(e) \/ BuyLost(e)
  BY <1>4, EvaluationStep
<1>5. CASE Tick \/ Restart
  BY <1>5, Ages, Restarts
<1>6. QED
  BY <1>2, <1>3, <1>4, <1>5, Zenon DEF Next

\* Nobody evaluates at the start.
LEMMA LeaseStart == ASSUME Init PROVE LeaseInv
<1>1. TypeOK
  BY InitInv DEF Inv
<1>2. EvalIds = {} /\ \A m \in Mints : held[m] = 0
  BY DEF Init, EvalIds
<1>3. QED
  BY <1>1, <1>2 DEF LeaseInv, LeasesMatchEvaluations, HolderIsLatest

\* The types are those of the pipeline.
LEMMA PipelineTypes == Spec => []TypeOK
<1>1. TypeOK /\ OnePositionPerMint /\ ExposureCap /\ ReservationsMatchBuys => TypeOK
  OBVIOUS
<1>2. QED
  BY <1>1, PipelineSafety, PTL

LEMMA LeaseInvariant == Spec => []LeaseInv
<1>1. LeaseInv /\ TypeOK' /\ [Next]_vars => LeaseInv'
  BY LeaseStep
<1>2. QED
  BY <1>1, LeaseStart, PipelineTypes, PTL DEF Spec

\* A lease belongs to an unfinished evaluation of its token, and as long as an
\* evaluation is not stuck nobody takes the token from it, whatever older ones
\* do when they wake (evaluationGuard.ts: tryAcquire, release).
THEOREM LeasesHold == Spec => []LeasesMatchEvaluations
<1>1. LeaseInv => LeasesMatchEvaluations
  BY DEF LeaseInv
<1>2. QED
  BY <1>1, LeaseInvariant, PTL

\* A superseded evaluation never starts a buy: its last check finds that the
\* lease is not its own any more (loop.ts: isCurrent before the commit).
THEOREM SupersededNeverEnter == Spec => NoSupersededEntry
<1> DEFINE A == \A e \in EvalIds :
                  (evals[e].pc = "gathering" /\ evals'[e].pc = "buying") =>
                    \A f \in EvalIds : f > e => evals[f].mint # evals[e].mint
<1>1. LeaseInv /\ [Next]_vars => A
  <2> SUFFICES ASSUME LeaseInv, [Next]_vars, NEW e \in EvalIds,
                      evals[e].pc = "gathering", evals'[e].pc = "buying"
               PROVE  \A f \in EvalIds : f > e => evals[f].mint # evals[e].mint
    OBVIOUS
  <2>1. Commit(e)
    <3>1. TypeOK /\ evals \in Seq(Evaluation) /\ Len(evals) \in Nat /\ e \in 1..Len(evals)
      BY LeaseTypes DEF LeaseInv, TypeOK, EvalIds
    <3>2. CASE \/ StopOrchestrator \/ UNCHANGED vars \/ Tick
               \/ \E m \in Mints : SkipEvaluation(m)
               \/ \E i \in TradeIds : GiveUpPosition(i) \/ \E pnl \in ExitPnls : ClosePosition(i, pnl)
      <4>1. evals' = evals
        BY <3>2, Zenon DEF StopOrchestrator, Tick, SkipEvaluation, GiveUpPosition, ClosePosition, vars
      <4>2. QED
        BY <4>1
    <3>3. CASE \E m \in Mints : StartEvaluation(m)
      <4>1. PICK r : evals' = Append(evals, r)
        BY <3>3 DEF StartEvaluation
      <4>2. evals'[e] = evals[e]
        BY <3>1, <4>1
      <4>3. QED
        BY <4>2
    <3>4. CASE Restart
      BY <3>1, <3>4, EvalType DEF Restart, Evaluation, EvalIds
    <3>5. CASE \E f \in EvalIds : Commit(f)
      <4>1. PICK f \in EvalIds : Commit(f)
        BY <3>5
      <4>2. evals' = [evals EXCEPT ![f].pc = "buying"]
        BY <4>1 DEF Commit
      <4>3. f = e
        BY <3>1, <4>2 DEF EvalIds
      <4>4. QED
        BY <4>1, <4>3
    <3>6. CASE \E f \in EvalIds : \/ Reject(f) \/ Refuse(f) \/ BuyLands(f) \/ BuyFilled(f)
                                  \/ BuyFilledHalfRecorded(f) \/ BuyFailed(f) \/ BuyLost(f)
      <4>1. PICK f \in EvalIds : \/ Reject(f) \/ Refuse(f) \/ BuyLands(f) \/ BuyFilled(f)
                                 \/ BuyFilledHalfRecorded(f) \/ BuyFailed(f) \/ BuyLost(f)
        BY <3>6
      <4>2. \/ evals' = [evals EXCEPT ![f].pc = "done"]
            \/ evals' = [evals EXCEPT ![f].pc = "done", ![f].landed = FALSE]
            \/ evals' = [evals EXCEPT ![f].landed = TRUE]
        BY <4>1 DEF Reject, Refuse, BuyLands, BuyFilled, BuyFilledHalfRecorded, BuyFailed, BuyLost,
                    Finish, RecordEntry
      <4>3. evals[e] \in Evaluation /\ evals[f] \in Evaluation
        BY <3>1, EvalType
      <4>4. DOMAIN evals = 1..Len(evals) /\ f \in 1..Len(evals)
        BY <3>1 DEF EvalIds
      <4>5. CASE f # e
        <5>1. evals'[e] = evals[e]
          BY <3>1, <4>2, <4>4, <4>5
        <5>2. QED
          BY <5>1
      <4>6. CASE f = e
        <5>1. \/ evals'[e] = [evals[e] EXCEPT !.pc = "done"]
              \/ evals'[e] = [evals[e] EXCEPT !.pc = "done", !.landed = FALSE]
              \/ evals'[e] = [evals[e] EXCEPT !.landed = TRUE]
          BY <3>1, <4>2, <4>4, <4>6
        <5>2. evals'[e].pc = "done" \/ evals'[e].pc = evals[e].pc
          BY <4>3, <5>1 DEF Evaluation
        <5>3. QED
          BY <5>2
      <4>7. QED
        BY <4>5, <4>6
    <3>7. QED
      BY <3>2, <3>3, <3>4, <3>5, <3>6, Zenon DEF Next, Ticks
  <2>2. held[evals[e].mint] = e
    BY <2>1 DEF Commit, MayCommit, IsCurrent
  <2>3. e # 0 /\ evals[e].mint \in Mints
    BY LeaseTypes DEF LeaseInv
  <2>4. QED
    BY <2>2, <2>3 DEF LeaseInv, HolderIsLatest
<1>2. QED
  BY <1>1, LeaseInvariant, PTL DEF Spec, NoSupersededEntry

------------------------------------------------------------------------------
\* With shared reads.

\* What an evaluation does between its reads is a step of the pipeline, or
\* nothing that the pipeline knows of.
LEMMA ReadsStepPipeline == ASSUME [ReadsNext]_readVars PROVE [Next]_vars
<1>1. CASE UNCHANGED readVars
  BY <1>1 DEF readVars
<1>2. ASSUME NEW e \in Running, Ask(e) \/ Decide(e) PROVE [Next]_vars
  <2>1. e \in EvalIds
    BY DEF Running
  <2>2. CASE Ask(e)
    BY <2>2 DEF Ask
  <2>3. CASE Decide(e)
    BY <2>1, <2>3 DEF Decide, Next
  <2>4. QED
    BY <1>2, <2>2, <2>3
<1>3. CASE TimePasses
  BY <1>3 DEF TimePasses, Next
<1>4. ASSUME NEW m \in Mints, TicksAgain(m) \/ ChainMoves(m) PROVE [Next]_vars
  <2>1. CASE TicksAgain(m)
    BY <2>1 DEF TicksAgain, Ticks, Next
  <2>2. CASE ChainMoves(m)
    BY <2>2 DEF ChainMoves
  <2>3. QED
    BY <1>4, <2>1, <2>2
<1>5. ASSUME NEW e \in EvalIds, MarketAnswers(e) \/ QuotesAnswer(e) \/ FetchFails(e) PROVE [Next]_vars
  BY <1>5 DEF MarketAnswers, QuotesAnswer, FetchFails, FiltersDecide, Discard, Next
<1>6. ASSUME NEW e \in EvalIds, LiquidityAnswers(e) \/ BuyGoesOn(e) PROVE [Next]_vars
  BY <1>6 DEF LiquidityAnswers, BuyGoesOn, Next
<1>7. ASSUME NEW k \in Keys, LoadReturns(k) \/ LoadFails(k) PROVE [Next]_vars
  BY <1>7 DEF LoadReturns, LoadFails, Landed
<1>8. QED
  BY <1>1, <1>2, <1>3, <1>4, <1>5, <1>6, <1>7 DEF ReadsNext

\* The limits hold of evaluations that wait on shared reads, are superseded
\* while they do, and decide on what others have loaded (evaluateTokenInner).
THEOREM ReadsPipeline == ReadsSpec => [](OnePositionPerMint /\ ExposureCap /\ ReservationsMatchBuys)
<1>1. ReadsSpec => Spec
  <2>1. ReadsInit => Init
    BY DEF ReadsInit
  <2>2. QED
    BY <2>1, ReadsStepPipeline, PTL DEF ReadsSpec, Spec
<1>2. QED
  BY <1>1, PipelineSafety, PTL

------------------------------------------------------------------------------
\* What the chain has shown stays shown.

\* The token of m was in its state p at time t or later.
Seen(m, p, t) == p \in 1..phase[m] /\ (p = phase[m] \/ since[m][p + 1] >= t)

\* The source s had, at time t or later, the value that state v has.
Shows(s, m, v, t) ==
  v \in 1..phase[m] /\ \E p \in 1..phase[m] : Seen(m, p, t) /\ Token(m, p)[s] = Token(m, v)[s]

ChainOK ==
  /\ now \in Nat
  /\ history \in [Mints -> Histories]
  /\ phase \in [Mints -> Nat \ {0}]
  /\ since \in [Mints -> Seq(Nat)]
  /\ \A m \in Mints : /\ phase[m] <= Len(history[m]) /\ Len(since[m]) = phase[m]
                      /\ \A p \in 1..phase[m] : since[m][p] <= now
                      /\ \A p, q \in 1..phase[m] : p <= q => since[m][p] <= since[m][q]

\* A step in which time and the chain only go forward.
Grows ==
  /\ now' \in Nat /\ now <= now' /\ history' = history
  /\ \A m \in Mints : /\ phase'[m] \in Nat /\ phase[m] <= phase'[m]
                      /\ \A p \in 1..phase[m], t \in Int : t <= now /\ Seen(m, p, t) => Seen(m, p, t)'

LEMMA ReadsNumbers ==
  /\ MaxAge \in Nat /\ MaxFlight \in Nat /\ MaxTime \in Nat
  /\ \A s \in Sources : Ttl(s) \in Nat
  /\ \A h \in Histories : Len(h) \in Nat \ {0} /\ \A p \in 1..Len(h) : h[p].market \in Market
BY ReadsAssumption, PipelineAssumption DEF Ttl, Sources

LEMMA Extended ==
  ASSUME NEW n \in Nat, NEW old, NEW new, NEW t \in Nat, new[n + 1] = t,
         \A p \in 1..n : old[p] \in Nat /\ old[p] <= t /\ new[p] = old[p],
         \A p, q \in 1..n : p <= q => old[p] <= old[q]
  PROVE  /\ \A p \in 1..n+1 : new[p] <= t
         /\ \A p, q \in 1..n+1 : p <= q => new[p] <= new[q]
<1>1. \A p \in 1..n+1 : p \in 1..n \/ p = n + 1
  OBVIOUS
<1>2. \A p \in 1..n : new[p] \in Nat /\ new[p] <= t
  OBVIOUS
<1>3. \A p, q \in 1..n : p <= q => new[p] <= new[q]
  OBVIOUS
<1>4. \A p \in 1..n+1 : new[p] <= t
  BY <1>1, <1>2
<1>5. ASSUME NEW p \in 1..n+1, NEW q \in 1..n+1, p <= q PROVE new[p] <= new[q]
  BY <1>1, <1>2, <1>3, <1>4, <1>5
<1>6. QED
  BY <1>4, <1>5

LEMMA ChainMovesOn == ASSUME ChainOK, NEW m \in Mints, ChainMoves(m) PROVE ChainOK' /\ Grows
<1>1. /\ now \in Nat /\ now' = now /\ history' = history /\ history \in [Mints -> Histories]
      /\ phase' = [phase EXCEPT ![m] = @ + 1]
      /\ since' = [since EXCEPT ![m] = Append(@, now)]
      /\ phase[m] < Len(history[m])
  BY DEF ChainOK, ChainMoves, vars
<1>2. \A k \in Mints : /\ phase[k] \in Nat \ {0} /\ phase'[k] = IF k = m THEN phase[m] + 1 ELSE phase[k]
                       /\ since[k] \in Seq(Nat) /\ Len(since[k]) = phase[k]
                       /\ since'[k] = IF k = m THEN Append(since[m], now) ELSE since[k]
                       /\ Len(history[k]) \in Nat /\ phase[k] <= Len(history[k])
  BY <1>1, ReadsNumbers DEF ChainOK
<1>3. /\ since'[m] \in Seq(Nat) /\ Len(since'[m]) = phase[m] + 1
      /\ since'[m][phase[m] + 1] = now
      /\ \A p \in 1..phase[m] : since'[m][p] = since[m][p]
  <2>1. since[m] \in Seq(Nat) /\ Len(since[m]) = phase[m] /\ since'[m] = Append(since[m], now)
    BY <1>2
  <2>2. QED
    BY <1>1, <2>1, AppendProperties
<1>4. \A k \in Mints : \A p \in 1..phase[k] : since[k][p] \in Nat /\ since[k][p] <= now
  BY <1>2 DEF ChainOK
<1>5. phase' \in [Mints -> Nat \ {0}] /\ since' \in [Mints -> Seq(Nat)]
  <2>1. phase[m] + 1 \in Nat \ {0} /\ Append(since[m], now) \in Seq(Nat)
    BY <1>1, <1>2
  <2>2. QED
    BY <1>1, <2>1 DEF ChainOK
<1>6. ASSUME NEW k \in Mints
      PROVE  /\ phase'[k] <= Len(history'[k]) /\ Len(since'[k]) = phase'[k]
             /\ \A p \in 1..phase'[k] : since'[k][p] <= now'
             /\ \A p, q \in 1..phase'[k] : p <= q => since'[k][p] <= since'[k][q]
  <2>1. CASE k = m
    <3>1. \A p, q \in 1..phase[m] : p <= q => since[m][p] <= since[m][q]
      BY DEF ChainOK
    <3>2. /\ \A p \in 1..phase[m]+1 : since'[m][p] <= now
          /\ \A p, q \in 1..phase[m]+1 : p <= q => since'[m][p] <= since'[m][q]
      BY <1>1, <1>2, <1>3, <1>4, <3>1, Extended
    <3>3. phase'[m] = phase[m] + 1 /\ Len(history[m]) \in Nat
      BY <1>2
    <3>4. QED
      BY <1>1, <1>2, <1>3, <2>1, <3>2, <3>3
  <2>2. CASE k # m
    BY <1>1, <1>2, <2>2 DEF ChainOK
  <2>3. QED
    BY <2>1, <2>2
<1>7. ASSUME NEW k \in Mints, NEW p \in 1..phase[k], NEW t \in Int, t <= now, Seen(k, p, t)
      PROVE  Seen(k, p, t)'
  <2>1. CASE k = m
    <3>1. CASE p = phase[m]
      BY <1>1, <1>2, <1>3, <1>7, <2>1, <3>1 DEF Seen
    <3>2. CASE p # phase[m]
      <4>1. since[m][p + 1] >= t /\ p + 1 \in 1..phase[m]
        BY <1>2, <1>7, <2>1, <3>2 DEF Seen
      <4>2. QED
        <5>1. since'[m][p + 1] = since[m][p + 1]
          BY <1>3, <4>1
        <5>2. p \in 1..phase'[m]
          BY <1>2, <1>7, <2>1
        <5>3. QED
          BY <2>1, <4>1, <5>1, <5>2 DEF Seen
    <3>3. QED
      BY <3>1, <3>2
  <2>2. CASE k # m
    BY <1>2, <1>7, <2>2 DEF Seen
  <2>3. QED
    BY <2>1, <2>2
<1>8. QED
  BY <1>1, <1>2, <1>5, <1>6, <1>7 DEF ChainOK, Grows

LEMMA ChainStays == ASSUME ChainOK, UNCHANGED chain, now' \in Nat, now <= now' PROVE ChainOK' /\ Grows
<1>1. history' = history /\ phase' = phase /\ since' = since
  BY DEF chain
<1>2. \A m \in Mints : phase[m] \in Nat /\ \A p \in 1..phase[m] : since[m][p] \in Nat
  BY DEF ChainOK
<1>3. \A m \in Mints : \A p \in 1..phase[m] : since[m][p] <= now'
  BY <1>2 DEF ChainOK
<1>4. ChainOK'
  BY <1>1, <1>3 DEF ChainOK
<1>5. Grows
  BY <1>1, <1>2 DEF Grows, Seen
<1>6. QED
  BY <1>4, <1>5

\* What was shown is shown, and was shown earlier too.
LEMMA StillShows ==
  ASSUME ChainOK, Grows, NEW s, NEW m \in Mints, NEW v, NEW t \in Int, t <= now, Shows(s, m, v, t)
  PROVE  Shows(s, m, v, t)'
BY DEF ChainOK, Grows, Shows, Token

LEMMA ShowsEarlier ==
  ASSUME ChainOK, NEW s, NEW m \in Mints, NEW v, NEW t \in Int, NEW u \in Int, u <= t, Shows(s, m, v, t)
  PROVE  Shows(s, m, v, u)
<1>1. PICK p \in 1..phase[m] : Seen(m, p, t) /\ Token(m, p)[s] = Token(m, v)[s]
  BY DEF Shows
<1>2. phase[m] \in Nat /\ since[m] \in Seq(Nat) /\ Len(since[m]) = phase[m]
  BY DEF ChainOK
<1>3. p # phase[m] => since[m][p + 1] \in Nat
  BY <1>2
<1>4. Seen(m, p, u)
  BY <1>1, <1>3 DEF Seen
<1>5. QED
  BY <1>1, <1>4 DEF Shows

------------------------------------------------------------------------------
\* What an evaluation knows.

Stage == {"market", "quote", "liquidity", "decide"} \union Sources
Values ==
  {NoValues} \union
  [source : {"native", "dexscreener"}, liquidity : Int, volume : Int, ratio : Int, velocity : Int,
   acceleration : Int, txRate : Int, impact : Int, sellImpact : Int, fee : Int]
Gate == [stage : Stage, waiting : BOOLEAN, values : Values, market : Nat, oldest : Nat, liquid : BOOLEAN,
         got : [Sources -> Nat]]
Load == [value : Nat, at : Nat]

\* Whatever it has read was shown no longer before than a load takes, counted
\* from the time it takes for the age of its facts.
Informed(g, m) ==
  \A s \in Sources : g.got[s] # 0 => g.oldest <= now /\ Shows(s, m, g.got[s], g.oldest - MaxFlight)

ShowsMarket(values, m, t) ==
  \E p \in 1..phase[m] : /\ Seen(m, p, t)
                         /\ Token(m, p).market.native.quality = "VALID"
                         /\ values = NativeValues(Token(m, p).market)

OffCurve(m) ==
  \E p \in 1..phase[m] : \/ Token(m, p).market.found # "pumpfun"
                         \/ Token(m, p).market.native.quality = "GRADUATED"

\* It goes beyond the filters only with native values, and asks another source
\* only for a token that is off the curve, whose volume is unknown.
Priced(g, m) ==
  /\ g.stage \in {"market", "quote"} => OffCurve(m)
  /\ g.stage = "quote" => g.values.volume = -1
  /\ g.stage \notin {"market", "quote"} =>
       g.market <= now /\ FiltersPass(g.values) /\ ShowsMarket(g.values, m, g.market)

LoadOK(k, x) == x # None => x.at <= now /\ Shows(k[1], k[2], x.value, x.at)
KeptOK(k, x) == x # None => x.value # 0 /\ x.at <= now /\ Shows(k[1], k[2], x.value, x.at - MaxFlight)
InTime(k) == flights[k] # None => now - flights[k].at <= MaxFlight

ReadsTypes ==
  /\ cached \in [Keys -> Load] /\ flights \in [Keys -> Load]
  /\ gates \in Seq(Gate) /\ Len(gates) = Len(evals)

ReadsInv ==
  /\ Inv
  /\ ChainOK
  /\ ReadsTypes
  /\ \A k \in Keys : LoadOK(k, flights[k]) /\ KeptOK(k, cached[k]) /\ InTime(k)
  /\ \A e \in EvalIds : Informed(gates[e], evals[e].mint)

PricedInv == \A e \in EvalIds : evals[e].pc = "gathering" => Priced(gates[e], evals[e].mint)

LEMMA InformedLasts ==
  ASSUME ChainOK, Grows, NEW g \in Gate, NEW m \in Mints, Informed(g, m) PROVE Informed(g, m)'
<1> SUFFICES ASSUME NEW s \in Sources, g.got[s] # 0
             PROVE  g.oldest <= now' /\ Shows(s, m, g.got[s], g.oldest - MaxFlight)'
  BY DEF Informed
<1>1. g.oldest <= now /\ Shows(s, m, g.got[s], g.oldest - MaxFlight) /\ g.oldest \in Nat /\ now \in Nat
  BY DEF Informed, Gate, ChainOK
<1>2. g.oldest - MaxFlight \in Int /\ g.oldest - MaxFlight <= now
  BY <1>1, ReadsNumbers
<1>3. Shows(s, m, g.got[s], g.oldest - MaxFlight)'
  BY <1>1, <1>2, StillShows
<1>4. QED
  BY <1>1, <1>3 DEF Grows

LEMMA PricedLasts ==
  ASSUME ChainOK, Grows, NEW g \in Gate, NEW m \in Mints, Priced(g, m) PROVE Priced(g, m)'
<1>1. g.market \in Nat /\ now \in Nat /\ now' \in Nat /\ now <= now'
  BY DEF Gate, ChainOK, Grows
<1>2. /\ \A p \in 1..phase[m] : p \in 1..phase'[m] /\ Token(m, p)' = Token(m, p)
      /\ \A p \in 1..phase[m], t \in Int : t <= now /\ Seen(m, p, t) => Seen(m, p, t)'
  BY DEF Grows, ChainOK, Token
<1>3. OffCurve(m) => OffCurve(m)'
  BY <1>2 DEF OffCurve
<1>4. g.market <= now /\ ShowsMarket(g.values, m, g.market) => g.market <= now' /\ ShowsMarket(g.values, m, g.market)'
  BY <1>1, <1>2 DEF ShowsMarket
<1>5. QED
  BY <1>3, <1>4 DEF Priced

LEMMA LoadLasts ==
  ASSUME ChainOK, Grows, NEW k \in Keys, NEW x \in Load
  PROVE  (LoadOK(k, x) => LoadOK(k, x)') /\ (KeptOK(k, x) => KeptOK(k, x)')
<1>1. k[2] \in Mints /\ x.at \in Nat /\ x.at - MaxFlight \in Int /\ now \in Nat /\ now' \in Nat /\ now <= now'
  BY ReadsNumbers DEF Keys, Load, ChainOK, Grows
<1>2. x.at <= now => x.at <= now' /\ x.at - MaxFlight <= now
  BY <1>1, ReadsNumbers
<1>3. ASSUME x.at <= now, Shows(k[1], k[2], x.value, x.at) PROVE Shows(k[1], k[2], x.value, x.at)'
  BY <1>1, <1>3, StillShows
<1>4. ASSUME x.at <= now, Shows(k[1], k[2], x.value, x.at - MaxFlight) PROVE Shows(k[1], k[2], x.value, x.at - MaxFlight)'
  BY <1>1, <1>2, <1>4, StillShows
<1>5. QED
  BY <1>2, <1>3, <1>4 DEF LoadOK, KeptOK

\* A step keeps the invariant if what it leaves behind is right by what the
\* chain had shown before it.
LEMMA Onward ==
  ASSUME ReadsInv, Inv', ChainOK', Grows, ReadsTypes',
         \A k \in Keys : LoadOK(k, flights'[k]) /\ KeptOK(k, cached'[k]) /\ InTime(k)',
         \A e \in EvalIds' : evals'[e].mint \in Mints /\ Informed(gates'[e], evals'[e].mint)
  PROVE  ReadsInv'
<1>1. ASSUME NEW k \in Keys PROVE LoadOK(k, flights[k])' /\ KeptOK(k, cached[k])'
  <2>1. PICK x \in Load, y \in Load : x = flights'[k] /\ y = cached'[k]
    BY DEF ReadsTypes
  <2>2. LoadOK(k, x)' /\ KeptOK(k, y)'
    BY <2>1, LoadLasts DEF ReadsInv
  <2>3. QED
    BY <2>1, <2>2 DEF LoadOK, KeptOK, Shows, Seen, Token
<1>2. ASSUME NEW e \in EvalIds' PROVE Informed(gates[e], evals[e].mint)'
  <2>1. gates'[e] \in Gate
    BY ElementOfSeq DEF ReadsTypes, EvalIds
  <2>2. PICK g \in Gate, m \in Mints : g = gates'[e] /\ m = evals'[e].mint
    BY <2>1
  <2>3. Informed(g, m)'
    BY <2>2, InformedLasts DEF ReadsInv
  <2>4. QED
    BY <2>2, <2>3 DEF Informed, Shows, Seen, Token
<1>3. QED
  BY <1>1, <1>2 DEF ReadsInv

LEMMA PricedOnward ==
  ASSUME ReadsInv, Grows, ReadsTypes',
         \A e \in EvalIds' : /\ evals'[e].mint \in Mints
                             /\ evals'[e].pc = "gathering" => Priced(gates'[e], evals'[e].mint)
  PROVE  PricedInv'
<1> SUFFICES ASSUME NEW e \in EvalIds', evals'[e].pc = "gathering" PROVE Priced(gates[e], evals[e].mint)'
  BY DEF PricedInv
<1>1. gates'[e] \in Gate
  BY ElementOfSeq DEF ReadsTypes, EvalIds
<1>2. PICK g \in Gate, m \in Mints : g = gates'[e] /\ m = evals'[e].mint
  BY <1>1
<1>3. Priced(g, m)'
  BY <1>2, PricedLasts DEF ReadsInv
<1>4. QED
  BY <1>2, <1>3 DEF Priced, OffCurve, ShowsMarket, Seen, Token

------------------------------------------------------------------------------
\* How a gathering goes on.

\* A tick of m that does not reject the token at once.
Begun(g, m) ==
  LET market == Token(m, phase[m]).market IN
  \/ Route(market) = "native" /\ FiltersPass(NativeValues(market)) /\ g = Starting(NativeValues(market), now)
  \/ Route(market) = "dexscreener" /\ MayDelegate(market.native) /\ g = Starting(NoValues, now)

\* The gathering g of an evaluation of m becomes h.
Follows(g, h, m) ==
  LET market == Token(m, phase[m]).market IN
  \/ h = g
  \/ h = [g EXCEPT !.waiting = TRUE]
  \/ /\ g.stage = "market" /\ MayDelegate(market.native)
     /\ h = [g EXCEPT !.stage = "quote", !.market = now, !.values = DexValues(market)]
  \/ \E values, at :
       /\ \/ g.stage = "market" /\ values = WithNativeQuotes(DexValues(market), market.native) /\ at = now
          \/ g.stage = "quote" /\ values = WithDexQuotes(g.values, market) /\ at = g.market
       /\ FiltersPass(values)
       /\ h = Starting(values, at)
  \/ /\ g.stage = "liquidity"
     /\ \E enough \in BOOLEAN : h = [g EXCEPT !.stage = "buy", !.waiting = FALSE, !.liquid = enough]
  \/ /\ g.stage \in Sources
     /\ \E value, at \in Nat : /\ value # 0 => at <= now /\ Shows(g.stage, m, value, at - MaxFlight)
                               /\ h = Given(g, value, at)

\* What a step does to evaluation e: its gathering goes on or it ends, or e
\* begins.
Goes(e) ==
  \/ /\ e \in EvalIds /\ evals'[e].mint = evals[e].mint
     /\ \/ /\ Follows(gates[e], gates'[e], evals[e].mint)
           /\ evals'[e].pc = "gathering" => evals[e].pc = "gathering"
        \/ gates'[e] = Ended /\ evals'[e].pc # "gathering"
  \/ evals'[e].mint \in Mints /\ Begun(gates'[e], evals'[e].mint)

ReadsStep ==
  /\ ChainOK' /\ Grows /\ ReadsTypes'
  /\ \A k \in Keys : LoadOK(k, flights'[k]) /\ KeptOK(k, cached'[k]) /\ InTime(k)'
  /\ \A e \in EvalIds' : Goes(e)

LEMMA MarketType ==
  ASSUME ChainOK, NEW m \in Mints, NEW p \in 1..phase[m] PROVE Token(m, p).market \in Market
<1>1. history[m] \in Histories /\ phase[m] \in Nat /\ phase[m] <= Len(history[m]) /\ Len(history[m]) \in Nat
  BY ReadsNumbers DEF ChainOK
<1>2. p \in 1..Len(history[m])
  BY <1>1
<1>3. QED
  BY <1>1, <1>2, ReadsNumbers DEF Token

LEMMA ValuesTypes ==
  ASSUME NEW market \in Market
  PROVE  /\ NativeValues(market) \in Values \ {NoValues}
         /\ DexValues(market) \in Values \ {NoValues}
         /\ WithNativeQuotes(DexValues(market), market.native) \in Values \ {NoValues}
<1>1. NativeValues(market) \in Values \ {NoValues}
  BY DEF NativeValues, Values, Market, NoValues
<1>2. DexValues(market) \in Values \ {NoValues}
  BY DEF DexValues, Values, Market, NoValues
<1>3. ASSUME NEW v \in Values \ {NoValues} PROVE WithNativeQuotes(v, market.native) \in Values \ {NoValues}
  <2>1. market.native.impact \in Int /\ market.native.sellImpact \in Int /\ market.native.fee \in Int
    BY DEF Market
  <2>2. ASSUME NEW a \in Int, NEW b \in Int, NEW c \in Int
        PROVE  [v EXCEPT !.impact = a, !.sellImpact = b, !.fee = c] \in Values \ {NoValues}
    BY DEF Values, NoValues
  <2>3. QED
    BY <2>1, <2>2 DEF WithNativeQuotes
<1>4. QED
  BY <1>1, <1>2, <1>3

LEMMA DexQuotesTypes ==
  ASSUME NEW market \in Market, NEW v \in Values \ {NoValues}
  PROVE  WithDexQuotes(v, market) \in Values \ {NoValues}
BY DEF WithDexQuotes, Values, Market, NoValues

LEMMA StartingType ==
  ASSUME NEW values \in Values, NEW at \in Nat
  PROVE  /\ Starting(values, at) \in Gate
         /\ \A s \in Sources : Starting(values, at).got[s] = 0
         /\ Starting(values, at).market = at /\ Starting(values, at).values = values
         /\ Starting(values, at).stage = IF values = NoValues THEN "market" ELSE "mint"
<1>1. Infinity \in Nat
  BY ReadsNumbers DEF Infinity
<1>2. "mint" \in Stage /\ "market" \in Stage
  BY DEF Stage, Sources
<1>3. [s \in Sources |-> 0] \in [Sources -> Nat]
  OBVIOUS
<1>4. QED
  BY <1>1, <1>2, <1>3 DEF Starting, Gate

LEMMA EndedType == Ended \in Gate /\ \A s \in Sources : Ended.got[s] = 0
<1>1. NoValues \in Values
  BY DEF Values
<1>2. QED
  BY <1>1, StartingType DEF Ended

LEMMA GivenType ==
  ASSUME NEW g \in Gate, g.stage \in Sources, NEW value \in Nat, NEW at \in Nat, NEW h, h = Given(g, value, at)
  PROVE  /\ h \in Gate
         /\ h.stage \notin {"market", "quote"} /\ h.values = g.values /\ h.market = g.market
         /\ h.oldest = IF value # 0 THEN AsOf(g.oldest, at) ELSE g.oldest
         /\ \A s \in Sources : h.got[s] = IF s = g.stage THEN value ELSE g.got[s]
<1>1. StageAfter(g.stage, value) \in Stage \ {"market", "quote"}
  BY DEF StageAfter, Stage, Sources
<1>2. AsOf(g.oldest, at) \in Nat /\ g.oldest \in Nat
  BY DEF AsOf, Gate
<1>3. (StageAfter(g.stage, value) = "liquidity") \in BOOLEAN
  OBVIOUS
<1> DEFINE st == StageAfter(g.stage, value)
           old == IF value # 0 THEN AsOf(g.oldest, at) ELSE g.oldest
           got == [g.got EXCEPT ![g.stage] = value]
           w == st = "liquidity"
<1>4. got \in [Sources -> Nat] /\ \A s \in Sources : got[s] = IF s = g.stage THEN value ELSE g.got[s]
  BY DEF Gate
<1>5. old \in Nat
  BY <1>2
<1>6. h = [g EXCEPT !.got = got, !.oldest = old, !.stage = st, !.waiting = w]
  BY DEF Given, Gate
<1> HIDE DEF old, got, w
<1>7. st \in Stage \ {"market", "quote"}
  BY <1>1
<1> HIDE DEF st
<1>8. w \in BOOLEAN
  BY <1>3 DEF w, st
<1>9. h \in Gate
  BY <1>4, <1>5, <1>6, <1>7, <1>8 DEF Gate
<1>10. h.got = got /\ h.oldest = old /\ h.stage = st /\ h.values = g.values /\ h.market = g.market
  BY <1>6 DEF Gate
<1>11. QED
  BY <1>4, <1>7, <1>9, <1>10 DEF old

\* The age of the facts follows the oldest of them.
LEMMA GivenInformed ==
  ASSUME ChainOK, NEW m \in Mints, NEW g \in Gate, g.stage \in Sources, Informed(g, m),
         NEW value \in Nat, NEW at \in Nat, value # 0 => at <= now /\ Shows(g.stage, m, value, at - MaxFlight),
         NEW h, h = Given(g, value, at)
  PROVE  h \in Gate /\ Informed(h, m)
<1>1. /\ h \in Gate /\ h.oldest = (IF value # 0 THEN AsOf(g.oldest, at) ELSE g.oldest)
      /\ \A s \in Sources : h.got[s] = IF s = g.stage THEN value ELSE g.got[s]
  BY GivenType
<1>2. g.oldest \in Nat /\ h.oldest \in Nat /\ now \in Nat /\ MaxFlight \in Nat
  BY <1>1, ReadsNumbers DEF Gate, ChainOK
<1>3. h.oldest <= g.oldest /\ (value # 0 => h.oldest <= at)
  BY <1>1, <1>2 DEF AsOf
<1>4. /\ h.oldest - MaxFlight \in Int /\ g.oldest - MaxFlight \in Int /\ at - MaxFlight \in Int
      /\ h.oldest - MaxFlight <= g.oldest - MaxFlight /\ (value # 0 => h.oldest - MaxFlight <= at - MaxFlight)
  BY <1>2, <1>3
<1>5. ASSUME NEW s \in Sources, h.got[s] # 0 PROVE h.oldest <= now /\ Shows(s, m, h.got[s], h.oldest - MaxFlight)
  <2>1. CASE s = g.stage
    <3>1. value # 0 /\ h.got[s] = value
      BY <1>1, <1>5, <2>1
    <3>2. Shows(s, m, value, h.oldest - MaxFlight)
      BY <1>4, <2>1, <3>1, ShowsEarlier
    <3>3. QED
      BY <1>2, <1>3, <3>1, <3>2
  <2>2. CASE s # g.stage
    <3>1. h.got[s] = g.got[s] /\ g.oldest <= now /\ Shows(s, m, g.got[s], g.oldest - MaxFlight)
      BY <1>1, <1>5, <2>2 DEF Informed
    <3>2. Shows(s, m, g.got[s], h.oldest - MaxFlight)
      BY <1>4, <3>1, ShowsEarlier
    <3>3. QED
      BY <1>2, <1>3, <3>1, <3>2
  <2>3. QED
    BY <2>1, <2>2
<1>6. QED
  BY <1>1, <1>5 DEF Informed

LEMMA FollowsInformed ==
  ASSUME ChainOK, NEW m \in Mints, NEW g \in Gate, Informed(g, m), NEW h, Follows(g, h, m)
  PROVE  h \in Gate /\ Informed(h, m)
<1> DEFINE market == Token(m, phase[m]).market
<1>1. market \in Market /\ now \in Nat
  BY MarketType DEF ChainOK
<1>2. CASE h = g
  BY <1>2
<1>3. CASE h = [g EXCEPT !.waiting = TRUE]
  <2>1. h \in Gate /\ h.got = g.got /\ h.oldest = g.oldest
    BY <1>3 DEF Gate
  <2>2. QED
    BY <2>1 DEF Informed
<1>4. CASE h = [g EXCEPT !.stage = "quote", !.market = now, !.values = DexValues(market)]
  <2>1. DexValues(market) \in Values
    BY <1>1, ValuesTypes
  <2>2. "quote" \in Stage
    BY DEF Stage
  <2> HIDE DEF market
  <2>3. h \in Gate /\ h.got = g.got /\ h.oldest = g.oldest
    BY <1>1, <1>4, <2>1, <2>2 DEF Gate
  <2>4. QED
    BY <2>3 DEF Informed
<1>5. ASSUME NEW values, NEW at,
             \/ g.stage = "market" /\ values = WithNativeQuotes(DexValues(market), market.native) /\ at = now
             \/ g.stage = "quote" /\ values = WithDexQuotes(g.values, market) /\ at = g.market,
             FiltersPass(values), h = Starting(values, at)
      PROVE  h \in Gate /\ Informed(h, m)
  <2>1. at \in Nat
    BY <1>1, <1>5 DEF Gate
  <2>2. values \in Values
    <3>1. CASE g.stage = "market" /\ values = WithNativeQuotes(DexValues(market), market.native)
      BY <1>1, <3>1, ValuesTypes
    <3>2. CASE g.stage = "quote" /\ values = WithDexQuotes(g.values, market)
      <4>1. CASE g.values = NoValues
        BY <1>5, <3>2, <4>1 DEF WithDexQuotes, FiltersPass, NoValues, Values, Market
      <4>2. CASE g.values # NoValues
        BY <1>1, <3>2, <4>2, DexQuotesTypes DEF Gate
      <4>3. QED
        BY <4>1, <4>2
    <3>3. QED
      BY <1>5, <3>1, <3>2
  <2>3. QED
    BY <1>5, <2>1, <2>2, StartingType DEF Informed
<1>6. ASSUME NEW enough \in BOOLEAN, h = [g EXCEPT !.stage = "buy", !.waiting = FALSE, !.liquid = enough]
      PROVE  h \in Gate /\ Informed(h, m)
  <2>1. "buy" \in Stage
    BY DEF Stage, Sources
  <2>2. h \in Gate /\ h.got = g.got /\ h.oldest = g.oldest
    BY <1>6, <2>1 DEF Gate
  <2>3. QED
    BY <2>2 DEF Informed
<1>7. ASSUME g.stage \in Sources, NEW value \in Nat, NEW at \in Nat,
             value # 0 => at <= now /\ Shows(g.stage, m, value, at - MaxFlight), h = Given(g, value, at)
      PROVE  h \in Gate /\ Informed(h, m)
  BY <1>7, GivenInformed
<1>8. QED
  BY <1>2, <1>3, <1>4, <1>5, <1>6, <1>7 DEF Follows

LEMMA BegunInformed ==
  ASSUME ChainOK, NEW m \in Mints, NEW g, Begun(g, m) PROVE g \in Gate /\ Informed(g, m)
<1>1. Token(m, phase[m]).market \in Market /\ now \in Nat
  BY MarketType DEF ChainOK
<1>2. PICK values \in Values : g = Starting(values, now)
  <2>1. NoValues \in Values
    BY DEF Values
  <2>2. QED
    BY <1>1, <2>1, ValuesTypes DEF Begun
<1>3. QED
  BY <1>1, <1>2, StartingType DEF Informed

\* A token that is off the curve is off it for good.
LEMMA OffCurveForGood ==
  ASSUME MarketsReal, ChainOK, NEW m \in Mints, OffCurve(m)
  PROVE  Token(m, phase[m]).market.native.quality # "VALID"
<1>1. /\ history[m] \in Histories /\ phase[m] \in Nat \ {0} /\ phase[m] <= Len(history[m])
      /\ Len(history[m]) \in Nat
  BY ReadsNumbers DEF ChainOK
<1>2. PICK p \in 1..phase[m] : history[m][p].market.found # "pumpfun" \/ history[m][p].market.native.quality = "GRADUATED"
  BY DEF OffCurve, Token
<1>3. p \in 1..Len(history[m]) /\ phase[m] \in p..Len(history[m])
  BY <1>1, <1>2
<1>4. history[m][phase[m]].market.native.quality # "VALID"
  BY <1>1, <1>2, <1>3 DEF MarketsReal
<1>5. QED
  BY <1>4 DEF Token

\* What another source shows does not pass the filters: neither what its
\* quotes cost nor the volume is known.
LEMMA FollowsPriced ==
  ASSUME MarketsReal, ChainOK, NEW m \in Mints, NEW g \in Gate, Priced(g, m), NEW h, Follows(g, h, m)
  PROVE  Priced(h, m)
<1> DEFINE market == Token(m, phase[m]).market
<1>1. market \in Market /\ now \in Nat
  BY MarketType DEF ChainOK
<1>2. CASE h = g
  BY <1>2
<1>3. CASE h = [g EXCEPT !.waiting = TRUE]
  <2>1. h.stage = g.stage /\ h.values = g.values /\ h.market = g.market
    BY <1>3 DEF Gate
  <2>2. QED
    BY <2>1 DEF Priced
<1>4. CASE /\ g.stage = "market" /\ MayDelegate(market.native)
           /\ h = [g EXCEPT !.stage = "quote", !.market = now, !.values = DexValues(market)]
  <2>1. OffCurve(m)
    BY <1>4 DEF Priced
  <2>2. history[m] \in Histories /\ phase[m] \in 1..Len(history[m])
    BY ReadsNumbers DEF ChainOK
  <2>3. market.native.volume = -1
    BY <1>4, <2>2 DEF MarketsReal, Token
  <2>4. DexValues(market).volume = -1
    BY <2>3 DEF DexValues
  <2>5. h.stage = "quote" /\ h.values = DexValues(market)
    BY <1>4 DEF Gate
  <2>6. QED
    BY <2>1, <2>4, <2>5 DEF Priced
<1>5. ASSUME NEW values, NEW at,
             \/ g.stage = "market" /\ values = WithNativeQuotes(DexValues(market), market.native) /\ at = now
             \/ g.stage = "quote" /\ values = WithDexQuotes(g.values, market) /\ at = g.market,
             FiltersPass(values)
      PROVE  FALSE
  <2>1. CASE g.stage = "market" /\ values = WithNativeQuotes(DexValues(market), market.native)
    <3>1. market.native.quality # "VALID"
      BY <2>1, OffCurveForGood DEF Priced
    <3>2. values = DexValues(market)
      BY <2>1, <3>1 DEF WithNativeQuotes
    <3>3. values.impact = -1
      BY <3>2 DEF DexValues
    <3>4. QED
      BY <1>5, <3>3 DEF FiltersPass
  <2>2. CASE g.stage = "quote" /\ values = WithDexQuotes(g.values, market)
    <3>1. g.values.volume = -1
      BY <2>2 DEF Priced
    <3>2. values.volume = -1
      <4>1. CASE g.values = NoValues
        BY <2>2, <3>1, <4>1 DEF WithDexQuotes, NoValues
      <4>2. CASE g.values # NoValues
        BY <2>2, <3>1, <4>2 DEF WithDexQuotes, Gate, Values
      <4>3. QED
        BY <4>1, <4>2
    <3>3. QED
      BY <1>5, <3>2 DEF FiltersPass
  <2>3. QED
    BY <1>5, <2>1, <2>2
<1>6. ASSUME g.stage = "liquidity", NEW enough \in BOOLEAN,
             h = [g EXCEPT !.stage = "buy", !.waiting = FALSE, !.liquid = enough]
      PROVE  Priced(h, m)
  <2>1. h.stage = "buy" /\ h.values = g.values /\ h.market = g.market
    BY <1>6 DEF Gate
  <2>2. QED
    BY <1>6, <2>1 DEF Priced
<1>7. ASSUME g.stage \in Sources, NEW value \in Nat, NEW at \in Nat, h = Given(g, value, at)
      PROVE  Priced(h, m)
  <2>1. h.stage \notin {"market", "quote"} /\ h.values = g.values /\ h.market = g.market
    BY <1>7, GivenType
  <2>2. g.stage \notin {"market", "quote"}
    BY <1>7 DEF Sources
  <2>3. QED
    BY <2>1, <2>2 DEF Priced
<1>8. QED
  BY <1>2, <1>3, <1>4, <1>5, <1>6, <1>7 DEF Follows

LEMMA BegunPriced ==
  ASSUME ~Fallback, ChainOK, NEW m \in Mints, NEW g, Begun(g, m) PROVE Priced(g, m)
<1> DEFINE market == Token(m, phase[m]).market
<1>1. market \in Market /\ now \in Nat /\ phase[m] \in 1..phase[m]
  BY MarketType DEF ChainOK
<1>2. CASE Route(market) = "native" /\ FiltersPass(NativeValues(market)) /\ g = Starting(NativeValues(market), now)
  <2>1. market.native.quality = "VALID"
    BY <1>2 DEF Route
  <2>2. g.stage = "mint" /\ g.values = NativeValues(market) /\ g.market = now
    BY <1>1, <1>2, ValuesTypes, StartingType
  <2>3. Seen(m, phase[m], now)
    BY <1>1 DEF Seen
  <2>4. ShowsMarket(g.values, m, now)
    BY <1>1, <2>1, <2>2, <2>3 DEF ShowsMarket
  <2>5. QED
    BY <1>1, <1>2, <2>2, <2>4 DEF Priced
<1>3. CASE Route(market) = "dexscreener" /\ MayDelegate(market.native) /\ g = Starting(NoValues, now)
  <2>1. market.found # "pumpfun" \/ market.native.quality = "GRADUATED"
    BY <1>3 DEF Route
  <2>2. OffCurve(m)
    BY <1>1, <2>1 DEF OffCurve
  <2>3. g.stage = "market"
    <3>1. NoValues \in Values
      BY DEF Values
    <3>2. QED
      BY <1>1, <1>3, <3>1, StartingType
  <2>4. QED
    BY <2>2, <2>3 DEF Priced
<1>4. QED
  BY <1>2, <1>3 DEF Begun

------------------------------------------------------------------------------
\* Every step lets the gatherings go on like that.

\* What a step of the pipeline does to an evaluation: it never begins to gather
\* anew.
LEMMA EvalStep ==
  ASSUME TypeOK, NEW e \in EvalIds,
         \/ Reject(e) \/ Commit(e) \/ Refuse(e)
         \/ BuyLands(e) \/ BuyFilled(e) \/ BuyFilledHalfRecorded(e) \/ BuyFailed(e) \/ BuyLost(e)
  PROVE  /\ now' = now /\ Len(evals') = Len(evals) /\ EvalIds' = EvalIds
         /\ \A f \in EvalIds : evals'[f].mint = evals[f].mint /\ (f # e => evals'[f] = evals[f])
         /\ evals'[e].pc # "gathering"
<1>1. evals[e] \in Evaluation /\ evals[e].mint \in Mints
  BY EvalType
<1>2. ASSUME NEW r \in Evaluation, r.mint = evals[e].mint, r.pc # "gathering",
             evals' = [evals EXCEPT ![e] = r], now' = now
      PROVE  /\ now' = now /\ Len(evals') = Len(evals) /\ EvalIds' = EvalIds
             /\ \A f \in EvalIds : evals'[f].mint = evals[f].mint /\ (f # e => evals'[f] = evals[f])
             /\ evals'[e].pc # "gathering"
  <2>1. /\ EvalIds' = EvalIds /\ Len(evals') = Len(evals)
        /\ \A f \in EvalIds : evals'[f] = IF f = e THEN r ELSE evals[f]
    BY <1>2, EvalMoves
  <2>2. QED
    BY <1>2, <2>1
<1>3. now' = now
  BY DEF Reject, Refuse, Commit, BuyLands, BuyFilled, BuyFilledHalfRecorded, BuyFailed, BuyLost
<1>4. CASE Reject(e) \/ Refuse(e) \/ BuyFailed(e) \/ BuyLost(e)
  <2> DEFINE r == [evals[e] EXCEPT !.pc = "done"]
  <2>1. r \in Evaluation /\ r.mint = evals[e].mint /\ r.pc = "done"
    BY <1>1 DEF Evaluation
  <2>2. evals' = [evals EXCEPT ![e] = r]
    BY <1>4 DEF Reject, Refuse, BuyFailed, BuyLost, Finish
  <2> HIDE DEF r
  <2>3. QED
    BY <1>2, <1>3, <2>1, <2>2
<1>5. CASE Commit(e)
  <2> DEFINE r == [evals[e] EXCEPT !.pc = "buying"]
  <2>1. r \in Evaluation /\ r.mint = evals[e].mint /\ r.pc = "buying"
    BY <1>1 DEF Evaluation
  <2>2. evals' = [evals EXCEPT ![e] = r]
    BY <1>5 DEF Commit
  <2> HIDE DEF r
  <2>3. QED
    BY <1>2, <1>3, <2>1, <2>2
<1>6. CASE BuyLands(e)
  <2> DEFINE r == [evals[e] EXCEPT !.landed = TRUE]
  <2>1. r \in Evaluation /\ r.mint = evals[e].mint /\ r.pc = "buying"
    BY <1>1, <1>6 DEF Evaluation, BuyLands
  <2>2. evals' = [evals EXCEPT ![e] = r]
    BY <1>6 DEF BuyLands
  <2> HIDE DEF r
  <2>3. QED
    BY <1>2, <1>3, <2>1, <2>2
<1>7. CASE BuyFilled(e) \/ BuyFilledHalfRecorded(e)
  <2> DEFINE r == [evals[e] EXCEPT !.pc = "done", !.landed = FALSE]
  <2>1. r \in Evaluation /\ r.mint = evals[e].mint /\ r.pc = "done"
    BY <1>1 DEF Evaluation
  <2>2. evals' = [evals EXCEPT ![e] = r]
    <3>1. evals' = [evals EXCEPT ![e].pc = "done", ![e].landed = FALSE]
      BY <1>7 DEF BuyFilled, BuyFilledHalfRecorded, RecordEntry
    <3>2. e \in 1..Len(evals) /\ evals \in Seq(Evaluation)
      BY DEF TypeOK, EvalIds
    <3>3. QED
      BY <3>1, <3>2
  <2> HIDE DEF r
  <2>3. QED
    BY <1>2, <1>3, <2>1, <2>2
<1>8. QED
  BY <1>4, <1>5, <1>6, <1>7

\* Where nothing else changes, no load does.
LEMMA LoadsStay ==
  ASSUME ReadsInv, now' = now, UNCHANGED <<cached, flights>>
  PROVE  /\ \A k \in Keys : LoadOK(k, flights'[k]) /\ KeptOK(k, cached'[k]) /\ InTime(k)'
         /\ cached' \in [Keys -> Load] /\ flights' \in [Keys -> Load]
BY DEF ReadsInv, ReadsTypes, InTime

LEMMA ChainKeeps == ASSUME ReadsInv, UNCHANGED chain, now' = now PROVE ChainOK' /\ Grows
<1>1. ChainOK
  BY DEF ReadsInv
<1>2. now \in Nat
  BY <1>1 DEF ChainOK
<1>3. now' \in Nat /\ now <= now'
  BY <1>2
<1>4. QED
  BY <1>1, <1>3, ChainStays

\* The gathering of e alone goes on.
LEMMA OneGoes ==
  ASSUME ReadsInv, NEW e \in EvalIds, NEW g, now' = now, UNCHANGED <<chain, cached>>,
         flights' \in [Keys -> Load], \A k \in Keys : LoadOK(k, flights'[k]) /\ InTime(k)',
         Len(evals') = Len(evals),
         \A f \in EvalIds : evals'[f].mint = evals[f].mint /\ (f # e => evals'[f] = evals[f]),
         gates' = [gates EXCEPT ![e] = g],
         \/ g = Ended /\ evals'[e].pc # "gathering"
         \/ Follows(gates[e], g, evals[e].mint) /\ (evals'[e].pc = "gathering" => evals[e].pc = "gathering")
  PROVE  ReadsStep
<1>1. /\ EvalIds' = EvalIds /\ gates \in Seq(Gate) /\ Len(gates) = Len(evals) /\ now \in Nat
      /\ cached' \in [Keys -> Load] /\ ChainOK
      /\ \A f \in EvalIds : evals[f].mint \in Mints /\ Informed(gates[f], evals[f].mint)
  BY EvalType DEF ReadsInv, ReadsTypes, ChainOK, Inv, EvalIds
<1>2. gates[e] \in Gate
  BY <1>1, ElementOfSeq DEF EvalIds
<1>3. g \in Gate
  BY <1>1, <1>2, EndedType, FollowsInformed
<1>4. /\ gates' \in Seq(Gate) /\ Len(gates') = Len(gates)
      /\ \A f \in EvalIds : gates'[f] = IF f = e THEN g ELSE gates[f]
  BY <1>1, <1>3, ExceptSeq DEF EvalIds
<1>5. ReadsTypes'
  BY <1>1, <1>4 DEF ReadsTypes
<1>6. ChainOK' /\ Grows
  BY <1>1, ChainStays
<1>7. \A k \in Keys : KeptOK(k, cached'[k])
  BY DEF ReadsInv
<1>8. ASSUME NEW f \in EvalIds PROVE Goes(f)
  <2>1. CASE f = e
    BY <1>4, <2>1 DEF Goes
  <2>2. CASE f # e
    <3>1. gates'[f] = gates[f] /\ evals'[f] = evals[f]
      BY <1>4, <2>2
    <3>2. QED
      BY <3>1 DEF Goes, Follows
  <2>3. QED
    BY <2>1, <2>2
<1>9. QED
  BY <1>1, <1>5, <1>6, <1>7, <1>8 DEF ReadsStep

\* No gathering goes on.
LEMMA NoneGoes ==
  ASSUME ReadsInv, UNCHANGED gates, Len(evals') = Len(evals), ChainOK', Grows,
         \A f \in EvalIds : /\ evals'[f].mint = evals[f].mint
                            /\ evals'[f].pc = "gathering" => evals[f].pc = "gathering",
         cached' \in [Keys -> Load], flights' \in [Keys -> Load],
         \A k \in Keys : LoadOK(k, flights'[k]) /\ KeptOK(k, cached'[k]) /\ InTime(k)'
  PROVE  ReadsStep
<1>1. EvalIds' = EvalIds
  BY DEF EvalIds
<1>2. ReadsTypes'
  BY DEF ReadsInv, ReadsTypes
<1>3. \A f \in EvalIds : Goes(f)
  BY DEF Goes, Follows
<1>4. QED
  BY <1>1, <1>2, <1>3 DEF ReadsStep

\* The first state that shows a value shows it.
LEMMA ShownRight ==
  ASSUME ChainOK, NEW m \in Mints, NEW p \in 1..phase[m], NEW s
  PROVE  Shown(s, m, p) \in 1..p /\ Token(m, Shown(s, m, p))[s] = Token(m, p)[s]
<1> DEFINE S == {q \in 1..p : Token(m, q)[s] = Token(m, p)[s]}
<1>1. p \in Nat \ {0} /\ p \in 1..p /\ 1..p \subseteq Nat
  BY DEF ChainOK
<1>2. S \subseteq Nat /\ p \in S
  BY <1>1
<1>3. \E q \in S : \A r \in S : q <= r
  <2> HIDE DEF S
  <2>1. QED
    BY <1>2, Least
<1>4. \E q \in 1..p : /\ Token(m, q)[s] = Token(m, p)[s]
                      /\ \A r \in 1..p : Token(m, r)[s] = Token(m, p)[s] => q <= r
  BY <1>3
<1>5. QED
  BY <1>4 DEF Shown

\* The present state shows its values now.
LEMMA ShowsNow ==
  ASSUME ChainOK, NEW m \in Mints, NEW s
  PROVE  Shown(s, m, phase[m]) \in Nat /\ Shows(s, m, Shown(s, m, phase[m]), now)
<1>1. phase[m] \in Nat /\ phase[m] \in 1..phase[m]
  BY DEF ChainOK
<1>2. Seen(m, phase[m], now)
  BY <1>1 DEF Seen
<1>3. Shown(s, m, phase[m]) \in 1..phase[m] /\ Token(m, Shown(s, m, phase[m]))[s] = Token(m, phase[m])[s]
  BY <1>1, ShownRight
<1>4. QED
  BY <1>1, <1>2, <1>3 DEF Shows

LEMMA SameVars ==
  ASSUME UNCHANGED vars
  PROVE  /\ now' = now /\ evals' = evals /\ EvalIds' = EvalIds /\ Len(evals') = Len(evals)
BY DEF vars, EvalIds

LEMMA GatesType ==
  ASSUME ReadsInv, NEW e \in EvalIds
  PROVE  gates \in Seq(Gate) /\ e \in 1..Len(gates) /\ gates[e] \in Gate /\ evals[e].mint \in Mints
<1>1. gates \in Seq(Gate) /\ e \in 1..Len(gates)
  BY DEF ReadsInv, ReadsTypes, EvalIds
<1>2. gates[e] \in Gate
  BY <1>1, ElementOfSeq
<1>3. QED
  BY <1>1, <1>2, EvalType DEF ReadsInv, Inv

LEMMA AskStep == ASSUME ReadsInv, NEW e \in Running, Ask(e) PROVE ReadsStep
<1> DEFINE k == KeyOf(e)
<1>1. e \in EvalIds /\ gates[e] \in Gate /\ evals[e].mint \in Mints /\ gates \in Seq(Gate) /\ e \in 1..Len(gates)
  BY GatesType DEF Running
<1>2. /\ gates[e].stage \in Sources /\ UNCHANGED vars /\ UNCHANGED <<chain, cached>>
      /\ k \in Keys /\ k[1] = gates[e].stage /\ k[2] = evals[e].mint
  BY <1>1 DEF Ask, KeyOf, Keys
<1>3. now' = now /\ evals' = evals /\ Len(evals') = Len(evals)
  BY <1>2, SameVars
<1>4. CASE cached[k] # None /\ gates' = [gates EXCEPT ![e] = Given(@, cached[k].value, cached[k].at)] /\ UNCHANGED flights
  <2> DEFINE g == Given(gates[e], cached[k].value, cached[k].at)
  <2>1. gates' = [gates EXCEPT ![e] = g]
    BY <1>4
  <2>2. /\ cached[k].value \in Nat /\ cached[k].at \in Nat /\ cached[k].at <= now
        /\ Shows(k[1], k[2], cached[k].value, cached[k].at - MaxFlight)
    BY <1>2, <1>4 DEF ReadsInv, ReadsTypes, Load, KeptOK
  <2>3. Follows(gates[e], g, evals[e].mint)
    BY <1>2, <2>2 DEF Follows
  <2>4. /\ flights' \in [Keys -> Load] /\ \A j \in Keys : LoadOK(j, flights'[j]) /\ InTime(j)'
    BY <1>2, <1>3, <1>4, LoadsStay
  <2> HIDE DEF g
  <2>5. QED
    BY <1>1, <1>2, <1>3, <2>1, <2>3, <2>4, OneGoes
<1>5. CASE /\ gates' = [gates EXCEPT ![e].waiting = TRUE]
           /\ flights' = IF flights[k] # None THEN flights
                         ELSE [flights EXCEPT ![k] = [value |-> Shown(k[1], k[2], phase[k[2]]), at |-> now]]
  <2> DEFINE g == [gates[e] EXCEPT !.waiting = TRUE]
             x == [value |-> Shown(k[1], k[2], phase[k[2]]), at |-> now]
  <2>1. gates' = [gates EXCEPT ![e] = g] /\ Follows(gates[e], g, evals[e].mint)
    BY <1>1, <1>5 DEF Follows
  <2>2. /\ x \in Load /\ LoadOK(k, x) /\ now - x.at <= MaxFlight
    <3>1. ChainOK /\ now \in Nat /\ MaxFlight \in Nat
      BY ReadsNumbers DEF ReadsInv, ChainOK
    <3>2. Shown(k[1], k[2], phase[k[2]]) \in Nat /\ Shows(k[1], k[2], Shown(k[1], k[2], phase[k[2]]), now)
      BY <1>1, <1>2, <3>1, ShowsNow
    <3>3. QED
      BY <3>1, <3>2 DEF Load, LoadOK
  <2>3. flights' = flights \/ flights' = [flights EXCEPT ![k] = x]
    BY <1>5
  <2> HIDE DEF g, x, k
  <2>4. /\ flights' \in [Keys -> Load]
        /\ \A j \in Keys : flights'[j] = flights[j] \/ (j = k /\ flights'[j] = x)
    BY <1>2, <2>2, <2>3 DEF ReadsInv, ReadsTypes
  <2>5. ASSUME NEW j \in Keys PROVE LoadOK(j, flights'[j]) /\ InTime(j)'
    BY <1>3, <2>2, <2>4 DEF ReadsInv, InTime
  <2>6. QED
    BY <1>1, <1>2, <1>3, <2>1, <2>4, <2>5, OneGoes
<1>6. QED
  BY <1>4, <1>5 DEF Ask

\* An evaluation is discarded, or the gathering of e goes on by itself.
LEMMA DiscardStep == ASSUME ReadsInv, NEW e \in EvalIds, Discard(e), UNCHANGED <<chain, cached, flights>> PROVE ReadsStep
<1>1. /\ now' = now /\ Len(evals') = Len(evals) /\ EvalIds' = EvalIds
      /\ \A f \in EvalIds : evals'[f].mint = evals[f].mint /\ (f # e => evals'[f] = evals[f])
      /\ evals'[e].pc # "gathering"
  BY EvalStep DEF Discard, ReadsInv, Inv
<1>2. gates' = [gates EXCEPT ![e] = Ended]
  BY DEF Discard
<1>3. /\ flights' \in [Keys -> Load] /\ \A j \in Keys : LoadOK(j, flights'[j]) /\ InTime(j)'
  BY <1>1, LoadsStay
<1>4. QED
  BY <1>1, <1>2, <1>3, OneGoes

LEMMA GatherStep ==
  ASSUME ReadsInv, NEW e \in EvalIds, UNCHANGED vars, UNCHANGED <<chain, cached, flights>>,
         NEW g, gates' = [gates EXCEPT ![e] = g], Follows(gates[e], g, evals[e].mint)
  PROVE  ReadsStep
<1>1. now' = now /\ evals' = evals /\ Len(evals') = Len(evals)
  BY SameVars
<1>2. /\ flights' \in [Keys -> Load] /\ \A j \in Keys : LoadOK(j, flights'[j]) /\ InTime(j)'
  BY <1>1, LoadsStay
<1>3. QED
  BY <1>1, <1>2, OneGoes

LEMMA DecideStep == ASSUME ReadsInv, NEW e \in Running, Decide(e) PROVE ReadsStep
<1>1. e \in EvalIds /\ Inv
  BY DEF Running, ReadsInv
<1>2. /\ now' = now /\ Len(evals') = Len(evals) /\ EvalIds' = EvalIds
      /\ \A f \in EvalIds : evals'[f].mint = evals[f].mint /\ (f # e => evals'[f] = evals[f])
      /\ evals'[e].pc # "gathering"
  BY <1>1, EvalStep DEF Decide, Inv
<1>3. UNCHANGED <<chain, cached, flights>> /\ gates' = [gates EXCEPT ![e] = Ended]
  BY DEF Decide
<1>4. /\ flights' \in [Keys -> Load] /\ \A j \in Keys : LoadOK(j, flights'[j]) /\ InTime(j)'
  BY <1>2, <1>3, LoadsStay
<1>5. QED
  BY <1>1, <1>2, <1>3, <1>4, OneGoes

LEMMA AnswerStep ==
  ASSUME ReadsInv, NEW e \in EvalIds, MarketAnswers(e) \/ QuotesAnswer(e) \/ FetchFails(e) \/ LiquidityAnswers(e)
  PROVE  ReadsStep
<1> DEFINE m == evals[e].mint
           market == Token(m, phase[m]).market
<1>1. gates \in Seq(Gate) /\ e \in 1..Len(gates) /\ gates[e] \in Gate /\ m \in Mints
  BY GatesType
<1>2. UNCHANGED <<chain, cached, flights>>
  BY DEF MarketAnswers, QuotesAnswer, FetchFails, LiquidityAnswers
<1>3. CASE Discard(e)
  BY <1>2, <1>3, DiscardStep
<1>4. ASSUME NEW values, NEW at, FiltersDecide(e, values, at),
             \/ gates[e].stage = "market" /\ values = WithNativeQuotes(DexValues(market), market.native) /\ at = now
             \/ gates[e].stage = "quote" /\ values = WithDexQuotes(gates[e].values, market) /\ at = gates[e].market
      PROVE  ReadsStep
  <2>1. CASE FiltersPass(values) /\ gates' = [gates EXCEPT ![e] = Starting(values, at)] /\ UNCHANGED vars
    <3>1. Follows(gates[e], Starting(values, at), m)
      BY <1>4, <2>1 DEF Follows
    <3>2. QED
      BY <1>2, <2>1, <3>1, GatherStep
  <2>2. QED
    BY <1>3, <1>4, <2>1 DEF FiltersDecide
<1>5. CASE MarketAnswers(e)
  <2>1. CASE /\ MayDelegate(market.native)
             /\ gates' = [gates EXCEPT ![e].stage = "quote", ![e].market = now, ![e].values = DexValues(market)]
             /\ UNCHANGED vars
    <3> DEFINE g == [gates[e] EXCEPT !.stage = "quote", !.market = now, !.values = DexValues(market)]
    <3>1. Follows(gates[e], g, m)
      BY <1>5, <2>1 DEF Follows, MarketAnswers
    <3>2. gates' = [gates EXCEPT ![e] = g]
      BY <1>1, <2>1
    <3> HIDE DEF g
    <3>3. QED
      BY <1>2, <2>1, <3>1, <3>2, GatherStep
  <2>2. gates[e].stage = "market"
    BY <1>5 DEF MarketAnswers
  <2>3. CASE FiltersDecide(e, WithNativeQuotes(DexValues(market), market.native), now)
    BY <1>4, <2>2, <2>3
  <2>4. QED
    BY <1>3, <1>5, <2>1, <2>3 DEF MarketAnswers
<1>6. CASE QuotesAnswer(e)
  BY <1>4, <1>6 DEF QuotesAnswer
<1>7. CASE FetchFails(e)
  BY <1>3, <1>7 DEF FetchFails
<1>8. CASE LiquidityAnswers(e)
  <2>1. PICK enough \in BOOLEAN :
           gates' = [gates EXCEPT ![e].stage = "buy", ![e].waiting = FALSE, ![e].liquid = enough]
    BY <1>8 DEF LiquidityAnswers
  <2> DEFINE g == [gates[e] EXCEPT !.stage = "buy", !.waiting = FALSE, !.liquid = enough]
  <2>2. Follows(gates[e], g, m)
    BY <1>8 DEF Follows, LiquidityAnswers
  <2>3. gates' = [gates EXCEPT ![e] = g]
    BY <1>1, <2>1
  <2>4. UNCHANGED vars
    BY <1>8 DEF LiquidityAnswers
  <2> HIDE DEF g
  <2>5. QED
    BY <1>2, <2>2, <2>3, <2>4, GatherStep
<1>9. QED
  BY <1>5, <1>6, <1>7, <1>8

LEMMA BuyStep == ASSUME ReadsInv, NEW e \in EvalIds, BuyGoesOn(e) PROVE ReadsStep
<1>1. /\ now' = now /\ Len(evals') = Len(evals) /\ EvalIds' = EvalIds
      /\ \A f \in EvalIds : evals'[f].mint = evals[f].mint /\ (f # e => evals'[f] = evals[f])
      /\ evals'[e].pc # "gathering"
  BY EvalStep DEF BuyGoesOn, ReadsInv, Inv
<1>2. UNCHANGED <<chain, cached, flights, gates>>
  BY DEF BuyGoesOn
<1>3. /\ \A k \in Keys : LoadOK(k, flights'[k]) /\ KeptOK(k, cached'[k]) /\ InTime(k)'
      /\ cached' \in [Keys -> Load] /\ flights' \in [Keys -> Load]
  BY <1>1, <1>2, LoadsStay
<1>4. ChainOK' /\ Grows
  BY <1>1, <1>2, ChainKeeps
<1>5. \A f \in EvalIds : evals'[f].mint = evals[f].mint /\ (evals'[f].pc = "gathering" => evals[f].pc = "gathering")
  BY <1>1
<1>6. QED
  BY <1>1, <1>2, <1>3, <1>4, <1>5, NoneGoes

LEMMA ChainStep == ASSUME ReadsInv, NEW m \in Mints, ChainMoves(m) PROVE ReadsStep
<1>1. UNCHANGED vars /\ UNCHANGED <<cached, flights, gates>>
  BY DEF ChainMoves
<1>2. now' = now /\ evals' = evals /\ Len(evals') = Len(evals)
  BY <1>1, SameVars
<1>3. /\ \A k \in Keys : LoadOK(k, flights'[k]) /\ KeptOK(k, cached'[k]) /\ InTime(k)'
      /\ cached' \in [Keys -> Load] /\ flights' \in [Keys -> Load]
  BY <1>1, <1>2, LoadsStay
<1>4. ChainOK' /\ Grows
  BY ChainMovesOn DEF ReadsInv
<1>5. QED
  BY <1>1, <1>2, <1>3, <1>4, NoneGoes

LEMMA TimeStep == ASSUME ReadsInv, TimePasses PROVE ReadsStep
<1>1. /\ now \in Nat /\ now' = now + 1 /\ UNCHANGED <<chain, flights, gates>> /\ evals' = evals
      /\ cached' = [k \in Keys |-> Kept(k, now + 1)]
      /\ \A k \in Keys : flights[k] # None => now - flights[k].at < MaxFlight
  BY DEF TimePasses, Tick, ReadsInv, ChainOK
<1>2. ChainOK' /\ Grows
  BY <1>1, ChainStays DEF ReadsInv
<1>3. ASSUME NEW k \in Keys
      PROVE  LoadOK(k, flights'[k]) /\ KeptOK(k, cached'[k]) /\ InTime(k)' /\ cached'[k] \in Load
  <2>1. flights[k] \in Load /\ cached[k] \in Load /\ None \in Load /\ MaxFlight \in Nat
    BY ReadsNumbers DEF ReadsInv, ReadsTypes, Load, None
  <2>2. flights'[k] # None => now' - flights'[k].at <= MaxFlight
    <3>1. flights[k].at \in Nat
      BY <2>1 DEF Load
    <3>2. QED
      BY <1>1, <2>1, <3>1
  <2>3. cached'[k] = cached[k] \/ cached'[k] = None
    BY <1>1 DEF Kept
  <2>4. QED
    BY <1>1, <2>1, <2>2, <2>3 DEF ReadsInv, InTime, KeptOK
<1>4. cached' \in [Keys -> Load] /\ flights' \in [Keys -> Load]
  BY <1>1, <1>3 DEF ReadsInv, ReadsTypes
<1>5. QED
  BY <1>1, <1>2, <1>3, <1>4, NoneGoes

LEMMA TickStep == ASSUME ReadsInv, NEW m \in Mints, TicksAgain(m) PROVE ReadsStep
<1> DEFINE market == Token(m, phase[m]).market
<1>1. UNCHANGED <<chain, cached, flights>>
  BY DEF TicksAgain
<1>2. CASE SkipEvaluation(m) /\ UNCHANGED gates
  <2>1. now' = now /\ evals' = evals
    BY <1>2 DEF SkipEvaluation
  <2>2. /\ \A k \in Keys : LoadOK(k, flights'[k]) /\ KeptOK(k, cached'[k]) /\ InTime(k)'
        /\ cached' \in [Keys -> Load] /\ flights' \in [Keys -> Load]
    BY <1>1, <2>1, LoadsStay
  <2>3. ChainOK' /\ Grows
    BY <1>1, <2>1, ChainKeeps
  <2>4. QED
    BY <1>2, <2>1, <2>2, <2>3, NoneGoes
<1>3. ASSUME NEW g, Begun(g, m), StartEvaluation(m), gates' = Append(gates, g) PROVE ReadsStep
  <2> DEFINE r == [mint |-> m, startedAt |-> now, pc |-> "gathering", landed |-> FALSE]
  <2>1. /\ evals \in Seq(Evaluation) /\ Len(evals) \in Nat /\ r \in Evaluation /\ r.mint = m
        /\ evals' = Append(evals, r) /\ now' = now
    BY <1>3, Counts DEF StartEvaluation, ReadsInv, Inv, TypeOK, ChainOK, Evaluation
  <2>2. gates \in Seq(Gate) /\ Len(gates) = Len(evals) /\ g \in Gate
    BY <1>3, BegunInformed DEF ReadsInv, ReadsTypes
  <2> HIDE DEF r
  <2>3. /\ Len(evals') = Len(evals) + 1 /\ evals'[Len(evals) + 1].mint = m
        /\ \A f \in EvalIds : evals'[f] = evals[f]
    BY <2>1, AppendProperties DEF EvalIds
  <2>4. /\ gates' \in Seq(Gate) /\ Len(gates') = Len(gates) + 1 /\ gates'[Len(gates) + 1] = g
        /\ \A f \in EvalIds : gates'[f] = gates[f]
    BY <1>3, <2>2, AppendProperties DEF EvalIds
  <2>5. /\ \A k \in Keys : LoadOK(k, flights'[k]) /\ KeptOK(k, cached'[k]) /\ InTime(k)'
        /\ cached' \in [Keys -> Load] /\ flights' \in [Keys -> Load]
    BY <1>1, <2>1, LoadsStay
  <2>6. ChainOK' /\ Grows
    BY <1>1, <2>1, ChainKeeps
  <2>7. ReadsTypes'
    BY <2>2, <2>3, <2>4, <2>5 DEF ReadsTypes
  <2>8. ASSUME NEW f \in EvalIds' PROVE Goes(f)
    <3>1. CASE f \in EvalIds
      BY <2>3, <2>4, <3>1 DEF Goes, Follows
    <3>2. CASE f \notin EvalIds
      <4>1. f = Len(evals) + 1
        BY <2>1, <2>3, <3>2 DEF EvalIds
      <4>2. evals'[f].mint = m /\ gates'[f] = g
        BY <2>2, <2>3, <2>4, <4>1
      <4>3. QED
        BY <1>3, <4>2 DEF Goes
    <3>3. QED
      BY <3>1, <3>2
  <2>9. QED
    BY <2>5, <2>6, <2>7, <2>8 DEF ReadsStep
<1>4. CASE Route(market) = "native" /\ FiltersPass(NativeValues(market)) /\ StartEvaluation(m)
           /\ gates' = Append(gates, Starting(NativeValues(market), now))
  <2>1. Begun(Starting(NativeValues(market), now), m)
    BY <1>4 DEF Begun
  <2>2. QED
    BY <1>3, <1>4, <2>1
<1>5. CASE Route(market) = "dexscreener" /\ MayDelegate(market.native) /\ StartEvaluation(m)
           /\ gates' = Append(gates, Starting(NoValues, now))
  <2>1. Begun(Starting(NoValues, now), m)
    BY <1>5 DEF Begun
  <2>2. QED
    BY <1>3, <1>5, <2>1
<1>6. QED
  BY <1>2, <1>4, <1>5 DEF TicksAgain

\* A state that began at time t or later was seen at time t or later.
LEMMA BeganSince ==
  ASSUME ChainOK, NEW m \in Mints, NEW q \in 2..phase[m], NEW t \in Int, since[m][q] >= t
  PROVE  q \in 1..phase[m] /\ Seen(m, q, t)
<1>1. phase[m] \in Nat /\ q \in 1..phase[m] /\ since[m][q] \in Nat
  BY ElementOfSeq DEF ChainOK
<1>2. CASE q = phase[m]
  BY <1>1, <1>2 DEF Seen
<1>3. CASE q # phase[m]
  <2>1. q + 1 \in 1..phase[m] /\ q <= q + 1
    BY <1>1, <1>3
  <2>2. since[m][q + 1] \in Nat /\ since[m][q] <= since[m][q + 1]
    BY <1>1, <2>1 DEF ChainOK
  <2>3. QED
    BY <1>1, <2>2 DEF Seen
<1>4. QED
  BY <1>2, <1>3

\* Everyone who waits is given what the load brings.
LEMMA LandingStep ==
  ASSUME ReadsInv, NEW k \in Keys, NEW value \in Nat, Landed(k, value),
         value # 0 => Shows(k[1], k[2], value, now - MaxFlight)
  PROVE  ReadsStep
<1>1. /\ UNCHANGED vars /\ UNCHANGED chain /\ Answered(k, value)
      /\ flights' = [flights EXCEPT ![k] = None]
      /\ cached' = IF value # 0 /\ Ttl(k[1]) > 0 THEN [cached EXCEPT ![k] = [value |-> value, at |-> now]] ELSE cached
  BY DEF Landed
<1>2. now' = now /\ evals' = evals /\ EvalIds' = EvalIds /\ now \in Nat /\ ChainOK /\ Len(evals) \in Nat
  BY <1>1, SameVars, Counts DEF ReadsInv, ChainOK, Inv
<1>3. ChainOK' /\ Grows
  BY <1>1, <1>2, ChainStays
<1>4. flights \in [Keys -> Load] /\ cached \in [Keys -> Load] /\ None \in Load
  BY DEF ReadsInv, ReadsTypes, Load, None
<1> DEFINE x == [value |-> value, at |-> now]
<1>5. x \in Load /\ (value # 0 => KeptOK(k, x))
  BY <1>2 DEF Load, KeptOK
<1>6. cached' = cached \/ (value # 0 /\ cached' = [cached EXCEPT ![k] = x])
  BY <1>1
<1> HIDE DEF x
<1>7. /\ flights' \in [Keys -> Load] /\ \A j \in Keys : flights'[j] = flights[j] \/ flights'[j] = None
      /\ cached' \in [Keys -> Load]
      /\ \A j \in Keys : cached'[j] = cached[j] \/ (value # 0 /\ j = k /\ cached'[j] = x)
  BY <1>1, <1>4, <1>5, <1>6
<1>8. \A j \in Keys : LoadOK(j, flights'[j]) /\ KeptOK(j, cached'[j]) /\ InTime(j)'
  BY <1>2, <1>5, <1>7 DEF ReadsInv, LoadOK, InTime
<1>9. ASSUME NEW e \in EvalIds PROVE Follows(gates[e], gates'[e], evals[e].mint) /\ gates'[e] \in Gate
  <2>1. gates[e] \in Gate /\ evals[e].mint \in Mints /\ Informed(gates[e], evals[e].mint)
    BY GatesType DEF ReadsInv
  <2>2. CASE e \in Waiting(k)
    <3>1. gates'[e] = Given(gates[e], value, now)
      BY <1>1, <2>2 DEF Answered
    <3>2. k = <<gates[e].stage, evals[e].mint>>
      BY <2>2 DEF Waiting, KeyOf
    <3>3. gates[e].stage = k[1] /\ evals[e].mint = k[2] /\ k[1] \in Sources
      BY <3>2 DEF Keys
    <3>4. Follows(gates[e], gates'[e], evals[e].mint)
      <4>1. gates[e].stage \in Sources /\ now <= now
            /\ (value # 0 => Shows(gates[e].stage, evals[e].mint, value, now - MaxFlight))
        BY <1>2, <3>3
      <4>2. \E v, at \in Nat : /\ v # 0 => at <= now /\ Shows(gates[e].stage, evals[e].mint, v, at - MaxFlight)
                               /\ gates'[e] = Given(gates[e], v, at)
        BY <1>2, <3>1, <4>1
      <4>3. QED
        BY <4>1, <4>2 DEF Follows
    <3>5. PICK h : h = gates'[e]
      OBVIOUS
    <3>6. h \in Gate
      BY <1>2, <2>1, <3>4, <3>5, FollowsInformed
    <3>7. QED
      BY <3>4, <3>5, <3>6
  <2>3. CASE e \notin Waiting(k)
    <3>1. gates'[e] = gates[e]
      BY <1>1, <2>3 DEF Answered
    <3>2. QED
      BY <2>1, <3>1 DEF Follows
  <2>4. QED
    BY <2>2, <2>3
<1>10. gates' \in Seq(Gate) /\ Len(gates') = Len(evals')
  <2>1. gates' \in [1..Len(evals) -> Gate]
    BY <1>1, <1>9 DEF Answered, EvalIds
  <2>2. QED
    BY <1>2, <2>1, SeqDef
<1>11. ReadsTypes'
  BY <1>7, <1>10 DEF ReadsTypes
<1>12. \A e \in EvalIds' : Goes(e)
  BY <1>2, <1>9 DEF Goes
<1>13. QED
  BY <1>3, <1>8, <1>11, <1>12 DEF ReadsStep

\* What a load reads was shown since it began, and it ended in time.
LEMMA LoadStep == ASSUME ReadsInv, NEW k \in Keys, LoadReturns(k) \/ LoadFails(k) PROVE ReadsStep
<1> DEFINE m == k[2]
           at == flights[k].at
<1>1. /\ ChainOK /\ m \in Mints /\ now \in Nat /\ MaxFlight \in Nat /\ flights[k] \in Load /\ at \in Nat
      /\ flights[k] # None
  BY ReadsNumbers DEF ReadsInv, ReadsTypes, ChainOK, Keys, Load, LoadReturns, LoadFails
<1>2. CASE LoadFails(k)
  BY <1>2, LandingStep DEF LoadFails
<1>3. CASE LoadReturns(k)
  <2>1. PICK p \in {flights[k].value} \union {q \in 2..phase[k[2]] : since[k[2]][q] >= flights[k].at} :
           Landed(k, IF Readable(k[1], Token(k[2], p)) THEN Shown(k[1], k[2], p) ELSE 0)
    BY <1>3 DEF LoadReturns
  <2>2. p \in 1..phase[m] /\ Shows(k[1], m, p, at)
    <3>1. CASE p = flights[k].value
      BY <1>1, <3>1 DEF ReadsInv, LoadOK, Shows
    <3>2. CASE p \in 2..phase[m] /\ since[m][p] >= at
      <4>1. p \in 1..phase[m] /\ Seen(m, p, at)
        BY <1>1, <3>2, BeganSince
      <4>2. QED
        BY <4>1 DEF Shows
    <3>3. QED
      BY <2>1, <3>1, <3>2
  <2>3. /\ Shown(k[1], m, p) \in 1..p /\ Token(m, Shown(k[1], m, p))[k[1]] = Token(m, p)[k[1]]
        /\ phase[m] \in Nat
    BY <1>1, <2>2, ShownRight DEF ChainOK
  <2>4. Shown(k[1], m, p) \in Nat /\ Shown(k[1], m, p) \in 1..phase[m]
    BY <2>2, <2>3
  <2>5. Shows(k[1], m, Shown(k[1], m, p), at)
    BY <2>2, <2>3, <2>4 DEF Shows
  <2>6. now - MaxFlight \in Int /\ now - MaxFlight <= at
    BY <1>1 DEF ReadsInv, InTime
  <2>7. Shows(k[1], m, Shown(k[1], m, p), now - MaxFlight)
    BY <1>1, <2>5, <2>6, ShowsEarlier
  <2>8. QED
    <3>1. CASE Readable(k[1], Token(k[2], p))
      BY <2>1, <2>4, <2>7, <3>1, LandingStep
    <3>2. CASE ~Readable(k[1], Token(k[2], p))
      BY <2>1, <3>2, LandingStep
    <3>3. QED
      BY <3>1, <3>2
<1>4. QED
  BY <1>2, <1>3

LEMMA ReadsNextStep == ASSUME ReadsInv, [ReadsNext]_readVars PROVE ReadsStep
<1>1. CASE UNCHANGED readVars
  <2>1. UNCHANGED vars /\ UNCHANGED <<chain, cached, flights, gates>>
    BY <1>1 DEF readVars, chain
  <2>2. now' = now /\ evals' = evals
    BY <2>1, SameVars
  <2>3. /\ \A k \in Keys : LoadOK(k, flights'[k]) /\ KeptOK(k, cached'[k]) /\ InTime(k)'
        /\ cached' \in [Keys -> Load] /\ flights' \in [Keys -> Load]
    BY <2>1, <2>2, LoadsStay
  <2>4. ChainOK' /\ Grows
    BY <2>1, <2>2, ChainKeeps
  <2>5. QED
    BY <2>1, <2>2, <2>3, <2>4, NoneGoes
<1>2. ASSUME NEW e \in Running, Ask(e) \/ Decide(e) PROVE ReadsStep
  BY <1>2, AskStep, DecideStep
<1>3. CASE TimePasses
  BY <1>3, TimeStep
<1>4. ASSUME NEW m \in Mints, TicksAgain(m) \/ ChainMoves(m) PROVE ReadsStep
  BY <1>4, TickStep, ChainStep
<1>5. ASSUME NEW e \in EvalIds, MarketAnswers(e) \/ QuotesAnswer(e) \/ FetchFails(e) \/ LiquidityAnswers(e) PROVE ReadsStep
  BY <1>5, AnswerStep
<1>6. ASSUME NEW e \in EvalIds, BuyGoesOn(e) PROVE ReadsStep
  BY <1>6, BuyStep
<1>7. ASSUME NEW k \in Keys, LoadReturns(k) \/ LoadFails(k) PROVE ReadsStep
  BY <1>7, LoadStep
<1>8. QED
  BY <1>1, <1>2, <1>3, <1>4, <1>5, <1>6, <1>7 DEF ReadsNext

LEMMA ReadsInvStep == ASSUME ReadsInv, [ReadsNext]_readVars PROVE ReadsInv'
<1>1. ReadsStep
  BY ReadsNextStep
<1>2. Inv'
  BY ReadsStepPipeline, NextInv DEF ReadsInv
<1>3. ASSUME NEW e \in EvalIds' PROVE evals'[e].mint \in Mints /\ Informed(gates'[e], evals'[e].mint)
  <2>1. Goes(e) /\ ChainOK
    BY <1>1 DEF ReadsStep, ReadsInv
  <2>2. CASE e \in EvalIds /\ evals'[e].mint = evals[e].mint /\ Follows(gates[e], gates'[e], evals[e].mint)
    <3>1. gates[e] \in Gate /\ evals[e].mint \in Mints /\ Informed(gates[e], evals[e].mint)
      BY <2>2, GatesType DEF ReadsInv
    <3>2. PICK h : h = gates'[e]
      OBVIOUS
    <3>3. Informed(h, evals[e].mint)
      BY <2>1, <2>2, <3>1, <3>2, FollowsInformed
    <3>4. QED
      BY <2>2, <3>1, <3>2, <3>3
  <2>3. CASE e \in EvalIds /\ evals'[e].mint = evals[e].mint /\ gates'[e] = Ended
    BY <2>3, GatesType, EndedType DEF Informed
  <2>4. CASE evals'[e].mint \in Mints /\ Begun(gates'[e], evals'[e].mint)
    <3>1. PICK m \in Mints : m = evals'[e].mint
      BY <2>4
    <3>2. PICK h : h = gates'[e]
      OBVIOUS
    <3>3. QED
      BY <2>1, <2>4, <3>1, <3>2, BegunInformed
  <2>5. QED
    BY <2>1, <2>2, <2>3, <2>4 DEF Goes
<1>4. QED
  BY <1>1, <1>2, <1>3, Onward DEF ReadsStep

LEMMA PricedInvStep ==
  ASSUME MarketsReal, ~Fallback, ReadsInv, PricedInv, [ReadsNext]_readVars PROVE PricedInv'
<1>1. ReadsStep /\ ChainOK
  BY ReadsNextStep DEF ReadsInv
<1>2. ASSUME NEW e \in EvalIds'
      PROVE  evals'[e].mint \in Mints /\ (evals'[e].pc = "gathering" => Priced(gates'[e], evals'[e].mint))
  <2>1. Goes(e)
    BY <1>1 DEF ReadsStep
  <2>2. CASE /\ e \in EvalIds /\ evals'[e].mint = evals[e].mint /\ Follows(gates[e], gates'[e], evals[e].mint)
             /\ evals'[e].pc = "gathering" => evals[e].pc = "gathering"
    <3>1. gates[e] \in Gate /\ evals[e].mint \in Mints
      BY <2>2, GatesType
    <3>2. PICK h : h = gates'[e]
      OBVIOUS
    <3>3. evals[e].pc = "gathering" => Priced(h, evals[e].mint)
      BY <1>1, <2>2, <3>1, <3>2, FollowsPriced DEF PricedInv
    <3>4. QED
      BY <2>2, <3>1, <3>2, <3>3
  <2>3. CASE e \in EvalIds /\ evals'[e].mint = evals[e].mint /\ evals'[e].pc # "gathering"
    BY <2>3, GatesType
  <2>4. CASE evals'[e].mint \in Mints /\ Begun(gates'[e], evals'[e].mint)
    <3>1. PICK m \in Mints : m = evals'[e].mint
      BY <2>4
    <3>2. PICK h : h = gates'[e]
      OBVIOUS
    <3>3. QED
      BY <1>1, <2>4, <3>1, <3>2, BegunPriced
  <2>5. QED
    BY <2>1, <2>2, <2>3, <2>4 DEF Goes
<1>3. QED
  BY <1>1, <1>2, PricedOnward DEF ReadsStep

LEMMA ReadsInitInv == ReadsInit => ReadsInv /\ PricedInv
<1> SUFFICES ASSUME ReadsInit PROVE ReadsInv /\ PricedInv
  OBVIOUS
<1>1. Inv
  BY InitInv DEF ReadsInit
<1>2. evals = <<>> /\ gates = <<>> /\ now = 0
  BY DEF ReadsInit, Init
<1>3. EvalIds = {}
  BY <1>2 DEF EvalIds
<1>4. ChainOK
  <2>1. \A m \in Mints : phase[m] = 1 /\ since[m] = <<0>> /\ history[m] \in Histories
    BY DEF ReadsInit
  <2>2. \A m \in Mints : Len(history[m]) \in Nat \ {0}
    BY <2>1, ReadsNumbers
  <2>3. <<0>> \in Seq(Nat) /\ Len(<<0>>) = 1 /\ <<0>>[1] = 0
    OBVIOUS
  <2>4. phase \in [Mints -> Nat \ {0}] /\ since \in [Mints -> Seq(Nat)] /\ history \in [Mints -> Histories]
    BY <2>3 DEF ReadsInit
  <2>5. ASSUME NEW m \in Mints
        PROVE  /\ phase[m] <= Len(history[m]) /\ Len(since[m]) = phase[m]
               /\ \A p \in 1..phase[m] : since[m][p] <= now
               /\ \A p, q \in 1..phase[m] : p <= q => since[m][p] <= since[m][q]
    <3>1. phase[m] = 1 /\ since[m] = <<0>> /\ Len(history[m]) \in Nat \ {0}
      BY <2>1, <2>2
    <3>2. \A p \in 1..phase[m] : p = 1
      BY <3>1
    <3>3. \A p \in 1..phase[m] : since[m][p] = 0
      BY <2>3, <3>1, <3>2
    <3>4. QED
      BY <1>2, <2>3, <3>1, <3>3
  <2>6. QED
    BY <1>2, <2>4, <2>5 DEF ChainOK
<1>5. ReadsTypes
  <2>1. None \in Load
    BY DEF None, Load
  <2>2. QED
    BY <1>2, <2>1 DEF ReadsTypes, ReadsInit
<1>6. \A k \in Keys : cached[k] = None /\ flights[k] = None
  BY DEF ReadsInit
<1>7. QED
  BY <1>1, <1>3, <1>4, <1>5, <1>6 DEF ReadsInv, PricedInv, LoadOK, KeptOK, InTime

------------------------------------------------------------------------------
\* What an entry rests on.

\* A buy begins only where the decision is favourable.
LEMMA EntryDecided ==
  ASSUME ReadsInv, [ReadsNext]_readVars, NEW e \in EvalIds, evals[e].pc = "gathering", evals'[e].pc = "buying"
  PROVE  gates[e].stage = "decide" /\ Verdict(e) /\ DataFresh(e) /\ Promising(e)
<1>1. TypeOK /\ evals' # evals
  BY DEF ReadsInv, Inv
<1>2. ASSUME NEW f \in EvalIds, \/ Reject(f) \/ Commit(f) \/ Refuse(f)
                                \/ BuyLands(f) \/ BuyFilled(f) \/ BuyFilledHalfRecorded(f) \/ BuyFailed(f) \/ BuyLost(f)
      PROVE  f = e
  BY <1>1, <1>2, EvalStep
<1>3. ASSUME Reject(e) \/ Refuse(e) PROVE FALSE
  <2>1. evals' = [evals EXCEPT ![e].pc = "done"] /\ evals \in Seq(Evaluation) /\ e \in 1..Len(evals)
    BY <1>1, <1>3 DEF Reject, Refuse, Finish, TypeOK, EvalIds
  <2>2. evals'[e].pc = "done"
    BY <1>1, <2>1, EvalType DEF Evaluation
  <2>3. QED
    BY <2>2
<1>4. ASSUME NEW f \in EvalIds, BuyGoesOn(f) PROVE FALSE
  <2>1. f = e
    BY <1>2, <1>4 DEF BuyGoesOn
  <2>2. QED
    BY <1>4, <2>1 DEF BuyGoesOn, BuyLands, BuyFilled, BuyFilledHalfRecorded, BuyFailed, BuyLost
<1>5. ASSUME NEW f \in EvalIds, Discard(f) PROVE FALSE
  BY <1>2, <1>3, <1>5 DEF Discard
<1>6. ~ UNCHANGED vars
  BY <1>1 DEF vars
<1>7. ~ UNCHANGED readVars
  BY <1>6 DEF readVars
<1>8. ASSUME NEW f \in EvalIds, MarketAnswers(f) \/ QuotesAnswer(f) \/ FetchFails(f) \/ LiquidityAnswers(f) PROVE FALSE
  BY <1>5, <1>6, <1>8 DEF MarketAnswers, QuotesAnswer, FetchFails, LiquidityAnswers, FiltersDecide
<1>9. ~ TimePasses
  BY <1>1 DEF TimePasses, Tick
<1>10. ASSUME NEW k \in Keys, LoadReturns(k) \/ LoadFails(k) PROVE FALSE
  BY <1>6, <1>10 DEF LoadReturns, LoadFails, Landed
<1>11. ASSUME NEW m \in Mints, TicksAgain(m) \/ ChainMoves(m) PROVE FALSE
  <2>1. CASE ChainMoves(m)
    BY <1>6, <2>1 DEF ChainMoves
  <2>2. CASE SkipEvaluation(m)
    BY <1>1, <2>2 DEF SkipEvaluation
  <2>3. CASE StartEvaluation(m)
    <3> DEFINE r == [mint |-> m, startedAt |-> now, pc |-> "gathering", landed |-> FALSE]
    <3>1. evals' = Append(evals, r) /\ evals \in Seq(Evaluation) /\ e \in 1..Len(evals) /\ r \in Evaluation
      BY <1>1, <2>3 DEF StartEvaluation, TypeOK, EvalIds, Evaluation
    <3> HIDE DEF r
    <3>2. evals'[e] = evals[e]
      BY <3>1, AppendProperties
    <3>3. QED
      BY <3>2
  <2>4. QED
    BY <1>11, <2>1, <2>2, <2>3 DEF TicksAgain
<1>12. ASSUME NEW f \in Running, Ask(f) \/ Decide(f) PROVE gates[e].stage = "decide" /\ Verdict(e) /\ DataFresh(e) /\ Promising(e)
  <2>1. f \in EvalIds /\ ~Ask(f)
    BY <1>6 DEF Ask, Running
  <2>2. Decide(f) /\ f = e
    BY <1>2, <1>12, <2>1 DEF Decide
  <2>3. QED
    BY <1>3, <2>2 DEF Decide
<1>13. QED
  BY <1>4, <1>7, <1>8, <1>9, <1>10, <1>11, <1>12 DEF ReadsNext

\* What was seen no longer ago than `age` is of a recent state.
LEMMA SeenRecent ==
  ASSUME ChainOK, NEW m \in Mints, NEW p \in 1..phase[m], NEW t \in Int, NEW age \in Nat, now - t <= age, Seen(m, p, t)
  PROVE  p \in Recent(m, age)
<1>1. now \in Nat /\ phase[m] \in Nat /\ since[m] \in Seq(Nat) /\ Len(since[m]) = phase[m]
  BY DEF ChainOK
<1>2. p # phase[m] => since[m][p + 1] \in Nat /\ since[m][p + 1] >= t
  BY <1>1, ElementOfSeq DEF Seen
<1>3. p # phase[m] => now - since[m][p + 1] <= age
  BY <1>1, <1>2
<1>4. QED
  BY <1>3 DEF Recent

LEMMA EntryFacts ==
  ASSUME ReadsInv, NEW e \in EvalIds, Verdict(e), DataFresh(e)
  PROVE  LET m == evals[e].mint IN
         \E a, b, c, d, f \in Recent(m, MaxAge + MaxFlight) :
           /\ {a, b, c} \subseteq 1..Len(history[m])
           /\ GatePasses(Token(m, a).mint, Token(m, b).holders, Token(m, c).curve, Token(m, d).buy, Token(m, f).sell)
<1> DEFINE m == evals[e].mint
           g == gates[e]
           age == MaxAge + MaxFlight
<1>1. /\ ChainOK /\ m \in Mints /\ g \in Gate /\ g.oldest \in Nat /\ now \in Nat
      /\ MaxAge \in Nat /\ MaxFlight \in Nat /\ age \in Nat
  BY GatesType, ReadsNumbers DEF ReadsInv, ChainOK, Gate
<1>2. /\ history[m] \in Histories /\ phase[m] \in Nat /\ phase[m] <= Len(history[m]) /\ Len(history[m]) \in Nat
  BY <1>1, ReadsNumbers DEF ChainOK
<1>3. ASSUME NEW s \in Sources
      PROVE  \E p \in Recent(m, age) : p \in 1..Len(history[m]) /\ Token(m, p)[s] = Token(m, g.got[s])[s]
  <2>1. Shows(s, m, g.got[s], g.oldest - MaxFlight)
    BY <1>3 DEF Verdict, ReadsInv, Informed
  <2>2. PICK p \in 1..phase[m] : Seen(m, p, g.oldest - MaxFlight) /\ Token(m, p)[s] = Token(m, g.got[s])[s]
    BY <2>1 DEF Shows
  <2>3. g.oldest - MaxFlight \in Int /\ now - (g.oldest - MaxFlight) <= age
    BY <1>1 DEF DataFresh
  <2>4. p \in Recent(m, age)
    BY <1>1, <2>2, <2>3, SeenRecent
  <2>5. p \in 1..Len(history[m])
    BY <1>2
  <2>6. QED
    BY <2>2, <2>4, <2>5
<1>4. PICK a \in Recent(m, age) : a \in 1..Len(history[m]) /\ Token(m, a).mint = Token(m, g.got["mint"]).mint
  BY <1>3 DEF Sources
<1>5. PICK b \in Recent(m, age) : b \in 1..Len(history[m]) /\ Token(m, b).holders = Token(m, g.got["holders"]).holders
  BY <1>3 DEF Sources
<1>6. PICK c \in Recent(m, age) : c \in 1..Len(history[m]) /\ Token(m, c).curve = Token(m, g.got["curve"]).curve
  BY <1>3 DEF Sources
<1>7. PICK d \in Recent(m, age) : Token(m, d).buy = Token(m, g.got["buy"]).buy
  BY <1>3 DEF Sources
<1>8. PICK f \in Recent(m, age) : Token(m, f).sell = Token(m, g.got["sell"]).sell
  BY <1>3 DEF Sources
<1>9. GatePasses(Token(m, a).mint, Token(m, b).holders, Token(m, c).curve, Token(m, d).buy, Token(m, f).sell)
  BY <1>4, <1>5, <1>6, <1>7, <1>8 DEF Verdict
<1>10. QED
  BY <1>4, <1>5, <1>6, <1>9

\* A share that the policy accepts, in hundredths of a percent rounded down, is
\* less than a hundredth above the limit.
LEMMA ShareRounded ==
  ASSUME NEW part \in Nat, NEW base \in Nat \ {0}, NEW limit \in Nat, part \div base <= limit
  PROVE  part < base * (limit + 1)
<1> DEFINE q == part \div base
<1>1. q \in Int /\ part = base * q + (part % base) /\ part % base \in 0..(base - 1)
  OBVIOUS
<1>2. base * q <= base * limit
  BY <1>1
<1>3. base * (limit + 1) = base * limit + base
  OBVIOUS
<1>4. QED
  BY <1>1, <1>2, <1>3

\* The policy's two shares, which stand for Within.
LiveShare(nonVault, sold) == (nonVault * 1000000) \div sold <= MaxTop10 * 10000
LegacyShare(listed, supply) == (listed * 10000) \div supply <= MaxTop10 * 100

\* On a live curve: the people of the list are among what the policy sums up,
\* and the supply it sets that against is what the curve has sold.
LEMMA LiveDispersed ==
  ASSUME NEW people \in Nat, NEW nonVault \in Nat, NEW sold \in Nat \ {0},
         people <= nonVault, LiveShare(nonVault, sold)
  PROVE  Within(people, sold)
<1> DEFINE x == sold * MaxTop10
<1>1. x \in Nat /\ MaxTop10 \in Nat
  BY PolicyAssumption
<1>2. nonVault * 1000000 < sold * (MaxTop10 * 10000 + 1)
  <2>1. PICK p, l \in Nat : p = nonVault * 1000000 /\ l = MaxTop10 * 10000
    BY <1>1, SMT
  <2>2. p \div sold <= l
    BY <2>1, SMT DEF LiveShare
  <2>3. p < sold * (l + 1)
    BY <2>2, ShareRounded, SMT
  <2>4. QED
    BY <2>1, <2>3, SMT
<1>3. sold * (MaxTop10 * 10000 + 1) = 10000 * x + sold /\ sold * (MaxTop10 * 100 + 1) = 100 * x + sold
  BY <1>1
<1> HIDE DEF x
<1>4. QED
  BY <1>1, <1>2, <1>3, SMT DEF Within

\* Without one: what lies in a pool counts against the limit at most as much
\* as it is left out of the supply.
LEMMA PooledDispersed ==
  ASSUME NEW people \in Nat, NEW pooled \in Nat, NEW listed \in Nat, NEW supply \in Nat \ {0},
         MaxTop10 < 100, people + pooled <= listed, LegacyShare(listed, supply)
  PROVE  Within(people, supply - pooled)
<1> DEFINE x == supply * MaxTop10
           y == pooled * MaxTop10
<1>1. x \in Nat /\ y \in Nat /\ y <= 99 * pooled /\ MaxTop10 \in Nat
  BY PolicyAssumption
<1>2. listed * 10000 < supply * (MaxTop10 * 100 + 1)
  <2>1. PICK p, l \in Nat : p = listed * 10000 /\ l = MaxTop10 * 100
    BY <1>1, SMT
  <2>2. p \div supply <= l
    BY <2>1, SMT DEF LegacyShare
  <2>3. p < supply * (l + 1)
    BY <2>2, ShareRounded, SMT
  <2>4. QED
    BY <2>1, <2>3, SMT
<1>3. /\ supply * (MaxTop10 * 100 + 1) = 100 * x + supply
      /\ (supply - pooled) * (MaxTop10 * 100 + 1) = 100 * x + supply - 100 * y - pooled
  BY <1>1
<1> HIDE DEF x, y
<1>4. QED
  BY <1>1, <1>2, <1>3, SMT DEF Within

\* The verdict on holders is right of a token whose amounts mean what they say,
\* even when accounts and curve are read at different moments
\* (evaluateHolderPolicy).
LEMMA HoldersRight ==
  ASSUME TokensReal, MaxTop10 < 100, NEW h \in Histories, NEW a \in 1..Len(h), NEW b \in 1..Len(h), NEW c \in 1..Len(h),
         HoldersPass(h[b].holders, h[c].curve, h[a].mint.supply)
  PROVE  Dispersed(h[b].holders, h[c].curve, h[a].mint.supply)
<1> DEFINE supply == h[a].mint.supply
           holders == h[b].holders
           curve == h[c].curve
           ten == Largest(10, People(holders))
           nine == Largest(9, People(holders))
           pooled == Largest(1, Pools(holders))
           nonVault == TopTen(NonVault(holders, curve.vault))
           listed == TopTen(holders)
<1>1. /\ {supply, listed, ten, nine, pooled, nonVault, curve.inventory} \subseteq Nat
      /\ nine + pooled <= listed
      /\ curve.exists /\ ~curve.complete =>
           ten <= nonVault /\ (VaultVerified(curve, supply) => curve.inventory = curve.vaultAmount)
  BY DEF TokensReal
<1>2. /\ supply > 0
      /\ curve.exists => VaultVerified(curve, supply)
      /\ IF curve.exists /\ ~curve.complete
         THEN /\ supply - curve.vaultAmount > 0
              /\ LiveShare(nonVault, supply - curve.vaultAmount)
         ELSE LegacyShare(listed, supply)
  BY DEF HoldersPass, LegacyPasses, LiveShare, LegacyShare
<1> SUFFICES IF curve.exists /\ ~curve.complete THEN Within(ten, supply - curve.inventory)
                                               ELSE Within(nine, supply - pooled)
  BY DEF Dispersed
<1> HIDE DEF supply, holders, curve, ten, nine, pooled, nonVault, listed
<1>4. CASE curve.exists /\ ~curve.complete
  <2>1. curve.inventory = curve.vaultAmount /\ ten <= nonVault
    BY <1>1, <1>2, <1>4
  <2>2. PICK sold \in Nat \ {0} : sold = supply - curve.inventory
    BY <1>1, <1>2, <1>4, <2>1
  <2>3. LiveShare(nonVault, sold)
    BY <1>2, <1>4, <2>1, <2>2
  <2>4. QED
    BY <1>1, <1>4, <2>1, <2>2, <2>3, LiveDispersed
<1>5. CASE ~(curve.exists /\ ~curve.complete)
  <2>1. LegacyShare(listed, supply) /\ supply \in Nat \ {0}
    BY <1>1, <1>2, <1>5
  <2>2. QED
    BY <1>1, <1>5, <2>1, PooledDispersed
<1>6. QED
  BY <1>4, <1>5

LEMMA EntryHarmless ==
  ASSUME TokensReal, MaxTop10 < 100, ReadsInv, NEW e \in EvalIds, Verdict(e), DataFresh(e)
  PROVE  LET m == evals[e].mint IN
         \E a, b, c, d, f \in Recent(m, MaxAge + MaxFlight) :
           Harmless(Token(m, a).mint, Token(m, b).holders, Token(m, c).curve, Token(m, d).buy, Token(m, f).sell)
<1> DEFINE m == evals[e].mint
           age == MaxAge + MaxFlight
<1>1. history[m] \in Histories
  BY GatesType DEF ReadsInv, ChainOK
<1>2. PICK a, b, c, d, f \in Recent(m, age) :
         /\ {a, b, c} \subseteq 1..Len(history[m])
         /\ GatePasses(Token(m, a).mint, Token(m, b).holders, Token(m, c).curve, Token(m, d).buy, Token(m, f).sell)
  BY EntryFacts
<1> HIDE DEF m, age
<1>3. Unencumbered(Token(m, a).mint)
  BY <1>1, <1>2 DEF TokensReal, Token, GatePasses, MintPasses, Unencumbered
<1>4. Dispersed(Token(m, b).holders, Token(m, c).curve, Token(m, a).mint.supply)
  BY <1>1, <1>2, HoldersRight DEF Token, GatePasses
<1>5. Sellable(Token(m, d).buy, Token(m, f).sell)
  BY <1>2 DEF GatePasses
<1>6. Harmless(Token(m, a).mint, Token(m, b).holders, Token(m, c).curve, Token(m, d).buy, Token(m, f).sell)
  BY <1>3, <1>4, <1>5 DEF Harmless
<1>7. QED
  BY <1>2, <1>6 DEF m, age

\* A quotient is positive only if the dividend is.
LEMMA PositiveQuotient ==
  ASSUME NEW n \in Int, NEW d \in Nat \ {0}, n \div d > 0 PROVE n > 0
OBVIOUS

LEMMA FillTypes ==
  ASSUME NEW v, v.fee \in Nat \union {-1}, v.impact \in Nat, v.sellImpact \in Nat
  PROVE  /\ BuyFill(v) \in Int
         /\ \A gross \in Int : SellFill(v, gross) \in Int
<1>1. Edge.size \in Nat /\ Edge.flatFee \in Nat /\ Edge.fixed \in Nat /\ Slippage \in Nat
  BY MarketAssumption
<1>2. \A x, bps \in Int : Part(x, bps) \in Int
  BY DEF Part
<1>3. \A x \in Int : NotBelowZero(x) \in Int
  BY DEF NotBelowZero
<1>4. BuyFill(v) \in Int
  <2>1. CASE v.fee # -1
    <3>1. v.fee \in Nat /\ 10000 + v.fee \in Nat \ {0} /\ 10000 + v.impact \in Nat \ {0}
      BY <2>1
    <3>2. PICK net \in Int : net = (Edge.size * 10000) \div (10000 + v.fee)
      BY <1>1, <3>1
    <3>3. PICK value \in Int : value = (net * 10000) \div (10000 + v.impact)
      BY <3>1
    <3>4. value - Part(Edge.size, Slippage) - Edge.fixed \in Int
      BY <1>1 DEF Part
    <3>5. QED
      BY <1>3, <2>1, <3>2, <3>3, <3>4 DEF BuyFill
  <2>2. CASE v.fee = -1
    <3>1. Edge.size - Part(Edge.size, Edge.flatFee) - Part(Edge.size, v.impact) - Part(Edge.size, Slippage) - Edge.fixed \in Int
      BY <1>1 DEF Part
    <3>2. QED
      BY <1>3, <2>2, <3>1 DEF BuyFill
  <2>3. QED
    BY <2>1, <2>2
<1>5. ASSUME NEW gross \in Int PROVE SellFill(v, gross) \in Int
  <2>1. PICK proceeds \in Int : proceeds = gross - Part(gross, v.sellImpact)
    BY DEF Part
  <2>2. PICK fee \in Int : fee = IF v.fee # -1 THEN Part(proceeds, v.fee) ELSE Part(gross, Edge.flatFee)
    BY <1>1 DEF Part
  <2>3. proceeds - fee - Part(gross, Slippage) - Edge.fixed \in Int
    BY <1>1 DEF Part
  <2>4. QED
    BY <1>3, <2>1, <2>2, <2>3 DEF SellFill
<1>6. QED
  BY <1>4, <1>5

\* A favourable edge leaves more than was spent.
LEMMA EdgeProfit ==
  ASSUME NEW v, v.fee \in Nat \union {-1}, v.impact \in Int, v.sellImpact \in Int, EdgeFavorable(v)
  PROVE  /\ v.impact \in Nat /\ v.sellImpact \in Nat
         /\ SellFill(v, BuyFill(v) + Part(BuyFill(v), Edge.move)) > Edge.size
<1> DEFINE gross == BuyFill(v) + Part(BuyFill(v), Edge.move)
           back == SellFill(v, gross)
<1>1. v.impact \in Nat /\ v.sellImpact \in Nat
  BY DEF EdgeFavorable
<1>2. Edge.size \in Nat \ {0} /\ Edge.move \in Nat /\ Edge.margin \in Nat
  BY MarketAssumption
<1>3. gross \in Int
  <2>1. BuyFill(v) \in Int
    BY <1>1, FillTypes
  <2>2. PICK x \in Int : x = BuyFill(v)
    BY <2>1
  <2>3. x + Part(x, Edge.move) \in Int
    BY <1>2 DEF Part
  <2>4. QED
    BY <2>2, <2>3
<1>4. back \in Int
  BY <1>1, <1>3, FillTypes
<1>5. ((back - Edge.size) * 10000) \div Edge.size > Edge.margin
  BY DEF EdgeFavorable
<1> HIDE DEF gross, back
<1>6. (back - Edge.size) * 10000 \in Int /\ ((back - Edge.size) * 10000) \div Edge.size \in Int
  BY <1>2, <1>4
<1>7. (back - Edge.size) * 10000 > 0
  BY <1>2, <1>5, <1>6, PositiveQuotient
<1>8. back > Edge.size
  BY <1>2, <1>4, <1>7
<1>9. QED
  BY <1>1, <1>8 DEF back, gross

LEMMA MarketFacts ==
  ASSUME ReadsInv, PricedInv, NEW e \in EvalIds, evals[e].pc = "gathering",
         gates[e].stage = "decide", DataFresh(e), Promising(e)
  PROVE  LET v == gates[e].values IN
         /\ \E p \in Recent(evals[e].mint, MaxAge) :
              LET market == Token(evals[e].mint, p).market
              IN  market.native.quality = "VALID" /\ v = NativeValues(market)
         /\ v.liquidity >= Filters.liquidity /\ v.volume >= Filters.volume
         /\ v.impact \in 0..HardMaxImpact /\ v.sellImpact >= 0
         /\ SellFill(v, BuyFill(v) + Part(BuyFill(v), Edge.move)) > Edge.size
<1> DEFINE m == evals[e].mint
           v == gates[e].values
<1>1. /\ ChainOK /\ m \in Mints /\ gates[e] \in Gate /\ gates[e].market \in Nat /\ now \in Nat /\ MaxAge \in Nat
      /\ HardMaxImpact \in Nat
  <2>1. gates[e] \in Gate /\ m \in Mints
    BY GatesType
  <2>2. gates[e].market \in Nat
    BY <2>1 DEF Gate
  <2>3. QED
    BY <2>1, <2>2, ReadsNumbers, MarketAssumption DEF ReadsInv, ChainOK
<1>2. gates[e].market <= now /\ FiltersPass(v) /\ ShowsMarket(v, m, gates[e].market)
  BY DEF PricedInv, Priced
<1>3. PICK p \in 1..phase[m] : /\ Seen(m, p, gates[e].market)
                               /\ Token(m, p).market.native.quality = "VALID"
                               /\ v = NativeValues(Token(m, p).market)
  BY <1>2 DEF ShowsMarket
<1>4. p \in Recent(m, MaxAge)
  <2>1. now - gates[e].market <= MaxAge
    BY <1>1 DEF DataFresh, StaleAtDecision
  <2>2. QED
    BY <1>1, <1>3, <2>1, SeenRecent
<1>5. v.fee \in Nat \union {-1} /\ v.impact \in Int /\ v.sellImpact \in Int
  <2>1. Token(m, p).market \in Market
    BY <1>1, MarketType
  <2>2. QED
    BY <1>3, <2>1 DEF NativeValues, Market
<1>6. /\ v.impact \in Nat /\ v.sellImpact \in Nat
      /\ SellFill(v, BuyFill(v) + Part(BuyFill(v), Edge.move)) > Edge.size
  BY <1>5, EdgeProfit DEF Promising
<1>7. v.impact \in 0..HardMaxImpact /\ v.sellImpact >= 0
  BY <1>1, <1>2, <1>6 DEF FiltersPass
<1>8. v.liquidity >= Filters.liquidity /\ v.volume >= Filters.volume
  BY <1>2 DEF FiltersPass
<1>9. QED
  BY <1>3, <1>4, <1>6, <1>7, <1>8

\* Whatever tokens there are: an entry was decided on facts that pass the gate,
\* each of which the token showed within the bound on data and one load, however
\* the reads were shared (runSafetyGate, SingleFlightCache.get).
DecidedOnRecentFacts ==
  \A e \in EvalIds :
    evals[e].pc = "gathering" /\ evals'[e].pc = "buying" =>
      LET m == evals[e].mint IN
      \E a, b, c, d, f \in Recent(m, MaxAge + MaxFlight) :
        GatePasses(Token(m, a).mint, Token(m, b).holders, Token(m, c).curve, Token(m, d).buy, Token(m, f).sell)

THEOREM FactsRecent == ReadsSpec => [][DecidedOnRecentFacts]_readVars
<1>1. ReadsSpec => ReadsInit /\ [][ReadsNext]_readVars
  BY PTL DEF ReadsSpec
<1>2. ReadsInit => ReadsInv
  BY ReadsInitInv
<1>3. ReadsInv /\ [ReadsNext]_readVars => ReadsInv'
  BY ReadsInvStep
<1>4. ReadsInv /\ [ReadsNext]_readVars => [DecidedOnRecentFacts]_readVars
  BY EntryDecided, EntryFacts DEF DecidedOnRecentFacts
<1>5. QED
  BY <1>1, <1>2, <1>3, <1>4, PTL

\* And where extensions, vaults and lists of amounts are what they seem, and
\* the limit on ten holders is one, those facts do no harm: the token is
\* unencumbered, both ways of trading it exist, and its holders are dispersed:
\* ten people on a live curve, off it nine beside the pool.
THEOREM EntriesHarmless == ASSUME TokensReal, MaxTop10 < 100 PROVE ReadsSpec => EntryJustified
<1>1. ReadsSpec => ReadsInit /\ [][ReadsNext]_readVars
  BY PTL DEF ReadsSpec
<1>2. ReadsInit => ReadsInv
  BY ReadsInitInv
<1>3. ReadsInv /\ [ReadsNext]_readVars => ReadsInv'
  BY ReadsInvStep
<1> DEFINE Justified ==
      \A e \in EvalIds :
        evals[e].pc = "gathering" /\ evals'[e].pc = "buying" =>
          LET m == evals[e].mint IN
          \E a, b, c, d, f \in Recent(m, MaxAge + MaxFlight) :
            Harmless(Token(m, a).mint, Token(m, b).holders, Token(m, c).curve,
                     Token(m, d).buy, Token(m, f).sell)
<1>4. ReadsInv /\ [ReadsNext]_readVars => [Justified]_readVars
  BY EntryDecided, EntryHarmless
<1>5. EntryJustified <=> [][Justified]_readVars
  BY DEF EntryJustified
<1> HIDE DEF Justified
<1>6. QED
  BY <1>1, <1>2, <1>3, <1>4, <1>5, PTL

\* Every entry rests on one recent state of a curve that was valid then, and
\* on a profit that was there (decideMarketSource, isStaleAtDecision,
\* computeExpectedNetEdge), when the aggregator is no fallback for tokens on a
\* curve, which is the default.
THEOREM MarketRecent == ASSUME MarketsReal, ~Fallback PROVE ReadsSpec => MarketJustified
<1>1. ReadsSpec => ReadsInit /\ [][ReadsNext]_readVars
  BY PTL DEF ReadsSpec
<1>2. ReadsInit => ReadsInv /\ PricedInv
  BY ReadsInitInv
<1>3. ReadsInv /\ PricedInv /\ [ReadsNext]_readVars => (ReadsInv /\ PricedInv)'
  BY ReadsInvStep, PricedInvStep
<1> DEFINE Justified ==
      \A e \in EvalIds :
        evals[e].pc = "gathering" /\ evals'[e].pc = "buying" =>
          LET v == gates[e].values IN
          /\ \E p \in Recent(evals[e].mint, MaxAge) :
               LET market == Token(evals[e].mint, p).market
               IN  market.native.quality = "VALID" /\ v = NativeValues(market)
          /\ v.liquidity >= Filters.liquidity /\ v.volume >= Filters.volume
          /\ v.impact \in 0..HardMaxImpact /\ v.sellImpact >= 0
          /\ SellFill(v, BuyFill(v) + Part(BuyFill(v), Edge.move)) > Edge.size
<1>4. ReadsInv /\ PricedInv /\ [ReadsNext]_readVars => [Justified]_readVars
  BY EntryDecided, MarketFacts
<1>5. MarketJustified <=> [][Justified]_readVars
  BY DEF MarketJustified
<1> HIDE DEF Justified
<1>6. QED
  BY <1>1, <1>2, <1>3, <1>4, <1>5, PTL

==============================================================================
