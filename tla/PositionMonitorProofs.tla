------------------------- MODULE PositionMonitorProofs -------------------------
(***************************************************************************)
(* For every set of trades, all results of sells and any number of         *)
(* restarts: every open trade is managed and, while the polls of a trade   *)
(* do not overlap, it is not sold twice and left alone once it needs       *)
(* reconciliation.                                                         *)
(***************************************************************************)
EXTENDS PositionMonitor, Sums

Stages == {"idle", "reading", "reading late", "selling", "landed"}

Shapes ==
  /\ row \in [Trades -> [status : {"none", "open", "closed"}, complete : BOOLEAN,
                         flagged : BOOLEAN, pnl : Int]]
  /\ positions \subseteq Trades
  /\ recon \subseteq Trades
  /\ emergency \in BOOLEAN
  /\ polls \in [Trades -> [Polls -> Stages]]
  /\ sold \in [Trades -> Nat]
  /\ crashes \in Nat
  /\ halfEntered \subseteq Trades

\* A sale that no record shows yet.
Landed(t) == \E p \in Polls : polls[t][p] = "landed"
Recorded(t) == row[t].status = "closed"

\* What holds of each trade.  Whoever polls it found it tracked and not put
\* aside, and nothing ends this while that poll goes on.  What the ledger has
\* flagged, memory knows too.  A restart forgets at most one sale: only one
\* that is landing, is recorded or put the trade aside comes on top of these.
Sound(t) ==
  /\ t \in positions \union recon \union halfEntered <=> row[t].status = "open"
  /\ t \in halfEntered => t \notin positions
  /\ t \in recon => emergency
  /\ \A p \in Polls : polls[t][p] # "idle" => t \in positions /\ t \notin recon
  /\ row[t].flagged => t \in recon
  /\ row[t].status = "none" => sold[t] = 0
  /\ Recorded(t) \/ Landed(t) => sold[t] > 0
  /\ sold[t] <= crashes + 1
  /\ sold[t] = crashes + 1 => Landed(t) \/ Recorded(t) \/ t \in recon

SafetyInv == Shapes /\ \A t \in Trades : Sound(t)

\* No two polls of a trade are under way together.
OnePoll == \A p, q \in Polls : p = q

\* A step leaves all trades but one alone.
OnlyAbout(t) ==
  /\ crashes' = crashes
  /\ emergency => emergency'
  /\ \A u \in Trades \ {t} :
       /\ row'[u] = row[u] /\ polls'[u] = polls[u] /\ sold'[u] = sold[u]
       /\ u \in positions' <=> u \in positions
       /\ u \in recon' <=> u \in recon
       /\ u \in halfEntered' <=> u \in halfEntered

------------------------------------------------------------------------------

\* What a step is not about stays sound.
LEMMA Frame ==
  ASSUME SafetyInv, NEW t \in Trades, OnlyAbout(t), Shapes', Sound(t)'
  PROVE  SafetyInv'
<1> SUFFICES ASSUME NEW u \in Trades, u # t PROVE Sound(u)'
  BY DEF SafetyInv
<1>1. Sound(u)
  BY DEF SafetyInv
<1>2. QED
  BY <1>1 DEF Sound, OnlyAbout, Landed, Recorded

LEMMA SafetyInit == Init => SafetyInv
<1> SUFFICES ASSUME Init PROVE SafetyInv
  OBVIOUS
<1>1. Shapes
  <2>1. row \in [Trades -> [status : {"none", "open", "closed"}, complete : BOOLEAN,
                            flagged : BOOLEAN, pnl : Int]]
    BY DEF Init
  <2>2. polls \in [Trades -> [Polls -> Stages]]
    BY DEF Init, AllIdle, Stages
  <2>3. QED
    BY <2>1, <2>2 DEF Init, Shapes
<1>2. ASSUME NEW t \in Trades PROVE Sound(t)
  <2>1. /\ row[t].status = "none" /\ ~row[t].flagged /\ sold[t] = 0 /\ crashes = 0
        /\ t \notin positions /\ t \notin recon /\ t \notin halfEntered
        /\ \A p \in Polls : polls[t][p] = "idle"
    BY DEF Init, AllIdle
  <2>2. QED
    BY <2>1 DEF Sound, Landed, Recorded
<1>3. QED
  BY <1>1, <1>2 DEF SafetyInv

\* An entry, whether the monitor is told of it or not.
Enters(t, complete) == Enter(t, complete) \/ EntryHalfRecorded(t, complete)

LEMMA RowWritten ==
  ASSUME NEW t \in Trades, NEW complete \in BOOLEAN, Enters(t, complete),
         row \in [Trades -> [status : {"none", "open", "closed"}, complete : BOOLEAN,
                             flagged : BOOLEAN, pnl : Int]]
  PROVE  /\ row' \in [Trades -> [status : {"none", "open", "closed"}, complete : BOOLEAN,
                                flagged : BOOLEAN, pnl : Int]]
         /\ row[t].status = "none" /\ row'[t].status = "open"
         /\ row'[t].flagged = row[t].flagged /\ row'[t].pnl = row[t].pnl
         /\ \A u \in Trades \ {t} : row'[u] = row[u]
<1>1. RecordEntry(t, complete)
  BY DEF Enters, Enter, EntryHalfRecorded
<1>2. QED
  BY <1>1 DEF RecordEntry

LEMMA EntryStep ==
  ASSUME SafetyInv, NEW t \in Trades, NEW complete \in BOOLEAN, Enters(t, complete)
  PROVE  SafetyInv'
<1>1. row' \in [Trades -> [status : {"none", "open", "closed"}, complete : BOOLEAN,
                           flagged : BOOLEAN, pnl : Int]]
  BY RowWritten DEF SafetyInv, Shapes
<1>2. /\ row[t].status = "none" /\ row'[t].status = "open" /\ row'[t].flagged = row[t].flagged
      /\ \A u \in Trades \ {t} : row'[u] = row[u]
  BY RowWritten DEF SafetyInv, Shapes
<1>3. /\ UNCHANGED <<recon, emergency, polls, sold, crashes>>
      /\ \/ positions' = positions \union {t} /\ halfEntered' = halfEntered
         \/ positions' = positions /\ halfEntered' = halfEntered \union {t}
  BY DEF Enters, Enter, EntryHalfRecorded, AddPosition, world
<1>4. Shapes' /\ OnlyAbout(t)
  BY <1>1, <1>2, <1>3 DEF SafetyInv, Shapes, OnlyAbout
<1>5. Sound(t) /\ crashes \in Nat /\ sold[t] \in Nat
  BY DEF SafetyInv, Shapes
<1>6. Sound(t)'
  BY <1>2, <1>3, <1>5 DEF Sound, Landed, Recorded
<1>7. QED
  BY <1>4, <1>6, Frame

\* What a poll's step makes of the polls.
LEMMA AtStage ==
  ASSUME Shapes, NEW t \in Trades, NEW p \in Polls, NEW stage \in Stages, At(t, p, stage)
  PROVE  /\ polls' \in [Trades -> [Polls -> Stages]]
         /\ polls'[t][p] = stage
         /\ \A q \in Polls \ {p} : polls'[t][q] = polls[t][q]
         /\ \A u \in Trades \ {t} : polls'[u] = polls[u]
BY DEF Shapes, At

\* A step that touches nothing but the poll, which was tracked and not put
\* aside, and had not sold.
LEMMA PollStep ==
  ASSUME SafetyInv, NEW t \in Trades, NEW p \in Polls, NEW stage \in Stages, At(t, p, stage),
         polls[t][p] # "landed", stage # "landed", t \in positions, t \notin recon,
         UNCHANGED <<row, positions, recon, emergency, sold, crashes, halfEntered>>
  PROVE  SafetyInv'
<1>1. Shapes /\ Sound(t)
  BY DEF SafetyInv
<1>2. /\ polls' \in [Trades -> [Polls -> Stages]]
      /\ polls'[t][p] = stage
      /\ \A q \in Polls \ {p} : polls'[t][q] = polls[t][q]
      /\ \A u \in Trades \ {t} : polls'[u] = polls[u]
  BY <1>1, AtStage
<1>3. Shapes' /\ OnlyAbout(t)
  BY <1>1, <1>2 DEF Shapes, OnlyAbout
<1>4. Landed(t)' <=> Landed(t)
  BY <1>2 DEF Landed
<1>5. Sound(t)'
  BY <1>1, <1>2, <1>4 DEF Sound, Recorded
<1>6. QED
  BY <1>3, <1>5, Frame

\* A sell whose outcome is known to be no sale, or is not known at all, ends
\* the poll; the trade may be put aside.
LEMMA EscalationStep ==
  ASSUME SafetyInv, OnePoll, NEW t \in Trades, NEW p \in Polls, SellSettles(t, p), Escalate(t),
         polls[t][p] \in {"selling", "landed"},
         row' \in [Trades -> [status : {"none", "open", "closed"}, complete : BOOLEAN,
                             flagged : BOOLEAN, pnl : Int]],
         row'[t].status = row[t].status, \A u \in Trades \ {t} : row'[u] = row[u],
         UNCHANGED <<positions, sold, crashes, halfEntered>>
  PROVE  SafetyInv'
<1>1. Shapes /\ Sound(t) /\ crashes \in Nat /\ sold[t] \in Nat
  BY DEF SafetyInv, Shapes
<1>2. At(t, p, "idle") /\ "idle" \in Stages
  BY DEF SellSettles, Stages
<1>3. /\ polls' \in [Trades -> [Polls -> Stages]]
      /\ polls'[t][p] = "idle"
      /\ \A u \in Trades \ {t} : polls'[u] = polls[u]
  BY <1>1, <1>2, AtStage
<1>4. \A q \in Polls : polls'[t][q] = "idle"
  BY <1>3 DEF OnePoll
<1>5. t \in positions /\ row[t].status = "open"
  BY <1>1 DEF Sound
<1>6. Shapes' /\ OnlyAbout(t)
  BY <1>1, <1>3 DEF Shapes, OnlyAbout, Escalate
<1>7. Sound(t)'
  BY <1>1, <1>4, <1>5 DEF Sound, Landed, Recorded, Escalate
<1>8. QED
  BY <1>6, <1>7, Frame

\* The venue executes a sell: nothing was sold before that is still unknown.
LEMMA LandingStep ==
  ASSUME SafetyInv, OnePoll, NEW t \in Trades, NEW p \in Polls, SellLands(t, p)
  PROVE  SafetyInv'
<1>1. Shapes /\ Sound(t) /\ crashes \in Nat /\ sold[t] \in Nat
  BY DEF SafetyInv, Shapes
<1>2. At(t, p, "landed") /\ "landed" \in Stages /\ polls[t][p] = "selling"
  BY DEF SellLands, Stages
<1>3. /\ polls' \in [Trades -> [Polls -> Stages]]
      /\ polls'[t][p] = "landed"
      /\ \A u \in Trades \ {t} : polls'[u] = polls[u]
  BY <1>1, <1>2, AtStage
<1>4. ~Landed(t) /\ t \in positions /\ t \notin recon /\ row[t].status = "open"
  BY <1>1, <1>2 DEF Sound, Landed, OnePoll
<1>5. sold' \in [Trades -> Nat] /\ sold'[t] = sold[t] + 1 /\ \A u \in Trades \ {t} : sold'[u] = sold[u]
  BY <1>1 DEF SellLands, Shapes
<1>6. Shapes' /\ OnlyAbout(t)
  BY <1>1, <1>3, <1>5 DEF Shapes, OnlyAbout, SellLands, ledger
<1>7. sold[t] <= crashes
  BY <1>1, <1>4 DEF Sound, Recorded
<1>8. Sound(t)'
  BY <1>1, <1>3, <1>4, <1>5, <1>7 DEF Sound, Landed, Recorded, SellLands, ledger
<1>9. QED
  BY <1>6, <1>8, Frame

\* The exit is recorded: the trade is no longer open, and has no other poll.
LEMMA ConfirmedStep ==
  ASSUME SafetyInv, OnePoll, NEW t \in Trades, NEW p \in Polls, NEW pnl \in ExitPnls,
         SellConfirmed(t, p, pnl)
  PROVE  SafetyInv'
<1>1. Shapes /\ Sound(t) /\ crashes \in Nat /\ sold[t] \in Nat /\ pnl \in Int
  BY MonitorAssumption DEF SafetyInv, Shapes
<1>2. At(t, p, "idle") /\ "idle" \in Stages /\ polls[t][p] = "landed"
  BY DEF SellConfirmed, SellSettles, Stages
<1>3. /\ polls' \in [Trades -> [Polls -> Stages]]
      /\ polls'[t][p] = "idle"
      /\ \A u \in Trades \ {t} : polls'[u] = polls[u]
  BY <1>1, <1>2, AtStage
<1>4. \A q \in Polls : polls'[t][q] = "idle"
  BY <1>3 DEF OnePoll
<1>5. row' \in [Trades -> [status : {"none", "open", "closed"}, complete : BOOLEAN,
                          flagged : BOOLEAN, pnl : Int]]
  BY <1>1 DEF SellConfirmed, Shapes
<1>6. /\ row'[t].status = "closed" /\ row'[t].flagged = row[t].flagged
      /\ \A u \in Trades \ {t} : row'[u] = row[u]
  BY <1>1 DEF SellConfirmed, Shapes
<1>7. Shapes' /\ OnlyAbout(t)
  BY <1>1, <1>3, <1>5, <1>6 DEF Shapes, OnlyAbout, SellConfirmed, world
<1>8. t \notin recon /\ sold[t] > 0
  BY <1>1, <1>2 DEF Sound, Landed
<1>9. Sound(t)'
  BY <1>1, <1>4, <1>6, <1>8 DEF Sound, Landed, Recorded, SellConfirmed, world
<1>10. QED
  BY <1>7, <1>9, Frame

\* A restart: whoever is tracked again has no poll, and what was sold before
\* is at most what the restarts can have hidden.
LEMMA RestartStep == ASSUME SafetyInv, Restart PROVE SafetyInv'
<1>1. Shapes /\ crashes \in Nat /\ crashes' = crashes + 1
  BY DEF SafetyInv, Shapes, Restart
<1>2. row' \in [Trades -> [status : {"none", "open", "closed"}, complete : BOOLEAN,
                          flagged : BOOLEAN, pnl : Int]]
  BY <1>1 DEF Restart, Shapes
<1>3. \A t \in Trades :
        /\ row'[t].status = row[t].status
        /\ row'[t].flagged <=> row[t].flagged \/ (row[t].status = "open" /\ ~row[t].complete)
  BY <1>1 DEF Restart, Shapes
<1>4. polls' \in [Trades -> [Polls -> Stages]] /\ \A t \in Trades, p \in Polls : polls'[t][p] = "idle"
  BY DEF Restart, AllIdle, Stages
<1>5. Shapes'
  BY <1>1, <1>2, <1>4 DEF Shapes, Restart, NotResumable, OpenRows
<1>6. ASSUME NEW t \in Trades PROVE Sound(t)'
  <2>1. Sound(t) /\ sold[t] \in Nat /\ row[t] \in [status : {"none", "open", "closed"}, complete : BOOLEAN,
                                                flagged : BOOLEAN, pnl : Int]
    BY DEF SafetyInv, Shapes
  <2>2. t \in positions' <=> row[t].status = "open" /\ row[t].complete /\ ~row[t].flagged
    BY DEF Restart, Resumable
  <2>3. t \in recon' <=> row[t].status = "open" /\ ~(row[t].complete /\ ~row[t].flagged)
    BY DEF Restart, NotResumable, OpenRows, Resumable
  <2>4. (t \in recon' => emergency') /\ t \notin halfEntered'
    BY DEF Restart
  <2>5. sold'[t] = sold[t] /\ sold[t] <= crashes + 1
    BY <2>1 DEF Restart, Sound
  <2>6. row[t].flagged => row[t].status = "open"
    BY <2>1 DEF Sound
  <2>7. ~Landed(t)'
    BY <1>4 DEF Landed
  <2>8. QED
    BY <1>1, <1>3, <1>4, <2>1, <2>2, <2>3, <2>4, <2>5, <2>6, <2>7 DEF Sound, Recorded
<1>7. QED
  BY <1>5, <1>6 DEF SafetyInv

LEMMA SafetyStep == ASSUME OnePoll, SafetyInv, [Next]_vars PROVE SafetyInv'
<1>1. ASSUME NEW t \in Trades, NEW complete \in BOOLEAN, Enters(t, complete) PROVE SafetyInv'
  BY <1>1, EntryStep
<1>2. ASSUME UNCHANGED <<row, positions, recon, emergency, polls, sold, crashes, halfEntered>> PROVE SafetyInv'
  BY <1>2 DEF SafetyInv, Shapes, Sound, Landed, Recorded
<1>3. ASSUME NEW t \in Trades, NEW p \in Polls, polls[t][p] # "idle"
      PROVE  t \in positions /\ t \notin recon
  BY <1>3 DEF SafetyInv, Sound
<1>4. ASSUME NEW t \in Trades, NEW p \in Polls, PollStart(t, p) PROVE SafetyInv'
  BY <1>4, PollStep DEF PollStart, MayPoll, Stages, ledger, world
<1>5. ASSUME NEW t \in Trades, NEW p \in Polls, ReadReturns(t, p) \/ ReadThrows(t, p) PROVE SafetyInv'
  <2>1. polls[t][p] \in {"reading", "reading late"}
    BY <1>5 DEF ReadReturns, ReadThrows, Reading
  <2>2. At(t, p, "selling") \/ At(t, p, "idle")
    BY <1>5 DEF ReadReturns, ReadThrows
  <2>3. UNCHANGED <<row, positions, recon, emergency, sold, crashes, halfEntered>>
    BY <1>5 DEF ReadReturns, ReadThrows, ledger, world
  <2>4. QED
    BY <1>3, <2>1, <2>2, <2>3, PollStep DEF Stages
<1>6. ASSUME NEW t \in Trades, NEW p \in Polls, SellThrows(t, p) \/ SellDeferred(t, p) PROVE SafetyInv'
  BY <1>3, <1>6, PollStep DEF SellThrows, SellDeferred, SellSettles, Stages, ledger, world
<1>7. ASSUME NEW t \in Trades, NEW p \in Polls, NEW pnl \in ExitPnls, NEW marked \in BOOLEAN,
             ExitWriteFails(t, p, pnl, marked)
      PROVE  SafetyInv'
  <2>1. /\ row' \in [Trades -> [status : {"none", "open", "closed"}, complete : BOOLEAN,
                                flagged : BOOLEAN, pnl : Int]]
        /\ row'[t].status = row[t].status
        /\ \A u \in Trades \ {t} : row'[u] = row[u]
    BY <1>7 DEF ExitWriteFails, SafetyInv, Shapes
  <2>2. QED
    BY <1>7, <2>1, EscalationStep DEF ExitWriteFails, world
<1>8. ASSUME NEW t \in Trades, NEW p \in Polls, SellRefused(t, p) \/ SellUnknown(t, p) PROVE SafetyInv'
  <2>1. row' \in [Trades -> [status : {"none", "open", "closed"}, complete : BOOLEAN,
                            flagged : BOOLEAN, pnl : Int]]
    BY <1>8 DEF SellRefused, SellUnknown, SafetyInv, Shapes, ledger
  <2>2. QED
    BY <1>8, <2>1, EscalationStep DEF SellRefused, SellUnknown, ledger, world
<1>9. CASE Restart
  BY <1>9, RestartStep
<1>10. ASSUME NEW t \in Trades, NEW p \in Polls, SellLands(t, p) PROVE SafetyInv'
  BY <1>10, LandingStep
<1>11. ASSUME NEW t \in Trades, NEW p \in Polls, NEW pnl \in ExitPnls, SellConfirmed(t, p, pnl) PROVE SafetyInv'
  BY <1>11, ConfirmedStep
<1>12. ASSUME NEW t \in Trades, MaxHoldPasses(t) \/ DeferralExpires(t) PROVE SafetyInv'
  BY <1>2, <1>12 DEF MaxHoldPasses, DeferralExpires, ledger, world
<1>13. CASE Stop \/ UNCHANGED vars
  BY <1>2, <1>13 DEF Stop, vars, ledger, world
<1>14. QED
  BY <1>1, <1>4, <1>5, <1>6, <1>7, <1>8, <1>9, <1>10, <1>11, <1>12, <1>13 DEF Next, Enters, SellAnswers

\* A sale is not repeated but for those that a restart made unknown, and a
\* trade that needs reconciliation is not sold again, in its process or, if
\* the flag reached the ledger, in a later one: polls that do not overlap,
\* failed writes, unknown outcomes and crashes notwithstanding (pollOne,
\* closePosition, recoverOpenPositions).
THEOREM OneSale == ASSUME OnePoll PROVE Spec => [](NoDuplicateSell /\ LeftAlone)
<1>1. SafetyInv => NoDuplicateSell /\ LeftAlone
  <2>1. ASSUME SafetyInv, NEW t \in Trades PROVE sold[t] <= 1 + crashes
    BY <2>1 DEF SafetyInv, Shapes, Sound
  <2>2. ASSUME SafetyInv, NEW t \in Trades, t \in recon \/ row[t].flagged, NEW p \in Polls
        PROVE  polls[t][p] \notin {"selling", "landed"}
    BY <2>2 DEF SafetyInv, Sound
  <2>3. QED
    BY <2>1, <2>2 DEF NoDuplicateSell, LeftAlone
<1>2. SafetyInv /\ [Next]_vars => SafetyInv'
  BY SafetyStep
<1>3. QED
  BY <1>1, <1>2, SafetyInit, PTL DEF Spec

\* What SafetyInv leaves of the type.
OtherTypes ==
  /\ daily \in [pnl : Int, latched : BOOLEAN]
  /\ closing \subseteq Trades
  /\ deferred \in [Trades -> {"no", "fresh", "expired"}]
  /\ running \in BOOLEAN
  /\ overdue \subseteq Trades
  /\ unconfirmed \subseteq Trades
  /\ crashes \in 0..MaxCrashes

LEMMA OtherTypesInit == Init => OtherTypes
<1> SUFFICES ASSUME Init PROVE OtherTypes
  OBVIOUS
<1>1. crashes \in 0..MaxCrashes
  BY MonitorAssumption DEF Init
<1>2. QED
  BY <1>1 DEF Init, OtherTypes

LEMMA OtherTypesStep == ASSUME OtherTypes, [Next]_vars PROVE OtherTypes'
<1>1. ASSUME NEW t \in Trades, NEW p \in Polls, NEW pnl \in ExitPnls, SellConfirmed(t, p, pnl) PROVE OtherTypes'
  <2>1. AfterExit(daily, pnl) \in [pnl : Int, latched : BOOLEAN]
    BY MonitorAssumption DEF AfterExit, OtherTypes
  <2>2. QED
    BY <1>1, <2>1 DEF SellConfirmed, SellSettles, world, OtherTypes
<1>2. ASSUME NEW t \in Trades, NEW p \in Polls, NEW pnl \in ExitPnls, NEW marked \in BOOLEAN,
             ExitWriteFails(t, p, pnl, marked)
      PROVE  OtherTypes'
  BY <1>2 DEF ExitWriteFails, DailyOnFailure, SellSettles, world, OtherTypes
<1>3. ASSUME NEW t \in Trades, NEW p \in Polls,
             SellDeferred(t, p) \/ SellRefused(t, p) \/ SellUnknown(t, p) \/ SellThrows(t, p)
      PROVE  OtherTypes'
  BY <1>3 DEF SellDeferred, SellRefused, SellUnknown, SellThrows, SellSettles, ledger, world, OtherTypes
<1>4. ASSUME NEW t \in Trades, NEW p \in Polls,
             PollStart(t, p) \/ ReadReturns(t, p) \/ ReadThrows(t, p) \/ SellLands(t, p)
      PROVE  OtherTypes'
  BY <1>4 DEF PollStart, ReadReturns, ReadThrows, SellLands, ledger, world, OtherTypes
<1>5. ASSUME NEW t \in Trades, NEW complete \in BOOLEAN,
             Enters(t, complete) \/ MaxHoldPasses(t) \/ DeferralExpires(t)
      PROVE  OtherTypes'
  BY <1>5 DEF Enters, Enter, EntryHalfRecorded, MaxHoldPasses, DeferralExpires, ledger, world, OtherTypes
<1>6. CASE Restart
  <2>1. crashes' \in 0..MaxCrashes
    BY <1>6, MonitorAssumption DEF Restart, OtherTypes
  <2>2. QED
    BY <1>6, <2>1 DEF Restart, OtherTypes
<1>7. CASE Stop \/ UNCHANGED vars
  BY <1>7 DEF Stop, vars, ledger, world, OtherTypes
<1>8. QED
  BY <1>1, <1>2, <1>3, <1>4, <1>5, <1>6, <1>7 DEF Next, Enters, SellAnswers

\* Type correctness: what is monitored and what waits for a human is an open
\* row, as long as polls do not overlap.
THEOREM MonitorTypes == ASSUME OnePoll PROVE Spec => []TypeOK
<1>1. Init => OtherTypes
  BY OtherTypesInit
<1>2. SafetyInv /\ OtherTypes => TypeOK
  <2> SUFFICES ASSUME SafetyInv, OtherTypes PROVE TypeOK
    OBVIOUS
  <2>1. positions \subseteq OpenRows /\ recon \subseteq OpenRows /\ halfEntered \subseteq OpenRows
    BY DEF SafetyInv, Shapes, Sound, OpenRows
  <2>2. QED
    BY <2>1 DEF SafetyInv, Shapes, Stages, OtherTypes, TypeOK
<1>3. SafetyInv /\ [Next]_vars => SafetyInv'
  BY SafetyStep
<1>4. OtherTypes /\ [Next]_vars => OtherTypes'
  BY OtherTypesStep
<1>5. QED
  BY <1>1, <1>2, <1>3, <1>4, SafetyInit, PTL DEF Spec

------------------------------------------------------------------------------
\* The accounts.

Results == [t \in Trades |-> row[t].pnl]
Booked == daily.pnl = SumFunctionOnSet(Results, ClosedRows)
Latching == IsDailyLossLimitBreached(daily.pnl, StartingBalance) => daily.latched

LEMMA ResultsType == ASSUME Shapes PROVE Results \in [Trades -> Int] /\ ClosedRows \in SUBSET Trades
BY DEF Shapes, Results, ClosedRows

\* A step that closes no trade and realizes nothing.
LEMMA NothingBooked ==
  ASSUME Shapes, Shapes', Booked, Latching, daily' = daily,
         \A t \in Trades : /\ row'[t].status = "closed" <=> row[t].status = "closed"
                          /\ row'[t].pnl = row[t].pnl
  PROVE  Booked' /\ Latching'
<1>1. ClosedRows' = ClosedRows /\ Results' = Results
  BY DEF ClosedRows, Results
<1>2. QED
  BY <1>1 DEF Booked, Latching

\* The exit of a trade that was open is booked on top of the others, and
\* latches the breaker with the total.
LEMMA ExitBooked ==
  ASSUME Shapes, Shapes', daily \in [pnl : Int, latched : BOOLEAN], Booked, Latching,
         NEW t \in Trades, NEW pnl \in Int, row[t].status = "open",
         row'[t].status = "closed", row'[t].pnl = pnl, \A u \in Trades \ {t} : row'[u] = row[u],
         daily' = AfterExit(daily, pnl)
  PROVE  Booked' /\ Latching'
<1>1. PICK f \in [Trades -> Int], g \in [Trades -> Int] : f = Results /\ g = Results'
  <2>1. Results \in [Trades -> Int]
    BY ResultsType
  <2>2. Results' \in [Trades -> Int]
    BY DEF Shapes, Results
  <2>3. QED
    BY <2>1, <2>2
<1>2. ClosedRows \in SUBSET Trades /\ t \notin ClosedRows
  BY DEF ClosedRows
<1>3. ClosedRows' = ClosedRows \union {t}
  BY DEF ClosedRows
<1>4. PICK C \in SUBSET Trades : C = ClosedRows /\ t \in Trades \ C /\ ClosedRows' = C \union {t}
  BY <1>2, <1>3
<1>5. g[t] = pnl /\ \A u \in C : g[u] = f[u]
  BY <1>1, <1>4 DEF Results
<1>6. IsFiniteSet(Trades)
  BY MonitorAssumption
<1>7. SumFunctionOnSet(f, C) = SumFunctionOnSet(g, C)
  BY <1>6, <1>5, SumSame
<1>8. SumFunctionOnSet(g, C) \in Int /\ SumFunctionOnSet(g, C \union {t}) = SumFunctionOnSet(g, C) + pnl
  BY <1>4, <1>6, <1>5, SumGrows
<1>9. /\ daily'.pnl = daily.pnl + pnl
      /\ IsDailyLossLimitBreached(daily'.pnl, StartingBalance) => daily'.latched
  BY DEF AfterExit
<1>10. daily.pnl = SumFunctionOnSet(f, C)
  BY <1>1, <1>4 DEF Booked
<1>11. SumFunctionOnSet(Results, ClosedRows)' = SumFunctionOnSet(g, C \union {t})
  BY <1>1, <1>4
<1>12. QED
  BY <1>7, <1>8, <1>9, <1>10, <1>11 DEF Booked, Latching

LEMMA AccountsStep ==
  ASSUME SafetyInv, OnePoll, SafetyInv', OtherTypes, Booked, Latching, [Next]_vars
  PROVE  Booked' /\ Latching'
<1>1. Shapes /\ Shapes'
  BY DEF SafetyInv
<1>2. ASSUME row' = row, daily' = daily PROVE Booked' /\ Latching'
  BY <1>1, <1>2, NothingBooked
<1>3. ASSUME NEW t \in Trades, NEW p \in Polls, NEW pnl \in ExitPnls, SellConfirmed(t, p, pnl)
      PROVE  Booked' /\ Latching'
  <2>1. row[t].status = "open"
    BY <1>3 DEF SellConfirmed, SafetyInv, Sound
  <2>2. pnl \in Int
    BY MonitorAssumption
  <2>3. row'[t].status = "closed" /\ row'[t].pnl = pnl /\ \A u \in Trades \ {t} : row'[u] = row[u]
    BY <1>1, <1>3 DEF SellConfirmed, Shapes
  <2>4. QED
    BY <1>1, <1>3, <2>1, <2>2, <2>3, ExitBooked DEF SellConfirmed, OtherTypes
<1>4. ASSUME NEW t \in Trades, NEW complete \in BOOLEAN, Enters(t, complete) PROVE Booked' /\ Latching'
  <2>1. daily' = daily
    BY <1>4 DEF Enters, Enter, EntryHalfRecorded
  <2>2. \A u \in Trades : (row'[u].status = "closed" <=> row[u].status = "closed") /\ row'[u].pnl = row[u].pnl
    BY <1>1, <1>4, RowWritten DEF Shapes
  <2>3. QED
    BY <1>1, <2>1, <2>2, NothingBooked
<1>5. ASSUME NEW t \in Trades, NEW p \in Polls, NEW pnl \in ExitPnls, NEW marked \in BOOLEAN,
             ExitWriteFails(t, p, pnl, marked)
      PROVE  Booked' /\ Latching'
  BY <1>1, <1>5, NothingBooked DEF ExitWriteFails, DailyOnFailure, Shapes
<1>6. CASE Restart
  BY <1>1, <1>6, NothingBooked DEF Restart, Shapes
<1>7. ASSUME NEW t \in Trades, NEW p \in Polls,
             PollStart(t, p) \/ ReadReturns(t, p) \/ ReadThrows(t, p) \/ SellLands(t, p) \/ SellThrows(t, p)
               \/ SellDeferred(t, p) \/ SellRefused(t, p) \/ SellUnknown(t, p)
      PROVE  Booked' /\ Latching'
  BY <1>2, <1>7 DEF PollStart, ReadReturns, ReadThrows, SellLands, SellThrows, SellDeferred, SellRefused,
                    SellUnknown, ledger
<1>8. ASSUME NEW t \in Trades, MaxHoldPasses(t) \/ DeferralExpires(t) PROVE Booked' /\ Latching'
  BY <1>2, <1>8 DEF MaxHoldPasses, DeferralExpires, ledger
<1>9. CASE Stop \/ UNCHANGED vars
  BY <1>2, <1>9 DEF Stop, vars, ledger
<1>10. QED
  BY <1>3, <1>4, <1>5, <1>6, <1>7, <1>8, <1>9 DEF Next, Enters, SellAnswers

\* The day's total is the sum of the exits that are on record, a loss at the
\* limit has latched the breaker, and a trade is closed only if it was sold:
\* after failed transactions and crashes too, as long as the polls of a trade do
\* not overlap (closePosition, runExitTransaction).  The configuration's schema
\* demands a positive starting balance; without one the limit counts as reached
\* before any exit has latched it.
THEOREM AccountsHold == ASSUME OnePoll, StartingBalance > 0 PROVE Spec => []Accounts
<1>1. Init => OtherTypes /\ Booked /\ Latching
  <2> SUFFICES ASSUME Init PROVE OtherTypes /\ Booked /\ Latching
    OBVIOUS
  <2>1. ClosedRows = {} /\ Results \in [Trades -> Int] /\ daily.pnl = 0
    BY DEF Init, ClosedRows, Results
  <2>2. Booked
    BY <2>1, SumOfNone, MonitorAssumption DEF Booked
  <2>3. ~IsDailyLossLimitBreached(0, StartingBalance)
    <3>1. DailyLossLimitPct * StartingBalance > 0
      BY DailyLossAssumption
    <3>2. QED
      BY <3>1, DailyLossAssumption DEF IsDailyLossLimitBreached
  <2>4. QED
    BY <2>1, <2>2, <2>3, OtherTypesInit DEF Latching
<1>2. SafetyInv /\ Booked /\ Latching => Accounts
  BY DEF SafetyInv, Sound, Recorded, Shapes, Accounts, Booked, Latching, Results, ClosedRows
<1>3. SafetyInv /\ OtherTypes /\ [Next]_vars => SafetyInv' /\ OtherTypes'
  BY SafetyStep, OtherTypesStep
<1>4. SafetyInv /\ SafetyInv' /\ OtherTypes /\ Booked /\ Latching /\ [Next]_vars => Booked' /\ Latching'
  BY AccountsStep
<1>5. QED
  BY <1>1, <1>2, <1>3, <1>4, SafetyInit, PTL DEF Spec

------------------------------------------------------------------------------
\* What holds of overlapping polls too.

Managed(t) ==
  row[t].status = "open" => t \in positions \/ (t \in recon /\ emergency) \/ t \in halfEntered

ManagedInv ==
  /\ row \in [Trades -> [status : {"none", "open", "closed"}, complete : BOOLEAN,
                         flagged : BOOLEAN, pnl : Int]]
  /\ emergency \in BOOLEAN
  /\ \A t \in Trades : Managed(t)

LEMMA ManagedStep == ManagedInv /\ [Next]_vars => ManagedInv'
<1> SUFFICES ASSUME ManagedInv, [Next]_vars PROVE ManagedInv'
  OBVIOUS
<1>1. ASSUME UNCHANGED <<row, positions, recon, emergency, halfEntered>> PROVE ManagedInv'
  BY <1>1 DEF ManagedInv, Managed
<1>2. ASSUME NEW t \in Trades, NEW complete \in BOOLEAN, Enters(t, complete) PROVE ManagedInv'
  <2>1. row' \in [Trades -> [status : {"none", "open", "closed"}, complete : BOOLEAN,
                            flagged : BOOLEAN, pnl : Int]]
    BY <1>2, RowWritten DEF ManagedInv
  <2>2. \A u \in Trades \ {t} : row'[u] = row[u]
    BY <1>2, RowWritten DEF ManagedInv
  <2>3. /\ t \in positions' \union halfEntered' /\ positions \subseteq positions' /\ halfEntered \subseteq halfEntered'
        /\ UNCHANGED <<recon, emergency>>
    BY <1>2 DEF Enters, Enter, EntryHalfRecorded, AddPosition, world
  <2>4. QED
    BY <2>1, <2>2, <2>3 DEF ManagedInv, Managed
<1>3. ASSUME NEW t \in Trades, NEW p \in Polls, NEW pnl \in ExitPnls, SellConfirmed(t, p, pnl)
      PROVE  ManagedInv'
  <2>1. row' \in [Trades -> [status : {"none", "open", "closed"}, complete : BOOLEAN,
                            flagged : BOOLEAN, pnl : Int]]
    BY <1>3, MonitorAssumption DEF SellConfirmed, ManagedInv
  <2>2. row'[t].status = "closed" /\ \A u \in Trades \ {t} : row'[u] = row[u]
    BY <1>3 DEF SellConfirmed, ManagedInv
  <2>3. positions' = positions \ {t} /\ UNCHANGED <<recon, emergency, halfEntered>>
    BY <1>3 DEF SellConfirmed, world
  <2>4. QED
    BY <2>1, <2>2, <2>3 DEF ManagedInv, Managed
<1>4. ASSUME NEW t \in Trades, NEW p \in Polls, NEW pnl \in ExitPnls, NEW marked \in BOOLEAN,
             ExitWriteFails(t, p, pnl, marked)
      PROVE  ManagedInv'
  <2>1. row' \in [Trades -> [status : {"none", "open", "closed"}, complete : BOOLEAN,
                            flagged : BOOLEAN, pnl : Int]]
    BY <1>4 DEF ExitWriteFails, ManagedInv
  <2>2. \A u \in Trades : row'[u].status = row[u].status
    BY <1>4 DEF ExitWriteFails, ManagedInv
  <2>3. QED
    BY <1>4, <2>1, <2>2 DEF ExitWriteFails, Escalate, world, ManagedInv, Managed
<1>5. ASSUME NEW t \in Trades, NEW p \in Polls, SellRefused(t, p) \/ SellUnknown(t, p) PROVE ManagedInv'
  BY <1>5 DEF SellRefused, SellUnknown, Escalate, ledger, world, ManagedInv, Managed
<1>6. CASE Restart
  <2>1. row' \in [Trades -> [status : {"none", "open", "closed"}, complete : BOOLEAN,
                            flagged : BOOLEAN, pnl : Int]]
    BY <1>6 DEF Restart, ManagedInv
  <2>2. \A t \in Trades : row'[t].status = row[t].status
    BY <1>6 DEF Restart, ManagedInv
  <2>3. \A t \in Trades : row[t].status = "open" => t \in positions' \/ t \in recon'
    BY <1>6 DEF Restart, NotResumable, OpenRows
  <2>4. emergency' = (recon' # {})
    BY <1>6 DEF Restart
  <2>5. QED
    BY <2>1, <2>2, <2>3, <2>4 DEF ManagedInv, Managed
<1>7. ASSUME NEW t \in Trades, MaxHoldPasses(t) \/ DeferralExpires(t) PROVE ManagedInv'
  BY <1>1, <1>7 DEF MaxHoldPasses, DeferralExpires, ledger, world
<1>8. ASSUME NEW t \in Trades, NEW p \in Polls,
             PollStart(t, p) \/ ReadReturns(t, p) \/ ReadThrows(t, p) \/ SellLands(t, p) \/ SellThrows(t, p)
               \/ SellDeferred(t, p)
      PROVE  ManagedInv'
  BY <1>1, <1>8 DEF PollStart, ReadReturns, ReadThrows, SellLands, SellThrows, SellDeferred, ledger, world
<1>9. CASE Stop \/ UNCHANGED vars
  BY <1>1, <1>9 DEF Stop, vars, ledger, world
<1>10. QED
  BY <1>2, <1>3, <1>4, <1>5, <1>6, <1>7, <1>8, <1>9 DEF Next, Enters, SellAnswers

\* No trade is forgotten once its entry is complete: it is monitored, or waits
\* for a human with new entries stopped, however its polls overlap, whichever
\* write of an exit fails and whenever the process dies (escalate,
\* recoverOpenPositions).  One whose entry threw after its row was written is
\* forgotten, but only until the next restart.
THEOREM NothingForgotten == Spec => []OpenIsManaged
<1>1. Init => ManagedInv
  <2> SUFFICES ASSUME Init PROVE ManagedInv
    OBVIOUS
  <2>1. row \in [Trades -> [status : {"none", "open", "closed"}, complete : BOOLEAN,
                           flagged : BOOLEAN, pnl : Int]]
    BY DEF Init
  <2>2. emergency \in BOOLEAN /\ \A t \in Trades : row[t].status = "none"
    BY DEF Init
  <2>3. QED
    BY <2>1, <2>2 DEF ManagedInv, Managed
<1>2. ManagedInv => OpenIsManaged
  BY DEF ManagedInv, Managed, OpenIsManaged, OpenRows
<1>3. QED
  BY <1>1, <1>2, ManagedStep, PTL DEF Spec

==============================================================================
