------------------------------ MODULE VolumeStream ------------------------------
(***************************************************************************)
(* The stream under the native volume engine: transactions of the Pump.fun *)
(* program emit events on chain, their log notifications reach the engine  *)
(* out of order, twice, damaged or never, and the websocket drops, reports *)
(* errors, falls silent and comes back                                     *)
(*   volume/pumpfunVolumeService.ts, volume/pumpfunTradeEventDecoder.ts.   *)
(* The chain is external; what the properties compare the engine with is   *)
(* the record of it kept here.                                             *)
(***************************************************************************)
EXTENDS VolumeEngine, SequencesExt

CONSTANTS
  Worlds,     \* what the mints may be: records of an `origin`, from Mints to
              \* 0 (no curve yet) or the position on the ladder where the mint
              \* stands when the stream starts, a `nature`, from Mints to
              \* {"normal", "mayhem", "foreign", "short"}, and, a bound, how
              \* many `events` each mint has at most
  Ladder,     \* the curve states a mint trades between
  Entry,      \* the size of an entry, in lamports
  MaxTime,    \* bound: the last second
  MaxEvents,  \* bound: events in all
  MaxEchoes,  \* bound: notifications that are to arrive a second time
  MaxFaults   \* bound: damaged or failed notifications, failures of the line

\* A purchase adds SOL to the curve and takes tokens out of it, of the virtual
\* reserves as much as of the real ones.
ASSUME StreamAssumption ==
  /\ Worlds \subseteq [origin : [Mints -> 0..Len(Ladder)],
                      nature : [Mints -> {"normal", "mayhem", "foreign", "short"}],
                      events : [Mints -> Nat]]
  /\ Ladder \in Seq([vs : Nat, vt : Nat, rs : Nat, rt : Nat]) /\ Len(Ladder) >= 2
  /\ \A k, l \in DOMAIN Ladder :
       /\ k < l => Ladder[k].vs < Ladder[l].vs /\ Ladder[k].vt > Ladder[l].vt
       /\ Ladder[k].vs - Ladder[k].rs = Ladder[l].vs - Ladder[l].rs
       /\ Ladder[k].vt - Ladder[k].rt = Ladder[l].vt - Ladder[l].rt

VARIABLES
  world,    \* what the mints are
  now,      \* seconds; block time and local time agree
  emitted,  \* the events, in order of execution, each with the number `tx` of
            \* its transaction
  pending,  \* those whose notification has not arrived
  echoes,   \* those whose notification arrives once more
  line,     \* "up", "silent" or "down"
  faults,
  eng,      \* the engine
  torn      \* a history the code does not keep: the events lost since the last
            \* break of coverage from a notification that told an earlier one
            \* of the same mint

vars == <<world, now, emitted, pending, echoes, line, faults, eng, torn>>

------------------------------------------------------------------------------
\* The chain.

Kinds == {"create", "trade", "complete"}
IsTrade(event) == event.kind = "trade"
IndicesOf(m) == {i \in DOMAIN emitted : emitted[i].mint = m}
Position(m) == IF IndicesOf(m) = {} THEN world.origin[m] ELSE emitted[Max(IndicesOf(m))].to
Graduated(m) == \E i \in IndicesOf(m) : emitted[i].kind = "complete"

\* An event is of a new transaction or of the last one, when that is of this
\* moment and its notification still to come.
LastTx == IF emitted = <<>> THEN 0 ELSE Last(emitted).tx
Transactions ==
  {LastTx + 1} \union {n \in {LastTx} : Len(emitted) \in pending /\ Last(emitted).sec = now}

\* Slots are compared between trades of one mint only, so each mint counts its
\* own: the next event falls in the slot of the last one or, in another
\* transaction, in a new one.
LastSlot(m) == IF IndicesOf(m) = {} THEN 0 ELSE emitted[Max(IndicesOf(m))].slot
InSlot(m, s) == {i \in IndicesOf(m) : emitted[i].slot = s /\ IsTrade(emitted[i])}
Slots(m, n) ==
  {s \in {LastSlot(m)} : s > 0 /\ emitted[Max(IndicesOf(m))].sec = now} \union
  {s \in {LastSlot(m) + 1} : \A i \in IndicesOf(m) : emitted[i].tx # n}

\* Environment: at most two trades of a mint in a slot, the second not the
\* exact reverse of the first.  Beyond that the reserves alone do not tell the
\* order in which trades of a slot executed.
OrderRecoverable(m, from, to, s) ==
  /\ Cardinality(InSlot(m, s)) < 2
  /\ \A i \in InSlot(m, s) : emitted[i].from # to

\* Where an event of this kind takes the curve of the mint.  The curve is
\* completed by the trade that reaches its end, in the same transaction.
Moves(m, kind, n) ==
  LET at == Position(m)
  IN  CASE kind = "create" -> IF at = 0 THEN {1} ELSE {}
        [] kind = "trade" -> IF at = 0 THEN {} ELSE {at - 1, at + 1} \intersect DOMAIN Ladder
        [] kind = "complete" ->
             IF at = Len(Ladder) /\ n = LastTx /\ Last(emitted).mint = m THEN {at} ELSE {}

Lamports(event) == IF IsTrade(event) THEN Abs(Ladder[event.to].vs - Ladder[event.from].vs) ELSE 0

\* The mints that may still be traded.
Trading ==
  {m \in Mints : /\ Len(emitted) < MaxEvents
                 /\ Cardinality(IndicesOf(m)) < world.events[m]
                 /\ ~Graduated(m)}

\* `m` is one of Trading, `n` one of Transactions, `to` one of Moves(m, kind, n),
\* and `s` one of Slots(m, n).
Execute(m, kind, to, s, n) ==
  /\ LET from == Later(1, Position(m)) IN
     /\ kind = "trade" => OrderRecoverable(m, from, to, s)
     /\ emitted' = Append(emitted, [mint |-> m, kind |-> kind, tx |-> n, from |-> from, to |-> to,
                                    slot |-> s, sec |-> now])
  /\ pending' = pending \union {Len(emitted) + 1}
  /\ UNCHANGED <<world, now, echoes, line, faults, eng, torn>>

------------------------------------------------------------------------------
\* What the decoder makes of a notification, of which it is told some events.

QuoteOf(m) ==
  CASE world.nature[m] = "foreign" -> "non_sol_quote"
    [] world.nature[m] = "short" -> "quote_unproven"
    [] OTHER -> "native"

\* The older, short layout carries neither the quote nor the mayhem flag.
TradeEvent(i) ==
  LET x == emitted[i]
  IN  [kind |-> "trade", mint |-> x.mint, id |-> i, sec |-> x.sec, slot |-> x.slot, isBuy |-> x.to > x.from,
       sol |-> Lamports(x), tok |-> Abs(Ladder[x.to].vt - Ladder[x.from].vt),
       post |-> Ladder[x.to], mode |-> world.nature[x.mint], quote |-> QuoteOf(x.mint)]

LifecycleEvent(i) ==
  LET x == emitted[i]
  IN  [kind |-> IF x.kind = "complete" THEN "graduate" ELSE "create", mint |-> x.mint, id |-> i,
       sec |-> x.sec, quote |-> QuoteOf(x.mint)]

\* The events of a set in the order of the log: each at its rank.
Rank(S, i) == Cardinality({j \in S : j <= i})
InOrder(S) == [k \in 1..Cardinality(S) |-> CHOOSE i \in S : Rank(S, i) = k]

Decoded(told) ==
  LET trades == InOrder({i \in told : IsTrade(emitted[i])})
      others == InOrder({i \in told : ~IsTrade(emitted[i])})
  IN  [lifecycle |-> [k \in DOMAIN others |-> LifecycleEvent(others[k])],
       trades |-> [k \in DOMAIN trades |-> TradeEvent(trades[k])]]

------------------------------------------------------------------------------
\* The stream.

\* The events of a transaction, of those in S, and the transactions of S.
EventsOf(n, S) == {i \in S : emitted[i].tx = n}
TxsOf(S) == {emitted[i].tx : i \in S}

\* A break of coverage puts an end to what a cut notification has left behind.
Mended == IF eng'.epoch = eng.epoch THEN torn ELSE {}

\* Environment: a notification is at most Settle seconds late, and that of the
\* creation of a mint is not later than those of its trades.
Deliverable(n) ==
  \A i \in EventsOf(n, pending), j \in pending :
    /\ emitted[j].sec > emitted[i].sec - Settle
    /\ emitted[j].mint = emitted[i].mint /\ emitted[j].kind = "create" => emitted[j].tx = n

Deliver(n, again) ==
  /\ line = "up"
  /\ Deliverable(n)
  /\ pending' = pending \ EventsOf(n, pending)
  /\ again => Cardinality(TxsOf(echoes)) < MaxEchoes
  /\ echoes' = IF again THEN echoes \union EventsOf(n, pending) ELSE echoes
  /\ eng' = Ingest(eng, Decoded(EventsOf(n, pending)), FALSE, now)
  /\ torn' = Mended
  /\ UNCHANGED <<world, now, emitted, line, faults>>

\* The log was cut, or some events cannot be read: the decoder tells of the
\* others, and the engine accepts them after the break.
\* Environment: when something is lost, nothing that executed earlier is still
\* under way.
DeliverDamaged(n, told) ==
  LET lost == EventsOf(n, pending) \ told IN
  /\ line = "up"
  /\ faults < MaxFaults
  /\ Deliverable(n)
  /\ lost # {} => \A j \in pending : emitted[j].tx >= n
  /\ pending' = pending \ EventsOf(n, pending)
  /\ faults' = faults + 1
  /\ eng' = Ingest(eng, Decoded(told), TRUE, now)
  /\ torn' = {j \in lost : \E i \in told : i < j /\ emitted[i].mint = emitted[j].mint}
  /\ UNCHANGED <<world, now, emitted, echoes, line>>

\* A notification arrives a second time, however late.
DeliverAgain(n) ==
  /\ line = "up"
  /\ echoes' = echoes \ EventsOf(n, echoes)
  /\ eng' = Ingest(eng, Decoded(EventsOf(n, echoes)), FALSE, now)
  /\ torn' = Mended
  /\ UNCHANGED <<world, now, emitted, pending, line, faults>>

\* The notification of a failed transaction carries no event, and is heard.
DeliverFailedTx ==
  /\ line = "up"
  /\ faults < MaxFaults
  /\ faults' = faults + 1
  /\ eng' = [eng EXCEPT !.lastNotification = now]
  /\ UNCHANGED <<world, now, emitted, pending, echoes, line, torn>>

\* The websocket closes.
Close ==
  /\ line = "up"
  /\ faults < MaxFaults
  /\ line' = "down"
  /\ faults' = faults + 1
  /\ eng' = MarkDisconnected(eng)
  /\ torn' = Mended
  /\ UNCHANGED <<world, now, emitted, pending, echoes>>

\* It opens again: no notification of the meantime is replayed.
Open ==
  /\ line = "down"
  /\ line' = "up"
  /\ pending' = {}
  /\ echoes' = {}
  /\ eng' = MarkReconnected(eng)
  /\ torn' = Mended
  /\ UNCHANGED <<world, now, emitted, faults>>

\* An error of the websocket, with or without the loss of what was under way.
StreamError ==
  /\ line = "up"
  /\ faults < MaxFaults
  /\ faults' = faults + 1
  /\ pending' \in {pending, {}}
  /\ eng' = BreakCoverage(eng)
  /\ torn' = Mended
  /\ UNCHANGED <<world, now, emitted, echoes, line>>

\* The subscription dies without an error and, later, comes back.
\* Environment: by then the watchdog has seen the silence.
FallSilent ==
  /\ line = "up"
  /\ faults < MaxFaults
  /\ line' = "silent"
  /\ faults' = faults + 1
  /\ UNCHANGED <<world, now, emitted, pending, echoes, eng, torn>>

SpeakAgain ==
  /\ line = "silent"
  /\ eng.coverageSince = -1
  /\ line' = "up"
  /\ pending' = {}
  /\ echoes' = {}
  /\ UNCHANGED <<world, now, emitted, faults, eng, torn>>

\* The watchdog's timer fires, or a query begins.
Watchdog ==
  /\ eng' = CheckLiveness(eng, now)
  /\ eng' # eng
  /\ torn' = Mended
  /\ UNCHANGED <<world, now, emitted, pending, echoes, line, faults>>

Tick ==
  /\ now < MaxTime
  /\ now' = now + 1
  /\ UNCHANGED <<world, emitted, pending, echoes, line, faults, eng, torn>>

Init ==
  /\ world \in Worlds
  /\ now = 0
  /\ emitted = <<>>
  /\ pending = {}
  /\ echoes = {}
  /\ line = "up"
  /\ faults = 0
  /\ eng = Started
  /\ torn = {}

Next ==
  \/ \E m \in Trading, kind \in Kinds, n \in Transactions :
       \E to \in Moves(m, kind, n), s \in Slots(m, n) : Execute(m, kind, to, s, n)
  \/ \E n \in TxsOf(pending) :
       \/ \E again \in BOOLEAN : Deliver(n, again)
       \/ \E told \in SUBSET EventsOf(n, pending) : DeliverDamaged(n, told)
  \/ \E n \in TxsOf(echoes) : DeliverAgain(n)
  \/ DeliverFailedTx
  \/ Close
  \/ Open
  \/ StreamError
  \/ FallSilent
  \/ SpeakAgain
  \/ Watchdog
  \/ Tick

Spec == Init /\ [][Next]_vars

------------------------------------------------------------------------------
\* What happened on chain in the seconds from..to.

TradesWithin(m, from, to) ==
  {i \in IndicesOf(m) : IsTrade(emitted[i]) /\ emitted[i].sec \in from..to}

\* The same without what was torn off a cut notification.
ToldWithin(m, from, to) == TradesWithin(m, from, to) \ torn
TrueVolume(trades) == MapThenSumSet(LAMBDA i : Lamports(emitted[i]), trades)

\* A volume that is not null is the volume that was traded in that window:
\* nothing missing, nothing counted twice, whatever was lost, late or repeated
\* (compute(), and the coverage rules of the engine's header), except for the
\* trades that a cut notification lost after it had told the creation of their
\* mint: the break precedes what it tells (pumpfunVolumeEngine.ts:317-328), and
\* until the next one the window counts as covered from the creation on.
WindowExact ==
  \A m \in Mints :
    LET v == Compute(eng, m, now)
        last == v.end - Window
        current == ToldWithin(m, last + 1, v.end)
    IN  /\ v.volume # -1 =>
             /\ v.volume = TrueVolume(current)
             /\ v.count = Cardinality(current)
             /\ v.buys = Cardinality({i \in current : emitted[i].to > emitted[i].from})
        /\ v.previous # -1 => v.previous = TrueVolume(ToldWithin(m, last - Window + 1, last))
        /\ eng.state[m].createdInEpoch # eng.epoch =>
             /\ v.volume # -1 => current = TradesWithin(m, last + 1, v.end)
             /\ v.previous # -1 => TradesWithin(m, last - Window + 1, last) \intersect torn = {}

\* A VALID snapshot shows the reserves of the curve as its last event left them,
\* once every notification of the mint has arrived (resolveCurve(),
\* updateCurve()): the last but those that were torn off a cut notification,
\* whose earlier events prove the mint again.
CurveCurrent ==
  \A m \in Mints :
    LET snap == Snapshot(eng, m, now, Entry) IN
    snap.reason = "ok" /\ IndicesOf(m) \intersect pending = {} =>
      snap.post = Ladder[emitted[Max(IndicesOf(m) \ torn)].to]

\* A curve that has ended is priced only until the news of it arrives: not
\* after a gap in which the news was lost (provenEpoch), unless a cut
\* notification lost it and told an earlier trade of the mint.
NeverPricesGraduated ==
  \A m \in Mints :
    Snapshot(eng, m, now, Entry).reason = "ok" /\ Graduated(m) =>
      \E i \in (pending \union torn) \intersect IndicesOf(m) : emitted[i].kind = "complete"

==============================================================================
