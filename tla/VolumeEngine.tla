------------------------------ MODULE VolumeEngine ------------------------------
(***************************************************************************)
(* The native volume engine: volume/pumpfunVolumeEngine.ts, the bounded    *)
(* structures it keeps (volume/boundedStructures.ts), the notifications it *)
(* decodes (volume/pumpfunTradeEventDecoder.ts), and the websocket hooks   *)
(* and the watchdog that drive it (volume/pumpfunVolumeService.ts).        *)
(*                                                                         *)
(* The engine is a record and its operations are operators on it, named as *)
(* in the code; VolumeStream lets the chain and the stream act on it.      *)
(* Times are whole seconds (the precision of event time) and -1 stands for *)
(* null.                                                                   *)
(***************************************************************************)
EXTENDS CurveMath, Sequences, FiniteSets, FiniteSetsExt

CONSTANTS
  Mints,
  Window,           \* length of a volume window (60 s)
  Settle,           \* settleSec: how late an event may be and still count
  Retention,        \* retentionSec
  Silence,          \* silenceMs
  MaxLag,           \* maxWatermarkLagSec
  MaxSkew,          \* maxSnapshotSkewSec
  FutureTolerance,  \* futureToleranceSec
  MaxSeen,          \* maxDedupeEntries
  MaxBuckets,
  MaxMintStates,
  Idle,             \* mintStateIdleSec
  PruneEvery        \* 60 s between two sweeps of idle mints

\* The constructor refuses a shorter retention.
ASSUME VolumeAssumption ==
  /\ Window \in Nat \ {0}
  /\ {Settle, Retention, Silence, MaxLag, MaxSkew, FutureTolerance, Idle, PruneEvery} \subseteq Nat
  /\ {MaxSeen, MaxBuckets, MaxMintStates} \subseteq Nat \ {0}
  /\ Retention >= 2 * Window + Settle

Zero == [vs |-> 0, vt |-> 0, rs |-> 0, rt |-> 0]
NoCurve == [post |-> Zero, pre |-> Zero, mode |-> "none", slot |-> -1, sec |-> -1, stepOk |-> FALSE]
NoState == [status |-> "absent", creationSec |-> -1, createdInEpoch |-> -1,
            provenEpoch |-> -1, lastEventSec |-> -1, curve |-> NoCurve]

\* markStreamStarted() on a fresh engine.
Started ==
  [connected |-> TRUE, awaiting |-> TRUE, coverageSince |-> -1, epoch |-> 1,
   watermark |-> -1, lastNotification |-> -1, lastMintPrune |-> 0,
   seen |-> <<>>, buckets |-> <<>>,
   order |-> <<>>, state |-> [m \in Mints |-> NoState]]

------------------------------------------------------------------------------
\* BoundedIdentitySet: identities in order of arrival, each with its second.

Knows(seen, id) == \E i \in DOMAIN seen : seen[i].id = id

SeenAdd(seen, id, sec) ==
  LET grown == Append(seen, [id |-> id, sec |-> sec])
  IN  IF Len(grown) > MaxSeen THEN Tail(grown) ELSE grown

\* The scan stops at the first entry that is recent enough.
SeenPrune(seen, minSec) ==
  LET scanned == {n \in 0..Len(seen) : \A i \in 1..n : seen[i].sec < minSec}
  IN  SubSeq(seen, Cardinality(scanned), Len(seen))

\* SecondBucketStore: a bucket for each mint and second with a trade.
EmptyBucket == [lamports |-> 0, count |-> 0, buys |-> 0]
BucketAt(b, m, sec) == IF <<m, sec>> \in DOMAIN b THEN b[<<m, sec>>] ELSE EmptyBucket
Restricted(b, keys) == [k \in keys |-> b[k]]

BucketsAdd(b, m, sec, lamports, isBuy) ==
  LET old == BucketAt(b, m, sec)
      new == [lamports |-> old.lamports + lamports, count |-> old.count + 1,
              buys |-> old.buys + (IF isBuy THEN 1 ELSE 0)]
  IN  [k \in DOMAIN b \union {<<m, sec>>} |-> IF k = <<m, sec>> THEN new ELSE b[k]]

BucketsSum(b, m, from, to) ==
  LET inside == {s \in from..to : <<m, s>> \in DOMAIN b}
  IN  [lamports |-> MapThenSumSet(LAMBDA s : b[<<m, s>>].lamports, inside),
       count |-> MapThenSumSet(LAMBDA s : b[<<m, s>>].count, inside),
       buys |-> MapThenSumSet(LAMBDA s : b[<<m, s>>].buys, inside)]

BucketsPrune(b, minSec) == Restricted(b, {k \in DOMAIN b : k[2] >= minSec})

\* Whole seconds go, the oldest first, until the cap holds.
EnforceCap(b) ==
  LET From(s) == {k \in DOMAIN b : k[2] >= s}
      cuts == {s \in {k[2] : k \in DOMAIN b} : Cardinality(From(s)) <= MaxBuckets}
  IN  Restricted(b, IF cuts = {} THEN {} ELSE From(Min(cuts)))

------------------------------------------------------------------------------
\* Health of the stream.

\* Every break forgets since when the stream is covered, and every mint has to
\* prove its state again.
BreakCoverage(e) == [e EXCEPT !.coverageSince = -1, !.awaiting = TRUE, !.epoch = @ + 1]

MarkDisconnected(e) == BreakCoverage([e EXCEPT !.connected = FALSE])

MarkReconnected(e) ==
  LET open == [e EXCEPT !.connected = TRUE, !.lastNotification = -1]
  IN  [(IF open.coverageSince # -1 THEN BreakCoverage(open) ELSE open) EXCEPT !.awaiting = TRUE]

CheckLiveness(e, t) ==
  IF e.coverageSince # -1 /\ e.lastNotification # -1 /\ t - e.lastNotification > Silence
  THEN BreakCoverage(e)
  ELSE e

------------------------------------------------------------------------------
\* Acceptance of an event.

\* The mints in the table, and the table without some of them.
Tracked(e) == {m \in Mints : e.state[m] # NoState}
OrderWithout(order, gone) == SelectSeq(order, LAMBDA m : m \notin gone)

Forget(e, gone) ==
  [e EXCEPT !.order = OrderWithout(@, gone),
            !.state = [m \in Mints |-> IF m \in gone THEN NoState ELSE @[m]]]

\* Called when the watermark moved: what is older than the retention goes,
\* and once in a while the mints idle for too long.
PruneIfDue(e) ==
  LET minSec == e.watermark - Retention
      kept == [e EXCEPT !.buckets = BucketsPrune(@, minSec), !.seen = SeenPrune(@, minSec)]
      idle == {m \in Tracked(e) : e.state[m].lastEventSec < e.watermark - Idle}
  IN  IF e.watermark - e.lastMintPrune >= PruneEvery
      THEN Forget([kept EXCEPT !.lastMintPrune = e.watermark], idle)
      ELSE kept

InTime(e, sec, t) ==
  /\ sec <= t + FutureTolerance
  /\ e.watermark = -1 \/ sec >= e.watermark - Retention

Later(a, b) == IF a > b THEN a ELSE b

\* The first event after a break starts coverage with the second after it, the
\* first that can be seen whole.
AdvanceWatermark(e, sec) ==
  LET covered == IF e.awaiting /\ e.connected
                 THEN [e EXCEPT !.coverageSince = Later(sec, e.watermark) + 1, !.awaiting = FALSE]
                 ELSE e
  IN  IF sec > e.watermark THEN PruneIfDue([covered EXCEPT !.watermark = sec]) ELSE covered

TouchMint(e, m, sec, isCreate) ==
  IF e.state[m] # NoState
  THEN [e EXCEPT !.state[m].lastEventSec = Later(sec, @)]
  ELSE LET known == [e EXCEPT !.order = Append(@, m),
                              !.state[m] = [NoState EXCEPT !.status = "active",
                                                           !.provenEpoch = IF isCreate THEN e.epoch ELSE -1,
                                                           !.lastEventSec = sec]]
       IN  IF Cardinality(Tracked(known)) > MaxMintStates THEN Forget(known, {Head(known.order)}) ELSE known

\* Variant: an older trade of the same slot replaces the curve.
IgnoresSlotOrder(curve, ev) ==
  IF curve # NoCurve /\ ev.slot < curve.slot
  THEN curve
  ELSE [post |-> ev.post, pre |-> PreTradeState(ev.post, ev.isBuy, ev.sol, ev.tok), mode |-> ev.mode,
        slot |-> ev.slot, sec |-> ev.sec,
        stepOk |-> IsConstantProductStep(ev.post, ev.isBuy, ev.sol, ev.tok)]

\* The curve of the latest trade.  A trade of an earlier slot is stale, and so
\* is one of the same slot whose outcome is the state before the tracked trade.
UpdateCurve(curve, ev) ==
  IF /\ curve # NoCurve
     /\ \/ ev.slot < curve.slot
        \/ /\ ~ChainLinks(curve.post, ev.post, ev.isBuy, ev.sol, ev.tok)
           /\ ev.slot = curve.slot
           /\ curve.pre = ev.post
  THEN curve
  ELSE [post |-> ev.post, pre |-> PreTradeState(ev.post, ev.isBuy, ev.sol, ev.tok), mode |-> ev.mode,
        slot |-> ev.slot, sec |-> ev.sec,
        stepOk |-> IsConstantProductStep(ev.post, ev.isBuy, ev.sol, ev.tok)]

\* Variant: the buckets are dropped without a break of coverage.
CapsSilently(e) == [e EXCEPT !.buckets = EnforceCap(@)]

CapBuckets(e) ==
  IF Cardinality(DOMAIN e.buckets) > MaxBuckets
  THEN BreakCoverage([e EXCEPT !.buckets = EnforceCap(@)])
  ELSE e

\* What a trade tells of an active mint: its quote currency or, if that is
\* native SOL, its curve and its volume.
CountTrade(e, ev) ==
  IF e.state[ev.mint].status # "active" THEN e
  ELSE IF ev.quote # "native" THEN [e EXCEPT !.state[ev.mint].status = ev.quote]
  ELSE CapBuckets([e EXCEPT !.state[ev.mint].provenEpoch = e.epoch,
                            !.state[ev.mint].curve = UpdateCurve(@, ev),
                            !.buckets = BucketsAdd(@, ev.mint, ev.sec, ev.sol, ev.isBuy)])

AcceptTrade(e, ev, t) ==
  IF ~InTime(e, ev.sec, t) \/ Knows(e.seen, ev.id) THEN e
  ELSE LET arrived == AdvanceWatermark([e EXCEPT !.seen = SeenAdd(@, ev.id, ev.sec)], ev.sec)
       IN  CountTrade(TouchMint(arrived, ev.mint, ev.sec, FALSE), ev)

\* Creation and graduation.  Graduation is for good.
NoteCreation(st, ev, epoch) ==
  LET dated == IF st.creationSec = -1
               THEN [st EXCEPT !.creationSec = ev.sec, !.createdInEpoch = epoch] ELSE st
  IN  IF ev.quote = "native" THEN [dated EXCEPT !.provenEpoch = epoch]
      ELSE IF st.status = "active" THEN [dated EXCEPT !.status = ev.quote] ELSE dated

AcceptLifecycle(e, ev, t) ==
  IF ~InTime(e, ev.sec, t) \/ Knows(e.seen, ev.id) THEN e
  ELSE LET arrived == AdvanceWatermark([e EXCEPT !.seen = SeenAdd(@, ev.id, ev.sec)], ev.sec)
           touched == TouchMint(arrived, ev.mint, ev.sec, ev.kind = "create")
       IN  IF ev.kind = "create"
           THEN [touched EXCEPT !.state[ev.mint] = NoteCreation(@, ev, touched.epoch)]
           ELSE [touched EXCEPT !.state[ev.mint].status = "graduated"]

Accept(e, ev, t) == IF ev.kind = "trade" THEN AcceptTrade(e, ev, t) ELSE AcceptLifecycle(e, ev, t)

\* One after the other.
AcceptAll(e, events, t) ==
  LET run[n \in 0..Len(events)] == IF n = 0 THEN e ELSE Accept(run[n - 1], events[n], t)
  IN  run[Len(events)]

\* One notification of a successful transaction, decoded: all its lifecycle
\* events, then all its trades, after the break that an unreadable part of it
\* causes.
Ingest(e, decoded, damaged, t) ==
  LET heard == [e EXCEPT !.lastNotification = t]
      sound == IF damaged THEN BreakCoverage(heard) ELSE heard
  IN  AcceptAll(sound, decoded.lifecycle \o decoded.trades, t)

------------------------------------------------------------------------------
\* Queries, at time t.  Each begins with the watchdog.

StreamGate(e, t) ==
  IF ~e.connected THEN "stream_disconnected"
  ELSE IF e.coverageSince = -1 \/ e.watermark = -1 THEN "insufficient_history"
  ELSE IF t - e.watermark > MaxLag THEN "watermark_stale"
  ELSE "ok"

\* Variant: a mint keeps its proof across breaks.
ProofNeverExpires(e, m) ==
  LET st == e.state[m]
  IN  IF st = NoState THEN "mint_not_observed"
      ELSE IF st.status # "active" THEN st.status
      ELSE "ok"

MintGate(e, m) ==
  LET st == e.state[m]
  IN  IF st = NoState THEN "mint_not_observed"
      ELSE IF st.status # "active" THEN st.status
      ELSE IF st.provenEpoch # e.epoch THEN "token_state_unproven"
      ELSE "ok"

Gate(e, m, t) == IF StreamGate(e, t) # "ok" THEN StreamGate(e, t) ELSE MintGate(e, m)

\* The volume of the last window and of the one before it, -1 where coverage
\* does not reach: compute().
Compute(engine, m, t) ==
  LET e == CheckLiveness(engine, t)
      end == e.watermark - Settle
      born == e.state[m].createdInEpoch = e.epoch /\ e.state[m].creationSec # -1
      Covered(from) == born \/ e.coverageSince <= from
      cur == BucketsSum(e.buckets, m, end - Window + 1, end)
      prev == BucketsSum(e.buckets, m, end - 2 * Window + 1, end - Window)
      known == Covered(end - Window + 1)
  IN  IF Gate(e, m, t) # "ok"
      THEN [volume |-> -1, previous |-> -1, count |-> 0, buys |-> 0, end |-> end]
      ELSE [volume |-> IF known THEN cur.lamports ELSE -1,
            previous |-> IF Covered(end - 2 * Window + 1) THEN prev.lamports ELSE -1,
            count |-> IF known THEN cur.count ELSE 0,
            buys |-> IF known THEN cur.buys ELSE 0,
            end |-> end]

\* The reasons the curve of a mint is withheld, "ok" when it is not.
ResolveCurve(engine, m, t) ==
  LET e == CheckLiveness(engine, t)
      track == e.state[m].curve
  IN  IF Gate(e, m, t) # "ok" THEN Gate(e, m, t)
      ELSE IF track = NoCurve THEN "no_curve_state"
      ELSE IF track.mode # "normal" THEN "unsupported_curve"
      ELSE IF ~track.stepOk THEN "curve_step_inconsistent"
      ELSE IF e.watermark - track.sec > MaxSkew THEN "timestamp_skew"
      ELSE "ok"

\* getNativeMarketSnapshot(): VALID exactly when reason is "ok".
Snapshot(e, m, t, entry) ==
  LET volume == Compute(e, m, t)
      reason == IF ResolveCurve(e, m, t) # "ok" THEN ResolveCurve(e, m, t)
                ELSE IF Settle > MaxSkew THEN "timestamp_skew" ELSE "ok"
      post == e.state[m].curve.post
      net == EntryNetLamports(entry)
      bought == TokensOutForNetSol(post, net)
  IN  IF reason # "ok" THEN [reason |-> reason]
      ELSE [reason |-> "ok", post |-> post, asOf |-> e.watermark, stateSec |-> e.state[m].curve.sec,
            impact |-> BuyPriceImpact(post, net),
            sellImpact |-> IF bought > 0 THEN SellPriceImpact(post, bought) ELSE -1,
            volume |-> volume.volume, previous |-> volume.previous,
            buys |-> volume.buys, sells |-> volume.count - volume.buys]

==============================================================================
