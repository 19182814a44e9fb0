-------------------------- MODULE VolumeStreamProofs --------------------------
(***************************************************************************)
(* For every chain and every stream, as long as the engine's tables have   *)
(* room: a volume that the native engine reports is the volume that was    *)
(* traded, a curve that it prices by is the curve after the latest event,  *)
(* and a curve that has completed is priced only until the news of it      *)
(* arrives, even when the news is lost; but for what a cut notification    *)
(* has lost after it had told of the mint (torn).                          *)
(*                                                                         *)
(* The first part is about the engine alone.  Then comes what its books    *)
(* and curves say of the chain (Keeps), which each event, loss and break   *)
(* is shown to keep; then one event of a notification, all of them, the    *)
(* steps of the stream, and what the engine answers.                       *)
(***************************************************************************)
EXTENDS VolumeStream, Sums, FiniteSetTheorems, SequenceTheorems, TLAPS

\* What the identity set holds of an event.
Arrivals == [id : Nat, sec : Nat]

\* The engine and what it knows of a mint are records with these fields.
IsMintState(s) ==
  s = [status |-> s.status, creationSec |-> s.creationSec, createdInEpoch |-> s.createdInEpoch,
       provenEpoch |-> s.provenEpoch, lastEventSec |-> s.lastEventSec, curve |-> s.curve]
IsEngine(e) ==
  e = [connected |-> e.connected, awaiting |-> e.awaiting, coverageSince |-> e.coverageSince,
       epoch |-> e.epoch, watermark |-> e.watermark, lastNotification |-> e.lastNotification,
       lastMintPrune |-> e.lastMintPrune, seen |-> e.seen, buckets |-> e.buckets,
       order |-> e.order, state |-> e.state]

\* No mint is proven in an epoch that has no coverage.
Proofs(e) ==
  /\ \A m \in Mints : e.state[m].provenEpoch <= e.epoch
  /\ e.coverageSince = -1 => e.awaiting /\ \A m \in Mints : e.state[m].provenEpoch # e.epoch

Statuses == {"absent", "active", "graduated", "non_sol_quote", "quote_unproven"}

Mint(s) ==
  /\ IsMintState(s) /\ s.status \in Statuses
  /\ s.provenEpoch \in Int /\ s.lastEventSec \in Int
  /\ s # NoState => s.status # "absent"

Shape(e) ==
  /\ IsEngine(e)
  /\ e.epoch \in Nat \ {0}
  /\ e.watermark \in Int /\ e.watermark >= -1
  /\ e.seen \in Seq(Arrivals)
  /\ e.state = [m \in Mints |-> e.state[m]]
  /\ \A m \in Mints : Mint(e.state[m])

Sound(e) == Shape(e) /\ Proofs(e)

\* What remains of what was known of a mint, when an event moves the watermark.
Remains(old, new, m) ==
  \/ new.state[m] = old.state[m]
  \/ new.state[m] = NoState /\ old.state[m].lastEventSec < new.watermark - Idle

------------------------------------------------------------------------------
\* The identity set.

LEMMA Arrives ==
  ASSUME NEW seen \in Seq(Arrivals), Len(seen) < MaxSeen,
         NEW id \in Nat, NEW sec \in Nat
  PROVE  /\ SeenAdd(seen, id, sec) \in Seq(Arrivals)
         /\ Len(SeenAdd(seen, id, sec)) = Len(seen) + 1
         /\ Range(SeenAdd(seen, id, sec)) = Range(seen) \union {[id |-> id, sec |-> sec]}
<1>1. PICK a \in Arrivals : a = [id |-> id, sec |-> sec]
  BY DEF Arrivals
<1>2. /\ Append(seen, a) \in Seq(Arrivals)
      /\ Len(Append(seen, a)) = Len(seen) + 1
      /\ \A i \in 1..Len(seen) : Append(seen, a)[i] = seen[i]
      /\ Append(seen, a)[Len(seen) + 1] = a
  BY AppendProperties
<1>3. SeenAdd(seen, id, sec) = Append(seen, a)
  <2>1. MaxSeen \in Nat /\ Len(seen) \in Nat
    BY VolumeAssumption
  <2>2. QED
    BY <1>1, <1>2, <2>1 DEF SeenAdd
<1>4. Range(Append(seen, a)) = Range(seen) \union {a}
  <2>1. DOMAIN seen = 1..Len(seen) /\ Len(seen) \in Nat
    OBVIOUS
  <2>2. PICK s \in Seq(Arrivals) : s = Append(seen, a)
    BY <1>2
  <2>3. DOMAIN s = 1..Len(seen) + 1
    BY <1>2, <2>2
  <2>4. QED
    BY <1>2, <2>1, <2>2, <2>3 DEF Range
<1>5. QED
  BY <1>1, <1>2, <1>3, <1>4

\* Only arrivals that are too old for the engine to accept are dropped.
LEMMA PrunedIsOld ==
  ASSUME NEW seen \in Seq(Arrivals), NEW minSec \in Int
  PROVE  /\ SeenPrune(seen, minSec) \in Seq(Arrivals)
         /\ Len(SeenPrune(seen, minSec)) <= Len(seen)
         /\ Range(SeenPrune(seen, minSec)) \subseteq Range(seen)
         /\ \A a \in Range(seen) : a.sec >= minSec => a \in Range(SeenPrune(seen, minSec))
<1>1. PICK n \in Nat : n = Len(seen) /\ DOMAIN seen = 1..n
  OBVIOUS
<1>2. PICK scanned \in SUBSET (0..n) :
         scanned = {k \in 0..n : \A i \in 1..k : seen[i].sec < minSec}
  OBVIOUS
<1>3. IsFiniteSet(scanned) /\ Cardinality(scanned) \in Nat
  <2>1. IsFiniteSet(0..n)
    BY FS_Interval
  <2>2. QED
    BY <2>1, FS_Subset, FS_CardinalityType
<1>4. 0 \in scanned
  BY <1>2
<1>5. PICK start \in Nat : start = Cardinality(scanned)
  BY <1>3
<1>6. start >= 1
  BY <1>3, <1>4, <1>5, FS_EmptySet
<1>7. \A i \in 1..n : seen[i] \in Arrivals /\ seen[i].sec \in Nat
  <2>1. \A i \in 1..n : seen[i] \in Arrivals
    BY <1>1, ElementOfSeq
  <2>2. QED
    BY <2>1 DEF Arrivals
<1>8. ASSUME NEW i \in 1..n, seen[i].sec >= minSec PROVE start <= i
  <2>1. PICK j \in Nat : j = i - 1
    OBVIOUS
  <2>2. scanned \subseteq 0..j
    <3>1. ASSUME NEW k \in scanned, k >= i PROVE FALSE
      <4>1. seen[i].sec < minSec
        BY <1>2, <3>1
      <4>2. QED
        BY <1>7, <1>8, <4>1
    <3>2. QED
      BY <2>1, <3>1
  <2>3. IsFiniteSet(0..j) /\ Cardinality(0..j) = i
    BY <2>1, FS_Interval
  <2>4. QED
    BY <1>3, <1>5, <2>2, <2>3, FS_Subset
<1>9. SeenPrune(seen, minSec) = SubSeq(seen, start, n)
  BY <1>1, <1>2, <1>5 DEF SeenPrune
<1>10. \A i \in start..n : seen[i] \in Arrivals
  BY <1>6, <1>7
<1>11. /\ SubSeq(seen, start, n) \in Seq(Arrivals)
       /\ Len(SubSeq(seen, start, n)) = IF start <= n THEN n - start + 1 ELSE 0
       /\ \A i \in 1..n - start + 1 : SubSeq(seen, start, n)[i] = seen[start + i - 1]
  <2>1. start \in Int /\ n \in Int
    OBVIOUS
  <2>2. QED
    BY <1>10, <2>1, SubSeqProperties
<1>12. PICK s \in Seq(Arrivals) : s = SubSeq(seen, start, n)
  BY <1>11
<1>13. PICK l \in Nat : l = Len(s) /\ DOMAIN s = 1..l
  OBVIOUS
<1>14. l = (IF start <= n THEN n - start + 1 ELSE 0) /\ \A i \in 1..l : s[i] = seen[start + i - 1]
  BY <1>11, <1>12, <1>13
<1>15. \A i \in 1..l : start + i - 1 \in 1..n
  BY <1>6, <1>14
<1>16. Range(s) \subseteq Range(seen)
  BY <1>1, <1>13, <1>14, <1>15 DEF Range
<1>17. ASSUME NEW a \in Range(seen), a.sec >= minSec PROVE a \in Range(s)
  <2>1. PICK i \in 1..n : a = seen[i]
    BY <1>1 DEF Range
  <2>2. start <= i
    BY <1>8, <1>17, <2>1
  <2>3. PICK j \in 1..l : j = i - start + 1
    BY <1>6, <1>14, <2>2
  <2>4. s[j] = seen[i]
    BY <1>14, <2>3
  <2>5. QED
    BY <1>13, <2>1, <2>4 DEF Range
<1>18. QED
  BY <1>1, <1>6, <1>9, <1>12, <1>13, <1>14, <1>16, <1>17

------------------------------------------------------------------------------
\* The operations of the engine.

LEMMA UnknownMint == Mint(NoState) /\ NoState.provenEpoch = -1 /\ NoState.status = "absent"
  BY DEF Mint, IsMintState, NoState, Statuses

\* A break of coverage leaves the engine sound.
LEMMA Breaks ==
  ASSUME NEW e, Shape(e), \A m \in Mints : e.state[m].provenEpoch <= e.epoch
  PROVE  /\ Sound(BreakCoverage(e))
         /\ BreakCoverage(e).coverageSince = -1
         /\ BreakCoverage(e).epoch = e.epoch + 1
         /\ BreakCoverage(e).connected = e.connected
         /\ BreakCoverage(e).watermark = e.watermark
         /\ BreakCoverage(e).seen = e.seen
         /\ BreakCoverage(e).state = e.state
         /\ BreakCoverage(e).buckets = e.buckets
<1>1. PICK f : f = BreakCoverage(e)
  OBVIOUS
<1>2. /\ f.coverageSince = -1 /\ f.awaiting = TRUE /\ f.epoch = e.epoch + 1
      /\ f.connected = e.connected /\ f.watermark = e.watermark
      /\ f.seen = e.seen /\ f.state = e.state /\ f.buckets = e.buckets
      /\ IsEngine(f)
  BY <1>1 DEF BreakCoverage, Shape, IsEngine
<1>3. e.epoch \in Nat \ {0} /\ \A m \in Mints : e.state[m].provenEpoch \in Int
  BY DEF Shape, Mint
<1>4. Shape(f)
  BY <1>2, <1>3 DEF Shape
<1>5. Proofs(f)
  BY <1>2, <1>3 DEF Proofs
<1>6. QED
  BY <1>1, <1>2, <1>4, <1>5 DEF Sound

\* So does forgetting mints.
LEMMA Forgets ==
  ASSUME NEW e, Shape(e), NEW gone
  PROVE  /\ Shape(Forget(e, gone))
         /\ Forget(e, gone).coverageSince = e.coverageSince
         /\ Forget(e, gone).awaiting = e.awaiting
         /\ Forget(e, gone).epoch = e.epoch
         /\ Forget(e, gone).connected = e.connected
         /\ Forget(e, gone).watermark = e.watermark
         /\ Forget(e, gone).seen = e.seen
         /\ Forget(e, gone).buckets = e.buckets
         /\ \A m \in Mints : Forget(e, gone).state[m] = IF m \in gone THEN NoState ELSE e.state[m]
<1>1. PICK f : f = Forget(e, gone)
  OBVIOUS
<1>2. /\ f.coverageSince = e.coverageSince /\ f.awaiting = e.awaiting /\ f.epoch = e.epoch
      /\ f.connected = e.connected /\ f.watermark = e.watermark /\ f.seen = e.seen
      /\ f.buckets = e.buckets
      /\ f.state = [m \in Mints |-> IF m \in gone THEN NoState ELSE e.state[m]]
      /\ IsEngine(f)
  BY <1>1 DEF Forget, Shape, IsEngine
<1>3. \A m \in Mints : f.state[m] = IF m \in gone THEN NoState ELSE e.state[m]
  BY <1>2
<1>4. f.state = [m \in Mints |-> f.state[m]]
  BY <1>2
<1>5. \A m \in Mints : Mint(f.state[m])
  BY <1>3, UnknownMint DEF Shape
<1>6. Shape(f)
  BY <1>2, <1>4, <1>5 DEF Shape
<1>7. QED
  BY <1>1, <1>2, <1>3, <1>6

\* What is dropped with the watermark is old: arrivals below the retention, and
\* mints that are idle.
LEMMA Prunes ==
  ASSUME NEW e, Shape(e)
  PROVE  /\ Shape(PruneIfDue(e))
         /\ PruneIfDue(e).coverageSince = e.coverageSince
         /\ PruneIfDue(e).awaiting = e.awaiting
         /\ PruneIfDue(e).epoch = e.epoch
         /\ PruneIfDue(e).connected = e.connected
         /\ PruneIfDue(e).watermark = e.watermark
         /\ PruneIfDue(e).buckets = BucketsPrune(e.buckets, e.watermark - Retention)
         /\ Len(PruneIfDue(e).seen) <= Len(e.seen)
         /\ Range(PruneIfDue(e).seen) \subseteq Range(e.seen)
         /\ \A a \in Range(e.seen) : a.sec >= e.watermark - Retention => a \in Range(PruneIfDue(e).seen)
         /\ \A m \in Mints : Remains(e, PruneIfDue(e), m)
<1> DEFINE minSec == e.watermark - Retention
           kept == [e EXCEPT !.buckets = BucketsPrune(@, minSec), !.seen = SeenPrune(@, minSec)]
           swept == [kept EXCEPT !.lastMintPrune = e.watermark]
           idle == {m \in Tracked(e) : e.state[m].lastEventSec < e.watermark - Idle}
<1>1. minSec \in Int
  BY VolumeAssumption DEF Shape
<1> HIDE DEF minSec
<1> HIDE DEF kept, swept
<1>0. IsEngine(e)
  BY DEF Shape
<1>2. /\ kept.coverageSince = e.coverageSince /\ kept.awaiting = e.awaiting /\ kept.epoch = e.epoch
      /\ kept.connected = e.connected /\ kept.watermark = e.watermark
      /\ kept.seen = SeenPrune(e.seen, minSec) /\ kept.state = e.state
      /\ kept.buckets = BucketsPrune(e.buckets, minSec) /\ IsEngine(kept)
  <2>1. PICK b, s : b = BucketsPrune(e.buckets, minSec) /\ s = SeenPrune(e.seen, minSec)
    OBVIOUS
  <2>2. kept = [e EXCEPT !.buckets = b, !.seen = s]
    BY <2>1 DEF kept
  <2>3. PICK k : k = kept
    OBVIOUS
  <2>4. QED
    BY <1>0, <2>1, <2>2, <2>3 DEF IsEngine
<1>3. /\ swept.coverageSince = e.coverageSince /\ swept.awaiting = e.awaiting /\ swept.epoch = e.epoch
      /\ swept.connected = e.connected /\ swept.watermark = e.watermark
      /\ swept.seen = SeenPrune(e.seen, minSec) /\ swept.state = e.state
      /\ swept.buckets = BucketsPrune(e.buckets, minSec) /\ IsEngine(swept)
  <2>1. PICK k : k = swept
    OBVIOUS
  <2>2. QED
    BY <1>2, <2>1 DEF IsEngine, swept
<1>4. PruneIfDue(e) = IF e.watermark - e.lastMintPrune >= PruneEvery THEN Forget(swept, idle) ELSE kept
  BY DEF PruneIfDue, minSec, kept, swept
<1>5. /\ SeenPrune(e.seen, minSec) \in Seq(Arrivals)
      /\ Len(SeenPrune(e.seen, minSec)) <= Len(e.seen)
      /\ Range(SeenPrune(e.seen, minSec)) \subseteq Range(e.seen)
      /\ \A a \in Range(e.seen) : a.sec >= minSec => a \in Range(SeenPrune(e.seen, minSec))
  BY <1>1, PrunedIsOld DEF Shape
<1>6. Shape(kept) /\ Shape(swept)
  BY <1>2, <1>3, <1>5 DEF Shape
<1>7. CASE PruneIfDue(e) = kept
  BY <1>2, <1>5, <1>6, <1>7 DEF Remains, minSec
<1>8. CASE PruneIfDue(e) = Forget(swept, idle)
  <2>1. PICK f : f = Forget(swept, idle)
    OBVIOUS
  <2>2. /\ Shape(f) /\ f.coverageSince = e.coverageSince /\ f.awaiting = e.awaiting /\ f.epoch = e.epoch
        /\ f.connected = e.connected /\ f.watermark = e.watermark /\ f.seen = SeenPrune(e.seen, minSec)
        /\ f.buckets = BucketsPrune(e.buckets, minSec)
        /\ \A m \in Mints : f.state[m] = IF m \in idle THEN NoState ELSE e.state[m]
    BY <1>3, <1>6, <2>1, Forgets
  <2>3. \A m \in Mints : Remains(e, f, m)
    BY <2>2 DEF Remains
  <2>4. QED
    BY <1>5, <1>8, <2>1, <2>2, <2>3 DEF minSec
<1>9. QED
  BY <1>4, <1>7, <1>8

\* An event moves the watermark; there is coverage then.
Advanced(e, f, sec) ==
  /\ Sound(f) /\ f.coverageSince # -1
  /\ f.coverageSince = e.coverageSince \/ f.coverageSince = f.watermark + 1
  /\ f.epoch = e.epoch /\ f.connected = e.connected
  /\ f.buckets = IF sec > e.watermark THEN BucketsPrune(e.buckets, sec - Retention) ELSE e.buckets
  /\ f.watermark = Later(sec, e.watermark)
  /\ Len(f.seen) <= Len(e.seen)
  /\ Range(f.seen) \subseteq Range(e.seen)
  /\ \A a \in Range(e.seen) : a.sec >= f.watermark - Retention => a \in Range(f.seen)
  /\ \A m \in Mints : Remains(e, f, m)
  /\ sec <= e.watermark => f.state = e.state

LEMMA Advances ==
  ASSUME NEW e, Sound(e), e.connected, NEW sec \in Nat
  PROVE  Advanced(e, AdvanceWatermark(e, sec), sec)
<1> DEFINE covered == IF e.awaiting /\ e.connected
                      THEN [e EXCEPT !.coverageSince = Later(sec, e.watermark) + 1, !.awaiting = FALSE]
                      ELSE e
           moved == [covered EXCEPT !.watermark = sec]
<1>1. Shape(e) /\ Proofs(e) /\ e.watermark \in Int /\ e.watermark >= -1
  BY DEF Sound, Shape
<1>2. /\ Shape(covered) /\ covered.coverageSince # -1 /\ covered.buckets = e.buckets
      /\ covered.coverageSince \in {e.coverageSince, Later(sec, e.watermark) + 1}
      /\ covered.epoch = e.epoch /\ covered.connected = e.connected /\ covered.watermark = e.watermark
      /\ covered.seen = e.seen /\ covered.state = e.state
  <2>1. CASE e.awaiting
    <3>1. /\ covered.coverageSince = Later(sec, e.watermark) + 1 /\ covered.buckets = e.buckets
          /\ covered.epoch = e.epoch /\ covered.connected = e.connected /\ covered.watermark = e.watermark
          /\ covered.seen = e.seen /\ covered.state = e.state
          /\ IsEngine(covered)
      BY <2>1 DEF Shape, IsEngine, Sound
    <3> HIDE DEF covered
    <3>2. Shape(covered)
      BY <1>1, <3>1 DEF Shape
    <3>3. QED
      BY <1>1, <3>1, <3>2 DEF Later
  <2>2. CASE ~e.awaiting
    BY <1>1, <2>2 DEF Proofs
  <2>3. QED
    BY <2>1, <2>2
<1>3. AdvanceWatermark(e, sec) = IF sec > e.watermark THEN PruneIfDue(moved) ELSE covered
  BY DEF AdvanceWatermark
<1>4. /\ moved.coverageSince = covered.coverageSince /\ moved.epoch = e.epoch /\ moved.connected = e.connected
      /\ moved.watermark = sec /\ moved.seen = e.seen /\ moved.state = e.state
      /\ moved.buckets = e.buckets /\ IsEngine(moved)
  <2> HIDE DEF covered
  <2>1. PICK c : c = covered
    OBVIOUS
  <2>2. IsEngine(c)
    BY <1>2, <2>1 DEF Shape
  <2>3. PICK k : k = [c EXCEPT !.watermark = sec]
    OBVIOUS
  <2>4. /\ k.coverageSince = c.coverageSince /\ k.epoch = c.epoch /\ k.connected = c.connected
        /\ k.watermark = sec /\ k.seen = c.seen /\ k.state = c.state
        /\ k.buckets = c.buckets /\ IsEngine(k)
    BY <2>2, <2>3 DEF IsEngine
  <2>5. QED
    BY <1>2, <2>1, <2>3, <2>4
<1> HIDE DEF covered, moved
<1>5. Shape(moved)
  BY <1>2, <1>4 DEF Shape
<1>6. PICK f : f = AdvanceWatermark(e, sec)
  OBVIOUS
<1>7. /\ Shape(f) /\ f.coverageSince # -1
      /\ f.coverageSince = e.coverageSince \/ f.coverageSince = f.watermark + 1
      /\ f.buckets = IF sec > e.watermark THEN BucketsPrune(e.buckets, sec - Retention) ELSE e.buckets
      /\ f.epoch = e.epoch /\ f.connected = e.connected
      /\ f.watermark = Later(sec, e.watermark)
      /\ Len(f.seen) <= Len(e.seen)
      /\ Range(f.seen) \subseteq Range(e.seen)
      /\ \A a \in Range(e.seen) : a.sec >= f.watermark - Retention => a \in Range(f.seen)
      /\ \A m \in Mints : Remains(e, f, m)
      /\ sec <= e.watermark => f.state = e.state
  <2>1. CASE sec > e.watermark
    <3>1. f = PruneIfDue(moved)
      BY <1>3, <1>6, <2>1
    <3>2. /\ Shape(f) /\ f.coverageSince = covered.coverageSince
          /\ f.buckets = BucketsPrune(e.buckets, sec - Retention)
          /\ f.epoch = e.epoch /\ f.connected = e.connected /\ f.watermark = sec
          /\ Len(f.seen) <= Len(e.seen)
          /\ Range(f.seen) \subseteq Range(e.seen)
          /\ \A a \in Range(e.seen) : a.sec >= sec - Retention => a \in Range(f.seen)
          /\ \A m \in Mints : Remains(moved, f, m)
      BY <1>4, <1>5, <3>1, Prunes
    <3>3. \A m \in Mints : Remains(e, f, m)
      BY <1>4, <3>2 DEF Remains
    <3>4. Later(sec, e.watermark) = sec
      BY <2>1 DEF Later
    <3>5. QED
      BY <1>1, <1>2, <2>1, <3>2, <3>3, <3>4
  <2>2. CASE ~(sec > e.watermark)
    <3>1. f = covered
      BY <1>3, <1>6, <2>2
    <3>2. Later(sec, e.watermark) = e.watermark /\ Len(f.seen) = Len(e.seen)
      BY <1>2, <2>2, <3>1 DEF Later
    <3>3. Len(f.seen) <= Len(e.seen)
      BY <1>1, <3>2 DEF Shape
    <3>4. \A m \in Mints : Remains(e, f, m)
      BY <1>2, <3>1 DEF Remains
    <3>5. f.coverageSince = e.coverageSince \/ f.coverageSince = f.watermark + 1
      BY <1>2, <3>1, <3>2
    <3>6. f.buckets = IF sec > e.watermark THEN BucketsPrune(e.buckets, sec - Retention) ELSE e.buckets
      BY <1>2, <2>2, <3>1
    <3>7. QED
      BY <1>2, <3>1, <3>2, <3>3, <3>4, <3>5, <3>6
  <2>3. QED
    BY <2>1, <2>2
<1>8. Proofs(f)
  <2>1. \A m \in Mints : f.state[m].provenEpoch <= f.epoch
    <3> SUFFICES ASSUME NEW m \in Mints PROVE f.state[m].provenEpoch <= f.epoch
      OBVIOUS
    <3>1. e.state[m].provenEpoch <= e.epoch /\ NoState.provenEpoch = -1 /\ e.epoch \in Nat
      BY <1>1, UnknownMint DEF Proofs, Shape
    <3>2. QED
      BY <1>7, <3>1 DEF Remains
  <2>2. QED
    BY <1>7, <2>1 DEF Proofs
<1>9. Sound(f)
  BY <1>7, <1>8 DEF Sound
<1>10. QED
  BY <1>6, <1>7, <1>9 DEF Advanced

\* The entry of one mint changes.
Rewritten(e, f, x, s) ==
  /\ IsEngine(f) /\ f.state = [e.state EXCEPT ![x] = s]
  /\ f.epoch = e.epoch /\ f.watermark = e.watermark /\ f.seen = e.seen

LEMMA Rewrites ==
  ASSUME NEW e, Shape(e), NEW x \in Mints, NEW s, Mint(s), NEW f, Rewritten(e, f, x, s)
  PROVE  Shape(f) /\ f.state[x] = s /\ \A m \in Mints \ {x} : f.state[m] = e.state[m]
<1>1. f.state[x] = s /\ \A m \in Mints \ {x} : f.state[m] = e.state[m]
  BY DEF Shape, Rewritten
<1>2. f.state = [m \in Mints |-> f.state[m]]
  BY DEF Shape, Rewritten
<1>3. \A m \in Mints : Mint(f.state[m])
  BY <1>1 DEF Shape
<1>4. QED
  BY <1>1, <1>2, <1>3 DEF Shape, Rewritten

\* An event touches its mint.
Touched(e, f, x, sec, isCreate) ==
  /\ Sound(f) /\ f.coverageSince = e.coverageSince
  /\ f.epoch = e.epoch /\ f.connected = e.connected
  /\ f.watermark = e.watermark /\ f.seen = e.seen
  /\ \A m \in Mints \ {x} : f.state[m] = e.state[m]
  /\ f.state[x].status # "absent" /\ f.state[x].lastEventSec >= sec
  /\ e.state[x] # NoState => /\ f.state[x].status = e.state[x].status
                             /\ f.state[x].lastEventSec >= e.state[x].lastEventSec
                             /\ f.state[x].provenEpoch = e.state[x].provenEpoch
  /\ e.state[x] = NoState => /\ f.state[x].status = "active"
                             /\ f.state[x].provenEpoch = IF isCreate THEN e.epoch ELSE -1
  /\ f.state[x].createdInEpoch = e.state[x].createdInEpoch /\ f.state[x].curve = e.state[x].curve
  /\ f.buckets = e.buckets

LEMMA Touches ==
  ASSUME IsFiniteSet(Mints), NEW e, Sound(e), e.coverageSince # -1,
         NEW x \in Mints, NEW sec \in Nat, NEW isCreate \in BOOLEAN,
         Cardinality(Tracked(e) \union {x}) <= MaxMintStates
  PROVE  Touched(e, TouchMint(e, x, sec, isCreate), x, sec, isCreate)
<1>1. IsEngine(e) /\ Shape(e) /\ Proofs(e) /\ Mint(e.state[x]) /\ e.epoch \in Nat \ {0}
  BY DEF Sound, Shape
<1>2. CASE e.state[x] # NoState
  <2>1. PICK late \in Int : late = Later(sec, e.state[x].lastEventSec)
    BY <1>1 DEF Later, Mint
  <2>2. late >= sec /\ late >= e.state[x].lastEventSec
    BY <1>1, <2>1 DEF Later, Mint
  <2>3. PICK s : s = [e.state[x] EXCEPT !.lastEventSec = late]
    OBVIOUS
  <2>4. /\ IsMintState(s) /\ s.status = e.state[x].status /\ s.provenEpoch = e.state[x].provenEpoch /\ s.lastEventSec = late
        /\ s.createdInEpoch = e.state[x].createdInEpoch /\ s.curve = e.state[x].curve
    BY <1>1, <2>3 DEF IsMintState, Mint
  <2>5. Mint(s) /\ s.status # "absent"
    BY <1>1, <1>2, <2>4, UnknownMint DEF Mint
  <2>6. PICK f : f = [e EXCEPT !.state[x].lastEventSec = Later(sec, @)]
    OBVIOUS
  <2>7. TouchMint(e, x, sec, isCreate) = f
    BY <1>2, <2>6 DEF TouchMint
  <2>8. /\ f.coverageSince = e.coverageSince /\ f.epoch = e.epoch /\ f.connected = e.connected
        /\ f.watermark = e.watermark /\ f.seen = e.seen /\ f.awaiting = e.awaiting /\ f.buckets = e.buckets
        /\ f.state = [e.state EXCEPT ![x] = s] /\ IsEngine(f)
    BY <1>1, <2>1, <2>3, <2>6 DEF IsEngine
  <2>9. Shape(f) /\ f.state[x] = s /\ \A m \in Mints \ {x} : f.state[m] = e.state[m]
    BY <1>1, <2>5, <2>8, Rewrites DEF Rewritten
  <2>10. Proofs(f)
    BY <1>1, <2>4, <2>8, <2>9 DEF Proofs
  <2>11. Sound(f)
    BY <2>9, <2>10 DEF Sound
  <2>12. Touched(e, f, x, sec, isCreate)
    BY <1>2, <2>2, <2>4, <2>5, <2>8, <2>9, <2>11 DEF Touched
  <2>13. QED
    BY <2>7, <2>12
<1>3. CASE e.state[x] = NoState
  <2>1. PICK epoch \in Int : epoch = IF isCreate THEN e.epoch ELSE -1
    BY <1>1
  <2>2. PICK s : s = [NoState EXCEPT !.status = "active", !.provenEpoch = epoch, !.lastEventSec = sec]
    OBVIOUS
  <2>3. /\ Mint(s) /\ s.status = "active" /\ s.provenEpoch = epoch /\ s.lastEventSec = sec
        /\ s.createdInEpoch = NoState.createdInEpoch /\ s.curve = NoState.curve
    <3>1. /\ IsMintState(s) /\ s.status = "active" /\ s.provenEpoch = epoch /\ s.lastEventSec = sec
          /\ s.createdInEpoch = NoState.createdInEpoch /\ s.curve = NoState.curve
      BY <2>2, UnknownMint DEF Mint, IsMintState
    <3>2. QED
      BY <3>1 DEF Mint, Statuses
  <2>4. PICK o : o = Append(e.order, x)
    OBVIOUS
  <2>5. PICK f : f = [e EXCEPT !.order = o, !.state[x] = s]
    OBVIOUS
  <2>6. /\ f.coverageSince = e.coverageSince /\ f.epoch = e.epoch /\ f.connected = e.connected
        /\ f.watermark = e.watermark /\ f.seen = e.seen /\ f.awaiting = e.awaiting /\ f.buckets = e.buckets
        /\ f.state = [e.state EXCEPT ![x] = s] /\ IsEngine(f)
    BY <1>1, <2>5 DEF IsEngine
  <2>7. Shape(f) /\ f.state[x] = s /\ \A m \in Mints \ {x} : f.state[m] = e.state[m]
    BY <1>1, <2>3, <2>6, Rewrites DEF Rewritten
  <2>8. Tracked(f) = Tracked(e) \union {x}
    BY <2>3, <2>7, UnknownMint DEF Tracked
  <2>9. Cardinality(Tracked(f)) \in Nat /\ MaxMintStates \in Nat
    <3>1. Tracked(f) \in SUBSET Mints
      BY DEF Tracked
    <3>2. QED
      BY <3>1, FS_Subset, FS_CardinalityType, VolumeAssumption
  <2>10. TouchMint(e, x, sec, isCreate) = f
    <3> DEFINE known == [e EXCEPT !.order = Append(@, x),
                                  !.state[x] = [NoState EXCEPT !.status = "active",
                                                               !.provenEpoch = IF isCreate THEN e.epoch ELSE -1,
                                                               !.lastEventSec = sec]]
    <3>1. TouchMint(e, x, sec, isCreate) =
            IF Cardinality(Tracked(known)) > MaxMintStates THEN Forget(known, {Head(known.order)}) ELSE known
      BY <1>3 DEF TouchMint
    <3>2. known = f
      BY <2>1, <2>2, <2>4, <2>5
    <3> HIDE DEF known
    <3>3. QED
      BY <2>8, <2>9, <3>1, <3>2
  <2>11. Proofs(f)
    <3>1. \A m \in Mints : f.state[m] = e.state[m] \/ f.state[m].provenEpoch = epoch
      BY <2>3, <2>7
    <3>2. epoch <= e.epoch
      BY <1>1, <2>1
    <3>3. QED
      BY <1>1, <2>6, <3>1, <3>2 DEF Proofs
  <2>12. Sound(f)
    BY <2>7, <2>11 DEF Sound
  <2>13. s.lastEventSec >= sec
    BY <2>3
  <2>14. Touched(e, f, x, sec, isCreate)
    BY <1>3, <2>1, <2>3, <2>6, <2>7, <2>12, <2>13 DEF Touched
  <2>15. QED
    BY <2>10, <2>14
<1>4. QED
  BY <1>2, <1>3

Quotes == {"native", "non_sol_quote", "quote_unproven"}

\* A trade is counted.
Added(e, ev) == BucketsAdd(e.buckets, ev.mint, ev.sec, ev.sol, ev.isBuy)
Counted(e, f, ev) ==
  LET x == ev.mint IN
  /\ Sound(f) /\ f.epoch >= e.epoch /\ f.connected = e.connected
  /\ f.watermark = e.watermark /\ f.seen = e.seen
  /\ \A m \in Mints \ {x} : f.state[m] = e.state[m]
  /\ f.state[x].status # "absent"
  /\ f.state[x].lastEventSec = e.state[x].lastEventSec
  /\ f.state[x].createdInEpoch = e.state[x].createdInEpoch
  /\ e.state[x].status # "active" => f = e
  /\ e.state[x].status = "active" /\ ev.quote # "native" =>
       /\ f.state[x].status # "active"
       /\ f.coverageSince = e.coverageSince /\ f.epoch = e.epoch /\ f.buckets = e.buckets
  /\ e.state[x].status = "active" /\ ev.quote = "native" =>
       /\ f.state[x].status = "active" /\ f.state[x].curve = UpdateCurve(e.state[x].curve, ev)
       /\ \/ f.coverageSince = e.coverageSince /\ f.epoch = e.epoch /\ f.buckets = Added(e, ev)
          \/ f.coverageSince = -1 /\ f.epoch = e.epoch + 1 /\ f.buckets = EnforceCap(Added(e, ev))

LEMMA Counts ==
  ASSUME NEW e, Sound(e), e.coverageSince # -1,
         NEW ev, ev.mint \in Mints, ev.quote \in Quotes, e.state[ev.mint].status # "absent"
  PROVE  Counted(e, CountTrade(e, ev), ev)
<1>1. PICK x \in Mints : x = ev.mint
  OBVIOUS
<1>2. IsEngine(e) /\ Shape(e) /\ Proofs(e) /\ Mint(e.state[x]) /\ e.epoch \in Nat \ {0}
  BY DEF Sound, Shape
<1>3. CASE e.state[x].status # "active"
  <2>1. CountTrade(e, ev) = e
    BY <1>1, <1>3 DEF CountTrade
  <2>2. Counted(e, e, ev)
    BY <1>1, <1>2, <1>3 DEF Counted
  <2>3. QED
    BY <1>1, <2>1, <2>2
<1>4. CASE e.state[x].status = "active" /\ ev.quote # "native"
  <2>1. PICK s : s = [e.state[x] EXCEPT !.status = ev.quote]
    OBVIOUS
  <2>2. IsMintState(s) /\ s.status = ev.quote /\ s.provenEpoch = e.state[x].provenEpoch
        /\ s.lastEventSec = e.state[x].lastEventSec /\ s.createdInEpoch = e.state[x].createdInEpoch
    BY <1>2, <2>1 DEF IsMintState, Mint
  <2>3. Mint(s) /\ s.status # "absent"
    BY <1>2, <1>4, <2>2 DEF Mint, Quotes, Statuses
  <2>4. PICK f : f = [e EXCEPT !.state[x].status = ev.quote]
    OBVIOUS
  <2>5. CountTrade(e, ev) = f
    BY <1>1, <1>4, <2>4 DEF CountTrade
  <2>6. /\ f.coverageSince = e.coverageSince /\ f.epoch = e.epoch /\ f.connected = e.connected
        /\ f.watermark = e.watermark /\ f.seen = e.seen /\ f.awaiting = e.awaiting /\ f.buckets = e.buckets
        /\ f.state = [e.state EXCEPT ![x] = s] /\ IsEngine(f)
    BY <1>2, <2>1, <2>4 DEF IsEngine
  <2>7. Shape(f) /\ f.state[x] = s /\ \A m \in Mints \ {x} : f.state[m] = e.state[m]
    BY <1>2, <2>3, <2>6, Rewrites DEF Rewritten
  <2>8. Proofs(f)
    BY <1>2, <2>2, <2>6, <2>7 DEF Proofs
  <2>9. Sound(f)
    BY <2>7, <2>8 DEF Sound
  <2>10. Counted(e, f, ev)
    <3>1. s.status # "active"
      BY <1>4, <2>2 DEF Quotes
    <3>2. f.epoch >= e.epoch
      BY <1>2, <2>6
    <3>3. QED
      BY <1>1, <1>4, <2>2, <2>3, <2>6, <2>7, <2>9, <3>1, <3>2 DEF Counted
  <2>11. QED
    BY <1>1, <2>5, <2>10
<1>5. CASE e.state[x].status = "active" /\ ev.quote = "native"
  <2>1. PICK c, b : /\ c = UpdateCurve(e.state[x].curve, ev)
                    /\ b = BucketsAdd(e.buckets, x, ev.sec, ev.sol, ev.isBuy)
    OBVIOUS
  <2>2. PICK s : s = [e.state[x] EXCEPT !.provenEpoch = e.epoch, !.curve = c]
    OBVIOUS
  <2>3. IsMintState(s) /\ s.status = "active" /\ s.provenEpoch = e.epoch
        /\ s.lastEventSec = e.state[x].lastEventSec /\ s.createdInEpoch = e.state[x].createdInEpoch
        /\ s.curve = c
    BY <1>2, <1>5, <2>2 DEF IsMintState, Mint
  <2>4. Mint(s)
    BY <1>2, <2>3 DEF Mint, Statuses
  <2>5. PICK g : g = [e EXCEPT !.state[x].provenEpoch = e.epoch, !.state[x].curve = c, !.buckets = b]
    OBVIOUS
  <2>6. /\ g.coverageSince = e.coverageSince /\ g.epoch = e.epoch /\ g.connected = e.connected
        /\ g.watermark = e.watermark /\ g.seen = e.seen /\ g.awaiting = e.awaiting /\ g.buckets = b
        /\ g.state = [e.state EXCEPT ![x] = s] /\ IsEngine(g)
    BY <1>2, <2>2, <2>5 DEF IsEngine, Shape
  <2>7. Shape(g) /\ g.state[x] = s /\ \A m \in Mints \ {x} : g.state[m] = e.state[m]
    BY <1>2, <2>4, <2>6, Rewrites DEF Rewritten
  <2>8. Proofs(g)
    <3>1. \A m \in Mints : g.state[m] = e.state[m] \/ g.state[m].provenEpoch = e.epoch
      BY <2>3, <2>7
    <3>2. QED
      BY <1>2, <2>6, <3>1 DEF Proofs
  <2>9. CountTrade(e, ev) = CapBuckets(g)
    BY <1>1, <1>5, <2>1, <2>5 DEF CountTrade
  <2>10. CASE CapBuckets(g) = g
    <3>1. Sound(g) /\ g.epoch >= e.epoch
      BY <1>2, <2>6, <2>7, <2>8 DEF Sound
    <3>2. Counted(e, g, ev)
      BY <1>1, <1>5, <2>1, <2>3, <2>6, <2>7, <3>1 DEF Counted, Added
    <3>3. QED
      BY <1>1, <2>9, <2>10, <3>2
  <2>11. CASE CapBuckets(g) # g
    <3>1. PICK d : d = EnforceCap(g.buckets)
      OBVIOUS
    <3>2. PICK h : h = [g EXCEPT !.buckets = d]
      OBVIOUS
    <3>3. CapBuckets(g) = BreakCoverage(h)
      BY <2>11, <3>1, <3>2 DEF CapBuckets
    <3>4. /\ h.epoch = g.epoch /\ h.connected = g.connected /\ h.watermark = g.watermark
          /\ h.seen = g.seen /\ h.state = g.state /\ h.buckets = d /\ IsEngine(h)
      BY <2>6, <3>2 DEF IsEngine
    <3>5. Shape(h) /\ \A m \in Mints : h.state[m].provenEpoch <= h.epoch
      BY <2>7, <2>8, <3>4 DEF Shape, Proofs
    <3>6. PICK f : f = BreakCoverage(h)
      OBVIOUS
    <3>7. /\ Sound(f) /\ f.epoch = h.epoch + 1 /\ f.connected = h.connected
          /\ f.watermark = h.watermark /\ f.seen = h.seen /\ f.state = h.state
          /\ f.coverageSince = -1 /\ f.buckets = h.buckets
      BY <3>5, <3>6, Breaks
    <3>8. Counted(e, f, ev)
      BY <1>1, <1>2, <1>5, <2>1, <2>3, <2>6, <2>7, <3>1, <3>4, <3>7 DEF Counted, Added
    <3>9. QED
      BY <1>1, <2>9, <3>3, <3>6, <3>8
  <2>12. QED
    BY <2>10, <2>11
<1>6. QED
  BY <1>3, <1>4, <1>5

------------------------------------------------------------------------------
\* Events.

\* What is kept of an event, and the one mark of it.
EventOf(ev) == [id |-> ev.id, sec |-> ev.sec]
Mark(id, sec) == {[id |-> id, sec |-> sec]}

\* The tables have room for an event of x: none of the caps evicts.
Room(e, x) ==
  /\ Len(e.seen) < MaxSeen
  /\ Cardinality(Tracked(e) \union {x}) <= MaxMintStates

\* An event the engine does not accept (again): too old, or known.
Refuses(e, a) == a \in Range(e.seen) \/ (e.watermark # -1 /\ a.sec < e.watermark - Retention)

\* What the engine has become by events of mint `x` in a second, the marks of
\* which it has kept.
Accepted(e, f, marks, x, sec) ==
  /\ Sound(f) /\ f.epoch >= e.epoch /\ f.connected = e.connected
  /\ f.watermark = Later(sec, e.watermark)
  /\ f.coverageSince \in {-1, e.coverageSince, f.watermark + 1}
  /\ f.epoch = e.epoch \/ f.coverageSince = -1
  /\ Range(f.seen) \subseteq Range(e.seen) \union marks
  /\ \A b \in Range(e.seen) \union marks : b.sec >= f.watermark - Retention => b \in Range(f.seen)
  /\ \A m \in Mints \ {x} : Remains(e, f, m)
  /\ f.state[x].status # "absent" /\ f.state[x].lastEventSec >= sec
  /\ e.state[x].status = "graduated" /\ e.state[x].lastEventSec >= sec =>
       f.state[x].status = "graduated" /\ f.state[x].lastEventSec >= e.state[x].lastEventSec

\* The part that trades and lifecycle events share.
Landed(e, x, id, sec, isCreate) ==
  TouchMint(AdvanceWatermark([e EXCEPT !.seen = SeenAdd(@, id, sec)], sec), x, sec, isCreate)

\* On its way an event is listed, moves the watermark and touches its mint.
Listed(e, d, id, sec) ==
  /\ Sound(d) /\ Len(d.seen) = Len(e.seen) + 1 /\ Range(d.seen) = Range(e.seen) \union Mark(id, sec)
  /\ d.coverageSince = e.coverageSince /\ d.epoch = e.epoch /\ d.connected = e.connected
  /\ d.watermark = e.watermark /\ d.state = e.state /\ d.buckets = e.buckets

LEMMA Lands ==
  ASSUME IsFiniteSet(Mints), NEW e, Sound(e), e.connected, NEW x \in Mints, Room(e, x),
         NEW id \in Nat, NEW sec \in Nat, NEW isCreate \in BOOLEAN
  PROVE  \E d, g : /\ Listed(e, d, id, sec) /\ Advanced(d, g, sec)
                  /\ Touched(g, Landed(e, x, id, sec, isCreate), x, sec, isCreate)
<1>1. Shape(e) /\ Proofs(e) /\ IsEngine(e) /\ e.seen \in Seq(Arrivals)
  BY DEF Sound, Shape
<1>2. PICK a : a = [id |-> id, sec |-> sec]
  OBVIOUS
<1>3. PICK added : added = SeenAdd(e.seen, id, sec)
  OBVIOUS
<1>4. added \in Seq(Arrivals) /\ Len(added) = Len(e.seen) + 1 /\ Range(added) = Range(e.seen) \union {a}
  BY <1>1, <1>2, <1>3, Arrives DEF Room
<1>5. PICK d : d = [e EXCEPT !.seen = added]
  OBVIOUS
<1>6. /\ d.coverageSince = e.coverageSince /\ d.epoch = e.epoch /\ d.connected = e.connected
      /\ d.watermark = e.watermark /\ d.seen = added /\ d.awaiting = e.awaiting
      /\ d.state = e.state /\ d.buckets = e.buckets /\ IsEngine(d)
  BY <1>1, <1>5 DEF IsEngine
<1>7. Sound(d)
  <2>1. Shape(d)
    BY <1>1, <1>4, <1>6 DEF Shape
  <2>2. Proofs(d)
    BY <1>1, <1>6 DEF Proofs
  <2>3. QED
    BY <2>1, <2>2 DEF Sound
<1>8. PICK g : g = AdvanceWatermark(d, sec)
  OBVIOUS
<1>9. Advanced(d, g, sec)
  BY <1>6, <1>7, <1>8, Advances
<1>10. \A m \in Mints : Remains(e, g, m)
  BY <1>6, <1>9 DEF Advanced, Remains
<1>11. Cardinality(Tracked(g) \union {x}) <= MaxMintStates
  <2>1. Tracked(g) \subseteq Tracked(e)
    BY <1>10 DEF Tracked, Remains
  <2>2. PICK S \in SUBSET Mints : S = Tracked(e) \union {x}
    BY DEF Tracked
  <2>3. PICK T \in SUBSET S : T = Tracked(g) \union {x}
    BY <2>1, <2>2
  <2>4. IsFiniteSet(S) /\ Cardinality(S) \in Nat /\ Cardinality(T) \in Nat /\ Cardinality(T) <= Cardinality(S)
    <3>1. IsFiniteSet(S)
      BY FS_Subset
    <3>2. IsFiniteSet(T) /\ Cardinality(T) <= Cardinality(S)
      BY <3>1, FS_Subset
    <3>3. QED
      BY <3>1, <3>2, FS_CardinalityType
  <2>5. MaxMintStates \in Nat /\ Cardinality(S) <= MaxMintStates
    BY <2>2, VolumeAssumption DEF Room
  <2>6. QED
    BY <2>3, <2>4, <2>5
<1>12. PICK f : f = TouchMint(g, x, sec, isCreate)
  OBVIOUS
<1>13. Touched(g, f, x, sec, isCreate)
  BY <1>9, <1>11, <1>12, Touches DEF Advanced
<1>14. Listed(e, d, id, sec)
  BY <1>2, <1>4, <1>6, <1>7 DEF Listed, Mark
<1>15. Landed(e, x, id, sec, isCreate) = f
  BY <1>3, <1>5, <1>8, <1>12 DEF Landed
<1>16. QED
  BY <1>9, <1>13, <1>14, <1>15

LEMMA Arrival ==
  ASSUME IsFiniteSet(Mints), NEW e, Sound(e), e.connected, NEW x \in Mints, Room(e, x),
         NEW id \in Nat, NEW sec \in Nat, NEW isCreate \in BOOLEAN
  PROVE  /\ Accepted(e, Landed(e, x, id, sec, isCreate), Mark(id, sec), x, sec)
         /\ Len(Landed(e, x, id, sec, isCreate).seen) <= Len(e.seen) + 1
         /\ Landed(e, x, id, sec, isCreate).coverageSince # -1
         /\ Landed(e, x, id, sec, isCreate).epoch = e.epoch
<1>1. Shape(e) /\ Proofs(e) /\ e.seen \in Seq(Arrivals)
  BY DEF Sound, Shape
<1>2. PICK a : a = [id |-> id, sec |-> sec]
  OBVIOUS
<1>3. PICK f : f = Landed(e, x, id, sec, isCreate)
  OBVIOUS
<1>4. PICK d, g : Listed(e, d, id, sec) /\ Advanced(d, g, sec) /\ Touched(g, f, x, sec, isCreate)
  BY <1>3, Lands
<1>5. /\ Sound(g) /\ g.coverageSince # -1
      /\ g.coverageSince = e.coverageSince \/ g.coverageSince = g.watermark + 1
      /\ g.epoch = e.epoch /\ g.connected = e.connected
      /\ g.watermark = Later(sec, e.watermark)
      /\ Len(g.seen) <= Len(e.seen) + 1
      /\ Range(g.seen) \subseteq Range(e.seen) \union {a}
      /\ \A b \in Range(e.seen) \union {a} : b.sec >= g.watermark - Retention => b \in Range(g.seen)
      /\ \A m \in Mints : Remains(d, g, m)
      /\ sec <= e.watermark => g.state = e.state
  BY <1>2, <1>4 DEF Listed, Advanced, Mark
<1>6. \A m \in Mints : Remains(e, g, m)
  BY <1>4 DEF Listed, Advanced, Remains
<1>7. /\ Sound(f) /\ f.coverageSince = g.coverageSince
      /\ f.epoch = g.epoch /\ f.connected = g.connected
      /\ f.watermark = g.watermark /\ f.seen = g.seen
      /\ \A m \in Mints \ {x} : f.state[m] = g.state[m]
      /\ f.state[x].status # "absent" /\ f.state[x].lastEventSec >= sec
      /\ g.state[x] # NoState => /\ f.state[x].status = g.state[x].status
                                 /\ f.state[x].lastEventSec >= g.state[x].lastEventSec
  BY <1>4 DEF Touched
<1>8. \A m \in Mints \ {x} : Remains(e, f, m)
  BY <1>6, <1>7 DEF Remains
<1>9. ASSUME e.state[x].status = "graduated", e.state[x].lastEventSec >= sec
       PROVE  f.state[x].status = "graduated" /\ f.state[x].lastEventSec >= e.state[x].lastEventSec
  <2>1. g.state[x] = e.state[x]
    <3>1. CASE sec <= e.watermark
      BY <1>5, <3>1
    <3>2. CASE ~(sec <= e.watermark)
      <4>1. Idle \in Nat /\ e.state[x].lastEventSec \in Int /\ e.watermark \in Int
        BY <1>1, VolumeAssumption DEF Shape, Mint
      <4>2. g.watermark = sec
        BY <1>5, <3>2, <4>1 DEF Later
      <4>3. QED
        BY <1>6, <1>9, <4>1, <4>2 DEF Remains
    <3>3. QED
      BY <3>1, <3>2
  <2>2. g.state[x] # NoState
    BY <1>9, <2>1, UnknownMint
  <2>3. QED
    BY <1>7, <1>9, <2>1, <2>2
<1>10. Accepted(e, f, {a}, x, sec)
  <2>1. a.sec = sec /\ e.epoch \in Nat
    BY <1>1, <1>2 DEF Shape
  <2>2. QED
    BY <1>5, <1>7, <1>8, <1>9, <2>1 DEF Accepted
<1>11. QED
  BY <1>2, <1>3, <1>5, <1>7, <1>10 DEF Mark

\* A refused event changes nothing.
LEMMA RefusedTrade ==
  ASSUME NEW e, Shape(e), NEW ev, ev.sec \in Nat, NEW t, Refuses(e, EventOf(ev))
  PROVE  AcceptTrade(e, ev, t) = e
<1>1. CASE EventOf(ev) \in Range(e.seen)
  <2>1. Knows(e.seen, ev.id)
    BY <1>1 DEF Knows, Range, EventOf
  <2>2. QED
    BY <2>1 DEF AcceptTrade
<1>2. CASE e.watermark # -1 /\ ev.sec < e.watermark - Retention
  <2>1. ~InTime(e, ev.sec, t)
    <3>1. e.watermark \in Int /\ Retention \in Int
      BY VolumeAssumption DEF Shape
    <3>2. QED
      BY <1>2, <3>1 DEF InTime
  <2>2. QED
    BY <2>1 DEF AcceptTrade
<1>3. QED
  BY <1>1, <1>2 DEF Refuses, EventOf

LEMMA RefusedLifecycle ==
  ASSUME NEW e, Shape(e), NEW ev, ev.sec \in Nat, NEW t, Refuses(e, EventOf(ev))
  PROVE  AcceptLifecycle(e, ev, t) = e
<1>1. CASE EventOf(ev) \in Range(e.seen)
  <2>1. Knows(e.seen, ev.id)
    BY <1>1 DEF Knows, Range, EventOf
  <2>2. QED
    BY <2>1 DEF AcceptLifecycle
<1>2. CASE e.watermark # -1 /\ ev.sec < e.watermark - Retention
  <2>1. ~InTime(e, ev.sec, t)
    <3>1. e.watermark \in Int /\ Retention \in Int
      BY VolumeAssumption DEF Shape
    <3>2. QED
      BY <1>2, <3>1 DEF InTime
  <2>2. QED
    BY <2>1 DEF AcceptLifecycle
<1>3. QED
  BY <1>1, <1>2 DEF Refuses, EventOf

\* A trade the engine has not seen and that is in time.
LEMMA AcceptedTrade ==
  ASSUME IsFiniteSet(Mints), NEW e, Sound(e), e.connected,
         NEW ev, ev.mint \in Mints, Room(e, ev.mint), ev.quote \in Quotes,
         ev.id \in Nat, ev.sec \in Nat,
         NEW t, InTime(e, ev.sec, t), ~Knows(e.seen, ev.id)
  PROVE  /\ Accepted(e, AcceptTrade(e, ev, t), {EventOf(ev)}, ev.mint, ev.sec)
         /\ Len(AcceptTrade(e, ev, t).seen) <= Len(e.seen) + 1
<1>0. PICK x \in Mints, y \in Nat : x = ev.mint /\ y = ev.sec
  OBVIOUS
<1>a. PICK a : a = EventOf(ev)
  OBVIOUS
<1>1. x = ev.mint /\ a = EventOf(ev) /\ y = ev.sec
  BY <1>0, <1>a
<1>2. PICK g : g = Landed(e, x, ev.id, ev.sec, FALSE)
  OBVIOUS
<1>3. Accepted(e, g, {a}, x, y) /\ g.coverageSince # -1 /\ g.epoch = e.epoch /\ Len(g.seen) <= Len(e.seen) + 1
  <2>1. PICK c \in BOOLEAN : c = FALSE
    OBVIOUS
  <2>2. PICK id \in Nat : id = ev.id
    OBVIOUS
  <2>3. Room(e, x) /\ a = [id |-> id, sec |-> y] /\ g = Landed(e, x, id, y, c)
    BY <1>1, <1>2, <2>1, <2>2 DEF EventOf
  <2>4. /\ Accepted(e, Landed(e, x, id, y, c), Mark(id, y), x, y)
        /\ Len(Landed(e, x, id, y, c).seen) <= Len(e.seen) + 1
        /\ Landed(e, x, id, y, c).coverageSince # -1
        /\ Landed(e, x, id, y, c).epoch = e.epoch
    BY <2>3, Arrival
  <2>5. QED
    BY <2>3, <2>4 DEF Mark
<1>4. PICK f : f = CountTrade(g, ev)
  OBVIOUS
<1>5. AcceptTrade(e, ev, t) = f
  BY <1>1, <1>2, <1>4 DEF AcceptTrade, Landed
<1>6. Counted(g, f, ev)
  <2>1. Sound(g) /\ g.state[ev.mint].status # "absent"
    BY <1>1, <1>3 DEF Accepted
  <2>2. QED
    BY <1>1, <1>3, <1>4, <2>1, Counts
<1>7. /\ Sound(f) /\ f.epoch >= g.epoch /\ f.connected = g.connected
      /\ f.watermark = g.watermark /\ f.seen = g.seen
      /\ (f.coverageSince = g.coverageSince /\ f.epoch = g.epoch) \/ f.coverageSince = -1
      /\ \A m \in Mints \ {x} : f.state[m] = g.state[m]
      /\ f.state[x].status # "absent" /\ f.state[x].lastEventSec = g.state[x].lastEventSec
  BY <1>1, <1>6 DEF Counted
<1>8. \A m \in Mints \ {x} : Remains(e, f, m)
  <2>1. \A m \in Mints \ {x} : Remains(e, g, m)
    BY <1>3 DEF Accepted
  <2>2. QED
    BY <1>7, <2>1 DEF Remains
<1>9. g.state[x].status = "graduated" => f = g
  BY <1>1, <1>6 DEF Counted
<1>10. f.epoch >= e.epoch /\ f.connected = e.connected
  BY <1>3, <1>7 DEF Accepted
<1>11. Accepted(e, f, {a}, x, y) /\ Len(f.seen) <= Len(e.seen) + 1
  BY <1>3, <1>7, <1>8, <1>9, <1>10 DEF Accepted
<1>12. QED
  BY <1>1, <1>5, <1>11

\* A creation or a graduation that the engine accepts.
LEMMA AcceptedLifecycle ==
  ASSUME IsFiniteSet(Mints), NEW e, Sound(e), e.connected,
         NEW ev, ev.mint \in Mints, Room(e, ev.mint), ev.quote \in Quotes,
         ev.id \in Nat, ev.sec \in Nat,
         NEW t, InTime(e, ev.sec, t), ~Knows(e.seen, ev.id)
  PROVE  /\ Accepted(e, AcceptLifecycle(e, ev, t), {EventOf(ev)}, ev.mint, ev.sec)
         /\ Len(AcceptLifecycle(e, ev, t).seen) <= Len(e.seen) + 1
         /\ ev.kind # "create" => AcceptLifecycle(e, ev, t).state[ev.mint].status = "graduated"
<1>0. PICK x \in Mints, y \in Nat : x = ev.mint /\ y = ev.sec
  OBVIOUS
<1>a. PICK a : a = EventOf(ev)
  OBVIOUS
<1>1. x = ev.mint /\ a = EventOf(ev) /\ y = ev.sec
  BY <1>0, <1>a
<1>2. PICK created \in BOOLEAN : created = (ev.kind = "create")
  OBVIOUS
<1>3. PICK g : g = Landed(e, x, ev.id, ev.sec, created)
  OBVIOUS
<1>4. Accepted(e, g, {a}, x, y) /\ g.coverageSince # -1 /\ g.epoch = e.epoch /\ Len(g.seen) <= Len(e.seen) + 1
  <2>1. PICK id \in Nat : id = ev.id
    OBVIOUS
  <2>2. Room(e, x) /\ a = [id |-> id, sec |-> y] /\ g = Landed(e, x, id, y, created)
    BY <1>1, <1>3, <2>1 DEF EventOf
  <2>3. /\ Accepted(e, Landed(e, x, id, y, created), Mark(id, y), x, y)
        /\ Len(Landed(e, x, id, y, created).seen) <= Len(e.seen) + 1
        /\ Landed(e, x, id, y, created).coverageSince # -1
        /\ Landed(e, x, id, y, created).epoch = e.epoch
    BY <2>2, Arrival
  <2>4. QED
    BY <2>2, <2>3 DEF Mark
<1>5. /\ Sound(g) /\ Shape(g) /\ Proofs(g) /\ IsEngine(g) /\ Mint(g.state[x]) /\ g.epoch \in Nat \ {0}
      /\ g.state[x].status # "absent"
  BY <1>4 DEF Accepted, Sound, Shape
<1>6. ASSUME NEW f, NEW s, Mint(s), s.status # "absent", s.lastEventSec = g.state[x].lastEventSec,
             s.provenEpoch \in {g.state[x].provenEpoch, g.epoch},
             g.state[x].status = "graduated" => s.status = "graduated",
             f = [g EXCEPT !.state[x] = s]
      PROVE  Accepted(e, f, {a}, x, y) /\ f.state[x] = s /\ Len(f.seen) <= Len(e.seen) + 1
  <2>1. /\ f.coverageSince = g.coverageSince /\ f.epoch = g.epoch /\ f.connected = g.connected
        /\ f.watermark = g.watermark /\ f.seen = g.seen /\ f.awaiting = g.awaiting
        /\ f.state = [g.state EXCEPT ![x] = s] /\ IsEngine(f)
    BY <1>5, <1>6 DEF IsEngine
  <2>2. Shape(f) /\ f.state[x] = s /\ \A m \in Mints \ {x} : f.state[m] = g.state[m]
    <3>1. Shape(g) /\ Mint(s) /\ x \in Mints
      BY <1>5, <1>6
    <3>2. Rewritten(g, f, x, s)
      BY <2>1 DEF Rewritten
    <3>3. QED
      BY <3>1, <3>2, Rewrites
  <2>3. Proofs(f)
    <3>1. \A m \in Mints : f.state[m] = g.state[m] \/ f.state[m].provenEpoch \in {g.state[m].provenEpoch, g.epoch}
      BY <1>6, <2>2
    <3>2. QED
      BY <1>4, <1>5, <2>1, <3>1 DEF Proofs
  <2>4. Sound(f)
    BY <2>2, <2>3 DEF Sound
  <2>5. \A m \in Mints \ {x} : Remains(e, f, m)
    BY <1>4, <2>1, <2>2 DEF Accepted, Remains
  <2>6. Accepted(e, f, {a}, x, y)
    BY <1>4, <1>6, <2>1, <2>2, <2>4, <2>5 DEF Accepted
  <2>7. QED
    BY <1>4, <2>1, <2>2, <2>6
<1>7. CASE ~created
  <2>1. PICK s : s = [g.state[x] EXCEPT !.status = "graduated"]
    OBVIOUS
  <2>2. IsMintState(s) /\ s.status = "graduated" /\ s.provenEpoch = g.state[x].provenEpoch
        /\ s.lastEventSec = g.state[x].lastEventSec
    BY <1>5, <2>1 DEF IsMintState, Mint
  <2>3. Mint(s)
    BY <1>5, <2>2 DEF Mint, Statuses
  <2>4. PICK f : f = [g EXCEPT !.state[x] = s]
    OBVIOUS
  <2>5. AcceptLifecycle(e, ev, t) = f
    <3>1. AcceptLifecycle(e, ev, t) = [g EXCEPT !.state[x].status = "graduated"]
      BY <1>1, <1>2, <1>3, <1>7 DEF AcceptLifecycle, Landed
    <3>2. QED
      BY <2>1, <2>4, <3>1
  <2>6. Accepted(e, f, {a}, x, y) /\ f.state[x] = s /\ Len(f.seen) <= Len(e.seen) + 1
    BY <1>6, <2>2, <2>3, <2>4
  <2>7. QED
    BY <1>1, <2>2, <2>5, <2>6
<1>8. CASE created
  <2>1. PICK s : s = NoteCreation(g.state[x], ev, g.epoch)
    OBVIOUS
  <2>2. PICK f : f = [g EXCEPT !.state[x] = s]
    OBVIOUS
  <2>3. AcceptLifecycle(e, ev, t) = f
    <3>1. AcceptLifecycle(e, ev, t) = [g EXCEPT !.state[x] = NoteCreation(@, ev, g.epoch)]
      BY <1>1, <1>2, <1>3, <1>8 DEF AcceptLifecycle, Landed
    <3>2. QED
      BY <2>1, <2>2, <3>1
  <2>4. PICK st : st = g.state[x]
    OBVIOUS
  <2>5. PICK dated : dated = IF st.creationSec = -1
                             THEN [st EXCEPT !.creationSec = ev.sec, !.createdInEpoch = g.epoch] ELSE st
    OBVIOUS
  <2>6. IsMintState(st)
    BY <1>5, <2>4 DEF Mint
  <2>7. /\ IsMintState(dated) /\ dated.status = st.status /\ dated.provenEpoch = st.provenEpoch
        /\ dated.lastEventSec = st.lastEventSec
    <3>1. CASE st.creationSec = -1
      BY <2>5, <2>6, <3>1 DEF IsMintState
    <3>2. CASE st.creationSec # -1
      BY <2>5, <2>6, <3>2
    <3>3. QED
      BY <3>1, <3>2
  <2>8. s = IF ev.quote = "native" THEN [dated EXCEPT !.provenEpoch = g.epoch]
            ELSE IF st.status = "active" THEN [dated EXCEPT !.status = ev.quote] ELSE dated
    BY <2>1, <2>4, <2>5 DEF NoteCreation
  <2>9. /\ IsMintState(s) /\ s.lastEventSec = st.lastEventSec
        /\ s.provenEpoch \in {st.provenEpoch, g.epoch}
        /\ s.status = st.status \/ (st.status = "active" /\ ev.quote # "native" /\ s.status = ev.quote)
    <3>1. CASE ev.quote = "native"
      BY <2>7, <2>8, <3>1 DEF IsMintState
    <3>2. CASE ev.quote # "native" /\ st.status = "active"
      BY <2>7, <2>8, <3>2 DEF IsMintState
    <3>3. CASE ev.quote # "native" /\ st.status # "active"
      BY <2>7, <2>8, <3>3
    <3>4. QED
      BY <3>1, <3>2, <3>3
  <2>10. s.status # "absent" /\ (st.status = "graduated" => s.status = "graduated")
    BY <1>5, <2>4, <2>9 DEF Quotes
  <2>11. Mint(s)
    BY <1>5, <2>4, <2>9, <2>10 DEF Mint, Statuses, Quotes
  <2>12. Accepted(e, f, {a}, x, y) /\ Len(f.seen) <= Len(e.seen) + 1
    BY <1>6, <2>2, <2>4, <2>9, <2>10, <2>11
  <2>13. QED
    BY <1>1, <1>2, <1>8, <2>3, <2>12
<1>9. QED
  BY <1>7, <1>8
\* What the engine has come to refuse, it keeps refusing.
LEMMA KeepsRefusing ==
  ASSUME NEW e, NEW f, Shape(e), NEW marks, NEW x, NEW sec \in Nat, Accepted(e, f, marks, x, sec),
         NEW a, a.sec \in Nat, Refuses(e, a) \/ a \in marks
  PROVE  Refuses(f, a)
<1>1. /\ e.watermark \in Int /\ e.watermark >= -1 /\ Retention \in Nat
      /\ f.watermark \in Int /\ f.watermark >= e.watermark /\ f.watermark >= sec
  <2>1. e.watermark \in Int /\ e.watermark >= -1 /\ Retention \in Nat
    BY VolumeAssumption DEF Shape
  <2>2. f.watermark = Later(sec, e.watermark)
    BY DEF Accepted
  <2>3. QED
    BY <2>1, <2>2 DEF Later
<1>2. CASE a \in Range(e.seen) \union marks
  BY <1>1, <1>2 DEF Accepted, Refuses
<1>3. CASE e.watermark # -1 /\ a.sec < e.watermark - Retention
  BY <1>1, <1>3 DEF Refuses
<1>4. QED
  BY <1>2, <1>3 DEF Refuses

\* Fields that no part of the invariant reads may change.
LEMMA Alike ==
  ASSUME NEW e, NEW f, Sound(e), IsEngine(f),
         f.coverageSince = e.coverageSince, e.awaiting => f.awaiting, f.epoch = e.epoch,
         f.watermark = e.watermark, f.seen = e.seen, f.state = e.state
  PROVE  Sound(f)
<1>1. Shape(f)
  BY DEF Sound, Shape
<1>2. Proofs(f)
  BY DEF Sound, Proofs
<1>3. QED
  BY <1>1, <1>2 DEF Sound

Hearing(e, t) == [e EXCEPT !.lastNotification = t]

LEMMA Hears ==
  ASSUME NEW e, NEW t, Sound(e), NEW f, f = Hearing(e, t)
  PROVE  /\ Sound(f) /\ f.coverageSince = e.coverageSince /\ f.epoch = e.epoch
         /\ f.connected = e.connected /\ f.watermark = e.watermark
         /\ f.seen = e.seen /\ f.state = e.state /\ f.buckets = e.buckets
<1>1. /\ IsEngine(f) /\ f.coverageSince = e.coverageSince /\ f.awaiting = e.awaiting /\ f.epoch = e.epoch
      /\ f.connected = e.connected /\ f.watermark = e.watermark
      /\ f.seen = e.seen /\ f.state = e.state /\ f.buckets = e.buckets
  BY DEF Hearing, Sound, Shape, IsEngine
<1>2. QED
  BY <1>1, Alike

\* A break leaves no mint proven.
LEMMA Broken ==
  ASSUME NEW e, Sound(e), NEW f, f = BreakCoverage(e)
  PROVE  /\ Sound(f) /\ f.coverageSince = -1 /\ f.epoch >= e.epoch /\ f.epoch = e.epoch + 1
         /\ f.connected = e.connected /\ f.watermark = e.watermark
         /\ f.seen = e.seen /\ f.state = e.state /\ f.buckets = e.buckets
         /\ \A m \in Mints : f.state[m].provenEpoch # f.epoch
<1>1. Shape(e) /\ e.epoch \in Nat /\ \A m \in Mints : e.state[m].provenEpoch <= e.epoch
  BY DEF Sound, Proofs, Shape
<1>2. /\ Sound(f) /\ f.coverageSince = -1 /\ f.epoch = e.epoch + 1
      /\ f.connected = e.connected /\ f.watermark = e.watermark
      /\ f.seen = e.seen /\ f.state = e.state /\ f.buckets = e.buckets
  BY <1>1, Breaks
<1>3. \A m \in Mints : f.state[m].provenEpoch # f.epoch
  BY <1>2 DEF Sound, Proofs
<1>4. QED
  BY <1>1, <1>2, <1>3

------------------------------------------------------------------------------
\* What the engine's books say of the chain.  T is the set of the trades that
\* are settled: counted, or lost before the last break of coverage; P of the
\* events that are still under way.

TradesIn(chain) == {i \in DOMAIN chain : IsTrade(chain[i])}

\* The seconds that the engine keeps, and of these the ones it has seen whole.
Recent(e, s) == s >= e.watermark - Retention
Covers(e, m, s) ==
  /\ e.coverageSince # -1
  /\ s >= e.coverageSince \/ e.state[m].createdInEpoch = e.epoch

\* The settled trades of a mint in a second, and what a bucket should hold.
InSecond(chain, T, m, s) == {i \in T : chain[i].mint = m /\ chain[i].sec = s}
Amounts(chain) == [i \in DOMAIN chain |-> Lamports(chain[i])]
BuysIn(chain, T) == {i \in T : chain[i].to > chain[i].from}
Tally(chain, T, m, s) ==
  [lamports |-> SumFunctionOnSet(Amounts(chain), InSecond(chain, T, m, s)),
   count |-> Cardinality(InSecond(chain, T, m, s)),
   buys |-> Cardinality(BuysIn(chain, InSecond(chain, T, m, s)))]

\* No creation is dated in an epoch that has no coverage.
Dated(e) ==
  /\ e.coverageSince \in Int
  /\ \A m \in Mints : e.state[m].createdInEpoch \in Int /\ e.state[m].createdInEpoch <= e.epoch
  /\ e.coverageSince = -1 => \A m \in Mints : e.state[m].createdInEpoch # e.epoch

\* The engine has heard of a trade.
HeardOf(chain, e, i) ==
  /\ e.state[chain[i].mint].status # "absent"
  /\ e.state[chain[i].mint].lastEventSec >= chain[i].sec

\* Every bucket is that of a trade the engine has heard of.
Shelved(chain, e, T) ==
  /\ e.buckets = [k \in DOMAIN e.buckets |-> e.buckets[k]]
  /\ \A k \in DOMAIN e.buckets :
       \E i \in T : /\ k = <<chain[i].mint, chain[i].sec>>
                    /\ Recent(e, chain[i].sec) /\ chain[i].sec <= e.watermark
                    /\ HeardOf(chain, e, i)

\* A mint is not forgotten before the trades that were seen of it are old.
Remembered(chain, e, T) ==
  \A i \in T : Recent(e, chain[i].sec) /\ Covers(e, chain[i].mint, chain[i].sec) => HeardOf(chain, e, i)

\* The buckets of an active mint hold what was traded.
Exact(chain, e, T) ==
  \A m \in Mints, s \in Int :
    e.state[m].status = "active" /\ Recent(e, s) /\ Covers(e, m, s) =>
      BucketAt(e.buckets, m, s) = Tally(chain, T, m, s)

\* The books are in order.
Book(chain, e, T) ==
  Sound(e) /\ Dated(e) /\ Shelved(chain, e, T) /\ Remembered(chain, e, T) /\ Exact(chain, e, T)

------------------------------------------------------------------------------
\* What its curves show.

\* A trade that was lost: its mint is unproven, and only what executed after it
\* can prove the mint again.
Ahead(chain, P, j) == \A p \in P : chain[p].mint = chain[j].mint => j < p
Missed(chain, e, P, j) == e.state[chain[j].mint].provenEpoch # e.epoch /\ Ahead(chain, P, j)

\* A curve as the trade k left it.
Shows(chain, curve, k) ==
  /\ curve # NoCurve
  /\ curve.post = Ladder[chain[k].to] /\ curve.pre = Ladder[chain[k].from] /\ curve.slot = chain[k].slot

\* The curve of a mint is the one after the latest of its trades that was heard.
Latest(chain, e, T, P, m) ==
  \/ e.state[m].curve = NoCurve /\ \A j \in T : chain[j].mint = m => Missed(chain, e, P, j)
  \/ \E k \in T : /\ chain[k].mint = m /\ Shows(chain, e.state[m].curve, k)
                  /\ \A j \in T : chain[j].mint = m => j <= k \/ Missed(chain, e, P, j)

\* A mint that is not known shows no wrong curve either when it comes back, and
\* a trade that the engine has never heard of was lost.
Followed(chain, e, T, P) ==
  /\ \A m \in Mints : e.state[m].status \in {"absent", "active"} => Latest(chain, e, T, P, m)
  /\ \A j \in T : HeardOf(chain, e, j) \/ Ahead(chain, P, j)

------------------------------------------------------------------------------
\* The order in which things are told.

\* A settled trade is not later than what is still to come, unless the engine
\* is past it; what is to come is not older than the settling time; and the
\* creation of a mint is told before its trades.  (Without a settling time
\* nothing would be told at all: Deliverable.)
Orderly(chain, e, T, P) ==
  /\ \A i \in T, p \in P : chain[i].sec <= e.watermark \/ chain[i].sec <= chain[p].sec
  /\ \A p \in P : chain[p].sec > e.watermark - Settle
  /\ Settle = 0 => e.watermark = -1
  /\ \A p \in P : chain[p].kind = "create" => \A i \in T : chain[i].mint # chain[p].mint

\* Two events of a mint: the second does not create it and the first does not
\* end its curve; and a trade of the same slot follows the first and does not
\* undo it.
Follows(first, second) ==
  /\ second.kind # "create" /\ first.kind # "complete"
  /\ first.slot <= second.slot
  /\ IsTrade(first) /\ IsTrade(second) /\ first.slot = second.slot =>
       second.from = first.to /\ first.from # second.to

\* The chain itself: a transaction has its number and its second, and the
\* events of a mint follow each other.
Executes(chain) ==
  /\ \E S : chain \in Seq(S)
  /\ \A i \in DOMAIN chain :
       /\ chain[i].mint \in Mints /\ chain[i].kind \in Kinds
       /\ chain[i].sec \in Nat /\ chain[i].slot \in Nat /\ chain[i].tx \in Nat
       /\ chain[i].from \in DOMAIN Ladder /\ chain[i].to \in DOMAIN Ladder
  /\ \A i, j \in DOMAIN chain : i <= j => chain[i].sec <= chain[j].sec /\ chain[i].tx <= chain[j].tx
  /\ \A i, j \in DOMAIN chain : chain[i].tx = chain[j].tx => chain[i].sec = chain[j].sec
  /\ \A i, j \in DOMAIN chain : chain[i].mint = chain[j].mint /\ i < j => Follows(chain[i], chain[j])

------------------------------------------------------------------------------
\* Sums of the library that are taken over an operator, as sums of a function.

LEMMA MapIsSum ==
  ASSUME NEW S, NEW f \in [S -> Int]
  PROVE  MapThenSumSet(LAMBDA x : f[x], S) = SumFunctionOnSet(f, S)
  BY DEF MapThenSumSet, SumFunctionOnSet, FoldFunctionOnSet

Columns(b, m, from, to, S, lamports, count, buys) ==
  /\ S = {s \in from..to : <<m, s>> \in DOMAIN b}
  /\ lamports \in [S -> Int] /\ \A x \in S : lamports[x] = b[<<m, x>>].lamports
  /\ count \in [S -> Int] /\ \A x \in S : count[x] = b[<<m, x>>].count
  /\ buys \in [S -> Int] /\ \A x \in S : buys[x] = b[<<m, x>>].buys

\* The sum of the buckets of a mint, in terms of the sums of functions.
LEMMA BucketsAddUp ==
  ASSUME NEW b, NEW m, NEW from, NEW to, NEW S, NEW lamports, NEW count, NEW buys,
         Columns(b, m, from, to, S, lamports, count, buys)
  PROVE  BucketsSum(b, m, from, to) =
           [lamports |-> SumFunctionOnSet(lamports, S), count |-> SumFunctionOnSet(count, S),
            buys |-> SumFunctionOnSet(buys, S)]
<1> DEFINE pick(s) == CHOOSE x \in s : TRUE
<1>1. \A s \in SUBSET S : s # {} => pick(s) \in S
  OBVIOUS
<1>a. /\ S = {s \in from..to : <<m, s>> \in DOMAIN b}
      /\ lamports \in [S -> Int] /\ \A x \in S : lamports[x] = b[<<m, x>>].lamports
      /\ count \in [S -> Int] /\ \A x \in S : count[x] = b[<<m, x>>].count
      /\ buys \in [S -> Int] /\ \A x \in S : buys[x] = b[<<m, x>>].buys
  BY DEF Columns
<1>2. MapThenSumSet(LAMBDA x : b[<<m, x>>].lamports, S) = SumFunctionOnSet(lamports, S)
  <2> DEFINE F(h) == [s \in SUBSET S |-> IF s = {} THEN 0 ELSE b[<<m, pick(s)>>].lamports + h[s \ {pick(s)}]]
             G(h) == [s \in SUBSET S |-> IF s = {} THEN 0 ELSE lamports[pick(s)] + h[s \ {pick(s)}]]
  <2>1. \A s \in SUBSET S : s # {} => b[<<m, pick(s)>>].lamports = lamports[pick(s)]
    BY <1>1, <1>a
  <2>2. MapThenSumSet(LAMBDA x : b[<<m, x>>].lamports, S) = (CHOOSE h : h = F(h))[S]
    BY DEF MapThenSumSet, MapThenFoldSet
  <2>3. MapThenSumSet(LAMBDA x : lamports[x], S) = (CHOOSE h : h = G(h))[S]
    BY DEF MapThenSumSet, MapThenFoldSet
  <2> HIDE DEF pick
  <2>4. \A h : F(h) = G(h)
    BY <2>1
  <2> HIDE DEF F, G
  <2>5. (CHOOSE h : h = F(h)) = (CHOOSE h : h = G(h))
    BY <2>4
  <2>6. QED
    BY <1>a, <2>2, <2>3, <2>5, MapIsSum
<1>3. MapThenSumSet(LAMBDA x : b[<<m, x>>].count, S) = SumFunctionOnSet(count, S)
  <2> DEFINE F(h) == [s \in SUBSET S |-> IF s = {} THEN 0 ELSE b[<<m, pick(s)>>].count + h[s \ {pick(s)}]]
             G(h) == [s \in SUBSET S |-> IF s = {} THEN 0 ELSE count[pick(s)] + h[s \ {pick(s)}]]
  <2>1. \A s \in SUBSET S : s # {} => b[<<m, pick(s)>>].count = count[pick(s)]
    BY <1>1, <1>a
  <2>2. MapThenSumSet(LAMBDA x : b[<<m, x>>].count, S) = (CHOOSE h : h = F(h))[S]
    BY DEF MapThenSumSet, MapThenFoldSet
  <2>3. MapThenSumSet(LAMBDA x : count[x], S) = (CHOOSE h : h = G(h))[S]
    BY DEF MapThenSumSet, MapThenFoldSet
  <2> HIDE DEF pick
  <2>4. \A h : F(h) = G(h)
    BY <2>1
  <2> HIDE DEF F, G
  <2>5. (CHOOSE h : h = F(h)) = (CHOOSE h : h = G(h))
    BY <2>4
  <2>6. QED
    BY <1>a, <2>2, <2>3, <2>5, MapIsSum
<1>4. MapThenSumSet(LAMBDA x : b[<<m, x>>].buys, S) = SumFunctionOnSet(buys, S)
  <2> DEFINE F(h) == [s \in SUBSET S |-> IF s = {} THEN 0 ELSE b[<<m, pick(s)>>].buys + h[s \ {pick(s)}]]
             G(h) == [s \in SUBSET S |-> IF s = {} THEN 0 ELSE buys[pick(s)] + h[s \ {pick(s)}]]
  <2>1. \A s \in SUBSET S : s # {} => b[<<m, pick(s)>>].buys = buys[pick(s)]
    BY <1>1, <1>a
  <2>2. MapThenSumSet(LAMBDA x : b[<<m, x>>].buys, S) = (CHOOSE h : h = F(h))[S]
    BY DEF MapThenSumSet, MapThenFoldSet
  <2>3. MapThenSumSet(LAMBDA x : buys[x], S) = (CHOOSE h : h = G(h))[S]
    BY DEF MapThenSumSet, MapThenFoldSet
  <2> HIDE DEF pick
  <2>4. \A h : F(h) = G(h)
    BY <2>1
  <2> HIDE DEF F, G
  <2>5. (CHOOSE h : h = F(h)) = (CHOOSE h : h = G(h))
    BY <2>4
  <2>6. QED
    BY <1>a, <2>2, <2>3, <2>5, MapIsSum
<1>5. QED
  BY <1>a, <1>2, <1>3, <1>4 DEF BucketsSum

\* The volume of a set of trades, likewise.
LEMMA TradesSum ==
  ASSUME NEW S, NEW f \in [S -> Int], \A x \in S : f[x] = Lamports(emitted[x])
  PROVE  MapThenSumSet(LAMBDA x : Lamports(emitted[x]), S) = SumFunctionOnSet(f, S)
<1> DEFINE pick(s) == CHOOSE x \in s : TRUE
           F(h) == [s \in SUBSET S |-> IF s = {} THEN 0 ELSE Lamports(emitted[pick(s)]) + h[s \ {pick(s)}]]
           G(h) == [s \in SUBSET S |-> IF s = {} THEN 0 ELSE f[pick(s)] + h[s \ {pick(s)}]]
<1>1. \A h : F(h) = G(h)
  <2>1. \A s \in SUBSET S : s # {} => pick(s) \in S
    OBVIOUS
  <2>2. \A s \in SUBSET S : s # {} => Lamports(emitted[pick(s)]) = f[pick(s)]
    BY <2>1
  <2> HIDE DEF pick
  <2>3. QED
    BY <2>2
<1>2. MapThenSumSet(LAMBDA x : Lamports(emitted[x]), S) = (CHOOSE h : h = F(h))[S]
  BY DEF MapThenSumSet, MapThenFoldSet
<1>3. MapThenSumSet(LAMBDA x : f[x], S) = (CHOOSE h : h = G(h))[S]
  BY DEF MapThenSumSet, MapThenFoldSet
<1> HIDE DEF F, G
<1>4. (CHOOSE h : h = F(h)) = (CHOOSE h : h = G(h))
  BY <1>1
<1>5. QED
  BY <1>2, <1>3, <1>4, MapIsSum

\* Seconds whose buckets hold what was traded in them add up to what was traded
\* in all of them.
LEMMA Regroups ==
  ASSUME NEW chain, NEW T, IsFiniteSet(T), T \subseteq DOMAIN chain, IsFiniteSet(DOMAIN chain),
         \A i \in DOMAIN chain : Lamports(chain[i]) \in Int,
         NEW b, NEW m, NEW from \in Int, NEW to \in Int,
         \A s \in from..to : BucketAt(b, m, s) = Tally(chain, T, m, s)
  PROVE  LET within == {i \in T : chain[i].mint = m /\ chain[i].sec \in from..to}
         IN  BucketsSum(b, m, from, to) =
               [lamports |-> SumFunctionOnSet(Amounts(chain), within),
                count |-> Cardinality(within), buys |-> Cardinality(BuysIn(chain, within))]
<1> DEFINE span(n) == {s \in from..to : s < from + n}
           traded(n) == {i \in T : chain[i].mint = m /\ chain[i].sec \in span(n)}
           bought(n) == BuysIn(chain, traded(n))
           inside(n) == {s \in span(n) : <<m, s>> \in DOMAIN b}
<1>a. PICK all : all = {s \in from..to : <<m, s>> \in DOMAIN b}
  OBVIOUS
<1>b. PICK lamports : lamports = [s \in all |-> b[<<m, s>>].lamports]
  OBVIOUS
<1>c. PICK count : count = [s \in all |-> b[<<m, s>>].count]
  OBVIOUS
<1>d. PICK buys : buys = [s \in all |-> b[<<m, s>>].buys]
  OBVIOUS
<1> DEFINE same(n) == /\ SumFunctionOnSet(lamports, inside(n)) = SumFunctionOnSet(Amounts(chain), traded(n))
                      /\ SumFunctionOnSet(count, inside(n)) = Cardinality(traded(n))
                      /\ SumFunctionOnSet(buys, inside(n)) = Cardinality(bought(n))
<1>1. Amounts(chain) \in [DOMAIN chain -> Int]
  BY DEF Amounts
<1>2. ASSUME NEW U \in SUBSET T
      PROVE  /\ IsFiniteSet(U) /\ Cardinality(U) \in Nat
             /\ IsFiniteSet(BuysIn(chain, U)) /\ Cardinality(BuysIn(chain, U)) \in Nat
             /\ SumFunctionOnSet(Amounts(chain), U) \in Int
  <2>1. IsFiniteSet(U) /\ Cardinality(U) \in Nat
    BY FS_Subset, FS_CardinalityType
  <2>2. BuysIn(chain, U) \subseteq U
    BY DEF BuysIn
  <2>3. IsFiniteSet(BuysIn(chain, U)) /\ Cardinality(BuysIn(chain, U)) \in Nat
    BY <2>1, <2>2, FS_Subset, FS_CardinalityType
  <2>4. PICK V \in SUBSET DOMAIN chain : V = U
    OBVIOUS
  <2>5. {} \in SUBSET DOMAIN chain /\ V \intersect {} = {}
    OBVIOUS
  <2>6. SumFunctionOnSet(Amounts(chain), V) \in Int
    BY <1>1, <2>5, SumJoins
  <2>7. QED
    BY <2>1, <2>3, <2>4, <2>6
<1>3. IsFiniteSet(all)
  <2>1. IsFiniteSet(from..to) /\ all \subseteq from..to
    BY <1>a, FS_Interval
  <2>2. QED
    BY <2>1, FS_Subset
<1>4. ASSUME NEW s \in all
      PROVE  /\ b[<<m, s>>].lamports = SumFunctionOnSet(Amounts(chain), InSecond(chain, T, m, s))
             /\ b[<<m, s>>].count = Cardinality(InSecond(chain, T, m, s))
             /\ b[<<m, s>>].buys = Cardinality(BuysIn(chain, InSecond(chain, T, m, s)))
             /\ b[<<m, s>>].lamports \in Int /\ b[<<m, s>>].count \in Int /\ b[<<m, s>>].buys \in Int
  <2>1. b[<<m, s>>] = Tally(chain, T, m, s)
    BY <1>a DEF BucketAt
  <2>2. InSecond(chain, T, m, s) \in SUBSET T
    BY DEF InSecond
  <2>3. QED
    BY <1>2, <2>1, <2>2 DEF Tally
<1>5. lamports \in [all -> Int] /\ count \in [all -> Int] /\ buys \in [all -> Int]
  BY <1>4, <1>b, <1>c, <1>d
<1>6. same(0)
  <2>1. span(0) = {}
    OBVIOUS
  <2>2. inside(0) = {} /\ traded(0) = {} /\ bought(0) = {}
    BY <2>1 DEF BuysIn
  <2>3. SumFunctionOnSet(Amounts(chain), {}) = 0
    BY <1>1, SumOfNone
  <2>4. SumFunctionOnSet(lamports, {}) = 0 /\ SumFunctionOnSet(count, {}) = 0 /\ SumFunctionOnSet(buys, {}) = 0
    BY <1>3, <1>5, SumOfNone
  <2>5. QED
    BY <2>2, <2>3, <2>4, FS_EmptySet
<1>7. ASSUME NEW n \in Nat, same(n), from + n <= to PROVE same(n + 1)
  <2>1. PICK s \in from..to : s = from + n
    BY <1>7
  <2>2. span(n + 1) = span(n) \union {s} /\ s \notin span(n)
    BY <2>1
  <2>3. PICK old \in SUBSET T, new \in SUBSET T : old = traded(n) /\ new = InSecond(chain, T, m, s)
    BY DEF InSecond
  <2>4. traded(n + 1) = old \union new /\ old \intersect new = {}
    BY <2>2, <2>3 DEF InSecond
  <2>5. SumFunctionOnSet(Amounts(chain), old \union new) =
          SumFunctionOnSet(Amounts(chain), old) + SumFunctionOnSet(Amounts(chain), new)
    <3>1. old \in SUBSET DOMAIN chain /\ new \in SUBSET DOMAIN chain
      OBVIOUS
    <3>2. QED
      BY <1>1, <2>4, <3>1, SumJoins
  <2>6. Cardinality(old \union new) = Cardinality(old) + Cardinality(new)
    <3>1. Cardinality(old \union new) = Cardinality(old) + Cardinality(new) - Cardinality(old \intersect new)
      BY <1>2, FS_Union
    <3>2. Cardinality(old \intersect new) = 0 /\ Cardinality(old) \in Nat /\ Cardinality(new) \in Nat
      BY <1>2, <2>4, FS_EmptySet
    <3>3. QED
      BY <3>1, <3>2
  <2>7. Cardinality(BuysIn(chain, old \union new)) = Cardinality(BuysIn(chain, old)) + Cardinality(BuysIn(chain, new))
    <3>1. PICK U, V : U = BuysIn(chain, old) /\ V = BuysIn(chain, new)
      OBVIOUS
    <3>2. U \intersect V = {} /\ BuysIn(chain, old \union new) = U \union V
      BY <2>4, <3>1 DEF BuysIn
    <3>3. IsFiniteSet(U) /\ Cardinality(U) \in Nat /\ IsFiniteSet(V) /\ Cardinality(V) \in Nat
      BY <1>2, <3>1
    <3>4. Cardinality(U \union V) = Cardinality(U) + Cardinality(V) - Cardinality(U \intersect V)
      BY <3>3, FS_Union
    <3>5. Cardinality(U \intersect V) = 0
      BY <3>2, FS_EmptySet
    <3>6. PICK a \in Nat, c \in Nat : a = Cardinality(U) /\ c = Cardinality(V)
      BY <3>3
    <3>7. Cardinality(U \union V) = a + c - 0
      BY <3>4, <3>5, <3>6
    <3>8. Cardinality(U \union V) = Cardinality(U) + Cardinality(V)
      BY <3>6, <3>7
    <3>9. QED
      BY <3>1, <3>2, <3>8
  <2>8. CASE s \in all
    <3>0. PICK I : I = inside(n)
      OBVIOUS
    <3>1. I = inside(n) /\ I \in SUBSET all /\ inside(n + 1) = I \union {s} /\ s \notin I
      BY <1>a, <2>2, <2>8, <3>0
    <3>y. PICK y : y = s
      OBVIOUS
    <3>2. /\ SumFunctionOnSet(lamports, I \union {s}) = SumFunctionOnSet(lamports, I) + lamports[s]
          /\ SumFunctionOnSet(count, I \union {s}) = SumFunctionOnSet(count, I) + count[s]
          /\ SumFunctionOnSet(buys, I \union {s}) = SumFunctionOnSet(buys, I) + buys[s]
      <4>1. y \in all \ I
        BY <2>8, <3>1, <3>y
      <4>a. I \in SUBSET all
        BY <3>1
      <4>2. SumFunctionOnSet(lamports, I \union {y}) = SumFunctionOnSet(lamports, I) + lamports[y]
        BY <1>3, <1>5, <4>a, <4>1, SumGrows
      <4>3. SumFunctionOnSet(count, I \union {y}) = SumFunctionOnSet(count, I) + count[y]
        BY <1>3, <1>5, <4>a, <4>1, SumGrows
      <4>4. SumFunctionOnSet(buys, I \union {y}) = SumFunctionOnSet(buys, I) + buys[y]
        BY <1>3, <1>5, <4>a, <4>1, SumGrows
      <4>5. QED
        BY <3>y, <4>2, <4>3, <4>4
    <3>3. /\ lamports[s] = SumFunctionOnSet(Amounts(chain), new)
          /\ count[s] = Cardinality(new) /\ buys[s] = Cardinality(BuysIn(chain, new))
      BY <1>4, <1>b, <1>c, <1>d, <2>3, <2>8
    <3> HIDE DEF inside, traded
    <3>4. QED
      BY <1>7, <2>3, <2>4, <2>5, <2>6, <2>7, <3>1, <3>2, <3>3
  <2>9. CASE s \notin all
    <3>1. inside(n + 1) = inside(n)
      BY <1>a, <2>2, <2>9
    <3>2. new = {}
      <4>1. BucketAt(b, m, s) = EmptyBucket
        BY <1>a, <2>9 DEF BucketAt
      <4>2. Cardinality(new) = 0
        BY <2>3, <4>1 DEF Tally, EmptyBucket
      <4>3. QED
        BY <1>2, <4>2, FS_EmptySet
    <3>3. traded(n + 1) = traded(n)
      BY <2>3, <2>4, <3>2
    <3> HIDE DEF inside, traded
    <3>4. QED
      BY <1>7, <3>1, <3>3
  <2>10. QED
    BY <2>8, <2>9
<1>8. ASSUME NEW n \in Nat, n = 0 \/ from + n <= to + 1 PROVE same(n)
  <2> HIDE DEF same
  <2> DEFINE bad == {k \in 0..n : ~same(k)}
  <2>1. CASE bad = {}
    BY <2>1
  <2>2. CASE bad # {}
    <3>1. PICK k \in bad : \A l \in bad : k <= l
      <4>1. bad \subseteq Nat
        OBVIOUS
      <4> HIDE DEF bad
      <4>2. QED
        BY <2>2, <4>1, Least
    <3>2. k # 0 /\ k - 1 \in Nat /\ k - 1 \in 0..n
      BY <1>6, <3>1
    <3>3. same(k - 1)
      BY <3>1, <3>2
    <3>4. same((k - 1) + 1)
      BY <1>7, <1>8, <3>2, <3>3
    <3>5. QED
      BY <3>1, <3>2, <3>4
  <2>3. QED
    BY <2>1, <2>2
<1> DEFINE within == {i \in T : chain[i].mint = m /\ chain[i].sec \in from..to}
<1>9. /\ SumFunctionOnSet(lamports, all) = SumFunctionOnSet(Amounts(chain), within)
      /\ SumFunctionOnSet(count, all) = Cardinality(within)
      /\ SumFunctionOnSet(buys, all) = Cardinality(BuysIn(chain, within))
  <2>1. PICK n \in Nat : (n = 0 \/ from + n <= to + 1) /\ span(n) = from..to
    <3>1. CASE from <= to
      <4>1. PICK n \in Nat : n = to - from + 1
        BY <3>1
      <4>2. from + n <= to + 1 /\ \A s \in from..to : s < from + n
        BY <4>1
      <4>3. span(n) = from..to
        BY <4>2
      <4>4. QED
        BY <4>2, <4>3
    <3>2. CASE from > to
      <4>1. from..to = {}
        BY <3>2
      <4>2. span(0) = from..to
        BY <4>1
      <4>3. QED
        BY <4>2
    <3>3. QED
      BY <3>1, <3>2
  <2>2. same(n)
    BY <1>8, <2>1
  <2>3. inside(n) = all /\ traded(n) = within
    BY <1>a, <2>1
  <2> HIDE DEF inside, traded
  <2>4. QED
    BY <2>2, <2>3
<1>10. BucketsSum(b, m, from, to) =
         [lamports |-> SumFunctionOnSet(lamports, all), count |-> SumFunctionOnSet(count, all),
          buys |-> SumFunctionOnSet(buys, all)]
  <2>1. lamports \in [all -> Int] /\ \A x \in all : lamports[x] = b[<<m, x>>].lamports
    BY <1>5, <1>b
  <2>2. count \in [all -> Int] /\ \A x \in all : count[x] = b[<<m, x>>].count
    BY <1>5, <1>c
  <2>3. buys \in [all -> Int] /\ \A x \in all : buys[x] = b[<<m, x>>].buys
    BY <1>5, <1>d
  <2>4. Columns(b, m, from, to, all, lamports, count, buys)
    BY <1>a, <2>1, <2>2, <2>3 DEF Columns
  <2>5. QED
    BY <2>4, BucketsAddUp
<1>11. QED
  BY <1>9, <1>10

------------------------------------------------------------------------------
\* What an event, a loss and a break make of the books and the curves.

\* A chain and the parts of it that are settled and under way.
Parts(chain, T, P) ==
  /\ Executes(chain) /\ IsFiniteSet(DOMAIN chain)
  /\ T \subseteq TradesIn(chain) /\ P \subseteq DOMAIN chain /\ T \intersect P = {}

\* A trade between two rungs of the ladder: what the decoder tells of it gives
\* back the curve before it.
LEMMA Rungs ==
  ASSUME NEW from \in DOMAIN Ladder, NEW to \in DOMAIN Ladder
  PROVE  /\ Ladder[from] \in [vs : Nat, vt : Nat, rs : Nat, rt : Nat]
         /\ from # to => Ladder[from] # Ladder[to]
         /\ PreTradeState(Ladder[to], to > from, Abs(Ladder[to].vs - Ladder[from].vs),
                          Abs(Ladder[to].vt - Ladder[from].vt)) = Ladder[from]
<1> DEFINE Rung == [vs : Nat, vt : Nat, rs : Nat, rt : Nat]
<1>1. Ladder[from] \in Rung /\ Ladder[to] \in Rung /\ from \in Nat /\ to \in Nat
  <2>1. Ladder \in Seq(Rung)
    BY StreamAssumption
  <2> HIDE DEF Rung
  <2>2. DOMAIN Ladder = 1..Len(Ladder) /\ Len(Ladder) \in Nat
    BY <2>1
  <2>3. from \in 1..Len(Ladder) /\ to \in 1..Len(Ladder)
    BY <2>2
  <2>4. QED
    BY <2>1, <2>2, <2>3, ElementOfSeq
<1>2. from \in Nat /\ to \in Nat
  BY <1>1
<1>3. PICK a \in Rung, b \in Rung :
        a = Ladder[from] /\ b = Ladder[to]
  BY <1>1
<1>4. /\ from < to => a.vs < b.vs /\ a.vt > b.vt
      /\ to < from => b.vs < a.vs /\ b.vt > a.vt
      /\ a.vs - a.rs = b.vs - b.rs /\ a.vt - a.rt = b.vt - b.rt
  BY <1>3, StreamAssumption
<1>5. from # to => a # b
  BY <1>2, <1>4
<1>6. from = to => a = b
  BY <1>3
<1>7. PICK sol \in Nat, tok \in Nat : sol = Abs(b.vs - a.vs) /\ tok = Abs(b.vt - a.vt)
  BY DEF Abs
<1>8. PreTradeState(b, to > from, sol, tok) = a
  <2>1. CASE to > from
    <3>1. sol = b.vs - a.vs /\ tok = a.vt - b.vt
      BY <1>4, <1>7, <2>1 DEF Abs
    <3>2. PreTradeState(b, to > from, sol, tok) = [vs |-> b.vs - sol, vt |-> b.vt + tok, rs |-> b.rs - sol, rt |-> b.rt + tok]
      BY <2>1 DEF PreTradeState
    <3>3. b.vs - sol = a.vs /\ b.vt + tok = a.vt /\ b.rs - sol = a.rs /\ b.rt + tok = a.rt
      BY <1>4, <3>1
    <3>4. QED
      BY <3>2, <3>3
  <2>2. CASE ~(to > from)
    <3>1. sol = a.vs - b.vs /\ tok = b.vt - a.vt
      BY <1>2, <1>4, <1>6, <1>7, <2>2 DEF Abs
    <3>2. PreTradeState(b, to > from, sol, tok) = [vs |-> b.vs + sol, vt |-> b.vt - tok, rs |-> b.rs + sol, rt |-> b.rt - tok]
      BY <2>2 DEF PreTradeState
    <3>3. b.vs + sol = a.vs /\ b.vt - tok = a.vt /\ b.rs + sol = a.rs /\ b.rt - tok = a.rt
      BY <1>4, <3>1
    <3>4. QED
      BY <3>2, <3>3
  <2>3. QED
    BY <2>1, <2>2
<1>9. QED
  BY <1>1, <1>3, <1>5, <1>7, <1>8

\* Amounts are integers, and what is settled is finite.
LEMMA AmountsOf ==
  ASSUME NEW chain, NEW T, NEW P, Parts(chain, T, P)
  PROVE  /\ Amounts(chain) \in [DOMAIN chain -> Int]
         /\ \A i \in DOMAIN chain : Lamports(chain[i]) \in Int
         /\ T \subseteq DOMAIN chain /\ IsFiniteSet(T)
<1>1. \A i \in DOMAIN chain : Lamports(chain[i]) \in Int
  <2> SUFFICES ASSUME NEW i \in DOMAIN chain PROVE Lamports(chain[i]) \in Int
    OBVIOUS
  <2>1. chain[i].from \in DOMAIN Ladder /\ chain[i].to \in DOMAIN Ladder
    BY DEF Parts, Executes
  <2>2. PICK a, b : a = Ladder[chain[i].from] /\ b = Ladder[chain[i].to] /\ a.vs \in Nat /\ b.vs \in Nat
    BY <2>1, Rungs
  <2>3. QED
    BY <2>2 DEF Lamports, Abs
<1>2. T \subseteq DOMAIN chain /\ IsFiniteSet(T)
  BY FS_Subset DEF Parts, TradesIn
<1>3. QED
  BY <1>1, <1>2 DEF Amounts

\* A second without settled trades is empty, and one more trade adds itself.
LEMMA TallyOfNone ==
  ASSUME NEW chain, NEW T, NEW P, Parts(chain, T, P), NEW m, NEW s, \A i \in T : ~(chain[i].mint = m /\ chain[i].sec = s)
  PROVE  Tally(chain, T, m, s) = EmptyBucket
<1>1. InSecond(chain, T, m, s) = {} /\ BuysIn(chain, {}) = {}
  BY DEF InSecond, BuysIn
<1>2. SumFunctionOnSet(Amounts(chain), {}) = 0
  BY AmountsOf, SumOfNone DEF Parts
<1>3. Cardinality({}) = 0
  BY FS_EmptySet
<1>4. QED
  BY <1>1, <1>2, <1>3 DEF Tally, EmptyBucket

LEMMA TallyGrows ==
  ASSUME NEW chain, NEW T, NEW P, Parts(chain, T, P), NEW i \in DOMAIN chain \ T, NEW m, NEW s
  PROVE  /\ ~(chain[i].mint = m /\ chain[i].sec = s) => Tally(chain, T \union {i}, m, s) = Tally(chain, T, m, s)
         /\ chain[i].mint = m /\ chain[i].sec = s =>
              Tally(chain, T \union {i}, m, s) =
                [lamports |-> Tally(chain, T, m, s).lamports + Lamports(chain[i]),
                 count |-> Tally(chain, T, m, s).count + 1,
                 buys |-> Tally(chain, T, m, s).buys + (IF chain[i].to > chain[i].from THEN 1 ELSE 0)]
<1>1. PICK S : S = InSecond(chain, T, m, s)
  OBVIOUS
<1>2. CASE ~(chain[i].mint = m /\ chain[i].sec = s)
  <2>1. InSecond(chain, T \union {i}, m, s) = S
    BY <1>1, <1>2 DEF InSecond
  <2>2. QED
    BY <1>1, <1>2, <2>1 DEF Tally
<1>3. CASE chain[i].mint = m /\ chain[i].sec = s
  <2>1. InSecond(chain, T \union {i}, m, s) = S \union {i} /\ i \notin S
    BY <1>1, <1>3 DEF InSecond
  <2>2. S \in SUBSET DOMAIN chain /\ i \in DOMAIN chain \ S /\ IsFiniteSet(S)
    <3>1. S \subseteq T
      BY <1>1 DEF InSecond
    <3>2. QED
      BY <3>1, AmountsOf, FS_Subset
  <2>3. SumFunctionOnSet(Amounts(chain), S \union {i}) = SumFunctionOnSet(Amounts(chain), S) + Lamports(chain[i])
    <3>1. PICK f, D : f = Amounts(chain) /\ D = DOMAIN chain /\ f \in [D -> Int] /\ IsFiniteSet(D)
      BY AmountsOf DEF Parts
    <3>2. S \in SUBSET D /\ i \in D \ S
      BY <2>2, <3>1
    <3>3. SumFunctionOnSet(f, S \union {i}) = SumFunctionOnSet(f, S) + f[i]
      BY <3>1, <3>2, SumGrows
    <3>4. f[i] = Lamports(chain[i])
      BY <3>1 DEF Amounts
    <3>5. QED
      BY <3>1, <3>3, <3>4
  <2>4. Cardinality(S \union {i}) = Cardinality(S) + 1
    BY <2>1, <2>2, FS_AddElement
  <2>5. Cardinality(BuysIn(chain, S \union {i})) = Cardinality(BuysIn(chain, S)) + (IF chain[i].to > chain[i].from THEN 1 ELSE 0)
    <3>1. PICK B : B = BuysIn(chain, S) /\ IsFiniteSet(B) /\ i \notin B
      <4>1. BuysIn(chain, S) \subseteq S
        BY DEF BuysIn
      <4>2. QED
        BY <2>1, <2>2, <4>1, FS_Subset
    <3>2. CASE chain[i].to > chain[i].from
      <4>1. BuysIn(chain, S \union {i}) = B \union {i}
        BY <3>1, <3>2 DEF BuysIn
      <4>2. Cardinality(B \union {i}) = Cardinality(B) + 1
        BY <3>1, FS_AddElement
      <4>3. QED
        BY <3>1, <3>2, <4>1, <4>2
    <3>3. CASE ~(chain[i].to > chain[i].from)
      <4>1. BuysIn(chain, S \union {i}) = B
        BY <3>1, <3>3 DEF BuysIn
      <4>2. Cardinality(B) \in Int
        BY <3>1, FS_CardinalityType
      <4>3. QED
        BY <3>1, <3>3, <4>1, <4>2
    <3>4. QED
      BY <3>2, <3>3
  <2>6. Tally(chain, T \union {i}, m, s) =
          [lamports |-> SumFunctionOnSet(Amounts(chain), S) + Lamports(chain[i]), count |-> Cardinality(S) + 1,
           buys |-> Cardinality(BuysIn(chain, S)) + (IF chain[i].to > chain[i].from THEN 1 ELSE 0)]
    BY <2>1, <2>3, <2>4, <2>5 DEF Tally
  <2>7. Tally(chain, T, m, s) =
          [lamports |-> SumFunctionOnSet(Amounts(chain), S), count |-> Cardinality(S), buys |-> Cardinality(BuysIn(chain, S))]
    BY <1>1 DEF Tally
  <2>8. QED
    BY <1>3, <2>6, <2>7
<1>4. QED
  BY <1>2, <1>3

\* A trade counts in its own second only.
LEMMA TallyElsewhere ==
  ASSUME NEW chain, NEW T, NEW i, NEW m, NEW s, ~(chain[i].mint = m /\ chain[i].sec = s)
  PROVE  Tally(chain, T \union {i}, m, s) = Tally(chain, T, m, s)
<1>1. InSecond(chain, T \union {i}, m, s) = InSecond(chain, T, m, s)
  BY DEF InSecond
<1>2. QED
  BY <1>1 DEF Tally

\* What the books and the curves of the engine are worth.
Keeps(chain, e, T, P) == Book(chain, e, T) /\ Followed(chain, e, T, P)

\* The parts of the engine that they are read from.
SameBooks(e, f) ==
  /\ f.coverageSince = e.coverageSince /\ f.epoch = e.epoch /\ f.watermark = e.watermark
  /\ f.buckets = e.buckets /\ f.state = e.state

LEMMA KeepsAlike ==
  ASSUME NEW chain, NEW e, NEW f, NEW T, NEW P, Keeps(chain, e, T, P), Sound(f), SameBooks(e, f)
  PROVE  Keeps(chain, f, T, P)
<1>1. Dated(f)
  BY DEF Keeps, Book, SameBooks, Dated
<1>2. Shelved(chain, f, T)
  BY DEF Keeps, Book, SameBooks, Shelved, Recent, HeardOf
<1>3. Remembered(chain, f, T)
  BY DEF Keeps, Book, SameBooks, Remembered, Recent, Covers, HeardOf
<1>4. Exact(chain, f, T)
  BY DEF Keeps, Book, SameBooks, Exact, Recent, Covers
<1>5. Followed(chain, f, T, P)
  BY DEF Keeps, SameBooks, Followed, Latest, Missed, HeardOf
<1>6. QED
  BY <1>1, <1>2, <1>3, <1>4, <1>5 DEF Keeps, Book

\* Fewer notifications under way.
LEMMA KeepsLess ==
  ASSUME NEW chain, NEW e, NEW T, NEW P, NEW Q \in SUBSET P, Keeps(chain, e, T, P)
  PROVE  Keeps(chain, e, T, Q)
<1>1. \A j : Ahead(chain, P, j) => Ahead(chain, Q, j)
  BY DEF Ahead
<1>2. \A j : Missed(chain, e, P, j) => Missed(chain, e, Q, j)
  BY <1>1 DEF Missed
<1>3. \A m : Latest(chain, e, T, P, m) => Latest(chain, e, T, Q, m)
  BY <1>2 DEF Latest
<1>4. QED
  BY <1>1, <1>3 DEF Keeps, Followed

\* Coverage breaks, or had broken before, and trades are lost: no mint is proven.
LEMMA KeepsUncovered ==
  ASSUME NEW chain, NEW e, NEW f, NEW T, NEW P, Parts(chain, T, P), Keeps(chain, e, T, P), Sound(f),
         f.coverageSince = -1, f.epoch > e.epoch \/ (f.epoch = e.epoch /\ e.coverageSince = -1),
         f.watermark = e.watermark, f.buckets = e.buckets, f.state = e.state,
         NEW R, T \subseteq R, R \subseteq TradesIn(chain), NEW Q \in SUBSET P,
         \A j \in R \ T : Ahead(chain, Q, j)
  PROVE  Keeps(chain, f, R, Q)
<1>1. Dated(f)
  <2>1. e.epoch \in Nat /\ f.epoch \in Nat
    BY DEF Keeps, Book, Sound, Shape
  <2>2. \A m \in Mints : e.state[m].createdInEpoch \in Int /\ e.state[m].createdInEpoch <= e.epoch
    BY DEF Keeps, Book, Dated
  <2>3. e.coverageSince = -1 => \A m \in Mints : e.state[m].createdInEpoch # e.epoch
    BY DEF Keeps, Book, Dated
  <2>4. \A m \in Mints : f.state[m].createdInEpoch \in Int /\ f.state[m].createdInEpoch < f.epoch
    BY <2>1, <2>2, <2>3
  <2>5. QED
    BY <2>1, <2>4 DEF Dated
<1>2. Shelved(chain, f, R)
  BY DEF Keeps, Book, Shelved, Recent, HeardOf
<1>3. Remembered(chain, f, R) /\ Exact(chain, f, R)
  BY DEF Remembered, Exact, Covers
<1>4. \A m \in Mints : f.state[m].provenEpoch # f.epoch
  BY DEF Sound, Proofs
<1>5. \A j \in R : chain[j].mint \in Mints
  BY DEF Parts, Executes, TradesIn
<1>6. \A j \in R : Ahead(chain, Q, j) => Missed(chain, f, Q, j)
  BY <1>4, <1>5 DEF Missed
<1>7. \A j : Ahead(chain, P, j) => Ahead(chain, Q, j)
  BY DEF Ahead
<1>8. ASSUME NEW m \in Mints, Latest(chain, e, T, P, m) PROVE Latest(chain, f, R, Q, m)
  <2>1. \A j \in T : Missed(chain, e, P, j) => Missed(chain, f, Q, j)
    BY <1>6, <1>7 DEF Missed
  <2>2. \A j \in R \ T : Missed(chain, f, Q, j)
    BY <1>6
  <2>3. QED
    BY <1>8, <2>1, <2>2 DEF Latest
<1>9. Followed(chain, f, R, Q)
  BY <1>7, <1>8 DEF Keeps, Followed, HeardOf
<1>10. QED
  BY <1>1, <1>2, <1>3, <1>9 DEF Keeps, Book

\* A mint that is not forgotten is kept as it was; one that is was heard of long
\* ago only.
LEMMA KeepsAdvanced ==
  ASSUME NEW chain, NEW e, NEW f, NEW T, NEW P, Parts(chain, T, P), Keeps(chain, e, T, P), Idle >= Retention,
         NEW sec \in Nat, Advanced(e, f, sec),
         \A i \in T : chain[i].sec <= e.watermark \/ chain[i].sec <= sec,
         \A p \in P : chain[p].sec > f.watermark - Settle
  PROVE  Keeps(chain, f, T, P)
<1>1. /\ Sound(e) /\ Shape(e) /\ Sound(f) /\ Shape(f) /\ e.watermark \in Int /\ f.watermark \in Int
      /\ f.watermark = Later(sec, e.watermark) /\ f.watermark >= e.watermark /\ f.watermark >= sec
      /\ e.epoch \in Nat \ {0} /\ f.epoch = e.epoch /\ e.coverageSince \in Int
      /\ {Settle, Retention, Idle} \subseteq Nat /\ Retention >= Settle
  <2>1. Sound(e) /\ Shape(e) /\ Sound(f) /\ Shape(f) /\ Dated(e)
    BY DEF Keeps, Book, Advanced, Sound
  <2>2. /\ e.watermark \in Int /\ f.watermark \in Int /\ e.epoch \in Nat \ {0} /\ e.coverageSince \in Int
    BY <2>1 DEF Shape, Dated
  <2>3. f.watermark = Later(sec, e.watermark) /\ f.epoch = e.epoch
    BY DEF Advanced
  <2>4. {Settle, Retention, Idle} \subseteq Nat /\ Retention >= Settle
    BY VolumeAssumption
  <2>5. QED
    BY <2>1, <2>2, <2>3, <2>4 DEF Later
<1>2. \A i \in T : chain[i].mint \in Mints /\ chain[i].sec \in Nat /\ chain[i].sec <= f.watermark
  BY <1>1 DEF Parts, Executes, TradesIn
<1>3. NoState.createdInEpoch = -1 /\ NoState.curve = NoCurve /\ NoState.status = "absent" /\ NoState.provenEpoch = -1
  BY DEF NoState
<1>4. \A m \in Mints :
        \/ f.state[m] = e.state[m]
        \/ f.state[m] = NoState /\ e.state[m].lastEventSec < f.watermark - Idle
  BY DEF Advanced, Remains
<1>5. ASSUME NEW i \in T, HeardOf(chain, e, i) PROVE HeardOf(chain, f, i) \/ chain[i].sec < f.watermark - Idle
  <2>1. e.state[chain[i].mint].lastEventSec \in Int /\ e.state[chain[i].mint].lastEventSec >= chain[i].sec
    BY <1>1, <1>2, <1>5 DEF HeardOf, Shape, Mint
  <2>2. CASE f.state[chain[i].mint] = e.state[chain[i].mint]
    BY <1>5, <2>2 DEF HeardOf
  <2>3. CASE e.state[chain[i].mint].lastEventSec < f.watermark - Idle
    BY <1>1, <1>2, <2>1, <2>3
  <2>4. QED
    BY <1>2, <1>4, <2>2, <2>3
<1>6. \A i \in T : HeardOf(chain, e, i) /\ Recent(f, chain[i].sec) => HeardOf(chain, f, i)
  BY <1>1, <1>2, <1>5 DEF Recent
<1>7. \A s \in Int : Recent(f, s) => Recent(e, s)
  BY <1>1 DEF Recent
<1>8. ASSUME NEW m \in Mints, NEW s \in Int, Covers(f, m, s), s <= f.watermark PROVE Covers(e, m, s)
  <2>1. CASE f.coverageSince = e.coverageSince /\ s >= f.coverageSince
    BY <1>8, <2>1 DEF Covers
  <2>2. CASE f.coverageSince = f.watermark + 1 /\ s >= f.coverageSince
    BY <1>1, <1>8, <2>2
  <2>3. CASE f.state[m].createdInEpoch = f.epoch
    <3>1. e.state[m].createdInEpoch = e.epoch
      BY <1>1, <1>3, <1>4, <2>3
    <3>2. e.coverageSince # -1
      BY <3>1 DEF Keeps, Book, Dated
    <3>3. QED
      BY <3>1, <3>2 DEF Covers
  <2>4. QED
    BY <1>8, <2>1, <2>2, <2>3 DEF Covers, Advanced
<1>9. Dated(f)
  <2>1. \A m \in Mints : f.state[m].createdInEpoch \in Int /\ f.state[m].createdInEpoch <= f.epoch
    BY <1>1, <1>3, <1>4 DEF Keeps, Book, Dated
  <2>2. f.coverageSince \in Int /\ f.coverageSince # -1
    BY <1>1 DEF Advanced
  <2>3. QED
    BY <2>1, <2>2 DEF Dated
<1>10. /\ f.buckets = [k \in DOMAIN f.buckets |-> f.buckets[k]]
       /\ \A k \in DOMAIN f.buckets : k \in DOMAIN e.buckets /\ f.buckets[k] = e.buckets[k] /\ Recent(f, k[2])
       /\ \A k \in DOMAIN e.buckets : Recent(f, k[2]) => k \in DOMAIN f.buckets
  <2>1. CASE sec > e.watermark
    <3>1. f.buckets = BucketsPrune(e.buckets, f.watermark - Retention)
      BY <1>1, <2>1 DEF Advanced, Later
    <3>2. QED
      BY <3>1 DEF BucketsPrune, Restricted, Recent
  <2>2. CASE ~(sec > e.watermark)
    <3>1. f.buckets = e.buckets /\ f.watermark = e.watermark
      BY <1>1, <2>2 DEF Advanced, Later
    <3>2. \A k \in DOMAIN e.buckets : Recent(e, k[2])
      BY DEF Keeps, Book, Shelved
    <3>3. QED
      BY <3>1, <3>2 DEF Keeps, Book, Shelved, Recent
  <2>3. QED
    BY <2>1, <2>2
<1>11. Shelved(chain, f, T)
  <2> SUFFICES ASSUME NEW k \in DOMAIN f.buckets
               PROVE  \E i \in T : /\ k = <<chain[i].mint, chain[i].sec>>
                                   /\ Recent(f, chain[i].sec) /\ chain[i].sec <= f.watermark
                                   /\ HeardOf(chain, f, i)
    BY <1>10 DEF Shelved
  <2>1. PICK i \in T : k = <<chain[i].mint, chain[i].sec>> /\ HeardOf(chain, e, i)
    BY <1>10 DEF Keeps, Book, Shelved
  <2>2. Recent(f, chain[i].sec)
    BY <1>10, <2>1
  <2>3. QED
    BY <1>2, <1>6, <2>1, <2>2
<1>12. Remembered(chain, f, T)
  <2> SUFFICES ASSUME NEW i \in T, Recent(f, chain[i].sec), Covers(f, chain[i].mint, chain[i].sec)
               PROVE  HeardOf(chain, f, i)
    BY DEF Remembered
  <2>1. Recent(e, chain[i].sec) /\ Covers(e, chain[i].mint, chain[i].sec)
    BY <1>2, <1>7, <1>8
  <2>2. QED
    BY <1>6, <2>1 DEF Keeps, Book, Remembered
<1>13. Exact(chain, f, T)
  <2> SUFFICES ASSUME NEW m \in Mints, NEW s \in Int, f.state[m].status = "active", Recent(f, s), Covers(f, m, s)
               PROVE  BucketAt(f.buckets, m, s) = Tally(chain, T, m, s)
    BY DEF Exact
  <2>1. CASE s <= f.watermark
    <3>1. e.state[m].status = "active"
      BY <1>3, <1>4
    <3>2. BucketAt(e.buckets, m, s) = Tally(chain, T, m, s)
      BY <1>7, <1>8, <2>1, <3>1 DEF Keeps, Book, Exact
    <3>3. BucketAt(f.buckets, m, s) = BucketAt(e.buckets, m, s)
      BY <1>10 DEF BucketAt
    <3>4. QED
      BY <3>2, <3>3
  <2>2. CASE s > f.watermark
    <3>1. \A i \in T : ~(chain[i].mint = m /\ chain[i].sec = s)
      BY <1>1, <1>2, <2>2
    <3>2. <<m, s>> \notin DOMAIN f.buckets
      BY <1>1, <1>2, <1>11, <2>2 DEF Shelved
    <3>3. QED
      BY <3>1, <3>2, TallyOfNone DEF BucketAt
  <2>3. QED
    BY <1>1, <2>1, <2>2
<1>14. ASSUME NEW i \in T, chain[i].sec < f.watermark - Idle PROVE Ahead(chain, P, i)
  <2> SUFFICES ASSUME NEW p \in P PROVE i < p
    BY DEF Ahead
  <2>1. /\ i \in DOMAIN chain /\ p \in DOMAIN chain /\ i \in Nat /\ p \in Nat
        /\ chain[i].sec \in Nat /\ chain[p].sec \in Nat
    BY DEF Parts, TradesIn, Executes
  <2>2. chain[i].sec < chain[p].sec
    BY <1>1, <1>14, <2>1
  <2>3. ~(p <= i)
    BY <2>1, <2>2 DEF Parts, Executes
  <2>4. QED
    BY <2>1, <2>3
<1>15. Followed(chain, f, T, P)
  <2>1. ASSUME NEW j \in T PROVE HeardOf(chain, f, j) \/ Ahead(chain, P, j)
    BY <1>5, <1>14 DEF Keeps, Followed
  <2>2. ASSUME NEW m \in Mints, f.state[m].status \in {"absent", "active"} PROVE Latest(chain, f, T, P, m)
    <3>1. CASE f.state[m] = e.state[m]
      BY <1>1, <2>2, <3>1 DEF Keeps, Followed, Latest, Missed
    <3>2. CASE f.state[m] = NoState /\ e.state[m].lastEventSec < f.watermark - Idle
      <4>1. ASSUME NEW j \in T, chain[j].mint = m PROVE Missed(chain, f, P, j)
        <5>1. ~HeardOf(chain, f, j)
          BY <1>3, <3>2, <4>1 DEF HeardOf
        <5>2. Ahead(chain, P, j)
          BY <2>1, <5>1
        <5>3. f.state[m].provenEpoch # f.epoch
          BY <1>1, <1>3, <3>2
        <5>4. QED
          BY <4>1, <5>2, <5>3 DEF Missed
      <4>2. QED
        BY <1>3, <3>2, <4>1 DEF Latest
    <3>3. QED
      BY <1>4, <3>1, <3>2
  <2>3. QED
    BY <2>1, <2>2 DEF Followed
<1>16. QED
  BY <1>1, <1>9, <1>11, <1>12, <1>13, <1>15 DEF Keeps, Book

\* A mint enters the table with no trade that could still count.
LEMMA KeepsTouched ==
  ASSUME NEW chain, NEW e, NEW f, NEW T, NEW P, Parts(chain, T, P), Keeps(chain, e, T, P),
         NEW x \in Mints, NEW sec \in Nat, NEW isCreate \in BOOLEAN, Touched(e, f, x, sec, isCreate),
         isCreate => \A i \in T : chain[i].mint # x
  PROVE  Keeps(chain, f, T, P)
<1>1. /\ Sound(e) /\ Shape(e) /\ Sound(f) /\ Shape(f) /\ Dated(e) /\ e.epoch \in Nat \ {0} /\ f.epoch = e.epoch
      /\ f.watermark = e.watermark /\ f.coverageSince = e.coverageSince /\ f.buckets = e.buckets
      /\ \A m \in Mints \ {x} : f.state[m] = e.state[m]
  BY DEF Keeps, Book, Touched, Sound, Shape
<1>2. \A i \in T : chain[i].mint \in Mints /\ chain[i].sec \in Nat
  BY DEF Parts, Executes, TradesIn
<1>3. /\ NoState.createdInEpoch = -1 /\ NoState.curve = NoCurve /\ NoState.status = "absent"
      /\ e.state[x].status = "absent" <=> e.state[x] = NoState
  BY <1>1 DEF NoState, Shape, Mint
<1>4. \A m \in Mints : f.state[m].createdInEpoch = e.state[m].createdInEpoch /\ f.state[m].curve = e.state[m].curve
  BY <1>1 DEF Touched
<1>5. ASSUME NEW i \in T, HeardOf(chain, e, i) PROVE HeardOf(chain, f, i)
  <2>1. CASE chain[i].mint = x
    <3>1. e.state[x] # NoState /\ e.state[x].lastEventSec >= chain[i].sec
      BY <1>3, <1>5, <2>1 DEF HeardOf
    <3>2. f.state[x].lastEventSec >= e.state[x].lastEventSec /\ f.state[x].status # "absent"
      BY <3>1 DEF Touched
    <3>3. e.state[x].lastEventSec \in Int /\ f.state[x].lastEventSec \in Int
      BY <1>1 DEF Shape, Mint
    <3>4. QED
      BY <1>2, <2>1, <3>1, <3>2, <3>3 DEF HeardOf
  <2>2. CASE chain[i].mint # x
    BY <1>1, <1>2, <1>5, <2>2 DEF HeardOf
  <2>3. QED
    BY <2>1, <2>2
<1>6. \A m \in Mints, s \in Int : (Recent(f, s) => Recent(e, s)) /\ (Covers(f, m, s) => Covers(e, m, s))
  BY <1>1, <1>4 DEF Recent, Covers
<1>7. Dated(f)
  BY <1>1, <1>4 DEF Dated
<1>8. Shelved(chain, f, T)
  BY <1>1, <1>5 DEF Keeps, Book, Shelved, Recent
<1>9. Remembered(chain, f, T)
  BY <1>2, <1>5, <1>6 DEF Keeps, Book, Remembered
<1>10. Exact(chain, f, T)
  <2> SUFFICES ASSUME NEW m \in Mints, NEW s \in Int, f.state[m].status = "active", Recent(f, s), Covers(f, m, s)
               PROVE  BucketAt(f.buckets, m, s) = Tally(chain, T, m, s)
    BY DEF Exact
  <2>1. CASE e.state[m].status = "active"
    BY <1>1, <1>6, <2>1 DEF Keeps, Book, Exact
  <2>2. CASE e.state[m].status # "active"
    <3>1. m = x /\ e.state[x].status = "absent"
      BY <1>1, <1>3, <2>2 DEF Touched
    <3>2. \A i \in T : chain[i].mint = m => ~HeardOf(chain, e, i)
      BY <3>1 DEF HeardOf
    <3>3. \A i \in T : ~(chain[i].mint = m /\ chain[i].sec = s)
      BY <1>6, <3>2 DEF Keeps, Book, Remembered
    <3>4. <<m, s>> \notin DOMAIN e.buckets
      BY <3>2 DEF Keeps, Book, Shelved
    <3>5. QED
      BY <1>1, <3>3, <3>4, TallyOfNone DEF BucketAt
  <2>3. QED
    BY <2>1, <2>2
<1>11. Followed(chain, f, T, P)
  <2>1. \A j \in T : HeardOf(chain, f, j) \/ Ahead(chain, P, j)
    BY <1>5 DEF Keeps, Followed
  <2>2. ASSUME NEW m \in Mints, f.state[m].status \in {"absent", "active"} PROVE Latest(chain, f, T, P, m)
    <3>1. e.state[m].status \in {"absent", "active"} /\ Latest(chain, e, T, P, m)
      <4>1. e.state[m].status \in {"absent", "active"}
        BY <1>1, <1>3, <2>2 DEF Touched
      <4>2. QED
        BY <4>1 DEF Keeps, Followed
    <3>2. CASE f.state[m].provenEpoch = e.state[m].provenEpoch
      BY <1>1, <1>4, <3>1, <3>2 DEF Latest, Missed
    <3>3. CASE m = x /\ e.state[m] = NoState
      <4>1. ASSUME NEW j \in T, chain[j].mint = m PROVE Missed(chain, f, P, j)
        <5>1. ~isCreate /\ f.state[m].provenEpoch = -1
          BY <3>3, <4>1 DEF Touched
        <5>2. Ahead(chain, P, j)
          BY <1>3, <3>3, <4>1 DEF Keeps, Followed, HeardOf
        <5>3. QED
          BY <1>1, <4>1, <5>1, <5>2 DEF Missed
      <4>2. f.state[m].curve = NoCurve
        BY <1>3, <1>4, <3>3
      <4>3. QED
        BY <4>1, <4>2 DEF Latest
    <3>4. QED
      BY <1>1, <3>2, <3>3 DEF Touched
  <2>3. QED
    BY <2>1, <2>2 DEF Followed
<1>12. QED
  BY <1>1, <1>7, <1>8, <1>9, <1>10, <1>11 DEF Keeps, Book

\* What the engine is told of a trade.
TradeOf(chain, i, ev) ==
  /\ ev.mint = chain[i].mint /\ ev.sec = chain[i].sec /\ ev.slot = chain[i].slot
  /\ ev.isBuy = (chain[i].to > chain[i].from) /\ ev.sol = Lamports(chain[i])
  /\ ev.tok = Abs(Ladder[chain[i].to].vt - Ladder[chain[i].from].vt) /\ ev.post = Ladder[chain[i].to]

\* The curve follows the order of execution, also within a slot.
LEMMA CurveFollows ==
  ASSUME NEW chain, NEW T, NEW P, Parts(chain, T, P), NEW i \in TradesIn(chain) \ T, NEW ev, TradeOf(chain, i, ev),
         NEW curve
  PROVE  /\ curve = NoCurve => Shows(chain, UpdateCurve(curve, ev), i)
         /\ \A k \in T : chain[k].mint = chain[i].mint /\ Shows(chain, curve, k) =>
              IF k < i THEN Shows(chain, UpdateCurve(curve, ev), i) ELSE i < k /\ UpdateCurve(curve, ev) = curve
<1>1. PICK tx : tx = chain[i]
  OBVIOUS
<1>2. /\ i \in DOMAIN chain /\ i \in Nat /\ tx.from \in DOMAIN Ladder /\ tx.to \in DOMAIN Ladder /\ tx.slot \in Nat
      /\ IsTrade(tx)
  BY <1>1 DEF Parts, Executes, TradesIn
<1>3. PICK pre : pre = PreTradeState(ev.post, ev.isBuy, ev.sol, ev.tok)
  OBVIOUS
<1>4. pre = Ladder[tx.from] /\ ev.post = Ladder[tx.to] /\ ev.slot = tx.slot
  <2>1. ev.post = Ladder[tx.to] /\ ev.slot = tx.slot
    BY <1>1 DEF TradeOf
  <2>2. ev.sol = Abs(Ladder[tx.to].vs - Ladder[tx.from].vs)
    BY <1>1, <1>2 DEF TradeOf, Lamports
  <2>3. ev.tok = Abs(Ladder[tx.to].vt - Ladder[tx.from].vt) /\ ev.isBuy = (tx.to > tx.from)
    BY <1>1 DEF TradeOf
  <2>4. PreTradeState(Ladder[tx.to], tx.to > tx.from, Abs(Ladder[tx.to].vs - Ladder[tx.from].vs),
                      Abs(Ladder[tx.to].vt - Ladder[tx.from].vt)) = Ladder[tx.from]
    BY <1>2, Rungs
  <2>5. QED
    BY <1>3, <2>1, <2>2, <2>3, <2>4
<1>5. PICK new : /\ new.post = ev.post /\ new.pre = pre /\ new.slot = ev.slot
                 /\ UpdateCurve(curve, ev) =
                      IF /\ curve # NoCurve
                         /\ \/ ev.slot < curve.slot
                            \/ pre # curve.post /\ ev.slot = curve.slot /\ curve.pre = ev.post
                      THEN curve ELSE new
  <2>1. PICK new : new = [post |-> ev.post, pre |-> pre, mode |-> ev.mode, slot |-> ev.slot, sec |-> ev.sec,
                          stepOk |-> IsConstantProductStep(ev.post, ev.isBuy, ev.sol, ev.tok)]
    OBVIOUS
  <2>2. ChainLinks(curve.post, ev.post, ev.isBuy, ev.sol, ev.tok) <=> pre = curve.post
    BY <1>3 DEF ChainLinks
  <2>3. UpdateCurve(curve, ev) =
          IF /\ curve # NoCurve
             /\ \/ ev.slot < curve.slot
                \/ pre # curve.post /\ ev.slot = curve.slot /\ curve.pre = ev.post
          THEN curve ELSE new
    BY <1>3, <2>1, <2>2 DEF UpdateCurve
  <2>4. QED
    BY <2>1, <2>3
<1>6. Shows(chain, new, i)
  <2>1. new # NoCurve
    <3>1. NoCurve.slot = -1 /\ new.slot \in Nat
      BY <1>2, <1>4, <1>5 DEF NoCurve
    <3>2. QED
      BY <3>1
  <2>2. QED
    BY <1>1, <1>4, <1>5, <2>1 DEF Shows
<1>7. ASSUME curve = NoCurve PROVE Shows(chain, UpdateCurve(curve, ev), i)
  BY <1>5, <1>6, <1>7
<1>8. ASSUME NEW k \in T, chain[k].mint = chain[i].mint, Shows(chain, curve, k)
      PROVE  IF k < i THEN Shows(chain, UpdateCurve(curve, ev), i) ELSE i < k /\ UpdateCurve(curve, ev) = curve
  <2>1. PICK old : old = chain[k]
    OBVIOUS
  <2>2. /\ k \in DOMAIN chain /\ k \in Nat /\ old.from \in DOMAIN Ladder /\ old.to \in DOMAIN Ladder
        /\ old.slot \in Nat /\ IsTrade(old) /\ k # i
    BY <2>1 DEF Parts, Executes, TradesIn
  <2>3. curve # NoCurve /\ curve.post = Ladder[old.to] /\ curve.pre = Ladder[old.from] /\ curve.slot = old.slot
    BY <1>8, <2>1 DEF Shows
  <2>4. CASE k < i
    <3>1. old.slot <= tx.slot /\ (old.slot = tx.slot => tx.from = old.to)
      BY <1>1, <1>2, <1>8, <2>1, <2>2, <2>4 DEF Parts, Executes, Follows
    <3>2. ~(ev.slot < curve.slot)
      BY <1>2, <1>4, <2>2, <2>3, <3>1
    <3>3. ev.slot = curve.slot => pre = curve.post
      BY <1>4, <2>3, <3>1
    <3>4. UpdateCurve(curve, ev) = new
      BY <1>5, <3>2, <3>3
    <3>5. QED
      BY <1>6, <2>4, <3>4
  <2>5. CASE i < k
    <3>1. tx.slot <= old.slot /\ (tx.slot = old.slot => old.from = tx.to /\ tx.from # old.to)
      BY <1>1, <1>2, <1>8, <2>1, <2>2, <2>5 DEF Parts, Executes, Follows
    <3>2. CASE tx.slot < old.slot
      BY <1>2, <1>4, <1>5, <2>2, <2>3, <2>5, <3>2
    <3>3. CASE tx.slot = old.slot
      <4>1. curve.pre = ev.post /\ ev.slot = curve.slot
        BY <1>4, <2>3, <3>1, <3>3
      <4>2. pre # curve.post
        BY <1>2, <1>4, <2>2, <2>3, <3>1, <3>3, Rungs
      <4>3. UpdateCurve(curve, ev) = curve
        BY <1>5, <2>3, <4>1, <4>2
      <4>4. QED
        BY <1>2, <2>2, <2>5, <4>3
    <3>4. QED
      BY <1>2, <2>2, <3>1, <3>2, <3>3
  <2>6. QED
    BY <1>2, <2>2, <2>4, <2>5
<1>9. QED
  BY <1>7, <1>8

\* A trade is counted: it is settled now.
LEMMA KeepsCounted ==
  ASSUME NEW chain, NEW e, NEW f, NEW T, NEW P, Parts(chain, T, P), Keeps(chain, e, T, P),
         NEW i \in TradesIn(chain) \intersect P, NEW ev, TradeOf(chain, i, ev), Counted(e, f, ev),
         HeardOf(chain, e, i), Recent(e, chain[i].sec), chain[i].sec <= e.watermark
  PROVE  Keeps(chain, f, T \union {i}, P \ {i})
<1> DEFINE R == T \union {i}
           Q == P \ {i}
<1>0. PICK x \in Mints, sec \in Nat : x = chain[i].mint /\ sec = chain[i].sec
  BY DEF Parts, Executes, TradesIn
<1>1. /\ Sound(e) /\ Shape(e) /\ Sound(f) /\ Shape(f) /\ Dated(e) /\ e.epoch \in Nat \ {0} /\ f.epoch \in Nat
      /\ f.watermark = e.watermark /\ x = ev.mint /\ sec = ev.sec
      /\ \A m \in Mints \ {x} : f.state[m] = e.state[m]
      /\ f.state[x].status # "absent" /\ f.state[x].lastEventSec = e.state[x].lastEventSec
      /\ f.state[x].createdInEpoch = e.state[x].createdInEpoch
  BY <1>0 DEF Keeps, Book, Counted, Sound, Shape, TradeOf
<1>2. /\ i \in DOMAIN chain /\ i \notin T /\ i \in P
      /\ \A j \in R : chain[j].mint \in Mints /\ chain[j].sec \in Nat
  BY DEF Parts, Executes, TradesIn
<1>3. /\ e.state[x].status # "active" => f = e
      /\ e.state[x].status = "active" /\ ev.quote # "native" =>
           /\ f.state[x].status # "active"
           /\ f.coverageSince = e.coverageSince /\ f.epoch = e.epoch /\ f.buckets = e.buckets
      /\ e.state[x].status = "active" /\ ev.quote = "native" =>
           /\ f.state[x].status = "active" /\ f.state[x].curve = UpdateCurve(e.state[x].curve, ev)
           /\ \/ f.coverageSince = e.coverageSince /\ f.epoch = e.epoch /\ f.buckets = Added(e, ev)
              \/ f.coverageSince = -1 /\ f.epoch = e.epoch + 1 /\ f.buckets = EnforceCap(Added(e, ev))
  BY <1>1 DEF Counted
<1>4. \A j \in R : HeardOf(chain, e, j) => HeardOf(chain, f, j)
  BY <1>1, <1>2 DEF HeardOf
<1>5. \A m \in Mints : f.state[m].createdInEpoch = e.state[m].createdInEpoch
  BY <1>1
<1>6. \/ f.coverageSince = e.coverageSince /\ f.epoch = e.epoch
      \/ f.coverageSince = -1 /\ f.epoch = e.epoch + 1
  BY <1>3
<1>7. Dated(f)
  BY <1>1, <1>5, <1>6 DEF Dated
<1>8. /\ f.buckets = [k \in DOMAIN f.buckets |-> f.buckets[k]]
      /\ DOMAIN f.buckets \subseteq DOMAIN e.buckets \union {<<x, sec>>}
      /\ f.coverageSince # -1 => \A m, s : <<m, s>> # <<x, sec>> => BucketAt(f.buckets, m, s) = BucketAt(e.buckets, m, s)
  <2>1. CASE f.buckets = e.buckets
    BY <2>1 DEF Keeps, Book, Shelved
  <2>2. PICK b : b = Added(e, ev)
    OBVIOUS
  <2>3. /\ b = [k \in DOMAIN b |-> b[k]] /\ DOMAIN b = DOMAIN e.buckets \union {<<x, sec>>}
        /\ \A k \in DOMAIN e.buckets : k # <<x, sec>> => b[k] = e.buckets[k]
    <3>1. PICK new : b = [k \in DOMAIN e.buckets \union {<<x, sec>>} |-> IF k = <<x, sec>> THEN new ELSE e.buckets[k]]
      BY <1>1, <2>2 DEF Added, BucketsAdd
    <3>2. QED
      BY <3>1
  <2>4. CASE f.buckets = b
    BY <2>3, <2>4 DEF BucketAt
  <2>5. CASE f.coverageSince = -1 /\ f.buckets = EnforceCap(b)
    <3>1. EnforceCap(b) = [k \in DOMAIN EnforceCap(b) |-> EnforceCap(b)[k]] /\ DOMAIN EnforceCap(b) \subseteq DOMAIN b
      <4>1. PICK keys : EnforceCap(b) = Restricted(b, keys) /\ keys \subseteq DOMAIN b
        <5> DEFINE From(s) == {k \in DOMAIN b : k[2] >= s}
                   cuts == {s \in {k[2] : k \in DOMAIN b} : Cardinality(From(s)) <= MaxBuckets}
        <5>1. EnforceCap(b) = Restricted(b, IF cuts = {} THEN {} ELSE From(Min(cuts)))
          BY DEF EnforceCap
        <5>2. (IF cuts = {} THEN {} ELSE From(Min(cuts))) \subseteq DOMAIN b
          OBVIOUS
        <5> HIDE DEF cuts, From
        <5>3. QED
          BY <5>1, <5>2
      <4>2. QED
        BY <4>1 DEF Restricted
    <3>2. QED
      BY <2>3, <2>5, <3>1
  <2>6. QED
    BY <1>3, <2>1, <2>2, <2>4, <2>5
<1>9. Shelved(chain, f, R)
  <2> SUFFICES ASSUME NEW k \in DOMAIN f.buckets
               PROVE  \E j \in R : /\ k = <<chain[j].mint, chain[j].sec>>
                                   /\ Recent(f, chain[j].sec) /\ chain[j].sec <= f.watermark
                                   /\ HeardOf(chain, f, j)
    BY <1>8 DEF Shelved
  <2>1. CASE k \in DOMAIN e.buckets
    BY <1>1, <1>4, <2>1 DEF Keeps, Book, Shelved, Recent
  <2>2. CASE k = <<x, sec>>
    BY <1>0, <1>1, <1>4, <2>2 DEF Recent
  <2>3. QED
    BY <1>8, <2>1, <2>2
<1>10. \A m \in Mints, s \in Int : Covers(f, m, s) => f.coverageSince = e.coverageSince /\ f.epoch = e.epoch /\ Covers(e, m, s)
  BY <1>5, <1>6 DEF Covers
<1>11. Remembered(chain, f, R)
  <2> SUFFICES ASSUME NEW j \in R, Recent(f, chain[j].sec), Covers(f, chain[j].mint, chain[j].sec)
               PROVE  HeardOf(chain, f, j)
    BY DEF Remembered
  <2>1. CASE j = i
    BY <1>4, <2>1
  <2>2. CASE j \in T
    <3>1. Recent(e, chain[j].sec) /\ Covers(e, chain[j].mint, chain[j].sec)
      BY <1>1, <1>2, <1>10 DEF Recent
    <3>2. QED
      BY <1>4, <2>2, <3>1 DEF Keeps, Book, Remembered
  <2>3. QED
    BY <2>1, <2>2
<1>12. Exact(chain, f, R)
  <2> SUFFICES ASSUME NEW m \in Mints, NEW s \in Int, f.state[m].status = "active", Recent(f, s), Covers(f, m, s)
               PROVE  BucketAt(f.buckets, m, s) = Tally(chain, R, m, s)
    BY DEF Exact
  <2>1. e.state[m].status = "active" /\ (m = x => ev.quote = "native")
    BY <1>1, <1>3
  <2>2. Recent(e, s) /\ Covers(e, m, s) /\ f.coverageSince # -1
    BY <1>1, <1>10 DEF Recent, Covers
  <2>3. BucketAt(e.buckets, m, s) = Tally(chain, T, m, s)
    BY <2>1, <2>2 DEF Keeps, Book, Exact
  <2>4. CASE <<m, s>> # <<x, sec>>
    <3>1. i \in DOMAIN chain \ T /\ ~(chain[i].mint = m /\ chain[i].sec = s)
      BY <1>0, <1>2, <2>4
    <3>2. Tally(chain, T \union {i}, m, s) = Tally(chain, T, m, s)
      <4>1. PICK mm, y, S : mm = m /\ y = s /\ S = T
        OBVIOUS
      <4>2. ~(chain[i].mint = mm /\ chain[i].sec = y)
        BY <3>1, <4>1
      <4>3. Tally(chain, S \union {i}, mm, y) = Tally(chain, S, mm, y)
        BY <4>2, TallyElsewhere
      <4>4. QED
        BY <4>1, <4>3
    <3>3. QED
      BY <1>8, <2>2, <2>3, <2>4, <3>2
  <2>5. CASE m = x /\ s = sec
    <3>1. f.buckets = Added(e, ev)
      BY <1>3, <2>1, <2>2, <2>5
    <3>2. PICK old : old = Tally(chain, T, m, s)
      OBVIOUS
    <3>3. PICK new : new = [lamports |-> old.lamports + ev.sol, count |-> old.count + 1,
                            buys |-> old.buys + (IF ev.isBuy THEN 1 ELSE 0)]
      OBVIOUS
    <3>4. f.buckets = [k \in DOMAIN e.buckets \union {<<x, sec>>} |-> IF k = <<x, sec>> THEN new ELSE e.buckets[k]]
      BY <1>1, <2>3, <2>5, <3>1, <3>2, <3>3 DEF Added, BucketsAdd
    <3>5. BucketAt(f.buckets, m, s) = new
      <4>1. PICK k : k = <<x, sec>>
        OBVIOUS
      <4>2. k \in DOMAIN f.buckets /\ f.buckets[k] = new
        BY <3>4, <4>1
      <4>3. QED
        BY <2>5, <4>1, <4>2 DEF BucketAt
    <3>6. Tally(chain, R, m, s) = new
      <4>1. ev.sol = Lamports(chain[i]) /\ ev.isBuy = (chain[i].to > chain[i].from)
        BY DEF TradeOf
      <4>2. Tally(chain, R, m, s) = [lamports |-> old.lamports + Lamports(chain[i]), count |-> old.count + 1,
                                     buys |-> old.buys + (IF chain[i].to > chain[i].from THEN 1 ELSE 0)]
        BY <1>0, <1>2, <2>5, <3>2, TallyGrows
      <4>3. QED
        BY <3>3, <4>1, <4>2
    <3>7. QED
      BY <3>5, <3>6
  <2>6. QED
    BY <2>4, <2>5
<1>13. \A j : Ahead(chain, P, j) => Ahead(chain, Q, j)
  BY DEF Ahead
<1>14. ASSUME NEW m \in Mints, f.state[m].status \in {"absent", "active"} PROVE Latest(chain, f, R, Q, m)
  <2>1. e.state[m].status \in {"absent", "active"} /\ Latest(chain, e, T, P, m)
    <3>1. e.state[m].status \in {"absent", "active"}
      BY <1>1, <1>3, <1>14
    <3>2. QED
      BY <3>1 DEF Keeps, Followed
  <2>2. CASE m # x
    <3>1. e.state[m].provenEpoch \in Int /\ e.state[m].provenEpoch <= e.epoch
      BY <1>1 DEF Shape, Mint, Sound, Proofs
    <3>0. f.state[m] = e.state[m] /\ (e.state[m].provenEpoch # e.epoch => f.state[m].provenEpoch # f.epoch)
      BY <1>1, <1>6, <2>2, <3>1
    <3>2. \A j \in T : chain[j].mint = m /\ Missed(chain, e, P, j) => Missed(chain, f, Q, j)
      BY <1>13, <3>0 DEF Missed
    <3>3. f.state[m] = e.state[m] /\ \A j \in R : chain[j].mint = m => j \in T
      BY <1>0, <1>1, <2>2
    <3>4. QED
      BY <2>1, <3>2, <3>3 DEF Latest
  <2>3. CASE m = x
    <3>1. e.state[x].status = "active" /\ ev.quote = "native"
      BY <1>1, <1>3, <1>14, <2>1, <2>3 DEF HeardOf
    <3>2. f.state[x].curve = UpdateCurve(e.state[x].curve, ev)
      BY <1>3, <3>1
    <3>3. \A j \in T : chain[j].mint = x /\ Missed(chain, e, P, j) => j < i
      BY <1>0, <1>2 DEF Missed, Ahead
    <3>4. \A j \in R : j \in Nat
      BY DEF Parts, Executes, TradesIn
    <3>5. CASE /\ e.state[x].curve = NoCurve
               /\ \A j \in T : chain[j].mint = x => Missed(chain, e, P, j)
      <4>1. Shows(chain, f.state[x].curve, i)
        BY <1>2, <3>2, <3>5, CurveFollows
      <4>2. \A j \in R : chain[j].mint = x => j <= i
        BY <3>3, <3>4, <3>5
      <4>3. QED
        BY <1>0, <2>3, <4>1, <4>2 DEF Latest
    <3>6. ASSUME NEW k \in T, chain[k].mint = x, Shows(chain, e.state[x].curve, k),
                 \A j \in T : chain[j].mint = x => j <= k \/ Missed(chain, e, P, j)
          PROVE  Latest(chain, f, R, Q, m)
      <4>1. IF k < i THEN Shows(chain, f.state[x].curve, i) ELSE i < k /\ f.state[x].curve = e.state[x].curve
        BY <1>0, <1>2, <3>2, <3>6, CurveFollows
      <4>2. CASE k < i
        <5>1. \A j \in R : chain[j].mint = x => j <= i
          BY <3>3, <3>4, <3>6, <4>2
        <5>2. QED
          BY <1>0, <2>3, <4>1, <4>2, <5>1 DEF Latest
      <4>3. CASE i < k
        <5>1. \A j \in R : chain[j].mint = x => j <= k
          BY <3>3, <3>4, <3>6, <4>3
        <5>2. ~(k < i)
          BY <3>4, <4>3
        <5>3. QED
          BY <2>3, <3>6, <4>1, <5>1, <5>2 DEF Latest
      <4>4. QED
        BY <4>1, <4>2, <4>3
    <3>7. QED
      BY <2>1, <2>3, <3>5, <3>6 DEF Latest
  <2>4. QED
    BY <2>2, <2>3
<1>15. \A j \in R : HeardOf(chain, f, j) \/ Ahead(chain, Q, j)
  BY <1>4, <1>13 DEF Keeps, Followed
<1>16. Followed(chain, f, R, Q)
  BY <1>14, <1>15 DEF Followed
<1>17. QED
  BY <1>1, <1>7, <1>9, <1>11, <1>12, <1>16 DEF Keeps, Book

\* A creation or a graduation is noted: what the books hold of the mint stays,
\* and a mint that is dated or proven by it has no trade yet.
Noted(chain, e, f, T, x) ==
  /\ Sound(f) /\ e.coverageSince # -1 /\ f.coverageSince = e.coverageSince
  /\ f.epoch = e.epoch /\ f.watermark = e.watermark /\ f.buckets = e.buckets
  /\ \A m \in Mints \ {x} : f.state[m] = e.state[m]
  /\ f.state[x].curve = e.state[x].curve /\ f.state[x].lastEventSec = e.state[x].lastEventSec
  /\ f.state[x].status # "absent" /\ (f.state[x].status = "active" => e.state[x].status = "active")
  /\ \/ f.state[x].createdInEpoch = e.state[x].createdInEpoch /\ f.state[x].provenEpoch = e.state[x].provenEpoch
     \/ /\ f.state[x].createdInEpoch \in {e.state[x].createdInEpoch, e.epoch}
        /\ \A i \in T : chain[i].mint # x

LEMMA KeepsNoted ==
  ASSUME NEW chain, NEW e, NEW f, NEW T, NEW P, Parts(chain, T, P), Keeps(chain, e, T, P),
         NEW x \in Mints, Noted(chain, e, f, T, x)
  PROVE  Keeps(chain, f, T, P)
<1>1. /\ Sound(e) /\ Sound(f) /\ Dated(e) /\ e.epoch \in Nat \ {0}
      /\ f.coverageSince # -1 /\ f.coverageSince = e.coverageSince
      /\ f.epoch = e.epoch /\ f.watermark = e.watermark /\ f.buckets = e.buckets
      /\ \A m \in Mints \ {x} : f.state[m] = e.state[m]
  BY DEF Keeps, Book, Noted, Sound, Shape
<1>2. /\ f.state[x].curve = e.state[x].curve /\ f.state[x].lastEventSec = e.state[x].lastEventSec
      /\ f.state[x].status # "absent" /\ (f.state[x].status = "active" => e.state[x].status = "active")
  BY DEF Noted
<1>3. \A i \in T : chain[i].mint \in Mints /\ chain[i].sec \in Nat
  BY DEF Parts, Executes, TradesIn
<1>4. \A i \in T : HeardOf(chain, e, i) => HeardOf(chain, f, i)
  BY <1>1, <1>2, <1>3 DEF HeardOf
<1>5. ASSUME NEW m \in Mints, ~(m = x /\ \A i \in T : chain[i].mint # x)
      PROVE  f.state[m].createdInEpoch = e.state[m].createdInEpoch /\ f.state[m].provenEpoch = e.state[m].provenEpoch
  BY <1>1, <1>5 DEF Noted
<1>6. Dated(f)
  <2>1. f.state[x].createdInEpoch \in {e.state[x].createdInEpoch, e.epoch}
    BY DEF Noted
  <2>2. \A m \in Mints : f.state[m].createdInEpoch \in {e.state[m].createdInEpoch, e.epoch}
    BY <1>1, <2>1
  <2>3. QED
    BY <1>1, <2>2 DEF Dated
<1>7. Shelved(chain, f, T)
  BY <1>1, <1>4 DEF Keeps, Book, Shelved, Recent
<1>8. Remembered(chain, f, T)
  <2> SUFFICES ASSUME NEW i \in T, Recent(f, chain[i].sec), Covers(f, chain[i].mint, chain[i].sec)
               PROVE  HeardOf(chain, f, i)
    BY DEF Remembered
  <2>1. Covers(e, chain[i].mint, chain[i].sec) /\ Recent(e, chain[i].sec)
    BY <1>1, <1>3, <1>5 DEF Covers, Recent
  <2>2. QED
    BY <1>4, <2>1 DEF Keeps, Book, Remembered
<1>9. Exact(chain, f, T)
  <2> SUFFICES ASSUME NEW m \in Mints, NEW s \in Int, f.state[m].status = "active", Recent(f, s), Covers(f, m, s)
               PROVE  BucketAt(f.buckets, m, s) = Tally(chain, T, m, s)
    BY DEF Exact
  <2>1. CASE m = x /\ \A i \in T : chain[i].mint # x
    <3>1. <<m, s>> \notin DOMAIN e.buckets
      BY <2>1 DEF Keeps, Book, Shelved
    <3>2. \A i \in T : ~(chain[i].mint = m /\ chain[i].sec = s)
      BY <2>1
    <3>3. QED
      BY <1>1, <3>1, <3>2, TallyOfNone DEF BucketAt
  <2>2. CASE ~(m = x /\ \A i \in T : chain[i].mint # x)
    <3>1. e.state[m].status = "active"
      BY <1>1, <1>2
    <3>2. Covers(e, m, s) /\ Recent(e, s)
      BY <1>1, <1>5, <2>2 DEF Covers, Recent
    <3>3. QED
      BY <1>1, <3>1, <3>2 DEF Keeps, Book, Exact
  <2>3. QED
    BY <2>1, <2>2
<1>10. Followed(chain, f, T, P)
  <2>1. \A j \in T : HeardOf(chain, f, j) \/ Ahead(chain, P, j)
    BY <1>4 DEF Keeps, Followed
  <2>2. ASSUME NEW m \in Mints, f.state[m].status \in {"absent", "active"} PROVE Latest(chain, f, T, P, m)
    <3>1. Latest(chain, e, T, P, m) /\ f.state[m].curve = e.state[m].curve
      <4>1. e.state[m].status \in {"absent", "active"} /\ f.state[m].curve = e.state[m].curve
        BY <1>1, <1>2, <2>2
      <4>2. QED
        BY <4>1 DEF Keeps, Followed
    <3>2. CASE m = x /\ \A i \in T : chain[i].mint # x
      BY <3>1, <3>2 DEF Latest
    <3>3. CASE ~(m = x /\ \A i \in T : chain[i].mint # x)
      <4>1. f.state[m].provenEpoch = e.state[m].provenEpoch
        BY <1>5, <3>3
      <4>2. QED
        BY <1>1, <3>1, <4>1 DEF Latest, Missed
    <3>4. QED
      BY <3>2, <3>3
  <2>3. QED
    BY <2>1, <2>2 DEF Followed
<1>11. QED
  BY <1>1, <1>6, <1>7, <1>8, <1>9, <1>10 DEF Keeps, Book

\* An event that comes in the order of the stream: nothing settled is later,
\* unless the engine is past it, and nothing under way is older than the
\* settling time.
Timely(chain, e, T, P, sec) ==
  /\ \A i \in T : chain[i].sec <= e.watermark \/ chain[i].sec <= sec
  /\ \A p \in P : chain[p].sec > Later(sec, e.watermark) - Settle

\* What an event has made of the engine by the time that it is looked at.
Reached(chain, e, f, T, P, x, sec) ==
  /\ Keeps(chain, f, T, P) /\ f.coverageSince # -1 /\ f.epoch = e.epoch /\ f.connected = e.connected
  /\ f.watermark = Later(sec, e.watermark)
  /\ f.state[x].status # "absent" /\ f.state[x].lastEventSec >= sec

LEMMA KeepsLanded ==
  ASSUME IsFiniteSet(Mints), Idle >= Retention,
         NEW chain, NEW e, NEW T, NEW P, Parts(chain, T, P), Keeps(chain, e, T, P), e.connected,
         NEW x \in Mints, Room(e, x), NEW id \in Nat, NEW sec \in Nat, NEW isCreate \in BOOLEAN,
         isCreate => \A i \in T : chain[i].mint # x,
         Timely(chain, e, T, P, sec)
  PROVE  Reached(chain, e, Landed(e, x, id, sec, isCreate), T, P, x, sec)
<1>1. PICK f : f = Landed(e, x, id, sec, isCreate)
  OBVIOUS
<1>2. Sound(e)
  BY DEF Keeps, Book
<1>3. PICK d, g : Listed(e, d, id, sec) /\ Advanced(d, g, sec) /\ Touched(g, f, x, sec, isCreate)
  BY <1>1, <1>2, Lands
<1>4. Keeps(chain, d, T, P)
  <2>1. Sound(d) /\ SameBooks(e, d)
    BY <1>3 DEF Listed, SameBooks
  <2>2. QED
    BY <2>1, KeepsAlike
<1>5. d.watermark = e.watermark /\ g.watermark = Later(sec, e.watermark)
  BY <1>3 DEF Listed, Advanced
<1>6. Keeps(chain, g, T, P)
  <2>1. \A i \in T : chain[i].sec <= d.watermark \/ chain[i].sec <= sec
    BY <1>5 DEF Timely
  <2>2. \A p \in P : chain[p].sec > g.watermark - Settle
    BY <1>5 DEF Timely
  <2>3. QED
    BY <1>3, <1>4, <2>1, <2>2, KeepsAdvanced
<1>7. Keeps(chain, f, T, P)
  BY <1>3, <1>6, KeepsTouched
<1>8. /\ f.coverageSince # -1 /\ f.epoch = e.epoch /\ f.connected = e.connected
      /\ f.watermark = Later(sec, e.watermark)
      /\ f.state[x].status # "absent" /\ f.state[x].lastEventSec >= sec
  BY <1>3, <1>5 DEF Listed, Advanced, Touched
<1>9. QED
  BY <1>1, <1>7, <1>8 DEF Reached

\* A trade that the engine hears of.
LEMMA KeepsTrade ==
  ASSUME IsFiniteSet(Mints), Idle >= Retention,
         NEW chain, NEW e, NEW T, NEW P, Parts(chain, T, P), Keeps(chain, e, T, P), e.connected,
         NEW i \in TradesIn(chain) \intersect P, NEW ev, TradeOf(chain, i, ev),
         ev.quote \in Quotes, ev.id \in Nat, Room(e, chain[i].mint),
         NEW t, InTime(e, chain[i].sec, t), ~Knows(e.seen, ev.id),
         Timely(chain, e, T, P, chain[i].sec)
  PROVE  Keeps(chain, AcceptTrade(e, ev, t), T \union {i}, P \ {i})
<1>1. PICK x \in Mints, sec \in Nat : x = chain[i].mint /\ sec = chain[i].sec
  BY DEF Parts, Executes, TradesIn
<1>2. PICK id \in Nat, c \in BOOLEAN : id = ev.id /\ ~c
  OBVIOUS
<1>3. PICK g : g = Landed(e, x, id, sec, c)
  OBVIOUS
<1>4. Reached(chain, e, g, T, P, x, sec)
  BY <1>1, <1>2, <1>3, KeepsLanded
<1>5. ev.mint = x /\ ev.sec = sec
  BY <1>1 DEF TradeOf
<1>6. PICK f : f = CountTrade(g, ev)
  OBVIOUS
<1>7. AcceptTrade(e, ev, t) = f
  BY <1>1, <1>2, <1>3, <1>5, <1>6 DEF AcceptTrade, Landed
<1>8. Counted(g, f, ev)
  <2>1. Sound(g) /\ g.coverageSince # -1 /\ g.state[ev.mint].status # "absent"
    BY <1>4, <1>5 DEF Reached, Keeps, Book
  <2>2. QED
    BY <1>5, <1>6, <2>1, Counts
<1>9. e.watermark \in Int /\ g.watermark = Later(sec, e.watermark) /\ Retention \in Nat
  BY <1>4, VolumeAssumption DEF Reached, Keeps, Book, Sound, Shape
<1>10. HeardOf(chain, g, i)
  BY <1>1, <1>4 DEF Reached, HeardOf
<1>11. Recent(g, chain[i].sec) /\ chain[i].sec <= g.watermark
  <2>1. e.watermark >= -1
    BY DEF Keeps, Book, Sound, Shape
  <2>2. QED
    BY <1>1, <1>9, <2>1 DEF Recent, Later, InTime
<1>12. Keeps(chain, f, T \union {i}, P \ {i})
  BY <1>4, <1>8, <1>10, <1>11, KeepsCounted DEF Reached
<1>13. QED
  BY <1>7, <1>12

\* An event of x at a second.
EventAt(ev, x, sec) == ev.mint = x /\ ev.sec = sec /\ ev.quote \in Quotes /\ ev.id \in Nat

\* A creation or a graduation.
LEMMA KeepsLifecycle ==
  ASSUME IsFiniteSet(Mints), Idle >= Retention,
         NEW chain, NEW e, NEW T, NEW P, Parts(chain, T, P), Keeps(chain, e, T, P), e.connected,
         NEW x \in Mints, NEW sec \in Nat, NEW ev, EventAt(ev, x, sec), Room(e, x),
         NEW t, InTime(e, sec, t), ~Knows(e.seen, ev.id),
         ev.kind = "create" => \A i \in T : chain[i].mint # x,
         Timely(chain, e, T, P, sec)
  PROVE  Reached(chain, e, AcceptLifecycle(e, ev, t), T, P, x, sec)
<1>1. PICK id \in Nat, created \in BOOLEAN : id = ev.id /\ created = (ev.kind = "create")
  BY DEF EventAt
<1>2. PICK g : g = Landed(e, x, id, sec, created)
  OBVIOUS
<1>3. Reached(chain, e, g, T, P, x, sec)
  BY <1>1, <1>2, KeepsLanded
<1>4. ev.mint = x /\ ev.sec = sec /\ ev.quote \in Quotes
  BY DEF EventAt
<1>5. /\ Sound(g) /\ Shape(g) /\ Proofs(g) /\ IsEngine(g) /\ Mint(g.state[x]) /\ g.epoch \in Nat \ {0}
      /\ g.state[x].status # "absent" /\ g.coverageSince # -1
  BY <1>3 DEF Reached, Keeps, Book, Sound, Shape
<1>6. ASSUME NEW f, NEW s, Mint(s), s.status # "absent", s.lastEventSec = g.state[x].lastEventSec,
             s.curve = g.state[x].curve, s.status = "active" => g.state[x].status = "active",
             s.provenEpoch \in {g.state[x].provenEpoch, g.epoch},
             \/ s.createdInEpoch = g.state[x].createdInEpoch /\ s.provenEpoch = g.state[x].provenEpoch
             \/ s.createdInEpoch \in {g.state[x].createdInEpoch, g.epoch} /\ created,
             f = [g EXCEPT !.state[x] = s]
      PROVE  Reached(chain, e, f, T, P, x, sec)
  <2>1. /\ f.coverageSince = g.coverageSince /\ f.epoch = g.epoch /\ f.connected = g.connected
        /\ f.watermark = g.watermark /\ f.seen = g.seen /\ f.awaiting = g.awaiting /\ f.buckets = g.buckets
        /\ f.state = [g.state EXCEPT ![x] = s] /\ IsEngine(f)
    BY <1>5, <1>6 DEF IsEngine
  <2>2. Shape(f) /\ f.state[x] = s /\ \A m \in Mints \ {x} : f.state[m] = g.state[m]
    <3>1. Rewritten(g, f, x, s) /\ Shape(g) /\ Mint(s)
      BY <1>5, <1>6, <2>1 DEF Rewritten
    <3>2. QED
      BY <3>1, Rewrites
  <2>3. Proofs(f)
    <3>1. \A m \in Mints : f.state[m] = g.state[m] \/ f.state[m].provenEpoch \in {g.state[m].provenEpoch, g.epoch}
      BY <1>6, <2>2
    <3>2. QED
      BY <1>5, <2>1, <3>1 DEF Proofs
  <2>4. Sound(f)
    BY <2>2, <2>3 DEF Sound
  <2>5. Noted(chain, g, f, T, x)
    BY <1>1, <1>5, <1>6, <2>1, <2>2, <2>4 DEF Noted
  <2>6. Keeps(chain, f, T, P)
    BY <1>3, <2>5, KeepsNoted DEF Reached
  <2>7. QED
    BY <1>3, <1>6, <2>1, <2>2, <2>6 DEF Reached
<1>7. CASE ~created
  <2>1. PICK s : s = [g.state[x] EXCEPT !.status = "graduated"]
    OBVIOUS
  <2>2. /\ IsMintState(s) /\ s.status = "graduated" /\ s.provenEpoch = g.state[x].provenEpoch
        /\ s.lastEventSec = g.state[x].lastEventSec /\ s.curve = g.state[x].curve
        /\ s.createdInEpoch = g.state[x].createdInEpoch
    BY <1>5, <2>1 DEF IsMintState, Mint
  <2>3. Mint(s)
    BY <1>5, <2>2 DEF Mint, Statuses
  <2>4. PICK f : f = [g EXCEPT !.state[x] = s]
    OBVIOUS
  <2>5. AcceptLifecycle(e, ev, t) = f
    <3>1. AcceptLifecycle(e, ev, t) = [g EXCEPT !.state[x].status = "graduated"]
      BY <1>1, <1>2, <1>4, <1>7 DEF AcceptLifecycle, Landed
    <3>2. QED
      BY <2>1, <2>4, <3>1
  <2>6. Reached(chain, e, f, T, P, x, sec)
    BY <1>6, <2>2, <2>3, <2>4
  <2>7. QED
    BY <2>5, <2>6
<1>8. CASE created
  <2>1. PICK s : s = NoteCreation(g.state[x], ev, g.epoch)
    OBVIOUS
  <2>2. PICK f : f = [g EXCEPT !.state[x] = s]
    OBVIOUS
  <2>3. AcceptLifecycle(e, ev, t) = f
    <3>1. AcceptLifecycle(e, ev, t) = [g EXCEPT !.state[x] = NoteCreation(@, ev, g.epoch)]
      BY <1>1, <1>2, <1>4, <1>8 DEF AcceptLifecycle, Landed
    <3>2. QED
      BY <2>1, <2>2, <3>1
  <2>4. PICK st : st = g.state[x]
    OBVIOUS
  <2>5. PICK dated : dated = IF st.creationSec = -1
                             THEN [st EXCEPT !.creationSec = ev.sec, !.createdInEpoch = g.epoch] ELSE st
    OBVIOUS
  <2>6. IsMintState(st)
    BY <1>5, <2>4 DEF Mint
  <2>7. /\ IsMintState(dated) /\ dated.status = st.status /\ dated.provenEpoch = st.provenEpoch
        /\ dated.lastEventSec = st.lastEventSec /\ dated.curve = st.curve
        /\ dated.createdInEpoch \in {st.createdInEpoch, g.epoch}
    <3>1. CASE st.creationSec = -1
      BY <2>5, <2>6, <3>1 DEF IsMintState
    <3>2. CASE st.creationSec # -1
      BY <2>5, <2>6, <3>2
    <3>3. QED
      BY <3>1, <3>2
  <2>8. s = IF ev.quote = "native" THEN [dated EXCEPT !.provenEpoch = g.epoch]
            ELSE IF st.status = "active" THEN [dated EXCEPT !.status = ev.quote] ELSE dated
    BY <2>1, <2>4, <2>5 DEF NoteCreation
  <2>9. /\ IsMintState(s) /\ s.lastEventSec = st.lastEventSec /\ s.curve = st.curve
        /\ s.createdInEpoch \in {st.createdInEpoch, g.epoch}
        /\ s.provenEpoch \in {st.provenEpoch, g.epoch}
        /\ s.status = st.status \/ (st.status = "active" /\ ev.quote # "native" /\ s.status = ev.quote)
    <3>1. CASE ev.quote = "native"
      BY <2>7, <2>8, <3>1 DEF IsMintState
    <3>2. CASE ev.quote # "native" /\ st.status = "active"
      BY <2>7, <2>8, <3>2 DEF IsMintState
    <3>3. CASE ev.quote # "native" /\ st.status # "active"
      BY <2>7, <2>8, <3>3
    <3>4. QED
      BY <3>1, <3>2, <3>3
  <2>10. s.status # "absent" /\ (s.status = "active" => st.status = "active")
    BY <1>4, <1>5, <2>4, <2>9 DEF Quotes
  <2>11. Mint(s)
    BY <1>4, <1>5, <2>4, <2>9, <2>10 DEF Mint, Statuses, Quotes
  <2>12. Reached(chain, e, f, T, P, x, sec)
    BY <1>6, <1>8, <2>2, <2>4, <2>9, <2>10, <2>11
  <2>13. QED
    BY <2>3, <2>12
<1>9. QED
  BY <1>7, <1>8

\* One more event executes, the notification of which is still to come.
LEMMA KeepsLonger ==
  ASSUME NEW chain, NEW c, NEW e, NEW T, NEW P, NEW q, Parts(chain, T, P), Parts(c, T, P \union {q}),
         Keeps(chain, e, T, P),
         DOMAIN chain \subseteq DOMAIN c, \A i \in DOMAIN chain : c[i] = chain[i] /\ i < q
  PROVE  Keeps(c, e, T, P \union {q})
<1>1. T \subseteq DOMAIN chain /\ P \subseteq DOMAIN chain /\ q \in DOMAIN c
  BY DEF Parts, TradesIn
<1>2. \A i \in T : HeardOf(c, e, i) <=> HeardOf(chain, e, i)
  BY <1>1 DEF HeardOf
<1>3. ASSUME NEW m, NEW s PROVE Tally(c, T, m, s) = Tally(chain, T, m, s)
  <2>1. PICK S : S = InSecond(chain, T, m, s)
    OBVIOUS
  <2>2. InSecond(c, T, m, s) = S /\ S \subseteq DOMAIN chain /\ S \subseteq DOMAIN c
    BY <1>1, <2>1 DEF InSecond
  <2>3. BuysIn(c, S) = BuysIn(chain, S)
    BY <2>2 DEF BuysIn
  <2>4. SumFunctionOnSet(Amounts(c), S) = SumFunctionOnSet(Amounts(chain), S)
    <3>1. PICK f, g, D, R : f = Amounts(chain) /\ g = Amounts(c) /\ D = DOMAIN chain /\ R = DOMAIN c
      OBVIOUS
    <3>2. f \in [D -> Int] /\ g \in [R -> Int] /\ IsFiniteSet(D) /\ IsFiniteSet(R)
      BY <3>1, AmountsOf DEF Parts
    <3>3. S \in SUBSET D /\ S \subseteq R /\ \A x \in S : f[x] = g[x]
      BY <2>2, <3>1 DEF Amounts
    <3>4. SumFunctionOnSet(f, S) = SumFunctionOnSet(g, S)
      BY <3>2, <3>3, SumSame
    <3>5. QED
      BY <3>1, <3>4
  <2>5. QED
    BY <2>1, <2>2, <2>3, <2>4 DEF Tally
<1>4. Book(c, e, T)
  <2>1. Shelved(c, e, T)
    <3> SUFFICES ASSUME NEW k \in DOMAIN e.buckets
                 PROVE  \E i \in T : /\ k = <<c[i].mint, c[i].sec>>
                                     /\ Recent(e, c[i].sec) /\ c[i].sec <= e.watermark
                                     /\ HeardOf(c, e, i)
      BY DEF Shelved, Keeps, Book
    <3>1. PICK i \in T : /\ k = <<chain[i].mint, chain[i].sec>>
                         /\ Recent(e, chain[i].sec) /\ chain[i].sec <= e.watermark
                         /\ HeardOf(chain, e, i)
      BY DEF Shelved, Keeps, Book
    <3>2. QED
      BY <1>1, <1>2, <3>1
  <2>2. Remembered(c, e, T)
    BY <1>1, <1>2 DEF Remembered, Keeps, Book
  <2>3. Exact(c, e, T)
    BY <1>3 DEF Exact, Keeps, Book
  <2>4. QED
    BY <2>1, <2>2, <2>3 DEF Keeps, Book
<1>5. \A j \in T : Ahead(chain, P, j) => Ahead(c, P \union {q}, j)
  BY <1>1 DEF Ahead
<1>6. \A j \in T : Missed(chain, e, P, j) => Missed(c, e, P \union {q}, j)
  BY <1>1, <1>5 DEF Missed
<1>7. ASSUME NEW m \in Mints, Latest(chain, e, T, P, m) PROVE Latest(c, e, T, P \union {q}, m)
  <2>1. \A k \in T : Shows(chain, e.state[m].curve, k) => Shows(c, e.state[m].curve, k)
    BY <1>1 DEF Shows
  <2>2. QED
    BY <1>1, <1>6, <1>7, <2>1 DEF Latest
<1>8. Followed(c, e, T, P \union {q})
  BY <1>2, <1>5, <1>7 DEF Followed, Keeps
<1>9. QED
  BY <1>4, <1>8 DEF Keeps

------------------------------------------------------------------------------
\* The chain.

LEMMA LastOf ==
  ASSUME Executes(emitted), NEW m, IndicesOf(m) # {}
  PROVE  \E k \in IndicesOf(m) : /\ \A j \in IndicesOf(m) : j <= k
                                 /\ Position(m) = emitted[k].to /\ LastSlot(m) = emitted[k].slot
<1>1. PICK n \in Nat : DOMAIN emitted = 1..n
  BY DEF Executes
<1>2. PICK S \in SUBSET (0..n) : S = IndicesOf(m)
  <2>1. 1..n \subseteq 0..n
    OBVIOUS
  <2>2. IndicesOf(m) \subseteq 1..n
    BY <1>1 DEF IndicesOf
  <2>3. QED
    BY <2>1, <2>2
<1>3. PICK x \in S : \A y \in S : y <= x
  BY <1>2, Greatest
<1>4. Max(S) \in S /\ \A y \in S : y <= Max(S)
  <2>1. \A y \in S : x >= y
    BY <1>3
  <2>2. Max(S) \in S /\ \A y \in S : Max(S) >= y
    BY <2>1 DEF Max
  <2>3. QED
    BY <2>2
<1>5. Position(m) = emitted[Max(S)].to /\ LastSlot(m) = emitted[Max(S)].slot
  BY <1>2 DEF Position, LastSlot
<1>6. QED
  BY <1>2, <1>4, <1>5

\* Where a mint stands and where it can go are rungs of the ladder, and a mint
\* that has an event is not created again.
LEMMA MovesOnLadder ==
  ASSUME Executes(emitted), world \in Worlds, NEW m \in Mints, NEW kind \in Kinds,
         NEW n, NEW to \in Moves(m, kind, n)
  PROVE  /\ Later(1, Position(m)) \in DOMAIN Ladder /\ to \in DOMAIN Ladder
         /\ IndicesOf(m) # {} => kind # "create" /\ Later(1, Position(m)) = Position(m)
<1>1. PICK l \in Nat : l = Len(Ladder) /\ DOMAIN Ladder = 1..l /\ l >= 2
  BY StreamAssumption
<1>2. PICK at \in 0..l : at = Position(m)
  <2>1. CASE IndicesOf(m) = {}
    BY <1>1, <2>1, StreamAssumption DEF Position
  <2>2. CASE IndicesOf(m) # {}
    <3>1. PICK k \in DOMAIN emitted : Position(m) = emitted[k].to
      BY <2>2, LastOf DEF IndicesOf
    <3>2. QED
      BY <1>1, <3>1 DEF Executes
  <2>3. QED
    BY <2>1, <2>2
<1>3. to \in DOMAIN Ladder
  BY <1>1, <1>2 DEF Moves, Kinds
<1>4. Later(1, at) \in DOMAIN Ladder /\ (at # 0 => Later(1, at) = at)
  BY <1>1, <1>2 DEF Later
<1>5. IndicesOf(m) # {} => at # 0
  BY <1>1, <1>2, LastOf DEF IndicesOf, Executes
<1>6. at # 0 => kind # "create"
  BY <1>2 DEF Moves
<1>7. QED
  BY <1>2, <1>3, <1>4, <1>5, <1>6

\* What an event appends to the chain.
Appended(l, event) ==
  /\ l \in Nat /\ l = Len(emitted) /\ DOMAIN emitted = 1..l
  /\ (\E S : emitted' \in Seq(S)) /\ DOMAIN emitted' = 1..l + 1 /\ emitted'[l + 1] = event
  /\ \A i \in 1..l : emitted'[i] = emitted[i]
  /\ pending' = pending \union {l + 1}

LEMMA Appends ==
  ASSUME Executes(emitted), NEW m, NEW kind, NEW to, NEW s, NEW n, Execute(m, kind, to, s, n)
  PROVE  \E l, event :
           /\ Appended(l, event)
           /\ event = [mint |-> m, kind |-> kind, tx |-> n, from |-> Later(1, Position(m)), to |-> to,
                       slot |-> s, sec |-> now]
<1>1. PICK S : emitted \in Seq(S)
  BY DEF Executes
<1>2. PICK l \in Nat : l = Len(emitted) /\ DOMAIN emitted = 1..l
  BY <1>1
<1>3. PICK event : event = [mint |-> m, kind |-> kind, tx |-> n, from |-> Later(1, Position(m)), to |-> to,
                            slot |-> s, sec |-> now]
  OBVIOUS
<1>4. emitted' = Append(emitted, event) /\ pending' = pending \union {l + 1}
  BY <1>2, <1>3 DEF Execute
<1>5. /\ emitted' \in Seq(S \union {event}) /\ DOMAIN emitted' = 1..l + 1
      /\ emitted'[l + 1] = event /\ \A i \in 1..l : emitted'[i] = emitted[i]
  <2>1. emitted \in Seq(S \union {event})
    BY <1>1
  <2>2. QED
    BY <1>2, <1>4, <2>1, AppendProperties
<1>6. QED
  BY <1>2, <1>3, <1>4, <1>5 DEF Appended

\* The next event of a mint follows each one before it.
LEMMA NextFollows ==
  ASSUME Executes(emitted), world \in Worlds, NEW m \in Trading, NEW kind \in Kinds, NEW n,
         NEW to \in Moves(m, kind, n), NEW s \in Slots(m, n), Execute(m, kind, to, s, n), NEW event,
         event = [mint |-> m, kind |-> kind, tx |-> n, from |-> Later(1, Position(m)), to |-> to,
                  slot |-> s, sec |-> now],
         NEW i \in IndicesOf(m)
  PROVE  Follows(emitted[i], event)
<1>1. PICK k \in IndicesOf(m) : /\ \A j \in IndicesOf(m) : j <= k
                                /\ Position(m) = emitted[k].to /\ LastSlot(m) = emitted[k].slot
  BY LastOf
<1>2. /\ i \in DOMAIN emitted /\ k \in DOMAIN emitted /\ i \in Nat /\ k \in Nat /\ i <= k /\ m \in Mints
      /\ emitted[i].slot \in Nat /\ emitted[k].slot \in Nat /\ emitted[i].mint = m /\ emitted[k].mint = m
  BY <1>1 DEF IndicesOf, Executes, Trading
<1>3. event.kind # "create" /\ event.kind = kind /\ event.from = emitted[k].to /\ event.slot = s /\ event.to = to
  BY <1>1, <1>2, MovesOnLadder
<1>4. i # k => Follows(emitted[i], emitted[k])
  BY <1>2 DEF Executes
<1>5. s = emitted[k].slot \/ s = emitted[k].slot + 1
  BY <1>1 DEF Slots
<1>6. emitted[i].slot <= emitted[k].slot /\ emitted[i].slot <= event.slot
  BY <1>2, <1>3, <1>4, <1>5 DEF Follows
<1>7. \A j \in IndicesOf(m) : emitted[j].kind # "complete"
  BY DEF Trading, Graduated
<1>8. ASSUME IsTrade(emitted[i]), IsTrade(event), emitted[i].slot = event.slot
      PROVE  event.from = emitted[i].to /\ emitted[i].from # event.to
  <2>1. s = emitted[k].slot /\ emitted[i].slot = s
    BY <1>2, <1>3, <1>5, <1>6, <1>8
  <2>2. OrderRecoverable(m, Later(1, Position(m)), to, s)
    BY <1>3, <1>8 DEF Execute, IsTrade
  <2>3. i \in InSlot(m, s)
    BY <1>8, <2>1 DEF InSlot
  <2>4. emitted[i].from # to
    BY <2>2, <2>3 DEF OrderRecoverable
  <2>5. i = k
    <3> SUFFICES ASSUME i # k PROVE FALSE
      OBVIOUS
    <3>1. IsTrade(emitted[k])
      BY <1>2, <1>4, <1>7 DEF Executes, Follows, IsTrade, Kinds
    <3>2. k \in InSlot(m, s)
      BY <2>1, <3>1 DEF InSlot
    <3>3. IsFiniteSet(InSlot(m, s)) /\ Cardinality(InSlot(m, s)) \in Nat
      <4>1. PICK l \in Nat : DOMAIN emitted = 1..l
        BY DEF Executes
      <4>2. InSlot(m, s) \subseteq 1..l
        BY <4>1 DEF InSlot, IndicesOf
      <4>3. IsFiniteSet(1..l)
        BY <4>1, FS_Interval
      <4>4. PICK R, U : U \in SUBSET R /\ R = 1..l /\ U = InSlot(m, s)
        BY <4>2
      <4>5. IsFiniteSet(U)
        BY <4>3, <4>4, FS_Subset
      <4>6. QED
        BY <4>4, <4>5, FS_CardinalityType
    <3>a. PICK A : A = {i}
      OBVIOUS
    <3>b. PICK B : B = A \union {k}
      OBVIOUS
    <3>4. A = {i} /\ B = A \union {k} /\ k \notin A
      BY <3>a, <3>b
    <3>5. Cardinality(B) = 2 /\ Cardinality(B) <= Cardinality(InSlot(m, s))
      <4>1. IsFiniteSet(A) /\ Cardinality(A) = 1
        BY <3>4, FS_Singleton
      <4>2. Cardinality(A \union {k}) = Cardinality(A) + 1
        BY <3>4, <4>1, FS_AddElement
      <4>3. B \subseteq InSlot(m, s)
        BY <2>3, <3>2, <3>4
      <4>4. Cardinality(B) <= Cardinality(InSlot(m, s))
        BY <3>3, <4>3, FS_Subset
      <4>5. QED
        BY <3>4, <4>1, <4>2, <4>4
    <3>6. PICK c \in Nat : c = Cardinality(InSlot(m, s)) /\ c < 2
      BY <2>2, <3>3 DEF OrderRecoverable
    <3>7. QED
      BY <3>5, <3>6
  <2>6. QED
    BY <1>3, <2>4, <2>5
<1>9. QED
  BY <1>3, <1>6, <1>7, <1>8 DEF Follows

\* A transaction that goes on is the last one, of this second.
LEMMA NextTransaction ==
  ASSUME Executes(emitted), pending \subseteq DOMAIN emitted, NEW n \in Transactions
  PROVE  /\ n \in Nat
         /\ \A i \in DOMAIN emitted : emitted[i].tx <= n /\ (emitted[i].tx = n => emitted[i].sec = now)
<1>1. PICK l \in Nat : l = Len(emitted) /\ DOMAIN emitted = 1..l
  BY DEF Executes
<1>2. CASE l = 0
  <2>1. emitted = <<>>
    <3>1. PICK S : emitted \in Seq(S)
      BY DEF Executes
    <3>2. QED
      BY <1>1, <1>2, <3>1, EmptySeq
  <2>2. n = 1
    BY <1>1, <1>2, <2>1 DEF Transactions, LastTx
  <2>3. QED
    BY <1>1, <1>2, <2>2
<1>3. CASE l > 0
  <2>1. l \in DOMAIN emitted /\ Last(emitted) = emitted[l] /\ emitted # <<>>
    BY <1>1, <1>3 DEF Last
  <2>2. PICK last \in Nat : last = emitted[l].tx /\ LastTx = last
    BY <2>1 DEF LastTx, Executes
  <2>3. \A i \in DOMAIN emitted : emitted[i].tx \in Nat /\ emitted[i].tx <= last
    BY <1>1, <2>1, <2>2 DEF Executes
  <2>4. n = last + 1 \/ (n = last /\ emitted[l].sec = now)
    BY <2>1, <2>2 DEF Transactions
  <2>5. \A i \in DOMAIN emitted : emitted[i].tx = last => emitted[i].sec = emitted[l].sec
    BY <2>1, <2>2 DEF Executes
  <2>6. QED
    BY <2>2, <2>3, <2>4, <2>5
<1>4. QED
  BY <1>1, <1>2, <1>3

\* The chain goes on as it began.
LEMMA ExecutesOn ==
  ASSUME Executes(emitted), world \in Worlds, pending \subseteq DOMAIN emitted,
         now \in Nat, \A i \in DOMAIN emitted : emitted[i].sec <= now,
         NEW m \in Trading, NEW kind \in Kinds, NEW n \in Transactions, NEW to \in Moves(m, kind, n),
         NEW s \in Slots(m, n), Execute(m, kind, to, s, n)
  PROVE  Executes(emitted)'
<1>1. PICK l, event : /\ Appended(l, event)
                      /\ event = [mint |-> m, kind |-> kind, tx |-> n, from |-> Later(1, Position(m)), to |-> to,
                                  slot |-> s, sec |-> now]
  BY Appends
<1>2. m \in Mints
  BY DEF Trading
<1>3. s \in Nat
  <2>1. LastSlot(m) \in Nat
    <3>1. CASE IndicesOf(m) = {}
      BY <3>1 DEF LastSlot
    <3>2. CASE IndicesOf(m) # {}
      BY <3>2, LastOf DEF IndicesOf, Executes
    <3>3. QED
      BY <3>1, <3>2
  <2>2. QED
    BY <2>1 DEF Slots
<1>a. n \in Nat /\ \A i \in DOMAIN emitted : emitted[i].tx <= n /\ (emitted[i].tx = n => emitted[i].sec = now)
  BY NextTransaction
<1>4. /\ event.mint \in Mints /\ event.kind \in Kinds /\ event.sec \in Nat /\ event.slot \in Nat /\ event.tx \in Nat
      /\ event.from \in DOMAIN Ladder /\ event.to \in DOMAIN Ladder
      /\ event.mint = m /\ event.sec = now /\ event.tx = n
  BY <1>1, <1>2, <1>3, <1>a, MovesOnLadder
<1>5. /\ l \in Nat /\ DOMAIN emitted = 1..l /\ (\E S : emitted' \in Seq(S)) /\ DOMAIN emitted' = 1..l + 1
      /\ emitted'[l + 1] = event /\ \A i \in 1..l : emitted'[i] = emitted[i]
  BY <1>1 DEF Appended
<1>6. \A i \in DOMAIN emitted' : i \in 1..l \/ i = l + 1
  BY <1>5
<1>7. \A i \in DOMAIN emitted' :
        /\ emitted'[i].mint \in Mints /\ emitted'[i].kind \in Kinds
        /\ emitted'[i].sec \in Nat /\ emitted'[i].slot \in Nat /\ emitted'[i].tx \in Nat
        /\ emitted'[i].from \in DOMAIN Ladder /\ emitted'[i].to \in DOMAIN Ladder
  BY <1>4, <1>5, <1>6 DEF Executes
<1>8. ASSUME NEW i \in DOMAIN emitted', NEW j \in DOMAIN emitted', i <= j
      PROVE  emitted'[i].sec <= emitted'[j].sec /\ emitted'[i].tx <= emitted'[j].tx
  <2>1. CASE j \in 1..l
    <3>1. i \in 1..l
      BY <1>5, <1>8, <2>1
    <3>2. QED
      BY <1>5, <1>8, <2>1, <3>1 DEF Executes
  <2>2. CASE j = l + 1 /\ i \in 1..l
    BY <1>4, <1>5, <1>a, <2>2
  <2>3. CASE j = l + 1 /\ i = l + 1
    BY <1>4, <1>5, <2>3
  <2>4. QED
    BY <1>6, <2>1, <2>2, <2>3
<1>b. ASSUME NEW i \in DOMAIN emitted', NEW j \in DOMAIN emitted', emitted'[i].tx = emitted'[j].tx
      PROVE  emitted'[i].sec = emitted'[j].sec
  <2>1. CASE i \in 1..l /\ j \in 1..l
    BY <1>5, <1>b, <2>1 DEF Executes
  <2>2. CASE i = l + 1 /\ j \in 1..l
    BY <1>4, <1>5, <1>a, <1>b, <2>2
  <2>3. CASE i \in 1..l /\ j = l + 1
    BY <1>4, <1>5, <1>a, <1>b, <2>3
  <2>4. CASE i = l + 1 /\ j = l + 1
    BY <2>4
  <2>5. QED
    BY <1>6, <2>1, <2>2, <2>3, <2>4
<1>9. ASSUME NEW i \in DOMAIN emitted', NEW j \in DOMAIN emitted', emitted'[i].mint = emitted'[j].mint, i < j
      PROVE  Follows(emitted'[i], emitted'[j])
  <2>1. i \in 1..l
    BY <1>5, <1>9
  <2>2. CASE j \in 1..l
    <3>1. Follows(emitted[i], emitted[j])
      BY <1>5, <1>9, <2>1, <2>2 DEF Executes
    <3>2. QED
      BY <1>5, <2>1, <2>2, <3>1
  <2>3. CASE j = l + 1
    <3>1. i \in IndicesOf(m)
      BY <1>4, <1>5, <1>9, <2>1, <2>3 DEF IndicesOf
    <3>2. Follows(emitted[i], event)
      BY <1>1, <3>1, NextFollows
    <3>3. QED
      BY <1>5, <2>1, <2>3, <3>2
  <2>4. QED
    BY <1>6, <2>2, <2>3
<1>10. QED
  BY <1>5, <1>7, <1>8, <1>b, <1>9 DEF Executes

------------------------------------------------------------------------------
\* What holds of the engine while it is told.  P is under way, Q was torn off a
\* cut notification since the last break of coverage, E may arrive once more.

Settled(chain, P, Q) == TradesIn(chain) \ (P \union Q)
MarkOf(chain, i) == [id |-> i, sec |-> chain[i].sec]

\* What has arrived is known to the engine or too old for it, and what was torn
\* off is older than its coverage.
Heeds(chain, t, e, P, Q, E) ==
  /\ Sound(e) /\ e.watermark <= t
  /\ P \subseteq DOMAIN chain /\ Q \subseteq DOMAIN chain \ P /\ E \subseteq DOMAIN chain \ P
  /\ \A a \in Range(e.seen) : a.id \in DOMAIN chain \ P
  /\ \A i \in E : Refuses(e, MarkOf(chain, i))
  /\ \A j \in Q : e.coverageSince = -1 \/ chain[j].sec < e.coverageSince

\* The news that the curve of a mint has ended is under way or torn off, or has
\* been told (and perhaps forgotten since, when it was long past), or is lost
\* and the mint unproven, with nothing under way that could prove it.
Told(chain, e, i) ==
  LET st == e.state[chain[i].mint] IN
  \/ st.status = "graduated" /\ st.lastEventSec >= chain[i].sec
  \/ st = NoState /\ chain[i].sec < e.watermark - Retention
Lost(chain, e, P, i) ==
  /\ e.state[chain[i].mint].provenEpoch # e.epoch
  /\ \A p \in P : chain[p].mint # chain[i].mint
NewsKept(chain, e, P, Q) ==
  \A i \in DOMAIN chain : chain[i].kind = "complete" =>
    i \in P \union Q \/ Told(chain, e, i) \/ Lost(chain, e, P, i)

\* The invariant of the engine between two events of a notification, and
\* between two notifications.
Hold(chain, t, e, P, Q, E) ==
  /\ Heeds(chain, t, e, P, Q, E)
  /\ NewsKept(chain, e, P, Q)
  /\ Orderly(chain, e, Settled(chain, P, Q), P)
  /\ Keeps(chain, e, Settled(chain, P, Q), P)

\* None of the engine's tables evicts when what is under way arrives.
MintsOf(chain, P) == {chain[p].mint : p \in P}
RoomFor(chain, e, P) ==
  /\ Len(e.seen) + Cardinality(P) <= MaxSeen
  /\ Cardinality(Tracked(e) \union MintsOf(chain, P)) <= MaxMintStates

\* An event that may be told next.
Due(chain, t, P, Q, i) ==
  /\ i \in P /\ chain[i].sec <= t
  /\ \A p \in P : chain[p].sec > chain[i].sec - Settle
  /\ \A p \in P : IsTrade(chain[i]) /\ chain[p].kind = "create" => chain[p].mint # chain[i].mint
  /\ \A j \in Q : chain[j].sec <= chain[i].sec

\* What the engine is told of it.
NewsOf(chain, i, ev) ==
  /\ EventAt(ev, chain[i].mint, chain[i].sec) /\ ev.id = i
  /\ IsTrade(chain[i]) => ev.kind = "trade" /\ TradeOf(chain, i, ev)
  /\ chain[i].kind = "create" => ev.kind = "create"
  /\ chain[i].kind = "complete" => ev.kind = "graduate"

\* The chain, the parts of it, and the numbers that the engine compares.
LEMMA HoldsParts ==
  ASSUME NEW chain, NEW t, NEW e, NEW P, NEW Q, NEW E, Executes(chain), Hold(chain, t, e, P, Q, E)
  PROVE  /\ Parts(chain, Settled(chain, P, Q), P)
         /\ DOMAIN chain \subseteq Nat /\ IsFiniteSet(DOMAIN chain)
         /\ \A i \in DOMAIN chain : chain[i].sec \in Nat /\ chain[i].mint \in Mints /\ chain[i].kind \in Kinds
         /\ P \subseteq DOMAIN chain /\ Q \subseteq DOMAIN chain \ P
         /\ Sound(e) /\ Shape(e) /\ e.watermark \in Int /\ e.watermark >= -1 /\ e.epoch \in Nat
         /\ {Settle, Retention, Idle, FutureTolerance} \subseteq Nat /\ Retention >= Settle
         /\ e.coverageSince \in Int
<1>1. PICK n \in Nat : DOMAIN chain = 1..n
  BY DEF Executes
<1>2. IsFiniteSet(DOMAIN chain) /\ DOMAIN chain \subseteq Nat
  BY <1>1, FS_Interval
<1>3. P \subseteq DOMAIN chain /\ Q \subseteq DOMAIN chain \ P /\ Sound(e)
  BY DEF Hold, Heeds
<1>4. Parts(chain, Settled(chain, P, Q), P)
  BY <1>2, <1>3 DEF Parts, Settled
<1>5. {Settle, Retention, Idle, FutureTolerance, Window} \subseteq Nat /\ Retention >= Settle
  BY VolumeAssumption
<1>6. Shape(e) /\ e.watermark \in Int /\ e.watermark >= -1 /\ e.epoch \in Nat
  BY <1>3 DEF Sound, Shape
<1>7. e.coverageSince \in Int
  BY DEF Hold, Keeps, Book, Dated
<1>8. \A i \in DOMAIN chain : chain[i].sec \in Nat /\ chain[i].mint \in Mints /\ chain[i].kind \in Kinds
  BY DEF Executes
<1>9. QED
  BY <1>2, <1>3, <1>4, <1>5, <1>6, <1>7, <1>8

\* An event comes in time and is not known, and the tables have room for it.
LEMMA DueInTime ==
  ASSUME IsFiniteSet(Mints), NEW chain, NEW t \in Nat, NEW e, NEW P, NEW Q, NEW E, Executes(chain), Hold(chain, t, e, P, Q, E),
         RoomFor(chain, e, P), NEW i, Due(chain, t, P, Q, i)
  PROVE  /\ InTime(e, chain[i].sec, t) /\ ~Knows(e.seen, i) /\ Room(e, chain[i].mint)
         /\ Timely(chain, e, Settled(chain, P, Q), P, chain[i].sec)
         /\ chain[i].sec >= e.watermark - Settle
<1>1. /\ DOMAIN chain \subseteq Nat /\ IsFiniteSet(DOMAIN chain) /\ P \subseteq DOMAIN chain /\ i \in P /\ i \in DOMAIN chain
      /\ \A j \in DOMAIN chain : chain[j].sec \in Nat /\ chain[j].mint \in Mints
      /\ e.watermark \in Int /\ e.watermark >= -1 /\ Settle \in Nat /\ Retention \in Nat /\ FutureTolerance \in Nat
      /\ Retention >= Settle /\ Parts(chain, Settled(chain, P, Q), P)
  BY HoldsParts DEF Due
<1>2. Orderly(chain, e, Settled(chain, P, Q), P)
  BY DEF Hold
<1>3. chain[i].sec > e.watermark - Settle
  BY <1>1, <1>2 DEF Orderly
<1>4. InTime(e, chain[i].sec, t)
  <2>1. chain[i].sec <= t /\ chain[i].sec \in Nat
    BY <1>1 DEF Due
  <2>2. QED
    BY <1>1, <1>3, <2>1 DEF InTime
<1>5. ~Knows(e.seen, i)
  BY <1>1 DEF Knows, Hold, Heeds, Range
<1>6. Room(e, chain[i].mint)
  <2>1. IsFiniteSet(P) /\ Cardinality(P) \in Nat /\ Cardinality(P) # 0
    BY <1>1, FS_Subset, FS_CardinalityType, FS_EmptySet
  <2>2. Len(e.seen) \in Nat
    <3>1. e.seen \in Seq(Arrivals)
      BY DEF Hold, Heeds, Sound, Shape
    <3>2. QED
      BY <3>1, LenProperties
  <2>3. Len(e.seen) < MaxSeen
    <3>1. MaxSeen \in Nat
      BY VolumeAssumption
    <3>2. Len(e.seen) + Cardinality(P) <= MaxSeen
      BY DEF RoomFor
    <3>3. QED
      BY <2>1, <2>2, <3>1, <3>2
  <2>4. PICK A, B : A = Tracked(e) \union MintsOf(chain, P) /\ B = Tracked(e) \union {chain[i].mint}
    OBVIOUS
  <2>5. A \subseteq Mints /\ B \subseteq A
    BY <1>1, <2>4 DEF Tracked, MintsOf
  <2>6. IsFiniteSet(A) /\ Cardinality(B) <= Cardinality(A) /\ Cardinality(A) \in Nat /\ Cardinality(B) \in Nat
    BY <2>5, FS_Subset, FS_CardinalityType
  <2>7. Cardinality(B) <= MaxMintStates
    <3>1. Cardinality(A) <= MaxMintStates /\ MaxMintStates \in Nat
      BY <2>4, VolumeAssumption DEF RoomFor
    <3>2. QED
      BY <2>6, <3>1
  <2>8. QED
    BY <2>3, <2>4, <2>7 DEF Room
<1>7. Timely(chain, e, Settled(chain, P, Q), P, chain[i].sec)
  <2>1. \A j \in Settled(chain, P, Q) : chain[j].sec <= e.watermark \/ chain[j].sec <= chain[i].sec
    BY <1>1, <1>2 DEF Orderly
  <2>2. \A p \in P : chain[p].sec > Later(chain[i].sec, e.watermark) - Settle
    BY <1>2 DEF Orderly, Later, Due
  <2>3. QED
    BY <2>1, <2>2 DEF Timely
<1>8. QED
  BY <1>1, <1>3, <1>4, <1>5, <1>6, <1>7

\* The next three are what one event keeps: of the stream, of the news of
\* completions, and of the order.
LEMMA HeedsMore ==
  ASSUME NEW chain, NEW t \in Nat, NEW e, NEW P, NEW Q, NEW E, Executes(chain), Hold(chain, t, e, P, Q, E),
         NEW i, Due(chain, t, P, Q, i), NEW f, NEW x, NEW sec, x = chain[i].mint, sec = chain[i].sec,
         Accepted(e, f, {MarkOf(chain, i)}, x, sec)
  PROVE  Heeds(chain, t, f, P \ {i}, Q, E \union {i})
<1>1. /\ DOMAIN chain \subseteq Nat /\ P \subseteq DOMAIN chain /\ i \in P /\ i \in DOMAIN chain /\ i \notin Q
      /\ \A j \in DOMAIN chain : chain[j].sec \in Nat
      /\ Shape(e) /\ e.watermark \in Int /\ e.watermark <= t /\ sec \in Nat /\ sec <= t
  <2>1. /\ DOMAIN chain \subseteq Nat /\ P \subseteq DOMAIN chain /\ Q \subseteq DOMAIN chain \ P
        /\ \A j \in DOMAIN chain : chain[j].sec \in Nat
        /\ Shape(e) /\ e.watermark \in Int
    BY HoldsParts
  <2>2. i \in P /\ sec <= t
    BY DEF Due
  <2>3. e.watermark <= t
    BY DEF Hold, Heeds
  <2>4. QED
    BY <2>1, <2>2, <2>3
<1>2. f.watermark = Later(sec, e.watermark) /\ Sound(f)
  BY DEF Accepted
<1>3. f.watermark \in Int /\ f.watermark <= t /\ f.watermark >= sec
  BY <1>1, <1>2 DEF Later
<1>4. \A a \in Range(f.seen) : a.id \in DOMAIN chain \ (P \ {i})
  <2> SUFFICES ASSUME NEW a \in Range(f.seen) PROVE a.id \in DOMAIN chain \ (P \ {i})
    OBVIOUS
  <2>1. a \in Range(e.seen) \/ a.id = i
    BY DEF Accepted, MarkOf
  <2>2. QED
    BY <1>1, <2>1 DEF Hold, Heeds
<1>5. ASSUME NEW j \in E \union {i} PROVE Refuses(f, MarkOf(chain, j))
  <2>1. PICK a : a = MarkOf(chain, j)
    OBVIOUS
  <2>2. j \in DOMAIN chain /\ a.sec \in Nat
    BY <1>1, <2>1 DEF Hold, Heeds, MarkOf
  <2>3. Refuses(e, a) \/ a \in {MarkOf(chain, i)}
    BY <2>1 DEF Hold, Heeds
  <2>4. QED
    BY <1>1, <2>1, <2>2, <2>3, KeepsRefusing
<1>6. ASSUME NEW j \in Q PROVE f.coverageSince = -1 \/ chain[j].sec < f.coverageSince
  <2>1. f.coverageSince \in {-1, e.coverageSince, f.watermark + 1}
    BY DEF Accepted
  <2>2. e.coverageSince = -1 \/ chain[j].sec < e.coverageSince
    BY DEF Hold, Heeds
  <2>3. chain[j].sec <= sec /\ chain[j].sec \in Nat
    BY <1>1 DEF Due, Hold, Heeds
  <2>4. chain[j].sec < f.watermark + 1
    BY <1>1, <1>3, <2>3
  <2>5. QED
    BY <2>1, <2>2, <2>4
<1>7. P \ {i} \subseteq DOMAIN chain /\ Q \subseteq DOMAIN chain \ (P \ {i}) /\ E \union {i} \subseteq DOMAIN chain \ (P \ {i})
  BY <1>1 DEF Hold, Heeds
<1>8. QED
  BY <1>2, <1>3, <1>4, <1>5, <1>6, <1>7 DEF Heeds

LEMMA NewsGoesOn ==
  ASSUME Idle >= Retention, NEW chain, NEW t \in Nat, NEW e, NEW P, NEW Q, NEW E, Executes(chain), Hold(chain, t, e, P, Q, E),
         NEW i, Due(chain, t, P, Q, i), NEW f, NEW x, NEW sec, x = chain[i].mint, sec = chain[i].sec,
         Accepted(e, f, {MarkOf(chain, i)}, x, sec),
         chain[i].kind = "complete" => f.state[x].status = "graduated"
  PROVE  NewsKept(chain, f, P \ {i}, Q)
<1>1. /\ DOMAIN chain \subseteq Nat /\ P \subseteq DOMAIN chain /\ i \in P /\ i \in DOMAIN chain
      /\ \A j \in DOMAIN chain : chain[j].sec \in Nat /\ chain[j].mint \in Mints
      /\ Shape(e) /\ e.watermark \in Int /\ sec \in Nat /\ Sound(e)
      /\ {Retention, Idle, Settle} \subseteq Nat /\ Retention >= Settle
  BY HoldsParts DEF Due
<1>2. f.watermark = Later(sec, e.watermark) /\ Sound(f) /\ f.epoch >= e.epoch
  BY DEF Accepted
<1>3. f.watermark \in Int /\ f.watermark >= e.watermark
  BY <1>1, <1>2 DEF Later
<1>4. sec >= e.watermark - Retention
  <2>1. sec > e.watermark - Settle
    BY <1>1 DEF Hold, Orderly
  <2>2. QED
    BY <1>1, <2>1
<1> SUFFICES ASSUME NEW c \in DOMAIN chain, chain[c].kind = "complete"
             PROVE  c \in (P \ {i}) \union Q \/ Told(chain, f, c) \/ Lost(chain, f, P \ {i}, c)
  BY DEF NewsKept
<1>5. PICK m \in Mints, s \in Nat : m = chain[c].mint /\ s = chain[c].sec
  BY <1>1
<1>6. /\ e.state[m].lastEventSec \in Int /\ f.state[m].lastEventSec \in Int
      /\ e.state[m].provenEpoch \in Int /\ e.state[m].provenEpoch <= e.epoch
      /\ e.epoch \in Nat /\ f.epoch \in Nat
  BY <1>1, <1>2 DEF Sound, Shape, Mint, Proofs
<1>7. c \in P \union Q \/ Told(chain, e, c) \/ Lost(chain, e, P, c)
  BY DEF Hold, NewsKept
<1>8. CASE c = i
  <2>1. f.state[m].status = "graduated" /\ f.state[m].lastEventSec >= s
    BY <1>5, <1>8 DEF Accepted
  <2>2. QED
    BY <1>5, <2>1 DEF Told
<1>9. CASE c \in P \union Q /\ c # i
  BY <1>9
<1>10. CASE Told(chain, e, c)
  <2>1. CASE m = x
    <3>1. s >= sec
      <4>1. i <= c
        <5>1. i \in Nat /\ c \in Nat
          BY <1>1
        <5>2. ~(c < i)
          BY <1>1, <1>5, <2>1 DEF Executes, Follows
        <5>3. QED
          BY <5>1, <5>2
      <4>2. QED
        BY <1>1, <1>5, <4>1 DEF Executes
    <3>2. e.state[m].status = "graduated" /\ e.state[m].lastEventSec >= s
      BY <1>1, <1>4, <1>5, <1>10, <3>1 DEF Told
    <3>3. f.state[m].status = "graduated" /\ f.state[m].lastEventSec >= s
      BY <1>1, <1>6, <2>1, <3>1, <3>2 DEF Accepted
    <3>4. QED
      BY <1>5, <3>3 DEF Told
  <2>2. CASE m # x
    <3>1. Remains(e, f, m)
      BY <2>2 DEF Accepted
    <3>2. CASE f.state[m] = e.state[m]
      <4>1. \/ f.state[m].status = "graduated" /\ f.state[m].lastEventSec >= s
            \/ f.state[m] = NoState /\ s < f.watermark - Retention
        BY <1>1, <1>3, <1>5, <1>10, <3>2 DEF Told
      <4>2. QED
        BY <1>5, <4>1 DEF Told
    <3>3. CASE f.state[m] = NoState /\ e.state[m].lastEventSec < f.watermark - Idle
      <4>1. s < f.watermark - Retention
        BY <1>1, <1>3, <1>5, <1>6, <1>10, <3>3 DEF Told
      <4>2. QED
        BY <1>5, <3>3, <4>1 DEF Told
    <3>4. QED
      BY <3>1, <3>2, <3>3 DEF Remains
  <2>3. QED
    BY <2>1, <2>2
<1>11. CASE Lost(chain, e, P, c)
  <2>1. m # x /\ \A j \in P \ {i} : chain[j].mint # m
    BY <1>1, <1>5, <1>11 DEF Lost
  <2>2. Remains(e, f, m)
    BY <2>1 DEF Accepted
  <2>3. e.state[m].provenEpoch # e.epoch /\ NoState.provenEpoch = -1
    BY <1>5, <1>11, UnknownMint DEF Lost
  <2>4. f.state[m].provenEpoch # f.epoch
    BY <1>2, <1>6, <2>2, <2>3 DEF Remains
  <2>5. QED
    BY <1>5, <2>1, <2>4 DEF Lost
<1>12. QED
  BY <1>7, <1>8, <1>9, <1>10, <1>11

LEMMA StaysOrderly ==
  ASSUME NEW chain, NEW t \in Nat, NEW e, NEW P, NEW Q, NEW E, Executes(chain), Hold(chain, t, e, P, Q, E),
         NEW i, Due(chain, t, P, Q, i), NEW f, NEW x, NEW sec, x = chain[i].mint, sec = chain[i].sec,
         Timely(chain, e, Settled(chain, P, Q), P, sec), Accepted(e, f, {MarkOf(chain, i)}, x, sec)
  PROVE  Orderly(chain, f, Settled(chain, P, Q) \union ({i} \intersect TradesIn(chain)), P \ {i})
<1>1. PICK T : T = Settled(chain, P, Q)
  OBVIOUS
<1>2. /\ P \subseteq DOMAIN chain /\ i \in P /\ i \in DOMAIN chain /\ T \subseteq DOMAIN chain
      /\ \A j \in DOMAIN chain : chain[j].sec \in Nat
      /\ e.watermark \in Int /\ sec \in Nat /\ Settle \in Nat /\ Orderly(chain, e, T, P)
  BY <1>1, HoldsParts DEF Due, Hold, Parts, TradesIn
<1>3. f.watermark = Later(sec, e.watermark)
  BY DEF Accepted
<1>4. f.watermark \in Int /\ f.watermark >= e.watermark /\ f.watermark >= sec
  BY <1>2, <1>3 DEF Later
<1>5. ASSUME NEW j \in T \union ({i} \intersect TradesIn(chain)), NEW p \in P \ {i}
      PROVE  /\ chain[j].sec <= f.watermark \/ chain[j].sec <= chain[p].sec
             /\ chain[p].kind = "create" => chain[j].mint # chain[p].mint
  <2>1. CASE j = i /\ i \in TradesIn(chain)
    BY <1>4, <2>1 DEF Due, TradesIn
  <2>2. CASE j \in T
    <3>1. /\ chain[j].sec <= e.watermark \/ chain[j].sec <= chain[p].sec
          /\ chain[p].kind = "create" => chain[j].mint # chain[p].mint
      BY <1>2, <2>2 DEF Orderly
    <3>2. chain[j].sec \in Nat
      BY <1>2, <2>2
    <3>3. QED
      BY <1>2, <1>4, <3>1, <3>2
  <2>3. QED
    BY <2>1, <2>2
<1>6. \A p \in P \ {i} : chain[p].sec > f.watermark - Settle
  BY <1>3 DEF Timely
<1>7. Settle # 0
  BY <1>2 DEF Due
<1>8. QED
  BY <1>1, <1>5, <1>6, <1>7 DEF Orderly

\* What an event keeps, and what else it changes.
Onward(chain, e, f, P, i) ==
  /\ f.connected /\ f.epoch >= e.epoch /\ (f.epoch = e.epoch \/ f.coverageSince = -1)
  /\ RoomFor(chain, f, P \ {i})

LEMMA HearsOne ==
  ASSUME IsFiniteSet(Mints), Idle >= Retention,
         NEW chain, NEW t \in Nat, NEW e, NEW P, NEW Q, NEW E, Executes(chain), Hold(chain, t, e, P, Q, E),
         e.connected, RoomFor(chain, e, P), NEW i, Due(chain, t, P, Q, i), NEW ev, NewsOf(chain, i, ev),
         NEW f, f = Accept(e, ev, t)
  PROVE  Hold(chain, t, f, P \ {i}, Q, E \union {i}) /\ Onward(chain, e, f, P, i)
<1>1. PICK x, sec, T : x = chain[i].mint /\ sec = chain[i].sec /\ T = Settled(chain, P, Q)
  OBVIOUS
<1>2. /\ Parts(chain, T, P) /\ DOMAIN chain \subseteq Nat /\ IsFiniteSet(DOMAIN chain)
      /\ i \in P /\ i \in DOMAIN chain /\ x \in Mints /\ sec \in Nat /\ Sound(e) /\ Shape(e) /\ e.epoch \in Nat
      /\ chain[i].kind \in Kinds /\ P \subseteq DOMAIN chain /\ Q \subseteq DOMAIN chain \ P
  BY <1>1, HoldsParts DEF Due
<1>3. InTime(e, sec, t) /\ ~Knows(e.seen, i) /\ Room(e, x) /\ Timely(chain, e, T, P, sec)
  BY <1>1, DueInTime
<1>4. /\ ev.mint = x /\ ev.sec = sec /\ ev.id = i /\ ev.quote \in Quotes /\ ev.id \in Nat
      /\ EventAt(ev, x, sec)
  BY <1>1 DEF NewsOf, EventAt
<1>5. EventOf(ev) = MarkOf(chain, i)
  BY <1>1, <1>4 DEF EventOf, MarkOf
<1>6. Keeps(chain, e, T, P) /\ Orderly(chain, e, T, P)
  BY <1>1 DEF Hold
<1>7. /\ Accepted(e, f, {MarkOf(chain, i)}, x, sec) /\ Len(f.seen) <= Len(e.seen) + 1
      /\ chain[i].kind = "complete" => f.state[x].status = "graduated"
      /\ Keeps(chain, f, T \union ({i} \intersect TradesIn(chain)), P \ {i})
  <2>1. CASE IsTrade(chain[i])
    <3>1. f = AcceptTrade(e, ev, t) /\ TradeOf(chain, i, ev) /\ chain[i].kind = "trade" /\ i \in TradesIn(chain) \intersect P
      BY <1>2, <2>1 DEF NewsOf, Accept, TradesIn, IsTrade
    <3>2. Accepted(e, f, {EventOf(ev)}, x, sec) /\ Len(f.seen) <= Len(e.seen) + 1
      BY <1>2, <1>3, <1>4, <3>1, AcceptedTrade
    <3>3. Keeps(chain, AcceptTrade(e, ev, t), T \union {i}, P \ {i})
      BY <1>1, <1>2, <1>3, <1>4, <1>6, <3>1, KeepsTrade
    <3>4. {i} \intersect TradesIn(chain) = {i}
      BY <3>1
    <3>5. QED
      BY <1>5, <3>1, <3>2, <3>3, <3>4
  <2>2. CASE ~IsTrade(chain[i])
    <3>1. /\ chain[i].kind \in {"create", "complete"} /\ ev.kind \in {"create", "graduate"}
          /\ f = AcceptLifecycle(e, ev, t) /\ {i} \intersect TradesIn(chain) = {}
          /\ chain[i].kind = "complete" => ev.kind # "create"
          /\ ev.kind = "create" => chain[i].kind = "create"
      BY <1>2, <2>2 DEF NewsOf, Accept, TradesIn, IsTrade, Kinds
    <3>2. /\ Accepted(e, f, {EventOf(ev)}, x, sec) /\ Len(f.seen) <= Len(e.seen) + 1
          /\ ev.kind # "create" => f.state[x].status = "graduated"
      <4>1. ev.mint \in Mints /\ Room(e, ev.mint) /\ InTime(e, ev.sec, t) /\ ev.sec \in Nat /\ ~Knows(e.seen, ev.id)
        BY <1>2, <1>3, <1>4
      <4>2. /\ Accepted(e, AcceptLifecycle(e, ev, t), {EventOf(ev)}, ev.mint, ev.sec)
            /\ Len(AcceptLifecycle(e, ev, t).seen) <= Len(e.seen) + 1
            /\ ev.kind # "create" => AcceptLifecycle(e, ev, t).state[ev.mint].status = "graduated"
        BY <1>2, <1>4, <4>1, AcceptedLifecycle
      <4>3. QED
        BY <1>4, <3>1, <4>2
    <3>3. ev.kind = "create" => \A j \in T : chain[j].mint # x
      BY <1>1, <1>2, <1>6, <3>1 DEF Orderly
    <3>4. Keeps(chain, f, T, P)
      <4>1. Reached(chain, e, AcceptLifecycle(e, ev, t), T, P, x, sec)
        BY <1>2, <1>3, <1>4, <1>6, <3>3, KeepsLifecycle
      <4>2. QED
        BY <3>1, <4>1 DEF Reached
    <3>5. Keeps(chain, f, T, P \ {i})
      BY <3>4, KeepsLess
    <3>6. T \union ({i} \intersect TradesIn(chain)) = T
      BY <3>1
    <3>7. QED
      BY <1>5, <3>1, <3>2, <3>5, <3>6
  <2>3. QED
    BY <2>1, <2>2
<1>8. Settled(chain, P \ {i}, Q) = T \union ({i} \intersect TradesIn(chain))
  BY <1>1, <1>2 DEF Settled, TradesIn
<1>9. Hold(chain, t, f, P \ {i}, Q, E \union {i})
  <2>1. Heeds(chain, t, f, P \ {i}, Q, E \union {i})
    BY <1>1, <1>7, HeedsMore
  <2>2. NewsKept(chain, f, P \ {i}, Q)
    BY <1>1, <1>7, NewsGoesOn
  <2>3. Orderly(chain, f, T \union ({i} \intersect TradesIn(chain)), P \ {i})
    BY <1>1, <1>3, <1>7, StaysOrderly
  <2>4. QED
    BY <1>7, <1>8, <2>1, <2>2, <2>3 DEF Hold
<1>10. RoomFor(chain, f, P \ {i})
  <2>1. IsFiniteSet(P) /\ Cardinality(P) \in Nat /\ Cardinality(P \ {i}) = Cardinality(P) - 1
    BY <1>2, FS_Subset, FS_CardinalityType, FS_RemoveElement
  <2>2. Len(e.seen) \in Nat /\ Len(f.seen) \in Nat /\ MaxSeen \in Nat /\ MaxMintStates \in Nat
    <3>1. e.seen \in Seq(Arrivals) /\ f.seen \in Seq(Arrivals)
      BY <1>2, <1>7 DEF Accepted, Sound, Shape
    <3>2. QED
      BY <3>1, LenProperties, VolumeAssumption
  <2>3. Len(e.seen) + Cardinality(P) <= MaxSeen
    BY DEF RoomFor
  <2>4. Len(f.seen) + Cardinality(P \ {i}) <= MaxSeen
    BY <1>7, <2>1, <2>2, <2>3
  <2>5. PICK A, B : A = Tracked(e) \union MintsOf(chain, P) /\ B = Tracked(f) \union MintsOf(chain, P \ {i})
    OBVIOUS
  <2>6. A \subseteq Mints
    BY <1>2, <2>5, HoldsParts DEF Tracked, MintsOf
  <2>7. B \subseteq A
    <3>1. ASSUME NEW m \in Tracked(f) PROVE m \in A
      <4>1. CASE m = x
        BY <1>1, <1>2, <2>5, <4>1 DEF MintsOf
      <4>2. CASE m # x
        <5>1. Remains(e, f, m) /\ m \in Mints /\ f.state[m] # NoState
          BY <1>7, <4>2 DEF Accepted, Tracked
        <5>2. QED
          BY <2>5, <5>1 DEF Remains, Tracked
      <4>3. QED
        BY <4>1, <4>2
    <3>2. MintsOf(chain, P \ {i}) \subseteq A
      BY <2>5 DEF MintsOf
    <3>3. QED
      BY <2>5, <3>1, <3>2
  <2>8. IsFiniteSet(A) /\ Cardinality(B) <= Cardinality(A) /\ Cardinality(A) \in Nat /\ Cardinality(B) \in Nat
    BY <2>6, <2>7, FS_Subset, FS_CardinalityType
  <2>9. Cardinality(A) <= MaxMintStates
    BY <2>5 DEF RoomFor
  <2>10. QED
    BY <2>2, <2>4, <2>5, <2>8, <2>9 DEF RoomFor
<1>11. f.connected /\ f.epoch >= e.epoch /\ (f.epoch = e.epoch \/ f.coverageSince = -1)
  BY <1>7 DEF Accepted
<1>12. QED
  BY <1>9, <1>10, <1>11 DEF Onward

\* Nothing is told, and coverage goes on.
LEMMA HoldsAlike ==
  ASSUME NEW chain, NEW t \in Nat, NEW e, NEW P, NEW Q, NEW E, Executes(chain), Hold(chain, t, e, P, Q, E),
         NEW f, Sound(f), SameBooks(e, f), f.seen = e.seen, NEW u \in Nat, u >= t, NEW G \in SUBSET E
  PROVE  Hold(chain, u, f, P, Q, G)
<1>1. e.watermark \in Int
  BY HoldsParts
<1>2. e.watermark <= t /\ f.watermark = e.watermark
  BY DEF Hold, Heeds, SameBooks
<1>3. f.watermark <= u
  BY <1>1, <1>2
<1>4. Heeds(chain, u, f, P, Q, G)
  BY <1>3 DEF Hold, Heeds, SameBooks, Refuses
<1>5. NewsKept(chain, f, P, Q)
  BY DEF Hold, NewsKept, Told, Lost, SameBooks
<1>6. Orderly(chain, f, Settled(chain, P, Q), P)
  BY DEF Hold, Orderly, SameBooks
<1>7. Keeps(chain, f, Settled(chain, P, Q), P)
  BY KeepsAlike DEF Hold
<1>8. QED
  BY <1>4, <1>5, <1>6, <1>7 DEF Hold

\* What executed before everything that is still under way.
Gone(chain, P, j) ==
  \A p \in P : chain[j].sec <= chain[p].sec /\ (chain[p].mint = chain[j].mint => j < p)

\* Coverage breaks, or had broken before: what was lost or torn off until then
\* counts as settled, and a completion that was lost leaves its mint unproven.
LEMMA HoldsBroken ==
  ASSUME NEW chain, NEW t \in Nat, NEW e, NEW P, NEW Q, NEW E, Executes(chain), Hold(chain, t, e, P, Q, E),
         NEW f, Sound(f), f.coverageSince = -1, f.epoch > e.epoch \/ (f.epoch = e.epoch /\ e.coverageSince = -1),
         f.watermark = e.watermark, f.buckets = e.buckets, f.state = e.state, f.seen = e.seen,
         NEW u \in Nat, u >= t, NEW G \in SUBSET E,
         NEW R \in SUBSET P, NEW S, S \subseteq (P \union Q) \ R,
         \A j \in (P \union Q) \ (R \union S) : Gone(chain, R, j)
  PROVE  Hold(chain, u, f, R, S, G)
<1>1. PICK T, V : T = Settled(chain, P, Q) /\ V = Settled(chain, R, S)
  OBVIOUS
<1>2. /\ Parts(chain, T, P) /\ DOMAIN chain \subseteq Nat
      /\ \A j \in DOMAIN chain : chain[j].sec \in Nat /\ chain[j].mint \in Mints
      /\ P \subseteq DOMAIN chain /\ Q \subseteq DOMAIN chain \ P /\ e.watermark \in Int
  BY <1>1, HoldsParts
<1>3. R \subseteq P /\ S \subseteq DOMAIN chain \ R /\ G \subseteq E
  BY <1>2
<1>4. T \subseteq V /\ V \subseteq TradesIn(chain) /\ V \ T \subseteq (P \union Q) \ (R \union S)
  BY <1>1 DEF Settled
<1>5. \A m \in Mints : f.state[m].provenEpoch # f.epoch
  BY DEF Sound, Proofs
<1>6. Heeds(chain, u, f, R, S, G)
  <2>1. f.watermark <= u
    <3>1. e.watermark <= t
      BY DEF Hold, Heeds
    <3>2. QED
      BY <1>2, <3>1
  <2>2. G \subseteq DOMAIN chain \ R /\ \A i \in G : Refuses(f, MarkOf(chain, i))
    BY <1>3 DEF Hold, Heeds, Refuses
  <2>3. \A a \in Range(f.seen) : a.id \in DOMAIN chain \ R
    BY <1>3 DEF Hold, Heeds
  <2>4. R \subseteq DOMAIN chain
    BY <1>2, <1>3
  <2>5. QED
    BY <1>3, <2>1, <2>2, <2>3, <2>4 DEF Heeds
<1>7. NewsKept(chain, f, R, S)
  <2> SUFFICES ASSUME NEW c \in DOMAIN chain, chain[c].kind = "complete"
               PROVE  c \in R \union S \/ Told(chain, f, c) \/ Lost(chain, f, R, c)
    BY DEF NewsKept
  <2>1. c \in P \union Q \/ Told(chain, e, c) \/ Lost(chain, e, P, c)
    BY DEF Hold, NewsKept
  <2>2. chain[c].mint \in Mints
    BY <1>2
  <2>3. CASE c \in (P \union Q) \ (R \union S)
    <3>1. \A p \in R : chain[p].mint # chain[c].mint
      BY <1>2, <1>3, <2>3 DEF Gone, Executes, Follows
    <3>2. QED
      BY <1>5, <2>2, <3>1 DEF Lost
  <2>4. CASE Told(chain, e, c)
    BY <2>4 DEF Told
  <2>5. CASE Lost(chain, e, P, c)
    BY <1>3, <1>5, <2>2, <2>5 DEF Lost
  <2>6. QED
    BY <2>1, <2>3, <2>4, <2>5
<1>8. Orderly(chain, e, T, P) /\ Keeps(chain, e, T, P)
  BY <1>1 DEF Hold
<1>9. Orderly(chain, f, V, R)
  <2>1. ASSUME NEW j \in V, NEW p \in R
        PROVE  /\ chain[j].sec <= f.watermark \/ chain[j].sec <= chain[p].sec
               /\ chain[p].kind = "create" => chain[j].mint # chain[p].mint
    <3>1. CASE j \in T
      BY <1>3, <1>8, <3>1 DEF Orderly
    <3>2. CASE j \in V \ T
      <4>1. Gone(chain, R, j) /\ j \in DOMAIN chain /\ p \in DOMAIN chain
        BY <1>2, <1>3, <1>4, <3>2
      <4>2. QED
        BY <4>1 DEF Gone, Executes, Follows
    <3>3. QED
      BY <3>1, <3>2
  <2>2. QED
    BY <1>3, <1>8, <2>1 DEF Orderly
<1>10. Keeps(chain, f, V, R)
  <2>1. \A j \in V \ T : Ahead(chain, R, j)
    BY <1>4 DEF Gone, Ahead
  <2>2. QED
    BY <1>2, <1>3, <1>4, <1>8, <2>1, KeepsUncovered
<1>11. QED
  BY <1>1, <1>6, <1>7, <1>9, <1>10 DEF Hold

------------------------------------------------------------------------------
\* The order in which a notification is told.

\* The ranks of a finite set of numbers count it.
LEMMA Ranks ==
  ASSUME NEW S, IsFiniteSet(S), S \subseteq Nat
  PROVE  /\ \A i \in S : Rank(S, i) \in 1..Cardinality(S)
         /\ \A i, j \in S : i < j => Rank(S, i) < Rank(S, j)
         /\ \A k \in 1..Cardinality(S) : \E i \in S : Rank(S, i) = k
<1>1. PICK n \in Nat : n = Cardinality(S)
  BY FS_CardinalityType
<1>2. ASSUME NEW i \in S PROVE Rank(S, i) \in 1..n
  <2>1. PICK A : A = {j \in S : j <= i}
    OBVIOUS
  <2>2. A \subseteq S /\ i \in A
    BY <2>1
  <2>3. IsFiniteSet(A) /\ Cardinality(A) <= n /\ Cardinality(A) \in Nat /\ Cardinality(A) # 0
    BY <1>1, <2>2, FS_Subset, FS_CardinalityType, FS_EmptySet
  <2>4. QED
    BY <1>1, <2>1, <2>3 DEF Rank
<1>3. ASSUME NEW i \in S, NEW j \in S, i < j PROVE Rank(S, i) < Rank(S, j)
  <2>1. PICK A, B : A = {k \in S : k <= i} /\ B = {k \in S : k <= j}
    OBVIOUS
  <2>2. A \subseteq B /\ B \subseteq S /\ j \in B /\ j \notin A
    <3>1. i \in Nat /\ j \in Nat /\ \A k \in S : k \in Nat
      OBVIOUS
    <3>2. \A k \in S : k <= i => k <= j
      BY <1>3, <3>1
    <3>3. j <= j /\ ~(j <= i)
      BY <1>3, <3>1
    <3>4. QED
      BY <2>1, <3>2, <3>3
  <2>3. IsFiniteSet(B) /\ Cardinality(B) \in Nat
    BY <2>2, FS_Subset, FS_CardinalityType
  <2>4. Cardinality(A) <= Cardinality(B) /\ Cardinality(A) # Cardinality(B) /\ Cardinality(A) \in Nat
    BY <2>2, <2>3, FS_Subset, FS_CardinalityType
  <2>5. QED
    BY <2>1, <2>3, <2>4 DEF Rank
<1>4. PICK r : r = [i \in S |-> Rank(S, i)]
  OBVIOUS
<1>5. r \in Injection(S, 1..n)
  <2>1. r \in [S -> 1..n]
    BY <1>2, <1>4
  <2>2. \A i, j \in S : r[i] = r[j] => i = j
    <3> SUFFICES ASSUME NEW i \in S, NEW j \in S, r[i] = r[j], i # j PROVE FALSE
      OBVIOUS
    <3>1. i < j \/ j < i
      OBVIOUS
    <3>2. r[i] < r[j] \/ r[j] < r[i]
      BY <1>3, <1>4, <3>1
    <3>3. r[i] \in 1..n /\ r[j] \in 1..n
      BY <2>1
    <3>4. QED
      BY <3>2, <3>3
  <2>3. QED
    BY <2>1, <2>2 DEF Injection, IsInjective
<1>6. r \in Surjection(S, 1..n)
  <2>1. IsFiniteSet(1..n) /\ Cardinality(1..n) = n
    BY FS_Interval
  <2>2. QED
    BY <1>1, <1>5, <2>1, FS_Injection
<1>7. \A k \in 1..n : \E i \in S : Rank(S, i) = k
  BY <1>4, <1>6 DEF Surjection
<1>8. QED
  BY <1>1, <1>2, <1>3, <1>7

\* A set in the order of the log: each member once.
Lists(idx, n, S) ==
  /\ n \in Nat /\ DOMAIN idx = 1..n
  /\ \A k \in 1..n : idx[k] \in S
  /\ \A k, l \in 1..n : idx[k] = idx[l] => k = l
  /\ \A i \in S : \E k \in 1..n : idx[k] = i

LEMMA InOrderLists ==
  ASSUME NEW S, IsFiniteSet(S), S \subseteq Nat, NEW idx, idx = InOrder(S)
  PROVE  /\ Lists(idx, Cardinality(S), S)
         /\ idx = [k \in 1..Cardinality(S) |-> idx[k]]
<1>1. PICK n \in Nat : n = Cardinality(S)
  BY FS_CardinalityType
<1>2. /\ \A i \in S : Rank(S, i) \in 1..n
      /\ \A i, j \in S : i < j => Rank(S, i) < Rank(S, j)
      /\ \A k \in 1..n : \E i \in S : Rank(S, i) = k
  BY <1>1, Ranks
<1>3. idx = [k \in 1..n |-> CHOOSE i \in S : Rank(S, i) = k]
  BY <1>1 DEF InOrder
<1>4. DOMAIN idx = 1..n /\ \A k \in 1..n : idx[k] \in S /\ Rank(S, idx[k]) = k
  BY <1>2, <1>3
<1>5. \A i \in S : idx[Rank(S, i)] = i
  <2> SUFFICES ASSUME NEW i \in S, NEW j \in S, j = idx[Rank(S, i)], j # i PROVE FALSE
    BY <1>2, <1>4
  <2>1. Rank(S, j) = Rank(S, i) /\ Rank(S, i) \in 1..n
    BY <1>2, <1>4
  <2>2. i < j \/ j < i
    OBVIOUS
  <2>3. QED
    BY <1>2, <2>1, <2>2
<1>6. \A k, l \in 1..n : idx[k] = idx[l] => k = l
  BY <1>4
<1>7. \A i \in S : \E k \in 1..n : idx[k] = i
  BY <1>2, <1>5
<1>8. idx = [k \in 1..n |-> idx[k]]
  BY <1>3
<1>9. QED
  BY <1>1, <1>4, <1>6, <1>7, <1>8 DEF Lists

\* What the decoder makes of an event.
TellOf(i) == IF IsTrade(emitted[i]) THEN TradeEvent(i) ELSE LifecycleEvent(i)

LEMMA Tells ==
  ASSUME Executes(emitted), NEW i \in DOMAIN emitted
  PROVE  NewsOf(emitted, i, TellOf(i))
<1>1. i \in Nat /\ emitted[i].kind \in Kinds
  BY DEF Executes
<1>2. QuoteOf(emitted[i].mint) \in Quotes
  BY DEF QuoteOf, Quotes
<1>3. CASE IsTrade(emitted[i])
  <2>1. PICK x, m, q, l, k, r, b : /\ x = emitted[i] /\ m = x.mint /\ q = QuoteOf(x.mint) /\ l = Lamports(x)
                                   /\ k = Abs(Ladder[x.to].vt - Ladder[x.from].vt) /\ r = Ladder[x.to] /\ b = (x.to > x.from)
    OBVIOUS
  <2>2. TradeEvent(i) = [kind |-> "trade", mint |-> m, id |-> i, sec |-> x.sec, slot |-> x.slot, isBuy |-> b,
                         sol |-> l, tok |-> k, post |-> r, mode |-> world.nature[m], quote |-> q]
    BY <2>1 DEF TradeEvent
  <2>3. PICK ev : ev = TradeEvent(i)
    OBVIOUS
  <2>4. /\ ev.kind = "trade" /\ ev.mint = m /\ ev.id = i /\ ev.sec = x.sec /\ ev.slot = x.slot /\ ev.isBuy = b
        /\ ev.sol = l /\ ev.tok = k /\ ev.post = r /\ ev.quote = q
    BY <2>2, <2>3
  <2>5. TellOf(i) = ev /\ x.kind = "trade"
    BY <1>3, <2>1, <2>3 DEF TellOf, IsTrade
  <2>6. EventAt(ev, m, x.sec)
    BY <1>1, <1>2, <2>1, <2>4 DEF EventAt
  <2>7. TradeOf(emitted, i, ev)
    BY <2>1, <2>4 DEF TradeOf
  <2>8. QED
    BY <2>1, <2>4, <2>5, <2>6, <2>7 DEF NewsOf
<1>4. CASE ~IsTrade(emitted[i])
  <2>1. PICK ev : ev = LifecycleEvent(i)
    OBVIOUS
  <2>2. /\ ev.kind = (IF emitted[i].kind = "complete" THEN "graduate" ELSE "create") /\ ev.mint = emitted[i].mint
        /\ ev.id = i /\ ev.sec = emitted[i].sec /\ ev.quote = QuoteOf(emitted[i].mint)
    BY <2>1 DEF LifecycleEvent
  <2>3. TellOf(i) = ev
    BY <1>4, <2>1 DEF TellOf
  <2>4. EventAt(ev, emitted[i].mint, emitted[i].sec)
    BY <1>1, <1>2, <2>2 DEF EventAt
  <2>5. QED
    BY <1>4, <2>2, <2>3, <2>4 DEF NewsOf
<1>5. QED
  BY <1>3, <1>4

\* The events of a notification, one after the other: those that are no trades
\* come first.
Telling(events, idx, n, told) ==
  /\ Lists(idx, n, told) /\ Len(events) = n
  /\ \A k \in 1..n : events[k] = TellOf(idx[k])
  /\ \A k, l \in 1..n : k < l /\ ~IsTrade(emitted[idx[l]]) => ~IsTrade(emitted[idx[k]])

LEMMA Decodes ==
  ASSUME Executes(emitted), NEW told, told \subseteq DOMAIN emitted
  PROVE  \E idx, n : Telling(Decoded(told).lifecycle \o Decoded(told).trades, idx, n, told)
<1>1. IsFiniteSet(told) /\ told \subseteq Nat
  <2>1. PICK n \in Nat : DOMAIN emitted = 1..n
    BY DEF Executes
  <2>2. IsFiniteSet(DOMAIN emitted) /\ DOMAIN emitted \subseteq Nat
    BY <2>1, FS_Interval
  <2>3. QED
    BY <2>2, FS_Subset
<1>2. PICK A, B : A = {i \in told : ~IsTrade(emitted[i])} /\ B = {i \in told : IsTrade(emitted[i])}
  OBVIOUS
<1>3. PICK others, trades : others = InOrder(A) /\ trades = InOrder(B)
  OBVIOUS
<1>4. IsFiniteSet(A) /\ IsFiniteSet(B) /\ A \subseteq Nat /\ B \subseteq Nat
  BY <1>1, <1>2, FS_Subset
<1>5. PICK a \in Nat, b \in Nat : Lists(others, a, A) /\ Lists(trades, b, B)
  BY <1>3, <1>4, InOrderLists, FS_CardinalityType
<1>6. PICK life, deal : /\ life = [k \in DOMAIN others |-> LifecycleEvent(others[k])]
                        /\ deal = [k \in DOMAIN trades |-> TradeEvent(trades[k])]
  OBVIOUS
<1>7. Decoded(told).lifecycle = life /\ Decoded(told).trades = deal
  BY <1>2, <1>3, <1>6 DEF Decoded
<1>8. DOMAIN others = 1..a /\ DOMAIN trades = 1..b
  BY <1>5 DEF Lists
<1>9. PICK X : X = {TellOf(i) : i \in told}
  OBVIOUS
<1>10. /\ \A k \in 1..a : others[k] \in A /\ life[k] = TellOf(others[k])
       /\ \A k \in 1..b : trades[k] \in B /\ deal[k] = TellOf(trades[k])
  BY <1>2, <1>5, <1>6, <1>8 DEF Lists, TellOf
<1>11. life \in Seq(X) /\ deal \in Seq(X) /\ Len(life) = a /\ Len(deal) = b
  <2>1. A \subseteq told /\ B \subseteq told
    BY <1>2
  <2>2. life \in [1..a -> X] /\ deal \in [1..b -> X]
    BY <1>6, <1>8, <1>9, <1>10, <2>1
  <2>3. QED
    BY <2>2, IsASeq, LenProperties
<1>12. PICK events : events = life \o deal
  OBVIOUS
<1>13. /\ Len(events) = a + b
       /\ \A k \in 1..a + b : events[k] = IF k <= a THEN life[k] ELSE deal[k - a]
  BY <1>11, <1>12, ConcatProperties
<1>14. PICK idx : idx = [k \in 1..a + b |-> IF k <= a THEN others[k] ELSE trades[k - a]]
  OBVIOUS
<1>15. \A k \in 1..a + b : \/ k \in 1..a /\ idx[k] = others[k]
                           \/ k - a \in 1..b /\ k > a /\ idx[k] = trades[k - a]
  BY <1>14
<1>16. \A k \in 1..a + b : events[k] = TellOf(idx[k]) /\ idx[k] \in told /\ (idx[k] \in A <=> k <= a)
  BY <1>2, <1>10, <1>13, <1>15
<1>17. Lists(idx, a + b, told)
  <2>1. \A k, l \in 1..a + b : idx[k] = idx[l] => k = l
    <3> SUFFICES ASSUME NEW k \in 1..a + b, NEW l \in 1..a + b, idx[k] = idx[l] PROVE k = l
      OBVIOUS
    <3>1. CASE k <= a
      <4>1. l <= a
        BY <1>16, <3>1
      <4>2. others[k] = others[l] /\ k \in 1..a /\ l \in 1..a
        BY <1>15, <3>1, <4>1
      <4>3. QED
        BY <1>5, <4>2 DEF Lists
    <3>2. CASE k > a
      <4>1. l > a
        BY <1>16, <3>2
      <4>2. trades[k - a] = trades[l - a] /\ k - a \in 1..b /\ l - a \in 1..b
        BY <1>15, <3>2, <4>1
      <4>3. k - a = l - a
        BY <1>5, <4>2 DEF Lists
      <4>4. QED
        BY <4>3
    <3>3. QED
      BY <3>1, <3>2
  <2>2. ASSUME NEW i \in told PROVE \E k \in 1..a + b : idx[k] = i
    <3>1. CASE i \in A
      <4>1. PICK k \in 1..a : others[k] = i
        BY <1>5, <3>1 DEF Lists
      <4>2. k \in 1..a + b /\ idx[k] = i
        BY <1>14, <4>1
      <4>3. QED
        BY <4>2
    <3>2. CASE i \in B
      <4>1. PICK k \in 1..b : trades[k] = i
        BY <1>5, <3>2 DEF Lists
      <4>2. PICK l \in 1..a + b : l = a + k /\ l > a /\ l - a = k
        OBVIOUS
      <4>3. idx[l] = i
        BY <1>14, <4>1, <4>2
      <4>4. QED
        BY <4>3
    <3>3. QED
      BY <1>2, <3>1, <3>2
  <2>3. DOMAIN idx = 1..a + b /\ a + b \in Nat
    BY <1>14
  <2>4. QED
    BY <1>16, <2>1, <2>2, <2>3 DEF Lists
<1>18. \A k, l \in 1..a + b : k < l /\ ~IsTrade(emitted[idx[l]]) => ~IsTrade(emitted[idx[k]])
  BY <1>2, <1>16
<1>19. Telling(events, idx, a + b, told)
  BY <1>13, <1>16, <1>17, <1>18 DEF Telling
<1>20. QED
  BY <1>7, <1>12, <1>19

\* The engine after each of the events, one after the other.
Runs(run, e, events, n, t) ==
  run[0] = e /\ \A k \in 1..n : run[k] = Accept(run[k - 1], events[k], t)

\* The recursion of AcceptAll has a solution: no number is the least that it
\* does not reach.
LEMMA AllAccepted ==
  ASSUME NEW e, NEW events, NEW t, NEW n \in Nat, Len(events) = n
  PROVE  \E run : Runs(run, e, events, n, t) /\ AcceptAll(e, events, t) = run[n]
<1> DEFINE step(g, k) == IF k = 0 THEN e ELSE Accept(g[k - 1], events[k], t)
           solves(g, l) == g = [k \in 0..l |-> step(g, k)]
           bad == {l \in 0..n : \A g : ~solves(g, l)}
           whole == CHOOSE g : solves(g, n)
<1>1. AcceptAll(e, events, t) = whole[n]
  BY DEF AcceptAll
<1>2. bad = {}
  <2> SUFFICES ASSUME bad # {} PROVE FALSE
    OBVIOUS
  <2>0. bad \subseteq 0..n
    OBVIOUS
  <2>1. PICK l \in bad : \A k \in bad : l <= k
    <3> HIDE DEF bad
    <3>1. bad \subseteq Nat
      BY <2>0
    <3>2. QED
      BY <3>1, Least
  <2>2. CASE l = 0
    <3>1. PICK g : g = [k \in 0..0 |-> e]
      OBVIOUS
    <3>2. solves(g, 0)
      BY <3>1
    <3>3. QED
      BY <2>1, <2>2, <3>2
  <2>3. CASE l # 0
    <3>1. l - 1 \in 0..n /\ l \in 1..n /\ l - 1 \notin bad
      <4> HIDE DEF bad
      <4>1. l \in 0..n
        BY <2>0
      <4>2. QED
        BY <2>1, <2>3, <4>1
    <3>2. PICK g : solves(g, l - 1)
      BY <3>1
    <3>3. PICK h : h = [k \in 0..l |-> IF k = l THEN Accept(g[l - 1], events[l], t) ELSE g[k]]
      OBVIOUS
    <3>4. ASSUME NEW k \in 0..l PROVE h[k] = step(h, k)
      <4>1. CASE k = 0
        <5>1. 0 \in 0..l - 1 /\ 0 # l
          BY <3>1
        <5>2. g[0] = e
          BY <3>2, <5>1
        <5>3. QED
          BY <3>3, <4>1, <5>1, <5>2
      <4>2. CASE k # 0 /\ k # l
        <5>1. k \in 0..l - 1 /\ k - 1 \in 0..l /\ k - 1 # l
          BY <3>1, <4>2
        <5>2. g[k] = Accept(g[k - 1], events[k], t)
          BY <3>2, <4>2, <5>1
        <5>3. h[k] = g[k] /\ h[k - 1] = g[k - 1]
          BY <3>3, <4>2, <5>1
        <5>4. QED
          BY <4>2, <5>2, <5>3
      <4>3. CASE k = l
        <5>1. l - 1 \in 0..l /\ l - 1 # l
          BY <3>1
        <5>2. h[l - 1] = g[l - 1]
          BY <3>3, <5>1
        <5>3. QED
          BY <2>3, <3>3, <4>3, <5>2
      <4>4. QED
        BY <4>1, <4>2, <4>3
    <3>5. solves(h, l)
      <4>1. h = [k \in 0..l |-> h[k]]
        BY <3>3
      <4> HIDE DEF step
      <4>2. QED
        BY <3>4, <4>1
    <3>6. QED
      BY <2>1, <3>5
  <2>4. QED
    BY <2>2, <2>3
<1>3. PICK g : solves(g, n)
  BY <1>2
<1>4. solves(whole, n)
  BY <1>3
<1>5. PICK run : run = whole
  OBVIOUS
<1>6. run = [k \in 0..n |-> step(run, k)]
  BY <1>4, <1>5
<1>7. Runs(run, e, events, n, t)
  BY <1>6 DEF Runs
<1>8. QED
  BY <1>1, <1>5, <1>7

\* The first events of a list.
FirstOf(idx, k) == {idx[l] : l \in 1..k}

\* What holds before the first event and between two of them.  Of what was torn
\* off, the first break leaves M.
Between(chain, t, run, k, idx, P, Q, E, M) ==
  LET done == FirstOf(idx, k)
      left == IF run[k].epoch # run[0].epoch THEN M ELSE Q
  IN  /\ Hold(chain, t, run[k], P \ done, left, E \union done)
      /\ RoomFor(chain, run[k], P \ done)
      /\ run[k].connected /\ run[k].epoch >= run[0].epoch /\ run[0].epoch \in Nat /\ run[k].epoch \in Nat

\* The notification as a whole: all of it is under way, and no event of it is
\* late, or told before the creation of its mint.
Timed(chain, t, P, Q, told) ==
  /\ told \subseteq P
  /\ \A i \in told : /\ chain[i].sec <= t
                     /\ \A p \in P : /\ chain[p].sec > chain[i].sec - Settle
                                     /\ chain[p].mint = chain[i].mint /\ chain[p].kind = "create" => p \in told
                     /\ \A j \in Q : chain[j].sec <= chain[i].sec

LEMMA TellsNext ==
  ASSUME IsFiniteSet(Mints), Idle >= Retention, Executes(emitted), NEW t \in Nat, NEW P, NEW Q, NEW E,
         NEW told, Timed(emitted, t, P, Q, told), NEW M \in SUBSET Q,
         \A j \in Q \ M, p \in P : j < p,
         NEW events, NEW idx, NEW n, Telling(events, idx, n, told), NEW run, NEW e, Runs(run, e, events, n, t),
         NEW k \in 1..n, Between(emitted, t, run, k - 1, idx, P, Q, E, M)
  PROVE  Between(emitted, t, run, k, idx, P, Q, E, M)
<1>1. PICK d, g, f, i : d = FirstOf(idx, k - 1) /\ g = run[k - 1] /\ f = run[k] /\ i = idx[k]
  OBVIOUS
<1>2. PICK left : left = IF g.epoch # run[0].epoch THEN M ELSE Q
  OBVIOUS
<1>3. /\ n \in Nat /\ k \in Int /\ i \in told /\ i \in P /\ Lists(idx, n, told)
      /\ \A l \in 1..n : idx[l] \in told /\ (idx[l] = i => l = k)
      /\ \A j \in told : \E l \in 1..n : idx[l] = j
  BY <1>1 DEF Telling, Lists, Timed
<1>4. i \notin d /\ FirstOf(idx, k) = d \union {i}
  <2>1. i \notin d
    BY <1>1, <1>3 DEF FirstOf
  <2>2. \A l \in Int : l \in 1..k <=> l \in 1..k - 1 \/ l = k
    BY <1>3
  <2>3. FirstOf(idx, k) = d \union {i}
    BY <1>1, <2>2 DEF FirstOf
  <2>4. QED
    BY <2>1, <2>3
<1>5. /\ Hold(emitted, t, g, P \ d, left, E \union d) /\ RoomFor(emitted, g, P \ d) /\ g.connected
      /\ g.epoch >= run[0].epoch /\ run[0].epoch \in Nat /\ g.epoch \in Nat
  BY <1>1, <1>2 DEF Between
<1>6. Due(emitted, t, P \ d, left, i)
  <2>1. left \subseteq Q
    BY <1>2
  <2>2. ASSUME NEW p \in P \ d, IsTrade(emitted[i]), emitted[p].kind = "create", emitted[p].mint = emitted[i].mint
        PROVE  FALSE
    <3>1. p \in told
      BY <1>3, <2>2 DEF Timed
    <3>2. PICK l \in 1..n : idx[l] = p
      BY <1>3, <3>1
    <3>3. l # k /\ ~(l < k)
      <4>1. l # k
        BY <1>1, <2>2, <3>2 DEF IsTrade
      <4>2. ~(l < k)
        <5>1. l < k => l \in 1..k - 1
          BY <1>3
        <5>2. QED
          BY <1>1, <2>2, <3>2, <5>1 DEF FirstOf
      <4>3. QED
        BY <4>1, <4>2
    <3>4. k < l
      BY <1>3, <3>3
    <3>5. ~IsTrade(emitted[idx[k]])
      BY <2>2, <3>2, <3>4 DEF Telling, IsTrade
    <3>6. QED
      BY <1>1, <2>2, <3>5
  <2>3. QED
    BY <1>3, <1>4, <2>1, <2>2 DEF Timed, Due
<1>7. NewsOf(emitted, i, events[k]) /\ f = Accept(g, events[k], t)
  <2>1. i \in DOMAIN emitted
    BY <1>3, <1>4, <1>5 DEF Hold, Heeds
  <2>2. NewsOf(emitted, i, TellOf(i))
    BY <2>1, Tells
  <2>3. events[k] = TellOf(i)
    BY <1>1 DEF Telling
  <2>4. QED
    BY <1>1, <2>2, <2>3 DEF Runs
<1>8. Hold(emitted, t, f, (P \ d) \ {i}, left, (E \union d) \union {i}) /\ Onward(emitted, g, f, P \ d, i)
  BY <1>5, <1>6, <1>7, HearsOne
<1>9. PICK rest, more : rest = P \ FirstOf(idx, k) /\ more = E \union FirstOf(idx, k)
  OBVIOUS
<1>10. rest = (P \ d) \ {i} /\ more = (E \union d) \union {i}
  BY <1>4, <1>9
<1>11. /\ Hold(emitted, t, f, rest, left, more) /\ RoomFor(emitted, f, rest)
       /\ f.connected /\ f.epoch >= g.epoch /\ (f.epoch = g.epoch \/ f.coverageSince = -1)
  BY <1>8, <1>10 DEF Onward
<1>12. Sound(f) /\ f.epoch \in Nat
  BY <1>11 DEF Hold, Heeds, Sound, Shape
<1>13. f.epoch >= run[0].epoch
  BY <1>5, <1>11, <1>12
<1>14. PICK after : after = IF f.epoch # run[0].epoch THEN M ELSE Q
  OBVIOUS
<1>15. Hold(emitted, t, f, rest, after, more)
  <2>1. CASE after = left
    BY <1>11, <2>1
  <2>2. CASE after # left
    <3>1. f.epoch # run[0].epoch /\ g.epoch = run[0].epoch /\ after = M /\ left = Q
      BY <1>2, <1>5, <1>11, <1>12, <1>14, <2>2
    <3>2. f.coverageSince = -1
      BY <1>11, <3>1
    <3>3. ASSUME NEW j \in (rest \union Q) \ (rest \union M) PROVE Gone(emitted, rest, j)
      <4> SUFFICES ASSUME NEW p \in rest PROVE emitted[j].sec <= emitted[p].sec /\ j < p
        BY DEF Gone
      <4>1. j < p
        BY <1>9
      <4>2. j \in DOMAIN emitted /\ p \in DOMAIN emitted
        BY <1>11, <3>1 DEF Hold, Heeds
      <4>3. j \in Nat /\ p \in Nat
        BY <4>2 DEF Executes
      <4>4. j <= p
        BY <4>1, <4>3
      <4>5. QED
        BY <4>1, <4>2, <4>4 DEF Executes
    <3>4. Hold(emitted, t, f, rest, M, more)
      <4>1. Hold(emitted, t, f, rest, Q, more)
        BY <1>11, <3>1
      <4>2. M \subseteq (rest \union Q) \ rest /\ rest \in SUBSET rest /\ more \in SUBSET more /\ t >= t
        BY <4>1 DEF Hold, Heeds
      <4>3. QED
        BY ONLY Executes(emitted), t \in Nat, <1>12, <3>2, <3>3, <4>1, <4>2, HoldsBroken
    <3>5. QED
      BY <3>1, <3>4
  <2>3. QED
    BY <2>1, <2>2
<1>16. QED
  BY <1>1, <1>5, <1>9, <1>11, <1>12, <1>13, <1>14, <1>15 DEF Between

\* All the events of a notification.
LEMMA TellsAll ==
  ASSUME IsFiniteSet(Mints), Idle >= Retention, Executes(emitted), NEW t \in Nat, NEW e, NEW P, NEW Q, NEW E,
         Hold(emitted, t, e, P, Q, E), e.connected, RoomFor(emitted, e, P),
         NEW told, Timed(emitted, t, P, Q, told), NEW M \in SUBSET Q,
         \A j \in Q \ M, p \in P : j < p,
         NEW news, news = Decoded(told).lifecycle \o Decoded(told).trades, NEW f, f = AcceptAll(e, news, t),
         NEW left, left = IF f.epoch # e.epoch THEN M ELSE Q
  PROVE  Hold(emitted, t, f, P \ told, left, E \union told) /\ f.connected
<1>1. told \subseteq DOMAIN emitted /\ e.epoch \in Nat
  <2>1. P \subseteq DOMAIN emitted /\ e.epoch \in Nat
    BY HoldsParts
  <2>2. QED
    BY <2>1 DEF Timed
<1>2. PICK events : events = news
  OBVIOUS
<1>3. PICK idx, n : Telling(events, idx, n, told)
  BY <1>1, <1>2, Decodes
<1>4. n \in Nat /\ Len(events) = n
  BY <1>3 DEF Telling, Lists
<1>5. PICK run : Runs(run, e, events, n, t) /\ AcceptAll(e, events, t) = run[n]
  BY ONLY <1>4, AllAccepted
<1>6. f = run[n] /\ run[0] = e
  BY <1>2, <1>5 DEF Runs
<1>7. Between(emitted, t, run, 0, idx, P, Q, E, M)
  <2>1. FirstOf(idx, 0) = {}
    BY DEF FirstOf
  <2>2. P \ FirstOf(idx, 0) = P /\ E \union FirstOf(idx, 0) = E
    BY <2>1
  <2>3. e.epoch >= e.epoch
    BY <1>1
  <2>4. QED
    BY <1>1, <1>6, <2>2, <2>3 DEF Between
<1>8. Between(emitted, t, run, n, idx, P, Q, E, M)
  <2> DEFINE bad == {k \in 0..n : ~Between(emitted, t, run, k, idx, P, Q, E, M)}
  <2>1. bad \subseteq Nat /\ bad \subseteq 0..n
    BY <1>4
  <2>2. SUFFICES ASSUME bad # {} PROVE FALSE
    BY <1>4
  <2>3. PICK k \in bad : \A l \in bad : k <= l
    <3> HIDE DEF bad
    <3>1. QED
      BY <2>1, <2>2, Least
  <2>4. k \in 1..n /\ k - 1 \notin bad /\ k - 1 \in 0..n
    <3>1. k # 0
      BY <1>7, <2>3
    <3> HIDE DEF bad
    <3>2. QED
      BY <1>4, <2>1, <2>3, <3>1
  <2>5. Between(emitted, t, run, k - 1, idx, P, Q, E, M)
    BY <2>4
  <2>6. Between(emitted, t, run, k, idx, P, Q, E, M)
    BY <1>3, <1>5, <2>4, <2>5, TellsNext
  <2>7. QED
    BY <2>3, <2>6
<1>9. FirstOf(idx, n) = told
  <2>1. Lists(idx, n, told)
    BY <1>3 DEF Telling
  <2>2. QED
    BY <2>1 DEF FirstOf, Lists
<1>10. QED
  BY <1>6, <1>8, <1>9 DEF Between

\* A notification all of which the engine refuses.
LEMMA TellsNothing ==
  ASSUME Executes(emitted), NEW e, Shape(e), NEW t, NEW told, told \subseteq DOMAIN emitted,
         \A i \in told : Refuses(e, MarkOf(emitted, i))
  PROVE  AcceptAll(e, Decoded(told).lifecycle \o Decoded(told).trades, t) = e
<1>1. PICK events : events = Decoded(told).lifecycle \o Decoded(told).trades
  OBVIOUS
<1>2. PICK idx, n : Telling(events, idx, n, told)
  BY <1>1, Decodes
<1>3. n \in Nat /\ Len(events) = n /\ \A k \in 1..n : idx[k] \in told /\ events[k] = TellOf(idx[k])
  BY <1>2 DEF Telling, Lists
<1>4. PICK run : Runs(run, e, events, n, t) /\ AcceptAll(e, events, t) = run[n]
  BY <1>3, AllAccepted
<1>5. ASSUME NEW k \in 1..n, run[k - 1] = e PROVE run[k] = e
  <2>1. PICK i, ev : i = idx[k] /\ ev = events[k]
    OBVIOUS
  <2>2. i \in told /\ i \in DOMAIN emitted /\ ev = TellOf(i)
    BY <1>3, <2>1
  <2>3. NewsOf(emitted, i, ev)
    BY <2>2, Tells
  <2>4. ev.sec \in Nat /\ Refuses(e, EventOf(ev))
    <3>1. ev.sec = emitted[i].sec /\ ev.id = i
      BY <2>3 DEF NewsOf, EventAt
    <3>2. EventOf(ev) = MarkOf(emitted, i) /\ emitted[i].sec \in Nat
      BY <2>2, <3>1 DEF EventOf, MarkOf, Executes
    <3>3. QED
      BY <2>2, <3>1, <3>2
  <2>5. AcceptTrade(e, ev, t) = e /\ AcceptLifecycle(e, ev, t) = e
    BY <2>4, RefusedTrade, RefusedLifecycle
  <2>6. run[k] = Accept(e, ev, t)
    BY <1>4, <1>5, <2>1 DEF Runs
  <2>7. QED
    BY <2>5, <2>6 DEF Accept
<1>6. run[n] = e
  <2> DEFINE bad == {k \in 0..n : run[k] # e}
  <2>1. bad \subseteq Nat /\ bad \subseteq 0..n
    BY <1>3
  <2>2. SUFFICES ASSUME bad # {} PROVE FALSE
    BY <1>3
  <2>3. PICK k \in bad : \A l \in bad : k <= l
    <3> HIDE DEF bad
    <3>1. QED
      BY <2>1, <2>2, Least
  <2>4. k \in 1..n /\ k - 1 \notin bad /\ k - 1 \in 0..n
    <3>1. k # 0
      BY <1>4, <2>3 DEF Runs
    <3> HIDE DEF bad
    <3>2. QED
      BY <1>3, <2>1, <2>3, <3>1
  <2>5. QED
    BY <1>5, <2>3, <2>4
<1>7. QED
  BY <1>1, <1>4, <1>6

------------------------------------------------------------------------------
\* The stream.

\* The invariant: the chain goes on as a chain does, the stream keeps its order,
\* and the engine's books and curves keep to what is settled.
VolumeInv ==
  /\ world \in Worlds /\ now \in Nat
  /\ Executes(emitted) /\ \A i \in DOMAIN emitted : emitted[i].sec <= now
  /\ Hold(emitted, now, eng, pending, torn, echoes)
  /\ line \in {"up", "silent", "down"}
  /\ line \in {"up", "silent"} => eng.connected
  /\ line = "down" => eng.coverageSince = -1
  /\ \A j \in torn, p \in pending : j < p

\* None of the engine's tables evicts when what is under way arrives.
Roomy == RoomFor(emitted, eng, pending)

LEMMA RoomLess ==
  ASSUME IsFiniteSet(Mints), NEW chain, NEW e, NEW P, IsFiniteSet(P), RoomFor(chain, e, P), Sound(e),
         \A p \in P : chain[p].mint \in Mints,
         NEW f, f.seen = e.seen, f.state = e.state, NEW R \in SUBSET P
  PROVE  RoomFor(chain, f, R)
<1>1. Cardinality(R) <= Cardinality(P) /\ Cardinality(R) \in Nat /\ Cardinality(P) \in Nat
  BY FS_Subset, FS_CardinalityType
<1>2. Len(e.seen) \in Nat /\ MaxSeen \in Nat /\ MaxMintStates \in Nat
  <2>1. e.seen \in Seq(Arrivals)
    BY DEF Sound, Shape
  <2>2. QED
    BY <2>1, LenProperties, VolumeAssumption
<1>3. Len(f.seen) + Cardinality(R) <= MaxSeen
  BY <1>1, <1>2 DEF RoomFor
<1>4. PICK A, B : A = Tracked(e) \union MintsOf(chain, P) /\ B = Tracked(f) \union MintsOf(chain, R)
  OBVIOUS
<1>5. A \subseteq Mints /\ B \subseteq A
  BY <1>4 DEF Tracked, MintsOf
<1>6. IsFiniteSet(A) /\ Cardinality(B) <= Cardinality(A) /\ Cardinality(A) \in Nat /\ Cardinality(B) \in Nat
  BY <1>5, FS_Subset, FS_CardinalityType
<1>7. Cardinality(A) <= MaxMintStates
  BY <1>4 DEF RoomFor
<1>8. QED
  BY <1>2, <1>3, <1>4, <1>6, <1>7 DEF RoomFor

\* What the actions of the stream start from.
LEMMA StreamFacts ==
  ASSUME VolumeInv
  PROVE  /\ Hold(emitted, now, eng, pending, torn, echoes) /\ Executes(emitted) /\ now \in Nat
         /\ Sound(eng) /\ Shape(eng) /\ eng.epoch \in Nat
         /\ DOMAIN emitted \subseteq Nat /\ IsFiniteSet(pending)
         /\ pending \subseteq DOMAIN emitted /\ torn \subseteq DOMAIN emitted \ pending /\ echoes \subseteq DOMAIN emitted \ pending
         /\ \A i \in DOMAIN emitted : emitted[i].sec \in Nat /\ emitted[i].sec <= now /\ emitted[i].tx \in Nat /\ emitted[i].mint \in Mints
         /\ \A i, j \in DOMAIN emitted : i <= j => emitted[i].sec <= emitted[j].sec /\ emitted[i].tx <= emitted[j].tx
         /\ \A i, j \in DOMAIN emitted : emitted[i].tx = emitted[j].tx => emitted[i].sec = emitted[j].sec
         /\ \A j \in torn, p \in pending : j < p
<1>1. Hold(emitted, now, eng, pending, torn, echoes) /\ Executes(emitted) /\ now \in Nat
  BY DEF VolumeInv
<1>2. /\ DOMAIN emitted \subseteq Nat /\ IsFiniteSet(DOMAIN emitted)
      /\ pending \subseteq DOMAIN emitted /\ Sound(eng) /\ Shape(eng) /\ eng.epoch \in Nat
  BY <1>1, HoldsParts
<1>3. IsFiniteSet(pending)
  BY <1>2, FS_Subset
<1>4. torn \subseteq DOMAIN emitted \ pending /\ echoes \subseteq DOMAIN emitted \ pending
  BY <1>1 DEF Hold, Heeds
<1>5. QED
  BY <1>1, <1>2, <1>3, <1>4 DEF VolumeInv, Executes

\* A notification that arrives for the first time, and whole.
LEMMA Delivered ==
  ASSUME IsFiniteSet(Mints), Idle >= Retention, VolumeInv, Roomy, NEW n, NEW again \in BOOLEAN, Deliver(n, again)
  PROVE  VolumeInv'
<1>1. PICK told, heard : told = EventsOf(n, pending) /\ heard = Hearing(eng, now)
  OBVIOUS
<1>2. /\ Hold(emitted, now, eng, pending, torn, echoes) /\ Executes(emitted) /\ now \in Nat /\ now >= now
      /\ Sound(eng) /\ IsFiniteSet(pending) /\ pending \subseteq DOMAIN emitted
      /\ \A p \in pending : emitted[p].mint \in Mints
  BY StreamFacts
<1>3. /\ Sound(heard) /\ SameBooks(eng, heard) /\ heard.seen = eng.seen /\ heard.state = eng.state
      /\ heard.connected = eng.connected /\ heard.epoch = eng.epoch
  <2>1. PICK t : heard = Hearing(eng, t)
    BY <1>1
  <2>2. /\ Sound(heard) /\ heard.coverageSince = eng.coverageSince /\ heard.epoch = eng.epoch
        /\ heard.connected = eng.connected /\ heard.watermark = eng.watermark
        /\ heard.seen = eng.seen /\ heard.state = eng.state /\ heard.buckets = eng.buckets
    <3>1. Sound(eng)
      BY <1>2
    <3>2. QED
      BY ONLY <2>1, <3>1, Hears
  <2>3. QED
    BY <2>2 DEF SameBooks
<1>4. Hold(emitted, now, heard, pending, torn, echoes) /\ heard.connected
  <2>1. heard.connected
    BY <1>3 DEF Deliver, VolumeInv
  <2>2. Hold(emitted, now, heard, pending, torn, echoes)
    BY <1>2, <1>3, HoldsAlike
  <2>3. QED
    BY <2>1, <2>2
<1>5. RoomFor(emitted, heard, pending)
  BY <1>2, <1>3, RoomLess DEF Roomy
<1>6. Timed(emitted, now, pending, torn, told)
  <2>1. told \subseteq pending /\ \A i \in told : emitted[i].tx = n
    BY <1>1 DEF EventsOf
  <2>2. ASSUME NEW i \in told, NEW p \in pending
        PROVE  /\ emitted[p].sec > emitted[i].sec - Settle
               /\ emitted[p].mint = emitted[i].mint /\ emitted[p].kind = "create" => p \in told
    BY <1>1 DEF Deliver, Deliverable, EventsOf
  <2>3. ASSUME NEW i \in told, NEW j \in torn PROVE emitted[j].sec <= emitted[i].sec
    <3>1. j < i /\ i \in Nat /\ j \in Nat /\ i \in DOMAIN emitted /\ j \in DOMAIN emitted
      BY <2>1, StreamFacts
    <3>2. j <= i
      BY <3>1
    <3>3. QED
      BY <3>1, <3>2, StreamFacts
  <2>4. \A i \in told : emitted[i].sec <= now
    BY <2>1, StreamFacts
  <2>5. QED
    BY <2>1, <2>2, <2>3, <2>4 DEF Timed
<1>7. PICK f : f = eng'
  OBVIOUS
<1>8. f = AcceptAll(heard, Decoded(told).lifecycle \o Decoded(told).trades, now)
  BY <1>1, <1>7 DEF Deliver, Ingest, Hearing
<1>9. /\ Hold(emitted, now, f, pending \ told, IF f.epoch # heard.epoch THEN {} ELSE torn, echoes \union told)
      /\ f.connected
  <2>1. PICK t, P, Q, E, M : t = now /\ P = pending /\ Q = torn /\ E = echoes /\ M = {}
    OBVIOUS
  <2>2. t \in Nat /\ Executes(emitted) /\ heard.connected
    BY <1>2, <1>4, <2>1
  <2>3. Hold(emitted, t, heard, P, Q, E)
    BY <1>4, <2>1
  <2>4. RoomFor(emitted, heard, P)
    BY <1>5, <2>1
  <2>5. Timed(emitted, t, P, Q, told)
    BY <1>6, <2>1
  <2>6. M \in SUBSET Q /\ \A j \in Q \ M, p \in P : j < p
    BY <2>1, StreamFacts
  <2>7. PICK news, left : /\ news = Decoded(told).lifecycle \o Decoded(told).trades
                          /\ left = IF f.epoch # heard.epoch THEN M ELSE Q
    OBVIOUS
  <2>8. f = AcceptAll(heard, news, t)
    BY <1>8, <2>1, <2>7
  <2>9. IsFiniteSet(Mints) /\ Idle >= Retention
    OBVIOUS
  <2>10. Hold(emitted, t, f, P \ told, left, E \union told) /\ f.connected
    BY ONLY <2>2, <2>3, <2>4, <2>5, <2>6, <2>7, <2>8, <2>9, TellsAll
  <2>11. QED
    BY <2>1, <2>7, <2>10
<1>10. /\ pending' = pending \ told /\ echoes' \subseteq echoes \union told
       /\ torn' = (IF f.epoch = eng.epoch THEN torn ELSE {})
       /\ UNCHANGED <<world, now, emitted, line>> /\ line = "up"
  BY <1>1, <1>7 DEF Deliver, Mended
<1>11. PICK P, Q, E, G : P = pending \ told /\ Q = torn' /\ E = echoes \union told /\ G = echoes'
  OBVIOUS
<1>12. Hold(emitted, now, f, P, Q, G)
  <2>1. Hold(emitted, now, f, P, Q, E)
    BY <1>3, <1>9, <1>10, <1>11
  <2>2. Sound(f) /\ SameBooks(f, f) /\ f.seen = f.seen
    BY <2>1 DEF Hold, Heeds, SameBooks
  <2>3. QED
    BY <1>2, <1>10, <1>11, <2>1, <2>2, HoldsAlike
<1>13. \A j \in torn', p \in pending' : j < p
  BY <1>10 DEF VolumeInv
<1>14. QED
  BY <1>2, <1>7, <1>9, <1>10, <1>11, <1>12, <1>13 DEF VolumeInv

\* A notification that arrives once more: the engine refuses all of it.
LEMMA DeliveredAgain ==
  ASSUME VolumeInv, NEW n, DeliverAgain(n)
  PROVE  VolumeInv'
<1>1. PICK told, heard : told = EventsOf(n, echoes) /\ heard = Hearing(eng, now)
  OBVIOUS
<1>2. /\ Hold(emitted, now, eng, pending, torn, echoes) /\ Executes(emitted) /\ now \in Nat /\ now >= now
      /\ Sound(eng) /\ eng.epoch \in Nat /\ eng.connected /\ line = "up"
  BY StreamFacts DEF DeliverAgain, VolumeInv
<1>3. /\ Sound(heard) /\ SameBooks(eng, heard) /\ heard.seen = eng.seen /\ heard.epoch = eng.epoch
      /\ heard.watermark = eng.watermark /\ heard.connected
  <2>1. PICK t : heard = Hearing(eng, t)
    BY <1>1
  <2>2. Sound(eng)
    BY <1>2
  <2>3. /\ Sound(heard) /\ heard.coverageSince = eng.coverageSince /\ heard.epoch = eng.epoch
        /\ heard.connected = eng.connected /\ heard.watermark = eng.watermark
        /\ heard.seen = eng.seen /\ heard.state = eng.state /\ heard.buckets = eng.buckets
    BY ONLY <2>1, <2>2, Hears
  <2>4. QED
    BY <1>2, <2>3 DEF SameBooks
<1>4. /\ told \subseteq DOMAIN emitted /\ Shape(heard)
      /\ \A i \in told : Refuses(heard, MarkOf(emitted, i))
  <2>1. told \subseteq echoes
    BY <1>1 DEF EventsOf
  <2>2. \A i \in echoes : i \in DOMAIN emitted /\ Refuses(eng, MarkOf(emitted, i))
    BY <1>2 DEF Hold, Heeds
  <2>3. QED
    BY <1>3, <2>1, <2>2 DEF Refuses, Sound
<1>5. PICK t : t = now
  OBVIOUS
<1>6. AcceptAll(heard, Decoded(told).lifecycle \o Decoded(told).trades, t) = heard
  BY <1>2, <1>4, TellsNothing
<1>7. eng' = heard
  BY <1>1, <1>5, <1>6 DEF DeliverAgain, Ingest, Hearing
<1>8. UNCHANGED <<world, now, emitted, pending, line>> /\ torn' = torn /\ echoes' \in SUBSET echoes
  BY <1>3, <1>7 DEF DeliverAgain, Mended
<1>9. PICK G \in SUBSET echoes : G = echoes'
  BY <1>8
<1>10. Hold(emitted, now, heard, pending, torn, G)
  BY <1>2, <1>3, HoldsAlike
<1>11. QED
  BY <1>2, <1>3, <1>7, <1>8, <1>9, <1>10 DEF VolumeInv

\* A damaged notification: coverage breaks, what is lost of it is gone or torn
\* off, and the rest is told.
LEMMA Damaged ==
  ASSUME IsFiniteSet(Mints), Idle >= Retention, VolumeInv, Roomy,
         NEW n, NEW told, told \subseteq EventsOf(n, pending), DeliverDamaged(n, told)
  PROVE  VolumeInv'
<1>1. PICK lost, rest, off, heard, broken :
        /\ lost = EventsOf(n, pending) \ told /\ rest = pending \ lost
        /\ off = {j \in lost : \E i \in told : i < j /\ emitted[i].mint = emitted[j].mint}
        /\ heard = Hearing(eng, now) /\ broken = BreakCoverage(heard)
  OBVIOUS
<1>2. /\ Hold(emitted, now, eng, pending, torn, echoes) /\ Executes(emitted) /\ now \in Nat /\ now >= now
      /\ Sound(eng) /\ IsFiniteSet(pending) /\ pending \subseteq DOMAIN emitted /\ DOMAIN emitted \subseteq Nat
      /\ \A p \in pending : emitted[p].mint \in Mints
      /\ torn \subseteq DOMAIN emitted \ pending /\ eng.connected /\ line = "up"
  BY StreamFacts DEF DeliverDamaged, VolumeInv
<1>3. /\ Sound(broken) /\ broken.coverageSince = -1 /\ broken.epoch > eng.epoch /\ broken.connected
      /\ broken.watermark = eng.watermark /\ broken.buckets = eng.buckets
      /\ broken.state = eng.state /\ broken.seen = eng.seen
  <2>1. PICK t : heard = Hearing(eng, t)
    BY <1>1
  <2>2. Sound(eng)
    BY <1>2
  <2>3. /\ Sound(heard) /\ heard.epoch = eng.epoch /\ heard.connected = eng.connected
        /\ heard.watermark = eng.watermark /\ heard.seen = eng.seen
        /\ heard.state = eng.state /\ heard.buckets = eng.buckets
    BY ONLY <2>1, <2>2, Hears
  <2>4. /\ Sound(broken) /\ broken.coverageSince = -1 /\ broken.epoch = heard.epoch + 1
        /\ broken.connected = heard.connected /\ broken.watermark = heard.watermark
        /\ broken.seen = heard.seen /\ broken.state = heard.state /\ broken.buckets = heard.buckets
    BY <1>1, <2>3, Broken
  <2>5. eng.epoch \in Nat
    BY <2>2 DEF Sound, Shape
  <2>6. QED
    BY <1>2, <2>3, <2>4, <2>5
<1>4. /\ told \subseteq rest /\ rest \subseteq pending /\ lost \subseteq pending /\ off \subseteq lost
      /\ \A i \in told \union lost : emitted[i].tx = n
      /\ \A p \in pending : emitted[p].tx = n => p \in told \/ p \in lost
      /\ pending \ EventsOf(n, pending) = rest \ told
  BY <1>1 DEF EventsOf
<1>5. ASSUME NEW j \in lost, NEW p \in pending
      PROVE  /\ emitted[p].tx # n => j < p
             /\ emitted[j].sec <= emitted[p].sec
  <2>1. emitted[j].tx = n /\ emitted[p].tx >= n
    BY <1>1, <1>4 DEF DeliverDamaged
  <2>2. j \in DOMAIN emitted /\ p \in DOMAIN emitted /\ j \in Nat /\ p \in Nat
        /\ emitted[j].tx \in Nat /\ emitted[p].tx \in Nat
    BY <1>2, <1>4 DEF Executes
  <2>3. CASE emitted[p].tx = n
    <3>1. emitted[p].sec = emitted[j].sec /\ emitted[p].sec \in Nat
      BY <1>2, <2>1, <2>2, <2>3 DEF Executes
    <3>2. QED
      BY <2>3, <3>1
  <2>4. CASE emitted[p].tx # n
    <3>1. ~(p <= j)
      <4>1. p <= j => emitted[p].tx <= emitted[j].tx
        BY <1>2, <2>2 DEF Executes
      <4>2. QED
        BY <2>1, <2>2, <2>4, <4>1
    <3>2. j < p /\ j <= p
      BY <2>2, <3>1
    <3>3. emitted[j].sec <= emitted[p].sec
      BY <1>2, <2>2, <3>2 DEF Executes
    <3>4. QED
      BY <3>2, <3>3
  <2>5. QED
    BY <2>3, <2>4
<1>6. \A j \in (pending \union torn) \ (rest \union off) : Gone(emitted, rest, j)
  <2> SUFFICES ASSUME NEW j \in (pending \union torn) \ (rest \union off), NEW p \in rest
               PROVE  emitted[j].sec <= emitted[p].sec /\ (emitted[p].mint = emitted[j].mint => j < p)
    BY DEF Gone
  <2>1. p \in pending /\ p \notin lost /\ p \in Nat /\ j \in Nat
    BY <1>1, <1>2
  <2>2. CASE j \in torn
    <3>1. j < p /\ j \in DOMAIN emitted /\ p \in DOMAIN emitted
      BY <1>2, <2>1, <2>2 DEF VolumeInv
    <3>2. j <= p
      BY <2>1, <3>1
    <3>3. QED
      BY <1>2, <3>1, <3>2 DEF Executes
  <2>3. CASE j \in lost
    <3>1. emitted[j].sec <= emitted[p].sec /\ (emitted[p].tx # n => j < p)
      BY <1>5, <2>1, <2>3
    <3>2. ASSUME emitted[p].tx = n, emitted[p].mint = emitted[j].mint PROVE j < p
      <4>1. p \in told
        BY <1>4, <2>1, <3>2
      <4>2. ~(p < j) /\ p # j
        BY <1>1, <2>1, <2>3, <3>2, <4>1
      <4>3. QED
        BY <2>1, <4>2
    <3>3. QED
      BY <3>1, <3>2
  <2>4. QED
    BY <1>1, <2>2, <2>3
<1>7. PICK t, P, Q, E, f : t = now /\ P = rest /\ Q = off /\ E = echoes /\ f = eng'
  OBVIOUS
<1>8. Hold(emitted, t, broken, P, Q, E)
  <2>1. PICK A, B : A = pending /\ B = torn
    OBVIOUS
  <2>2. Hold(emitted, t, eng, A, B, E) /\ Executes(emitted) /\ t \in Nat /\ t >= t
    BY <1>2, <1>7, <2>1
  <2>3. P \in SUBSET A /\ E \in SUBSET E /\ Q \subseteq (A \union B) \ P
    BY <1>1, <1>4, <1>7, <2>1
  <2>4. \A j \in (A \union B) \ (P \union Q) : Gone(emitted, P, j)
    BY <1>6, <1>7, <2>1
  <2>5. QED
    BY ONLY <1>3, <2>2, <2>3, <2>4, HoldsBroken
<1>9. RoomFor(emitted, broken, P)
  <2>1. P \in SUBSET pending
    BY <1>4, <1>7
  <2>2. QED
    BY <1>2, <1>3, <2>1, RoomLess DEF Roomy
<1>10. Timed(emitted, t, P, Q, told)
  <2>1. ASSUME NEW i \in told, NEW p \in P
        PROVE  /\ emitted[p].sec > emitted[i].sec - Settle
               /\ emitted[p].mint = emitted[i].mint /\ emitted[p].kind = "create" => p \in told
    <3>1. p \in pending /\ p \notin lost /\ i \in EventsOf(n, pending)
      BY <1>1, <1>7
    <3>2. /\ emitted[p].sec > emitted[i].sec - Settle
          /\ emitted[p].mint = emitted[i].mint /\ emitted[p].kind = "create" => emitted[p].tx = n
      BY <3>1 DEF DeliverDamaged, Deliverable
    <3>3. QED
      BY <1>4, <3>1, <3>2
  <2>2. ASSUME NEW i \in told, NEW j \in Q PROVE emitted[j].sec <= emitted[i].sec
    BY <1>4, <1>5, <1>7
  <2>3. \A i \in told : emitted[i].sec <= t
    BY <1>2, <1>4, <1>7, StreamFacts
  <2>4. told \subseteq P
    BY <1>4, <1>7
  <2>5. QED
    BY <2>1, <2>2, <2>3, <2>4 DEF Timed
<1>11. Hold(emitted, t, f, P \ told, Q, E \union told) /\ f.connected
  <2>1. PICK M \in SUBSET Q : M = Q
    OBVIOUS
  <2>2. PICK news, left : /\ news = Decoded(told).lifecycle \o Decoded(told).trades
                          /\ left = IF f.epoch # broken.epoch THEN M ELSE Q
    OBVIOUS
  <2>3. f = AcceptAll(broken, news, t)
    BY <1>1, <1>7, <2>2 DEF DeliverDamaged, Ingest, Hearing
  <2>4. /\ t \in Nat /\ Executes(emitted) /\ broken.connected /\ IsFiniteSet(Mints) /\ Idle >= Retention
        /\ M \in SUBSET Q /\ \A j \in Q \ M, p \in P : j < p
    BY <1>2, <1>3, <1>7, <2>1
  <2>5. Hold(emitted, t, f, P \ told, left, E \union told) /\ f.connected
    BY ONLY <1>8, <1>9, <1>10, <2>2, <2>3, <2>4, TellsAll
  <2>6. QED
    BY <2>1, <2>2, <2>5
<1>12. /\ pending' = P \ told /\ torn' = Q
       /\ UNCHANGED <<world, now, emitted, echoes, line>>
  BY <1>1, <1>4, <1>7 DEF DeliverDamaged
<1>13. Hold(emitted, t, f, P \ told, Q, E)
  <2>1. PICK A, G : A = P \ told /\ G = E \union told
    OBVIOUS
  <2>2. /\ Hold(emitted, t, f, A, Q, G) /\ Executes(emitted) /\ E \in SUBSET G /\ t \in Nat /\ t >= t
        /\ f.seen = f.seen
    BY <1>2, <1>7, <1>11, <2>1
  <2>3. Sound(f) /\ SameBooks(f, f)
    BY <1>11 DEF Hold, Heeds, SameBooks
  <2>4. Hold(emitted, t, f, A, Q, E)
    BY ONLY <2>2, <2>3, HoldsAlike
  <2>5. QED
    BY <2>1, <2>4
<1>14. \A j \in torn', p \in pending' : j < p
  <2>1. \A p \in P \ told : p \in pending /\ emitted[p].tx # n
    BY <1>1, <1>4, <1>7
  <2>2. QED
    BY <1>4, <1>5, <1>7, <1>12, <2>1
<1>15. QED
  BY <1>2, <1>7, <1>11, <1>12, <1>13, <1>14 DEF VolumeInv

\* Nothing is told: the books stay as they are, and if notifications are lost,
\* then coverage breaks or had broken before.
Quiet ==
  /\ UNCHANGED <<world, emitted>> /\ now' \in Nat /\ now' >= now
  /\ Sound(eng') /\ echoes' \in SUBSET echoes
  /\ eng'.watermark = eng.watermark /\ eng'.buckets = eng.buckets /\ eng'.state = eng.state /\ eng'.seen = eng.seen
  /\ \/ eng'.epoch = eng.epoch /\ eng'.coverageSince = eng.coverageSince /\ pending' = pending /\ torn' = torn
     \/ /\ eng'.coverageSince = -1 /\ pending' \in {pending, {}} /\ torn' \in {torn, {}}
        /\ eng'.epoch = eng.epoch + 1 \/ (eng'.epoch = eng.epoch /\ eng.coverageSince = -1)
  /\ line' \in {"up", "silent", "down"}
  /\ line' \in {"up", "silent"} => eng'.connected
  /\ line' = "down" => eng'.coverageSince = -1

LEMMA Stays ==
  ASSUME VolumeInv, Quiet
  PROVE  VolumeInv'
<1>1. PICK t, P, Q, E, u, f, G, R, S :
        /\ t = now /\ P = pending /\ Q = torn /\ E = echoes
        /\ u = now' /\ f = eng' /\ G = echoes' /\ R = pending' /\ S = torn'
  OBVIOUS
<1>2. /\ Hold(emitted, t, eng, P, Q, E) /\ Executes(emitted) /\ t \in Nat /\ u \in Nat /\ u >= t
      /\ G \in SUBSET E /\ Sound(f) /\ f.seen = eng.seen /\ f.watermark = eng.watermark
      /\ f.buckets = eng.buckets /\ f.state = eng.state
  BY <1>1, StreamFacts DEF Quiet
<1>3. /\ P \subseteq DOMAIN emitted /\ Q \subseteq DOMAIN emitted \ P /\ DOMAIN emitted \subseteq Nat /\ eng.epoch \in Nat
      /\ \A j \in Q, p \in P : j < p
  BY <1>1, StreamFacts
<1>4. \/ f.epoch = eng.epoch /\ f.coverageSince = eng.coverageSince /\ R = P /\ S = Q
      \/ /\ f.coverageSince = -1 /\ R \in {P, {}} /\ S \in {Q, {}}
         /\ f.epoch = eng.epoch + 1 \/ (f.epoch = eng.epoch /\ eng.coverageSince = -1)
  BY <1>1 DEF Quiet
<1>5. Hold(emitted, u, f, R, S, G)
  <2>1. CASE f.epoch = eng.epoch /\ f.coverageSince = eng.coverageSince /\ R = P /\ S = Q
    <3>1. SameBooks(eng, f)
      BY <1>2, <2>1 DEF SameBooks
    <3>2. Hold(emitted, u, f, P, Q, G)
      BY ONLY <1>2, <3>1, HoldsAlike
    <3>3. QED
      BY <2>1, <3>2
  <2>2. CASE /\ f.coverageSince = -1 /\ R \in {P, {}} /\ S \in {Q, {}}
             /\ f.epoch = eng.epoch + 1 \/ (f.epoch = eng.epoch /\ eng.coverageSince = -1)
    <3>1. f.coverageSince = -1 /\ (f.epoch > eng.epoch \/ (f.epoch = eng.epoch /\ eng.coverageSince = -1))
      BY <1>3, <2>2
    <3>2. R \in SUBSET P /\ S \subseteq (P \union Q) \ R
      BY <1>3, <2>2
    <3>3. \A j \in (P \union Q) \ (R \union S) : Gone(emitted, R, j)
      <4> SUFFICES ASSUME NEW j \in (P \union Q) \ (R \union S), NEW p \in R
                   PROVE  emitted[j].sec <= emitted[p].sec /\ j < p
        BY DEF Gone
      <4>1. p \in P /\ j \in Q
        BY <2>2
      <4>2. j < p /\ j \in DOMAIN emitted /\ p \in DOMAIN emitted /\ j \in Nat /\ p \in Nat
        BY <1>3, <4>1
      <4>3. j <= p
        BY <4>2
      <4>4. QED
        BY <1>2, <4>2, <4>3 DEF Executes
    <3>4. QED
      BY ONLY <1>2, <3>1, <3>2, <3>3, HoldsBroken
  <2>3. QED
    BY <1>4, <2>1, <2>2
<1>6. emitted' = emitted /\ world' = world /\ now' \in Nat /\ now' >= now
  BY DEF Quiet
<1>7. \A i \in DOMAIN emitted : emitted[i].sec <= now'
  <2>1. \A i \in DOMAIN emitted : emitted[i].sec \in Nat /\ emitted[i].sec <= now /\ now \in Nat
    BY StreamFacts
  <2>2. QED
    BY <1>6, <2>1
<1>8. \A j \in torn', p \in pending' : j < p
  BY <1>1, <1>3, <1>4
<1>9. world' \in Worlds
  BY <1>6 DEF VolumeInv
<1>10. QED
  BY <1>1, <1>2, <1>5, <1>6, <1>7, <1>8, <1>9 DEF VolumeInv, Quiet

\* The line fails or comes back, the watchdog or a failed transaction is heard,
\* or time passes.
LEMMA Failures ==
  ASSUME VolumeInv,
         \/ DeliverFailedTx \/ Close \/ Open \/ StreamError \/ FallSilent \/ SpeakAgain \/ Watchdog \/ Tick
         \/ UNCHANGED vars
  PROVE  VolumeInv'
<1>1. /\ Sound(eng) /\ now \in Nat /\ eng.epoch \in Nat /\ line \in {"up", "silent", "down"}
      /\ line \in {"up", "silent"} => eng.connected
      /\ line = "down" => eng.coverageSince = -1
  BY StreamFacts DEF VolumeInv
<1>2. CASE DeliverFailedTx
  <2>1. PICK t, f : t = now /\ f = eng'
    OBVIOUS
  <2>2. f = Hearing(eng, t)
    BY <1>2, <2>1 DEF DeliverFailedTx, Hearing
  <2>3. Sound(eng)
    BY <1>1
  <2>4. /\ Sound(f) /\ f.epoch = eng.epoch /\ f.connected = eng.connected
        /\ f.coverageSince = eng.coverageSince /\ f.buckets = eng.buckets
        /\ f.watermark = eng.watermark /\ f.seen = eng.seen /\ f.state = eng.state
    BY ONLY <2>2, <2>3, Hears
  <2>5. /\ UNCHANGED <<world, now, emitted, pending, echoes, line, torn>> /\ line = "up"
    BY <1>2 DEF DeliverFailedTx
  <2>6. now' \in Nat /\ now' >= now
    BY <1>1, <2>5
  <2>7. Quiet
    BY <1>1, <2>1, <2>4, <2>5, <2>6 DEF Quiet
  <2>8. QED
    BY <2>7, Stays
<1>3. CASE Close
  <2>1. PICK cut : cut = [eng EXCEPT !.connected = FALSE]
    OBVIOUS
  <2>2. /\ IsEngine(cut) /\ cut.coverageSince = eng.coverageSince /\ cut.awaiting = eng.awaiting
        /\ cut.epoch = eng.epoch /\ cut.watermark = eng.watermark /\ cut.seen = eng.seen
        /\ cut.state = eng.state /\ cut.buckets = eng.buckets
    BY <1>1, <2>1 DEF Sound, Shape, IsEngine
  <2>3. Sound(cut)
    BY <1>1, <2>2, Alike
  <2>4. eng' = BreakCoverage(cut)
    BY <1>3, <2>1 DEF Close, MarkDisconnected
  <2>5. /\ Sound(eng') /\ eng'.coverageSince = -1 /\ eng'.epoch = eng.epoch + 1
        /\ eng'.watermark = eng.watermark /\ eng'.seen = eng.seen /\ eng'.state = eng.state
        /\ eng'.buckets = eng.buckets
    BY <2>2, <2>3, <2>4, Broken
  <2>6. /\ UNCHANGED <<world, now, emitted, pending, echoes>> /\ line' = "down" /\ torn' \in {torn, {}}
    BY <1>3 DEF Close, Mended
  <2>7. now' \in Nat /\ now' >= now
    BY <1>1, <2>6
  <2>8. Quiet
    BY <2>5, <2>6, <2>7 DEF Quiet
  <2>9. QED
    BY <2>8, Stays
<1>4. CASE Open
  <2>1. PICK open : open = [eng EXCEPT !.connected = TRUE, !.lastNotification = -1]
    OBVIOUS
  <2>2. /\ IsEngine(open) /\ open.coverageSince = eng.coverageSince /\ open.awaiting = eng.awaiting
        /\ open.epoch = eng.epoch /\ open.watermark = eng.watermark /\ open.seen = eng.seen
        /\ open.state = eng.state /\ open.connected /\ open.buckets = eng.buckets
    BY <1>1, <2>1 DEF Sound, Shape, IsEngine
  <2>3. eng.coverageSince = -1
    BY <1>1, <1>4 DEF Open
  <2>4. PICK f : f = [open EXCEPT !.awaiting = TRUE]
    OBVIOUS
  <2>5. eng' = f
    BY <1>4, <2>1, <2>2, <2>3, <2>4 DEF Open, MarkReconnected
  <2>6. /\ IsEngine(f) /\ f.coverageSince = eng.coverageSince /\ f.awaiting
        /\ f.epoch = eng.epoch /\ f.watermark = eng.watermark /\ f.seen = eng.seen
        /\ f.state = eng.state /\ f.connected /\ f.buckets = eng.buckets
    BY <2>2, <2>4 DEF IsEngine
  <2>7. Sound(f)
    BY <1>1, <2>6, Alike
  <2>8. /\ UNCHANGED <<world, now, emitted>> /\ line' = "up" /\ pending' = {} /\ echoes' = {}
        /\ torn' \in {torn, {}}
    BY <1>4 DEF Open, Mended
  <2>9. now' \in Nat /\ now' >= now
    BY <1>1, <2>8
  <2>10. Quiet
    BY <2>3, <2>5, <2>6, <2>7, <2>8, <2>9 DEF Quiet
  <2>11. QED
    BY <2>10, Stays
<1>5. CASE StreamError
  <2>1. eng' = BreakCoverage(eng)
    BY <1>5 DEF StreamError
  <2>2. /\ Sound(eng') /\ eng'.connected = eng.connected
        /\ eng'.watermark = eng.watermark /\ eng'.seen = eng.seen /\ eng'.state = eng.state
        /\ eng'.coverageSince = -1 /\ eng'.epoch = eng.epoch + 1 /\ eng'.buckets = eng.buckets
    BY <1>1, <2>1, Broken
  <2>3. /\ UNCHANGED <<world, now, emitted, echoes, line>> /\ line = "up"
        /\ pending' \in {pending, {}} /\ torn' \in {torn, {}}
    BY <1>5 DEF StreamError, Mended
  <2>4. now' \in Nat /\ now' >= now
    BY <1>1, <2>3
  <2>5. Quiet
    BY <1>1, <2>2, <2>3, <2>4 DEF Quiet
  <2>6. QED
    BY <2>5, Stays
<1>6. CASE FallSilent
  <2>1. UNCHANGED <<world, now, emitted, pending, echoes, eng, torn>> /\ line = "up" /\ line' = "silent"
    BY <1>6 DEF FallSilent
  <2>2. now' \in Nat /\ now' >= now
    BY <1>1, <2>1
  <2>3. Quiet
    BY <1>1, <2>1, <2>2 DEF Quiet
  <2>4. QED
    BY <2>3, Stays
<1>7. CASE SpeakAgain
  <2>1. /\ UNCHANGED <<world, now, emitted, eng, torn>> /\ line = "silent" /\ line' = "up"
        /\ eng.coverageSince = -1 /\ pending' = {} /\ echoes' = {}
    BY <1>7 DEF SpeakAgain
  <2>2. now' \in Nat /\ now' >= now
    BY <1>1, <2>1
  <2>3. Quiet
    BY <1>1, <2>1, <2>2 DEF Quiet
  <2>4. QED
    BY <2>3, Stays
<1>8. CASE Watchdog
  <2>1. eng' = BreakCoverage(eng)
    BY <1>8 DEF Watchdog, CheckLiveness
  <2>2. /\ Sound(eng') /\ eng'.coverageSince = -1 /\ eng'.connected = eng.connected
        /\ eng'.watermark = eng.watermark /\ eng'.seen = eng.seen /\ eng'.state = eng.state
        /\ eng'.epoch = eng.epoch + 1 /\ eng'.buckets = eng.buckets
    BY <1>1, <2>1, Broken
  <2>3. UNCHANGED <<world, now, emitted, pending, echoes, line>> /\ torn' \in {torn, {}}
    BY <1>8 DEF Watchdog, Mended
  <2>4. now' \in Nat /\ now' >= now
    BY <1>1, <2>3
  <2>5. Quiet
    BY <1>1, <2>2, <2>3, <2>4 DEF Quiet
  <2>6. QED
    BY <2>5, Stays
<1>9. CASE Tick
  <2>1. UNCHANGED <<world, emitted, pending, echoes, line, eng, torn>> /\ now' = now + 1
    BY <1>9 DEF Tick
  <2>2. now' \in Nat /\ now' >= now
    BY <1>1, <2>1
  <2>3. Quiet
    BY <1>1, <2>1, <2>2 DEF Quiet
  <2>4. QED
    BY <2>3, Stays
<1>10. CASE UNCHANGED vars
  <2>1. UNCHANGED <<world, now, emitted, pending, echoes, line, eng, torn>>
    BY <1>10 DEF vars
  <2>2. now' \in Nat /\ now' >= now
    BY <1>1, <2>1
  <2>3. Quiet
    BY <1>1, <2>1, <2>2 DEF Quiet
  <2>4. QED
    BY <2>3, Stays
<1>11. QED
  BY <1>2, <1>3, <1>4, <1>5, <1>6, <1>7, <1>8, <1>9, <1>10

\* An event executes.
LEMMA Executed ==
  ASSUME VolumeInv, NEW m \in Trading, NEW kind \in Kinds, NEW n \in Transactions, NEW to \in Moves(m, kind, n),
         NEW s \in Slots(m, n), Execute(m, kind, to, s, n)
  PROVE  VolumeInv'
<1>1. PICK l, event : /\ Appended(l, event)
                      /\ event = [mint |-> m, kind |-> kind, tx |-> n, from |-> Later(1, Position(m)), to |-> to,
                                  slot |-> s, sec |-> now]
  BY StreamFacts, Appends
<1>2. PICK c, P, Q, E, T, q : c = emitted' /\ P = pending /\ Q = torn /\ E = echoes /\ T = Settled(emitted, P, Q) /\ q = l + 1
  OBVIOUS
<1>3. /\ Hold(emitted, now, eng, P, Q, E) /\ Executes(emitted) /\ now \in Nat /\ Sound(eng)
      /\ P \subseteq DOMAIN emitted /\ Q \subseteq DOMAIN emitted \ P /\ E \subseteq DOMAIN emitted \ P
      /\ \A i \in DOMAIN emitted : emitted[i].sec \in Nat /\ emitted[i].sec <= now
      /\ m \in Mints /\ world \in Worlds
  BY <1>2, StreamFacts DEF Trading, VolumeInv
<1>4. /\ l \in Nat /\ DOMAIN emitted = 1..l /\ DOMAIN c = 1..l + 1 /\ c[q] = event /\ \A i \in 1..l : c[i] = emitted[i]
      /\ pending' = P \union {q} /\ event.mint = m /\ event.kind = kind /\ event.sec = now
      /\ q \notin DOMAIN emitted /\ q \in DOMAIN c
  BY <1>1, <1>2 DEF Appended
<1>5. UNCHANGED <<world, now, echoes, line, eng, torn>>
  BY DEF Execute
<1>6. Executes(c)
  <2>1. Executes(emitted)'
    BY <1>2, <1>3, ExecutesOn
  <2>2. QED
    BY <1>2, <2>1
<1>7. /\ Parts(emitted, T, P) /\ eng.watermark \in Int /\ Settle \in Nat
  BY <1>2, <1>3, HoldsParts
<1>8. T \subseteq DOMAIN emitted /\ T \subseteq TradesIn(emitted)
  BY <1>7 DEF Parts, TradesIn
<1>9. Settled(c, P \union {q}, Q) = T /\ Parts(c, T, P \union {q})
  <2>1. TradesIn(c) \ {q} = TradesIn(emitted) /\ q \notin TradesIn(emitted)
    BY <1>2, <1>4 DEF TradesIn
  <2>2. Settled(c, P \union {q}, Q) = T
    BY <1>2, <2>1 DEF Settled
  <2>3. IsFiniteSet(DOMAIN c) /\ P \union {q} \subseteq DOMAIN c
    <3>1. IsFiniteSet(1..l + 1)
      <4>1. PICK k \in Int : k = l + 1
        BY <1>4
      <4>2. IsFiniteSet(1..k)
        BY ONLY FS_Interval
      <4>3. QED
        BY <4>1, <4>2
    <3>2. 1..l \subseteq 1..l + 1
      BY <1>4
    <3>3. QED
      BY <1>3, <1>4, <3>1, <3>2
  <2>4. T \intersect (P \union {q}) = {} /\ T \subseteq TradesIn(c)
    BY <1>2, <1>4, <1>8, <2>1 DEF Settled
  <2>5. QED
    BY <1>6, <2>2, <2>3, <2>4 DEF Parts
<1>10. Heeds(c, now, eng, P \union {q}, Q, E)
  <2>1. /\ eng.watermark <= now /\ \A a \in Range(eng.seen) : a.id \in DOMAIN emitted \ P
        /\ \A i \in E : Refuses(eng, MarkOf(emitted, i))
        /\ \A j \in Q : eng.coverageSince = -1 \/ emitted[j].sec < eng.coverageSince
    BY <1>3 DEF Hold, Heeds
  <2>2. \A i \in DOMAIN emitted : c[i] = emitted[i] /\ i \in DOMAIN c /\ i # q
    BY <1>4
  <2>3. \A i \in DOMAIN emitted : MarkOf(c, i) = MarkOf(emitted, i)
    BY <2>2 DEF MarkOf
  <2>4. \A i \in E : Refuses(eng, MarkOf(c, i))
    BY <1>3, <2>1, <2>3
  <2>5. QED
    BY <1>3, <1>4, <2>1, <2>2, <2>4 DEF Heeds
<1>11. NewsKept(c, eng, P \union {q}, Q)
  <2> SUFFICES ASSUME NEW i \in DOMAIN c, c[i].kind = "complete", i # q, i \notin P, i \notin Q
               PROVE  Told(c, eng, i) \/ Lost(c, eng, P \union {q}, i)
    BY DEF NewsKept
  <2>1. i \in DOMAIN emitted /\ c[i] = emitted[i]
    <3>1. i \in 1..l
      BY <1>2, <1>4
    <3>2. QED
      BY <1>4, <3>1
  <2>2. emitted[i].mint # m
    BY <2>1 DEF Trading, Graduated, IndicesOf
  <2>3. Told(emitted, eng, i) \/ Lost(emitted, eng, P, i)
    BY <1>3, <2>1 DEF Hold, NewsKept
  <2>4. CASE Told(emitted, eng, i)
    BY <2>1, <2>4 DEF Told
  <2>5. CASE Lost(emitted, eng, P, i)
    <3>1. \A p \in P \union {q} : c[p].mint # c[i].mint
      <4>1. \A p \in P : c[p] = emitted[p]
        BY <1>3, <1>4
      <4>2. QED
        BY <1>4, <2>1, <2>2, <2>5, <4>1 DEF Lost
    <3>2. QED
      BY <2>1, <2>5, <3>1 DEF Lost
  <2>6. QED
    BY <2>3, <2>4, <2>5
<1>12. Orderly(emitted, eng, T, P) /\ Keeps(emitted, eng, T, P) /\ eng.watermark <= now
  BY <1>2, <1>3 DEF Hold, Heeds
<1>13. Keeps(c, eng, T, P \union {q})
  <2>1. DOMAIN emitted \subseteq DOMAIN c /\ \A i \in DOMAIN emitted : c[i] = emitted[i] /\ i < q
    BY <1>2, <1>4
  <2>2. QED
    BY <1>7, <1>9, <1>12, <2>1, KeepsLonger
<1>14. Orderly(c, eng, T, P \union {q})
  <2>1. \A p \in P : c[p] = emitted[p]
    BY <1>3, <1>4
  <2>2. \A i \in T : c[i] = emitted[i] /\ emitted[i].sec <= now
    BY <1>3, <1>4, <1>8
  <2>3. \A i \in T, p \in P \union {q} : c[i].sec <= eng.watermark \/ c[i].sec <= c[p].sec
    BY <1>4, <1>12, <2>1, <2>2 DEF Orderly
  <2>4. \A p \in P \union {q} : c[p].sec > eng.watermark - Settle
    <3>1. now > eng.watermark - Settle
      BY <1>3, <1>7, <1>12 DEF Orderly
    <3>2. QED
      BY <1>4, <1>12, <2>1, <3>1 DEF Orderly
  <2>5. ASSUME NEW p \in P \union {q}, c[p].kind = "create", NEW i \in T PROVE c[i].mint # c[p].mint
    <3>1. CASE p \in P
      BY <1>12, <2>1, <2>2, <2>5, <3>1 DEF Orderly
    <3>2. CASE p = q
      <4>1. IndicesOf(m) = {}
        BY <1>3, <1>4, <2>5, <3>2, MovesOnLadder
      <4>2. QED
        BY <1>4, <1>8, <2>2, <3>2, <4>1 DEF IndicesOf
    <3>3. QED
      BY <3>1, <3>2
  <2>6. Settle = 0 => eng.watermark = -1
    BY <1>12 DEF Orderly
  <2>7. QED
    BY <2>3, <2>4, <2>5, <2>6 DEF Orderly
<1>15. Hold(c, now, eng, P \union {q}, Q, E)
  BY <1>9, <1>10, <1>11, <1>13, <1>14 DEF Hold
<1>16. \A i \in DOMAIN c : c[i].sec <= now
  <2>1. \A i \in DOMAIN c : i \in 1..l \/ i = q
    BY <1>2, <1>4
  <2>2. now <= now
    BY <1>3
  <2>3. QED
    BY <1>3, <1>4, <2>1, <2>2
<1>17. \A j \in torn, p \in P \union {q} : j < p
  <2>1. \A j \in torn : j \in 1..l
    BY <1>2, <1>3, <1>4
  <2>2. \A j \in 1..l : j < q
    BY <1>2, <1>4
  <2>3. QED
    BY <1>2, <2>1, <2>2 DEF VolumeInv
<1>18. QED
  BY <1>2, <1>3, <1>4, <1>5, <1>6, <1>15, <1>16, <1>17 DEF VolumeInv

\* At the start the engine is sound, nothing has executed and nothing is told.
LEMMA StreamStarts == Init => VolumeInv
<1> SUFFICES ASSUME Init PROVE VolumeInv
  OBVIOUS
<1>1. PICK c : c = emitted
  OBVIOUS
<1>2. /\ c = <<>> /\ c \in Seq({}) /\ DOMAIN c = {} /\ TradesIn(c) = {} /\ Settled(c, {}, {}) = {}
      /\ now = 0 /\ pending = {} /\ echoes = {} /\ torn = {} /\ line = "up" /\ world \in Worlds
  BY <1>1 DEF Init, TradesIn, Settled
<1>3. PICK e : e = eng
  OBVIOUS
<1>4. /\ IsEngine(e) /\ e.awaiting /\ e.coverageSince = -1 /\ e.epoch = 1 /\ e.connected
      /\ e.watermark = -1 /\ e.seen = <<>> /\ e.buckets = <<>> /\ e.state = [m \in Mints |-> NoState]
  BY <1>3 DEF Init, Started, IsEngine
<1>5. \A m \in Mints : /\ e.state[m] = NoState /\ NoState.curve = NoCurve /\ NoState.createdInEpoch = -1
  BY <1>4 DEF NoState
<1>6. Sound(e)
  <2>1. Shape(e)
    <3>1. <<>> \in Seq(Arrivals)
      OBVIOUS
    <3>2. e.state = [m \in Mints |-> e.state[m]]
      BY <1>4
    <3>3. \A m \in Mints : Mint(e.state[m])
      BY <1>5, UnknownMint
    <3>4. QED
      BY <1>4, <3>1, <3>2, <3>3 DEF Shape
  <2>2. Proofs(e)
    BY <1>4, <1>5, UnknownMint DEF Proofs
  <2>3. QED
    BY <2>1, <2>2 DEF Sound
<1>7. Executes(c)
  BY <1>2 DEF Executes
<1>8. Heeds(c, 0, e, {}, {}, {})
  <2>1. Range(e.seen) = {}
    BY <1>4 DEF Range
  <2>2. QED
    BY <1>4, <1>6, <2>1 DEF Heeds
<1>9. NewsKept(c, e, {}, {})
  BY <1>2 DEF NewsKept
<1>10. Orderly(c, e, {}, {})
  BY <1>4 DEF Orderly
<1>11. Dated(e)
  BY <1>4, <1>5 DEF Dated
<1>12. Shelved(c, e, {}) /\ Remembered(c, e, {}) /\ Exact(c, e, {})
  <2>1. DOMAIN e.buckets = {} /\ e.buckets = [k \in DOMAIN e.buckets |-> e.buckets[k]]
    BY <1>4
  <2>2. QED
    BY <1>4, <2>1 DEF Shelved, Remembered, Exact, Covers
<1>13. Followed(c, e, {}, {})
  BY <1>5 DEF Followed, Latest
<1>14. Keeps(c, e, {}, {})
  BY <1>6, <1>11, <1>12, <1>13 DEF Keeps, Book
<1>15. Hold(c, 0, e, {}, {}, {})
  BY <1>2, <1>8, <1>9, <1>10, <1>14 DEF Hold
<1>16. QED
  BY <1>1, <1>2, <1>3, <1>4, <1>7, <1>15 DEF VolumeInv

\* Every step keeps the invariant.
LEMMA VolumeStep ==
  ASSUME IsFiniteSet(Mints), Idle >= Retention, VolumeInv, Roomy, [Next]_vars
  PROVE  VolumeInv'
<1>1. ASSUME NEW m \in Trading, NEW kind \in Kinds, NEW n \in Transactions, NEW to \in Moves(m, kind, n),
             NEW s \in Slots(m, n), Execute(m, kind, to, s, n)
      PROVE  VolumeInv'
  BY <1>1, Executed
<1>2. ASSUME NEW n, NEW again \in BOOLEAN, Deliver(n, again) PROVE VolumeInv'
  BY <1>2, Delivered
<1>3. ASSUME NEW n, NEW told \in SUBSET EventsOf(n, pending), DeliverDamaged(n, told) PROVE VolumeInv'
  BY <1>3, Damaged
<1>4. ASSUME NEW n, DeliverAgain(n) PROVE VolumeInv'
  BY <1>4, DeliveredAgain
<1>5. CASE \/ DeliverFailedTx \/ Close \/ Open \/ StreamError \/ FallSilent \/ SpeakAgain \/ Watchdog \/ Tick
           \/ UNCHANGED vars
  BY <1>5, Failures
<1>6. QED
  BY <1>1, <1>2, <1>3, <1>4, <1>5 DEF Next

------------------------------------------------------------------------------
\* What the engine answers.

\* The gate lets a mint pass only if the stream is covered and the mint is
\* active and proven in the epoch of that coverage.
LEMMA GateIsProven ==
  ASSUME Sound(eng), NEW m \in Mints, NEW e, e = CheckLiveness(eng, now), Gate(e, m, now) = "ok"
  PROVE  /\ e = eng /\ eng.coverageSince # -1
         /\ eng.state[m].status = "active" /\ eng.state[m] # NoState /\ eng.state[m].provenEpoch = eng.epoch
<1>1. StreamGate(e, now) = "ok" /\ MintGate(e, m) = "ok"
  BY DEF Gate
<1>2. e.coverageSince # -1
  BY <1>1 DEF StreamGate
<1>3. e = eng
  <2>1. CASE e = BreakCoverage(eng)
    BY <1>2, <2>1, Broken
  <2>2. QED
    BY <2>1 DEF CheckLiveness
<1>4. eng.state[m].status \in Statuses
  BY DEF Sound, Shape, Mint
<1>5. QED
  BY <1>1, <1>2, <1>3, <1>4 DEF MintGate, Statuses

\* A mint is priced only if the gate lets it pass, by the curve it has.
LEMMA PricedIsProven ==
  ASSUME Sound(eng), NEW m \in Mints, Snapshot(eng, m, now, Entry).reason = "ok"
  PROVE  /\ eng.state[m].status = "active" /\ eng.state[m] # NoState /\ eng.state[m].provenEpoch = eng.epoch
         /\ eng.state[m].curve # NoCurve /\ Snapshot(eng, m, now, Entry).post = eng.state[m].curve.post
<1>1. ResolveCurve(eng, m, now) = "ok" /\ Snapshot(eng, m, now, Entry).post = eng.state[m].curve.post
  BY DEF Snapshot
<1>2. PICK e : e = CheckLiveness(eng, now)
  OBVIOUS
<1>3. Gate(e, m, now) = "ok" /\ e.state[m].curve # NoCurve
  BY <1>1, <1>2 DEF ResolveCurve
<1>4. QED
  BY <1>1, <1>2, <1>3, GateIsProven

\* A mint whose completion was told or lost is not active and proven.
LEMMA NewsIsHeeded == VolumeInv => NeverPricesGraduated
<1> SUFFICES ASSUME VolumeInv, NEW m \in Mints, Snapshot(eng, m, now, Entry).reason = "ok", Graduated(m)
             PROVE  \E i \in (pending \union torn) \intersect IndicesOf(m) : emitted[i].kind = "complete"
  BY DEF NeverPricesGraduated
<1>1. /\ eng.state[m].status = "active" /\ eng.state[m] # NoState /\ eng.state[m].provenEpoch = eng.epoch
  BY StreamFacts, PricedIsProven
<1>2. PICK i \in IndicesOf(m) : emitted[i].kind = "complete"
  BY DEF Graduated
<1>3. i \in DOMAIN emitted /\ emitted[i].mint = m
  BY DEF IndicesOf
<1>4. i \in pending \union torn \/ Told(emitted, eng, i) \/ Lost(emitted, eng, pending, i)
  BY <1>2, <1>3 DEF VolumeInv, Hold, NewsKept
<1>5. ~Told(emitted, eng, i) /\ ~Lost(emitted, eng, pending, i)
  BY <1>1, <1>3 DEF Told, Lost
<1>6. QED
  BY <1>2, <1>4, <1>5

\* The buckets of a window that coverage reaches add up to what was told of it.
LEMMA WindowAddsUp ==
  ASSUME VolumeInv, NEW m \in Mints, eng.state[m].status = "active",
         NEW from \in Int, NEW to \in Int, from >= eng.watermark - Retention, to <= eng.watermark - Settle,
         Covers(eng, m, from), NEW told, told = ToldWithin(m, from, to)
  PROVE  BucketsSum(eng.buckets, m, from, to) =
           [lamports |-> TrueVolume(told), count |-> Cardinality(told),
            buys |-> Cardinality({i \in told : emitted[i].to > emitted[i].from})]
<1>1. PICK T, P, Q : T = Settled(emitted, P, Q) /\ P = pending /\ Q = torn
  OBVIOUS
<1>2. /\ Executes(emitted) /\ Orderly(emitted, eng, T, P) /\ Parts(emitted, T, P)
      /\ P \subseteq DOMAIN emitted /\ Book(emitted, eng, T) /\ Hold(emitted, now, eng, P, Q, echoes)
  BY <1>1, HoldsParts DEF VolumeInv, Hold, Keeps
<1>3. eng.watermark \in Int /\ eng.coverageSince \in Int /\ {Retention, Settle} \subseteq Nat
  BY <1>2, HoldsParts
<1>4. told = {i \in T : emitted[i].mint = m /\ emitted[i].sec \in from..to}
  <2>1. \A i \in P : emitted[i].sec \in Nat /\ emitted[i].sec > eng.watermark - Settle
    BY <1>2 DEF Orderly, Executes
  <2>2. \A i \in P : emitted[i].sec \notin from..to
    BY <1>3, <2>1
  <2>3. QED
    BY <1>1, <2>2 DEF ToldWithin, TradesWithin, IndicesOf, Settled, TradesIn
<1>5. /\ Amounts(emitted) \in [DOMAIN emitted -> Int] /\ \A i \in DOMAIN emitted : Lamports(emitted[i]) \in Int
      /\ T \subseteq DOMAIN emitted /\ IsFiniteSet(T) /\ IsFiniteSet(DOMAIN emitted)
  BY <1>2, AmountsOf DEF Parts
<1>6. BucketsSum(eng.buckets, m, from, to) =
        [lamports |-> SumFunctionOnSet(Amounts(emitted), told),
         count |-> Cardinality(told), buys |-> Cardinality(BuysIn(emitted, told))]
  <2>1. \A s \in from..to : BucketAt(eng.buckets, m, s) = Tally(emitted, T, m, s)
    <3> SUFFICES ASSUME NEW s \in from..to PROVE BucketAt(eng.buckets, m, s) = Tally(emitted, T, m, s)
      OBVIOUS
    <3>1. s \in Int /\ s >= from
      OBVIOUS
    <3>2. Recent(eng, s) /\ Covers(eng, m, s)
      BY <1>3, <3>1 DEF Recent, Covers
    <3>3. QED
      BY <1>2, <3>1, <3>2 DEF Book, Exact
  <2>2. PICK c, b : c = emitted /\ b = eng.buckets
    OBVIOUS
  <2>3. \A s \in from..to : BucketAt(b, m, s) = Tally(c, T, m, s)
    BY <2>1, <2>2
  <2>4. /\ IsFiniteSet(T) /\ T \subseteq DOMAIN c /\ IsFiniteSet(DOMAIN c)
        /\ \A i \in DOMAIN c : Lamports(c[i]) \in Int
    BY <1>5, <2>2
  <2>5. told = {i \in T : c[i].mint = m /\ c[i].sec \in from..to}
    BY <1>4, <2>2
  <2>6. BucketsSum(b, m, from, to) =
          [lamports |-> SumFunctionOnSet(Amounts(c), told),
           count |-> Cardinality(told), buys |-> Cardinality(BuysIn(c, told))]
    BY <2>3, <2>4, <2>5, Regroups
  <2>7. QED
    BY <2>2, <2>6
<1>7. TrueVolume(told) = SumFunctionOnSet(Amounts(emitted), told)
  <2>1. PICK f : f = [x \in told |-> Lamports(emitted[x])]
    OBVIOUS
  <2>2. PICK a, D : a = Amounts(emitted) /\ D = DOMAIN emitted
    OBVIOUS
  <2>3. told \subseteq T /\ told \subseteq D /\ IsFiniteSet(D) /\ a \in [D -> Int]
    BY <1>4, <1>5, <2>2
  <2>4. IsFiniteSet(told)
    BY <2>3, FS_Subset
  <2>5. f \in [told -> Int] /\ \A x \in told : f[x] = Lamports(emitted[x]) /\ a[x] = f[x]
    BY <1>5, <2>1, <2>2, <2>3 DEF Amounts
  <2>6. MapThenSumSet(LAMBDA x : Lamports(emitted[x]), told) = SumFunctionOnSet(f, told)
    BY <2>5, TradesSum
  <2>7. SumFunctionOnSet(a, told) = SumFunctionOnSet(f, told)
    BY <2>3, <2>4, <2>5, SumSame
  <2>8. QED
    BY <2>2, <2>6, <2>7 DEF TrueVolume
<1>8. {i \in told : emitted[i].to > emitted[i].from} = BuysIn(emitted, told)
  BY DEF BuysIn
<1>9. QED
  BY <1>6, <1>7, <1>8

\* Nothing was torn off in a second that coverage reaches.
LEMMA NothingTorn ==
  ASSUME VolumeInv, NEW m, NEW from \in Int, NEW to \in Int, eng.coverageSince # -1, eng.coverageSince <= from
  PROVE  TradesWithin(m, from, to) \intersect torn = {} /\ ToldWithin(m, from, to) = TradesWithin(m, from, to)
<1>1. eng.coverageSince \in Int
  BY StreamFacts, HoldsParts
<1>2. \A j \in torn : emitted[j].sec \in Int /\ emitted[j].sec < eng.coverageSince
  BY StreamFacts DEF VolumeInv, Hold, Heeds
<1>3. \A j \in torn : emitted[j].sec \notin from..to
  BY <1>1, <1>2
<1>4. QED
  BY <1>3 DEF TradesWithin, ToldWithin

\* Both windows end where nothing to come can fall, and reach back to no
\* further than the engine keeps.
LEMMA VolumesAreTrue == VolumeInv => WindowExact
<1> SUFFICES ASSUME VolumeInv, NEW m \in Mints, NEW v, v = Compute(eng, m, now), NEW past, past = v.end - Window,
                    NEW current, current = ToldWithin(m, past + 1, v.end)
             PROVE  /\ v.volume # -1 =>
                         /\ v.volume = TrueVolume(current)
                         /\ v.count = Cardinality(current)
                         /\ v.buys = Cardinality({i \in current : emitted[i].to > emitted[i].from})
                    /\ v.previous # -1 => v.previous = TrueVolume(ToldWithin(m, past - Window + 1, past))
                    /\ eng.state[m].createdInEpoch # eng.epoch =>
                         /\ v.volume # -1 => current = TradesWithin(m, past + 1, v.end)
                         /\ v.previous # -1 => TradesWithin(m, past - Window + 1, past) \intersect torn = {}
  BY DEF WindowExact
<1>1. PICK e : e = CheckLiveness(eng, now)
  OBVIOUS
<1>2. CASE Gate(e, m, now) # "ok"
  <2>1. v.volume = -1 /\ v.previous = -1
    BY <1>1, <1>2 DEF Compute
  <2>2. QED
    BY <2>1
<1>3. CASE Gate(e, m, now) = "ok"
  <2>1. e = eng /\ eng.coverageSince # -1 /\ eng.state[m].status = "active"
    BY <1>1, <1>3, StreamFacts, GateIsProven
  <2>2. /\ eng.watermark \in Int /\ eng.coverageSince \in Int /\ {Retention, Settle, Window} \subseteq Nat
        /\ Retention >= 2 * Window + Settle
    BY StreamFacts, HoldsParts, VolumeAssumption
  <2>3. PICK end \in Int : end = eng.watermark - Settle
    BY <2>2
  <2>4. PICK first \in Int, before \in Int, last \in Int :
          first = end - Window + 1 /\ before = end - 2 * Window + 1 /\ last = end - Window
    BY <2>2
  <2>5. PICK recent, older : recent = ToldWithin(m, first, end) /\ older = ToldWithin(m, before, last)
    OBVIOUS
  <2> DEFINE covered(from) == \/ eng.state[m].createdInEpoch = eng.epoch /\ eng.state[m].creationSec # -1
                              \/ eng.coverageSince <= from
             cur == BucketsSum(eng.buckets, m, first, end)
             prev == BucketsSum(eng.buckets, m, before, last)
  <2>6. v = [volume |-> IF covered(first) THEN cur.lamports ELSE -1,
             previous |-> IF covered(before) THEN prev.lamports ELSE -1,
             count |-> IF covered(first) THEN cur.count ELSE 0,
             buys |-> IF covered(first) THEN cur.buys ELSE 0,
             end |-> end]
    BY <1>1, <1>3, <2>1, <2>3, <2>4 DEF Compute
  <2>7. covered(first) =>
          cur = [lamports |-> TrueVolume(recent), count |-> Cardinality(recent),
                 buys |-> Cardinality({i \in recent : emitted[i].to > emitted[i].from})]
    <3> SUFFICES ASSUME covered(first) PROVE Covers(eng, m, first)
      <4>1. first >= eng.watermark - Retention /\ end <= eng.watermark - Settle
        BY <2>2, <2>3, <2>4
      <4>2. QED
        BY <2>1, <2>5, <4>1, WindowAddsUp
    <3>1. QED
      BY <2>1, <2>2 DEF Covers
  <2>8. covered(before) =>
          prev = [lamports |-> TrueVolume(older), count |-> Cardinality(older),
                  buys |-> Cardinality({i \in older : emitted[i].to > emitted[i].from})]
    <3> SUFFICES ASSUME covered(before) PROVE Covers(eng, m, before)
      <4>1. before >= eng.watermark - Retention /\ last <= eng.watermark - Settle
        BY <2>2, <2>3, <2>4
      <4>2. QED
        BY <2>1, <2>5, <4>1, WindowAddsUp
    <3>1. QED
      BY <2>1, <2>2 DEF Covers
  <2>9. ASSUME eng.state[m].createdInEpoch # eng.epoch, covered(first)
        PROVE  recent = TradesWithin(m, first, end)
    <3>1. eng.coverageSince <= first
      BY <2>9
    <3>2. QED
      BY <2>1, <2>5, <3>1, NothingTorn
  <2>10. ASSUME eng.state[m].createdInEpoch # eng.epoch, covered(before)
         PROVE  TradesWithin(m, before, last) \intersect torn = {}
    <3>1. eng.coverageSince <= before
      BY <2>10
    <3>2. QED
      BY <2>1, <3>1, NothingTorn
  <2>11. v.end = end /\ past + 1 = first /\ past - Window + 1 = before /\ past = last
    <3>1. v.end = end
      BY <2>6
    <3>2. QED
      BY <2>2, <2>4, <3>1
  <2> HIDE DEF covered, cur, prev
  <2>12. v.volume # -1 => /\ covered(first) /\ v.volume = TrueVolume(recent)
                          /\ v.count = Cardinality(recent)
                          /\ v.buys = Cardinality({i \in recent : emitted[i].to > emitted[i].from})
    BY <2>6, <2>7
  <2>13. v.previous # -1 => covered(before) /\ v.previous = TrueVolume(older)
    BY <2>6, <2>8
  <2>14. current = recent /\ older = ToldWithin(m, past - Window + 1, past)
    BY <2>5, <2>11
  <2>15. /\ TradesWithin(m, past + 1, v.end) = TradesWithin(m, first, end)
         /\ TradesWithin(m, past - Window + 1, past) = TradesWithin(m, before, last)
    BY <2>11
  <2>16. QED
    BY <2>9, <2>10, <2>12, <2>13, <2>14, <2>15
<1>4. QED
  BY <1>2, <1>3

\* Of an active and proven mint nothing is missed, so the latest trade told is
\* the latest of all but those torn off.
LEMMA CurvesAreTrue == VolumeInv => CurveCurrent
<1> SUFFICES ASSUME VolumeInv, NEW m \in Mints,
                    Snapshot(eng, m, now, Entry).reason = "ok", IndicesOf(m) \intersect pending = {}
             PROVE  Snapshot(eng, m, now, Entry).post = Ladder[emitted[Max(IndicesOf(m) \ torn)].to]
  BY DEF CurveCurrent
<1>1. /\ eng.state[m].status = "active" /\ eng.state[m] # NoState /\ eng.state[m].provenEpoch = eng.epoch
      /\ eng.state[m].curve # NoCurve /\ Snapshot(eng, m, now, Entry).post = eng.state[m].curve.post
  BY StreamFacts, PricedIsProven
<1>2. PICK T, P : T = Settled(emitted, P, torn) /\ P = pending
  OBVIOUS
<1>3. Executes(emitted) /\ Latest(emitted, eng, T, P, m)
  BY <1>1, <1>2 DEF VolumeInv, Hold, Keeps, Followed
<1>4. PICK k \in T : /\ emitted[k].mint = m /\ Shows(emitted, eng.state[m].curve, k)
                     /\ \A j \in T : emitted[j].mint = m => j <= k \/ Missed(emitted, eng, P, j)
  BY <1>1, <1>3 DEF Latest
<1>5. \A j \in T : emitted[j].mint = m => j <= k
  BY <1>1, <1>4 DEF Missed
<1>6. PICK n \in Nat : DOMAIN emitted = 1..n
  BY <1>3 DEF Executes
<1>7. PICK S \in SUBSET (0..n) : S = IndicesOf(m) \ torn
  <2>1. 1..n \subseteq 0..n
    OBVIOUS
  <2>2. IndicesOf(m) \subseteq 1..n
    BY <1>6 DEF IndicesOf
  <2>3. QED
    BY <2>1, <2>2
<1>8. k \in S /\ k \in DOMAIN emitted
  BY <1>2, <1>4, <1>7 DEF Settled, TradesIn, IndicesOf
<1>9. PICK last \in S : \A j \in S : j <= last
  BY <1>8, Greatest
<1>10. last = k
  <2> SUFFICES ASSUME last # k PROVE FALSE
    OBVIOUS
  <2>1. /\ last \in DOMAIN emitted /\ emitted[last].mint = m /\ last \in Nat /\ k \in Nat /\ k <= last
        /\ last \notin torn /\ last \notin P
    BY <1>2, <1>3, <1>6, <1>7, <1>8, <1>9 DEF IndicesOf
  <2>2. k < last /\ emitted[last].kind \in Kinds
    BY <1>3, <2>1 DEF Executes
  <2>3. CASE IsTrade(emitted[last])
    <3>1. last \in T
      BY <1>2, <2>1, <2>3 DEF Settled, TradesIn
    <3>2. QED
      BY <1>5, <2>1, <2>2, <3>1
  <2>4. CASE emitted[last].kind = "create"
    BY <1>3, <1>4, <1>8, <2>1, <2>2, <2>4 DEF Executes, Follows
  <2>5. CASE emitted[last].kind = "complete"
    <3>1. Told(emitted, eng, last) \/ Lost(emitted, eng, P, last)
      BY <1>2, <2>1, <2>5 DEF VolumeInv, Hold, NewsKept
    <3>2. QED
      BY <1>1, <2>1, <3>1 DEF Told, Lost
  <2>6. QED
    BY <2>2, <2>3, <2>4, <2>5 DEF Kinds, IsTrade
<1>11. Max(S) = k
  <2>1. \A j \in S : last >= j
    BY <1>9
  <2>2. Max(S) \in S /\ \A j \in S : Max(S) >= j
    BY <2>1 DEF Max
  <2>3. Max(S) >= last /\ last >= Max(S)
    BY <2>1, <2>2
  <2>4. \A j \in S : j \in Nat
    OBVIOUS
  <2>5. Max(S) \in Nat /\ last \in Nat
    BY <2>2, <2>4
  <2>6. QED
    BY <1>10, <2>3, <2>5
<1>12. QED
  BY <1>1, <1>4, <1>7, <1>11 DEF Shows

------------------------------------------------------------------------------
\* The theorems.

\* The books of the engine and its curves are true of the chain, whatever was
\* lost, late, cut or repeated on the way: every bucket of an active mint that
\* coverage reaches holds the trades of its second, each once, and every curve
\* is the one after the latest trade that was told or that could be shown.  The
\* exception is what a cut notification tore off after it had told an earlier
\* event of the same mint: until the next break it is in no bucket and no curve.
THEOREM BooksAreTrue ==
  ASSUME IsFiniteSet(Mints), Idle >= Retention
  PROVE  Spec /\ []Roomy => []VolumeInv
<1>1. Init => VolumeInv
  BY StreamStarts
<1>2. VolumeInv /\ Roomy /\ [Next]_vars => VolumeInv'
  BY VolumeStep
<1>3. QED
  BY <1>1, <1>2, PTL DEF Spec

\* A volume that is not null, and the number of its trades and of its purchases,
\* are what was told of that window, and what was told is all that was traded in
\* it unless a cut notification told the creation of the mint and lost a trade
\* after it (compute() and the coverage rules of the engine's header).
THEOREM WindowIsExact ==
  ASSUME IsFiniteSet(Mints), Idle >= Retention
  PROVE  Spec /\ []Roomy => []WindowExact
<1>1. Spec /\ []Roomy => []VolumeInv
  BY BooksAreTrue
<1>2. VolumeInv => WindowExact
  BY VolumesAreTrue
<1>3. QED
  BY <1>1, <1>2, PTL

\* A snapshot that is VALID shows the reserves of the curve as its last event
\* left them, once every notification of the mint has come, in whatever order
\* (resolveCurve(), updateCurve()): the last but those torn off a cut
\* notification, whose earlier events prove the mint in the epoch of the break.
THEOREM CurveIsCurrent ==
  ASSUME IsFiniteSet(Mints), Idle >= Retention
  PROVE  Spec /\ []Roomy => []CurveCurrent
<1>1. Spec /\ []Roomy => []VolumeInv
  BY BooksAreTrue
<1>2. VolumeInv => CurveCurrent
  BY CurvesAreTrue
<1>3. QED
  BY <1>1, <1>2, PTL

\* A curve that has completed is priced only while the news of it is still to
\* come or was torn off a notification that told an earlier event of the mint:
\* not after it was told, and forgotten with the idle mints, and not after a gap
\* in which it was lost (provenEpoch against the epoch that every break of
\* coverage advances).  What was told and forgotten cannot be undone by an older
\* trade, because a mint is kept for longer than the retention within which the
\* engine accepts events (pumpfunVolumeEngine.ts:216 and 224: 180 s, 7200 s).
\* The tables have room: a cap that evicts forgets what is not yet old.
THEOREM GraduatedNeverPriced ==
  ASSUME IsFiniteSet(Mints), Idle >= Retention
  PROVE  Spec /\ []Roomy => []NeverPricesGraduated
<1>1. Spec /\ []Roomy => []VolumeInv
  BY BooksAreTrue
<1>2. VolumeInv => NeverPricesGraduated
  BY NewsIsHeeded
<1>3. QED
  BY <1>1, <1>2, PTL

==============================================================================
