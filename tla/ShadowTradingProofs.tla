-------------------------- MODULE ShadowTradingProofs --------------------------
(***************************************************************************)
(* For every sequence of strategies, every set of tokens and offsets and   *)
(* all limits: shadow trading keeps to the hard limits per strategy, a     *)
(* price path that was finalised is never written again, a path that ended *)
(* with an exit is that of a closed trade, and a strategy's day is the sum *)
(* of its trades, whatever throws and however often the process restarts.  *)
(***************************************************************************)
EXTENDS ShadowTrading, Sums, SequenceTheorems

\* What a tick works on: the ledger, the paths, and whether it was cut short.
IsWorld(w) ==
  w = [trades |-> w.trades, daily |-> w.daily, paths |-> w.paths, torn |-> w.torn, halted |-> w.halted]

World == [trades |-> trades, daily |-> daily, paths |-> paths, torn |-> torn, halted |-> FALSE]

Row == [strategy : Names, mint : Mints, entryAt : Int, open : BOOLEAN, exitAt : Int, pnl : Int]

Book(b) == b \in Seq(Row) /\ Len(b) <= MaxTrades

Diary(d) == d \in [Names -> [Days -> [pnl : Int, latched : BOOLEAN]]]

\* What a tick can be.
Sensible(tick) == tick.mint \in Mints /\ tick.at \in 0..MaxTime /\ tick.gain \in Int

------------------------------------------------------------------------------
\* What a tick does, strategy by strategy.

\* What the first k strategies of a tick leave.
Stages(before, tick, f, n) ==
  f = [k \in 0..n |-> IF k = 0 THEN before ELSE ProcessStrategyTick(f[k - 1], Strategies[k], tick)]

\* However many strategies there are, what they leave one after the other is
\* defined: the least number for which it was not would have a predecessor,
\* which one more strategy completes.
LEMMA StagesExist ==
  ASSUME NEW before, NEW tick, NEW n \in Nat
  PROVE  \E f : Stages(before, tick, f, n)
<1> DEFINE bad == {k \in Nat : ~\E f : Stages(before, tick, f, k)}
<1>1. SUFFICES ASSUME bad # {} PROVE FALSE
  OBVIOUS
<1>2. PICK k \in bad : \A j \in bad : k <= j
  <2> HIDE DEF bad
  <2>1. bad \subseteq Nat
    BY DEF bad
  <2>2. QED
    BY <1>1, <2>1, Least
<1>3. k # 0
  <2>1. Stages(before, tick, [j \in 0..0 |-> before], 0)
    BY DEF Stages
  <2>2. QED
    BY <2>1
<1>4. PICK f : Stages(before, tick, f, k - 1)
  <2>1. k - 1 \in Nat /\ ~(k <= k - 1)
    BY <1>3
  <2>2. QED
    BY <1>2, <2>1
<1> DEFINE last == ProcessStrategyTick(f[k - 1], Strategies[k], tick)
           g == [j \in 0..k |-> IF j = k THEN last ELSE f[j]]
<1>5. ASSUME NEW j \in 0..k
      PROVE  g[j] = IF j = 0 THEN before ELSE ProcessStrategyTick(g[j - 1], Strategies[j], tick)
  <2>1. CASE j = k
    <3>1. j - 1 \in 0..k /\ j - 1 # k /\ j # 0
      BY <1>3, <2>1
    <3>2. g[j - 1] = f[k - 1] /\ g[j] = last
      BY <2>1, <3>1
    <3>3. QED
      BY <2>1, <3>1, <3>2
  <2>2. CASE j # k
    <3>1. j \in 0..(k - 1) /\ g[j] = f[j]
      BY <2>2
    <3>2. f[j] = IF j = 0 THEN before ELSE ProcessStrategyTick(f[j - 1], Strategies[j], tick)
      BY <1>4, <3>1 DEF Stages
    <3>3. j # 0 => g[j - 1] = f[j - 1]
      BY <2>2
    <3>4. QED
      BY <3>1, <3>2, <3>3
  <2>3. QED
    BY <2>1, <2>2
<1>6. g = [j \in 0..k |-> g[j]]
  OBVIOUS
<1> HIDE DEF g
<1>7. Stages(before, tick, g, k)
  BY <1>5, <1>6 DEF Stages
<1>8. QED
  BY <1>7

\* So a tick leaves what its last stage does.
LEMMA TickStages ==
  ASSUME NEW before, NEW tick
  PROVE  /\ Len(Strategies) \in Nat
         /\ \E f : Stages(before, tick, f, Len(Strategies)) /\ ProcessTick(before, tick) = f[Len(Strategies)]
<1>1. Len(Strategies) \in Nat
  BY ShadowAssumption, LenProperties
<1> DEFINE f == CHOOSE f : Stages(before, tick, f, Len(Strategies))
<1>2. Stages(before, tick, f, Len(Strategies))
  BY <1>1, StagesExist
<1>3. ProcessTick(before, tick) = f[Len(Strategies)]
  BY DEF ProcessTick, Stages
<1>4. QED
  BY <1>1, <1>2, <1>3

------------------------------------------------------------------------------
\* One path and its trade.

Early == {"none", "observed", "missing"}
Outcomes == Early \union {"after_exit", "preempted", "interrupted"}
Statuses == {"none", "open", "complete", "interrupted", "exited_early", "exited_after_path"}
Path ==
  [mem : [tracked : BOOLEAN, timers : SUBSET Offsets, points : [Offsets -> Outcomes]],
   disk : [status : Statuses, final : BOOLEAN, points : [Offsets -> Outcomes]]]

Exited(p) == p.disk.status \in {"exited_early", "exited_after_path"}

\* The inductive part: a path that is still tracked is not final, one that is
\* not tracked has no timer, and an exit ends a path for good.
Sound(p) ==
  /\ p \in Path
  /\ p.disk.final => ~p.mem.tracked
  /\ Exited(p) => p.disk.final
  /\ ~p.mem.tracked => p.mem.timers = {}

\* What an exited path says of a trade that was held that long.
Settled(p, hold) ==
  \A o \in Offsets :
    /\ p.disk.points[o] # "interrupted"
    /\ p.disk.points[o] = "after_exit" => o > hold
    /\ p.disk.points[o] = "preempted" => o <= hold

\* It is inductive with what the path of an open trade may hold, which is what
\* the exit finds.
Tells(p, open, hold) ==
  /\ Exited(p) => ~open /\ Settled(p, hold)
  /\ ~open => p.mem.timers = {}
  /\ open /\ p.mem.tracked => \A o \in Offsets : p.mem.points[o] \in Early /\ p.disk.points[o] \in Early

\* What was concluded stays.
Kept(p, q) == p.disk.final => q.disk = p.disk

LEMMA NoPathSound ==
  ASSUME NEW hold
  PROVE  NoPath \in Path /\ Sound(NoPath) /\ Tells(NoPath, TRUE, hold) /\ ~NoPath.disk.final
BY DEF NoPath, NoPoint, Path, Early, Outcomes, Statuses, Sound, Tells, Exited

\* An entry starts its path (startTrade).
LEMMA StartSound ==
  ASSUME NEW fault, NEW hold
  PROVE  Sound(StartTrade(NoPath, fault)) /\ Tells(StartTrade(NoPath, fault), TRUE, hold)
BY DEF NoPath, NoPoint, StartTrade, Path, Early, Outcomes, Statuses, Sound, Tells, Exited

\* A timer that fires observes its offset (observe).
LEMMA ObserveSound ==
  ASSUME NEW p, Sound(p), NEW open \in BOOLEAN, NEW hold, Tells(p, open, hold), NEW o \in Offsets,
         NEW status \in {"observed", "missing"}, NEW fault
  PROVE  /\ Sound(Observe(p, o, status, fault))
         /\ Tells(Observe(p, o, status, fault), open, hold)
         /\ Kept(p, Observe(p, o, status, fault))
<1> DEFINE quiet == p.mem.timers \ {o}
           points == [p.mem.points EXCEPT ![o] = status]
           stored == [p.disk.points EXCEPT ![o] = status]
           q == Observe(p, o, status, fault)
<1>1. /\ p = [mem |-> p.mem, disk |-> p.disk] /\ p.mem = [tracked |-> p.mem.tracked, timers |-> p.mem.timers, points |-> p.mem.points]
      /\ p.disk = [status |-> p.disk.status, final |-> p.disk.final, points |-> p.disk.points]
  BY DEF Sound, Path
<1>2. points \in [Offsets -> Outcomes] /\ stored \in [Offsets -> Outcomes] /\ quiet \in SUBSET Offsets
  BY DEF Sound, Path, Outcomes, Early
<1>3. CASE ~p.mem.tracked
  <2>1. q = [p EXCEPT !.mem.timers = quiet]
    BY <1>3 DEF Observe
  <2>2. q = [mem |-> [tracked |-> p.mem.tracked, timers |-> quiet, points |-> p.mem.points], disk |-> p.disk]
    BY <1>1, <2>1
  <2>3. QED
    BY <1>2, <1>3, <2>2 DEF Sound, Path, Tells, Kept, Exited, Settled
<1>4. CASE p.mem.tracked
  <2>1. PICK disk : /\ q = [mem |-> [tracked |-> TRUE, timers |-> quiet, points |-> points], disk |-> disk]
                    /\ \/ disk = p.disk
                       \/ disk = [status |-> p.disk.status, final |-> p.disk.final, points |-> stored]
                       \/ \E st \in {"open", "complete"} : disk = [status |-> st, final |-> FALSE, points |-> stored]
    BY <1>1, <1>4 DEF Observe
  <2>2. \A x \in Offsets : p.mem.points[x] \in Early => points[x] \in Early
    BY DEF Early, Sound, Path
  <2>3. \A x \in Offsets : p.disk.points[x] \in Early => stored[x] \in Early
    BY DEF Early, Sound, Path
  <2> HIDE DEF q, points, stored, quiet
  <2>4. disk \in [status : Statuses, final : BOOLEAN, points : [Offsets -> Outcomes]]
    <3>1. p.disk \in [status : Statuses, final : BOOLEAN, points : [Offsets -> Outcomes]]
      BY DEF Sound, Path
    <3>2. p.disk.status \in Statuses /\ p.disk.final \in BOOLEAN /\ FALSE \in BOOLEAN
      BY <3>1
    <3>3. \A st \in {"open", "complete"} : st \in Statuses
      BY DEF Statuses
    <3>4. CASE disk = p.disk
      BY <3>1, <3>4
    <3>5. CASE disk = [status |-> p.disk.status, final |-> p.disk.final, points |-> stored]
      BY <1>2, <3>2, <3>5
    <3>6. ASSUME NEW st \in {"open", "complete"}, disk = [status |-> st, final |-> FALSE, points |-> stored]
          PROVE  disk \in [status : Statuses, final : BOOLEAN, points : [Offsets -> Outcomes]]
      BY <1>2, <3>2, <3>3, <3>6
    <3>7. QED
      BY <2>1, <3>4, <3>5, <3>6
  <2>5. ~p.disk.final /\ ~Exited(p) /\ ~disk.final /\ ~Exited(q)
    BY <1>4, <2>1 DEF Sound, Exited
  <2>6. q \in Path /\ q.mem.tracked /\ q.mem.timers = quiet /\ q.disk = disk /\ q.mem.points = points
    BY <1>2, <2>1, <2>4 DEF Path
  <2>7. ~open => quiet = {}
    BY DEF Tells, quiet
  <2>8. \A x \in Offsets : open => points[x] \in Early /\ disk.points[x] \in Early
    BY <1>4, <2>1, <2>2, <2>3 DEF Tells
  <2>9. Sound(q) /\ Tells(q, open, hold) /\ Kept(p, q)
    BY <2>5, <2>6, <2>7, <2>8 DEF Sound, Tells, Kept
  <2>10. QED
    BY <2>9 DEF q
<1>5. QED
  BY <1>3, <1>4 DEF Sound, Path

\* What settling a path p to q does, whichever write fails.
Settling(p, q, outcome, status) ==
  /\ q \in Path /\ q.mem.timers = {}
  /\ \/ q.mem.tracked /\ q.disk = p.disk
     \/ q.mem.tracked /\ q.disk.status = p.disk.status /\ ~q.disk.final
     \/ ~q.mem.tracked /\ q.disk.status = status /\ q.disk.final
  /\ \/ q.disk = p.disk
     \/ q.disk.points = [o \in Offsets |-> IF p.mem.points[o] = "none" THEN outcome[o] ELSE p.disk.points[o]]

LEMMA SettleSound ==
  ASSUME NEW p, Sound(p), p.mem.tracked, NEW outcome \in [Offsets -> Outcomes],
         NEW status \in Statuses, NEW fault
  PROVE  Settling(p, Settle(p, outcome, status, fault), outcome, status)
<1> DEFINE Open == Unsettled(p.mem.points)
           settled == [o \in Offsets |-> IF o \in Open THEN outcome[o] ELSE p.mem.points[o]]
           stored == [o \in Offsets |-> IF o \in Open THEN outcome[o] ELSE p.disk.points[o]]
           first == [p.mem.points EXCEPT ![Min(Open)] = outcome[Min(Open)]]
           q == Settle(p, outcome, status, fault)
<1>1. PICK timers \in SUBSET Offsets, mp \in [Offsets -> Outcomes], dp \in [Offsets -> Outcomes], st \in Statuses :
        p = [mem |-> [tracked |-> TRUE, timers |-> timers, points |-> mp],
             disk |-> [status |-> st, final |-> FALSE, points |-> dp]]
  BY DEF Sound, Path
<1>2. p.mem.points = mp /\ p.disk.points = dp
  BY <1>1
<1>3. settled \in [Offsets -> Outcomes] /\ stored \in [Offsets -> Outcomes] /\ first \in [Offsets -> Outcomes]
  BY <1>2
<1>4. stored = [o \in Offsets |-> IF p.mem.points[o] = "none" THEN outcome[o] ELSE p.disk.points[o]]
  BY DEF Unsettled
<1>5. PICK quiet : quiet = [p EXCEPT !.mem.timers = {}]
  OBVIOUS
<1>6. quiet = [mem |-> [tracked |-> TRUE, timers |-> {}, points |-> mp], disk |-> [status |-> st, final |-> FALSE, points |-> dp]]
  BY <1>1, <1>5
<1>7. q = IF fault = "point"
          THEN IF Open = {} THEN quiet ELSE [quiet EXCEPT !.mem.points = first]
          ELSE IF fault = "metrics"
          THEN [quiet EXCEPT !.mem.points = settled, !.disk.points = stored]
          ELSE [mem |-> [quiet.mem EXCEPT !.points = settled, !.tracked = FALSE],
                disk |-> [points |-> stored, final |-> TRUE, status |-> status]]
  <2>1. [quiet EXCEPT !.mem.points = first] = [quiet EXCEPT !.mem.points[Min(Open)] = outcome[Min(Open)]]
    BY <1>2, <1>6
  <2>2. QED
    BY <1>5, <2>1 DEF Settle
<1> HIDE DEF q, settled, stored, first, Open
<1> DEFINE Mem == [tracked : BOOLEAN, timers : SUBSET Offsets, points : [Offsets -> Outcomes]]
           Disk == [status : Statuses, final : BOOLEAN, points : [Offsets -> Outcomes]]
<1>8. \A b \in BOOLEAN, points \in [Offsets -> Outcomes] : [tracked |-> b, timers |-> {}, points |-> points] \in Mem
  OBVIOUS
<1>9. \A s \in Statuses, b \in BOOLEAN, points \in [Offsets -> Outcomes] : [status |-> s, final |-> b, points |-> points] \in Disk
  OBVIOUS
<1>10. TRUE \in BOOLEAN /\ FALSE \in BOOLEAN
  OBVIOUS
<1> DEFINE left == [status |-> st, final |-> FALSE, points |-> dp]
           cut == [status |-> st, final |-> FALSE, points |-> stored]
           ended == [status |-> status, final |-> TRUE, points |-> stored]
           Ends(m, d) == /\ q = [mem |-> m, disk |-> d] /\ m.timers = {}
                         /\ (m.tracked /\ (d = left \/ d = cut)) \/ (~m.tracked /\ d = ended)
<1>11. \E m \in Mem, d \in Disk : Ends(m, d)
  <2>1. left \in Disk /\ cut \in Disk /\ ended \in Disk
    BY <1>3, <1>9, <1>10
  <2> HIDE DEF left, cut, ended, Disk, Mem
  <2>2. CASE fault = "point"
    <3>1. PICK points \in {mp, first} : q = [mem |-> [tracked |-> TRUE, timers |-> {}, points |-> points], disk |-> left]
      BY <1>6, <1>7, <2>2 DEF left
    <3>2. PICK m \in Mem : m = [tracked |-> TRUE, timers |-> {}, points |-> points]
      BY <1>3, <1>8, <1>10
    <3>3. Ends(m, left)
      BY <3>1, <3>2
    <3>4. QED
      BY <2>1, <3>3
  <2>3. CASE fault = "metrics"
    <3>1. q = [mem |-> [tracked |-> TRUE, timers |-> {}, points |-> settled], disk |-> cut]
      BY <1>6, <1>7, <2>3 DEF cut
    <3>2. PICK m \in Mem : m = [tracked |-> TRUE, timers |-> {}, points |-> settled]
      BY <1>3, <1>8, <1>10
    <3>3. Ends(m, cut)
      BY <3>1, <3>2
    <3>4. QED
      BY <2>1, <3>3
  <2>4. CASE fault \notin {"point", "metrics"}
    <3>1. q = [mem |-> [tracked |-> FALSE, timers |-> {}, points |-> settled], disk |-> ended]
      BY <1>6, <1>7, <2>4 DEF ended
    <3>2. PICK m \in Mem : m = [tracked |-> FALSE, timers |-> {}, points |-> settled]
      BY <1>3, <1>8, <1>10
    <3>3. Ends(m, ended)
      BY <3>1, <3>2
    <3>4. QED
      BY <2>1, <3>3
  <2>5. QED
    BY <2>2, <2>3, <2>4
<1>12. p.disk = left /\ p.disk.status = st /\ ~p.disk.final
  BY <1>1
<1>13. /\ cut.status = st /\ ~cut.final /\ cut.points = stored
       /\ ended.status = status /\ ended.final /\ ended.points = stored
  OBVIOUS
<1> HIDE DEF left, cut, ended
<1>14. Settling(p, q, outcome, status)
  BY <1>4, <1>11, <1>12, <1>13 DEF Settling, Path
<1>15. QED
  BY <1>14 DEF q

\* The exit ends the path of its trade, or leaves it tracked (recordExit).
LEMMA ExitSound ==
  ASSUME NEW p, Sound(p), NEW was, Tells(p, TRUE, was), NEW hold \in Int, NEW fault
  PROVE  /\ Sound(RecordExit(p, hold, fault))
         /\ Tells(RecordExit(p, hold, fault), FALSE, hold)
         /\ Kept(p, RecordExit(p, hold, fault))
<1>1. CASE ~p.mem.tracked
  BY <1>1 DEF RecordExit, Sound, Tells, Kept
<1>2. CASE p.mem.tracked
  <2> DEFINE outcome == [o \in Offsets |-> IF o > hold THEN "after_exit" ELSE "preempted"]
             status == IF AllObserved(p.mem.points) THEN "exited_after_path" ELSE "exited_early"
             r == RecordExit(p, hold, fault)
  <2>1. outcome \in [Offsets -> Outcomes] /\ status \in Statuses
    BY DEF Outcomes, Statuses
  <2>2. r = Settle(p, outcome, status, fault)
    BY <1>2 DEF RecordExit
  <2>3. \A o \in Offsets : /\ outcome[o] # "interrupted"
                           /\ outcome[o] = "after_exit" => o > hold
                           /\ outcome[o] = "preempted" => o <= hold
    BY OffsetsAssumption
  <2> HIDE DEF outcome, status, r
  <2>4. Settling(p, r, outcome, status)
    BY <1>2, <2>1, <2>2, SettleSound
  <2>5. ~p.disk.final /\ ~Exited(p)
    BY <1>2 DEF Sound
  <2>6. Sound(r)
    BY <2>4, <2>5 DEF Sound, Exited, Settling
  <2>7. ASSUME Exited(r) PROVE Settled(r, hold)
    <3>1. r.disk.points = [o \in Offsets |-> IF p.mem.points[o] = "none" THEN outcome[o] ELSE p.disk.points[o]]
      BY <2>4, <2>5, <2>7 DEF Exited, Settling
    <3>2. \A o \in Offsets : p.disk.points[o] \in Early
      BY <1>2 DEF Tells
    <3>3. \A o \in Offsets : r.disk.points[o] = outcome[o] \/ r.disk.points[o] \in Early
      BY <3>1, <3>2
    <3>4. QED
      BY <2>3, <3>3 DEF Settled, Early
  <2>8. Tells(r, FALSE, hold) /\ Kept(p, r)
    BY <2>4, <2>5, <2>7 DEF Tells, Kept, Settling
  <2>9. QED
    BY <2>6, <2>8 DEF r
<1>3. QED
  BY <1>1, <1>2 DEF Sound, Path

\* Shutdown ends every path that is tracked (stop).
LEMMA StopSound ==
  ASSUME NEW p, Sound(p), NEW open \in BOOLEAN, NEW hold, Tells(p, open, hold), NEW fault
  PROVE  /\ Sound(StopPath(p, fault))
         /\ Tells(StopPath(p, fault), open, hold)
         /\ Kept(p, StopPath(p, fault))
<1>1. CASE ~p.mem.tracked
  BY <1>1 DEF StopPath, Kept
<1>2. CASE p.mem.tracked
  <2> DEFINE outcome == [o \in Offsets |-> "interrupted"]
             real == IF fault = "point" /\ Unsettled(p.mem.points) = {} THEN "none" ELSE fault
             status == IF AllObserved(p.mem.points) THEN "complete" ELSE "interrupted"
             q == Settle(p, outcome, status, real)
             r == StopPath(p, fault)
  <2>1. outcome \in [Offsets -> Outcomes] /\ status \in Statuses /\ status \notin {"exited_early", "exited_after_path"}
    BY DEF Outcomes, Statuses
  <2>2. r = [q EXCEPT !.mem.tracked = FALSE]
    BY <1>2 DEF StopPath
  <2> HIDE DEF outcome, real, status, q, r
  <2>3. Settling(p, q, outcome, status)
    BY <1>2, <2>1, SettleSound DEF q
  <2>4. ~p.disk.final /\ ~Exited(p)
    BY <1>2 DEF Sound
  <2>5. r \in Path /\ ~r.mem.tracked /\ r.mem.timers = {} /\ r.disk = q.disk
    BY <2>2, <2>3 DEF Path, Settling
  <2>6. ~Exited(r)
    BY <2>1, <2>3, <2>4, <2>5 DEF Exited, Settling
  <2>7. Sound(r) /\ Tells(r, open, hold) /\ Kept(p, r)
    BY <2>4, <2>5, <2>6 DEF Sound, Tells, Kept
  <2>8. QED
    BY <2>7 DEF r
<1>3. QED
  BY <1>1, <1>2 DEF Sound, Path

\* The end of the process leaves what is on disk.
LEMMA ForgetSound ==
  ASSUME NEW p, Sound(p), NEW open \in BOOLEAN, NEW hold, Tells(p, open, hold)
  PROVE  /\ Sound(Forgotten(p)) /\ Tells(Forgotten(p), open, hold) /\ Kept(p, Forgotten(p))
<1>1. NoPath.mem \in [tracked : BOOLEAN, timers : SUBSET Offsets, points : [Offsets -> Outcomes]]
  BY DEF NoPath, NoPoint, Outcomes, Early
<1>2. ~NoPath.mem.tracked /\ NoPath.mem.timers = {}
  BY DEF NoPath
<1>3. Forgotten(p) = [mem |-> NoPath.mem, disk |-> p.disk]
  BY DEF Forgotten, Sound, Path
<1>4. Forgotten(p) \in Path
  BY <1>1, <1>3 DEF Sound, Path
<1>5. QED
  BY <1>2, <1>3, <1>4 DEF Sound, Tells, Kept, Exited, Settled

------------------------------------------------------------------------------
\* What one strategy does on a tick.

LEMMA DayOfTick ==
  ASSUME NEW t \in 0..MaxTime PROVE DayOf(t) \in Days
<1> DEFINE q == t \div DayLength
           r == MaxTime \div DayLength
<1>1. DayLength \in Nat /\ DayLength > 0 /\ MaxTime \in Nat /\ t \in Nat /\ t <= MaxTime
  BY ShadowAssumption
<1>2. q \in Nat /\ DayLength * q <= t
  BY <1>1
<1>3. r \in Nat /\ MaxTime < DayLength * (r + 1)
  BY <1>1
<1> HIDE DEF q, r
<1>4. ASSUME q > r PROVE FALSE
  <2>1. PICK k \in Nat : q = (r + 1) + k
    <3>1. q - (r + 1) \in Nat /\ q = (r + 1) + (q - (r + 1))
      BY <1>2, <1>3, <1>4
    <3>2. QED
      BY <3>1
  <2>2. DayLength * q = DayLength * (r + 1) + DayLength * k /\ DayLength * k >= 0
    BY <1>1, <1>3, <2>1
  <2>3. QED
    BY <1>1, <1>2, <1>3, <2>2
<1>5. q \in 0..r
  BY <1>2, <1>3, <1>4
<1>6. QED
  BY <1>5 DEF DayOf, Days, q, r

\* The first open trade of a token is one of them.
LEMMA MinIn ==
  ASSUME NEW S, S \subseteq Nat, S # {} PROVE Min(S) \in S
BY Least DEF Min

LEMMA BookSets ==
  ASSUME NEW b, Book(b)
  PROVE  /\ Len(b) \in Nat /\ DOMAIN b = 1..Len(b)
         /\ \A s : OpenOf(b, s) \subseteq 1..Len(b) /\ IsFiniteSet(OpenOf(b, s)) /\ Cardinality(OpenOf(b, s)) \in Nat
         /\ \A s, m : TradesOf(b, s, m) \subseteq 1..Len(b) /\ IsFiniteSet(TradesOf(b, s, m)) /\ Cardinality(TradesOf(b, s, m)) \in Nat
<1>1. Len(b) \in Nat /\ DOMAIN b = 1..Len(b)
  BY DEF Book
<1>2. IsFiniteSet(1..Len(b))
  BY <1>1, FS_Interval
<1>3. ASSUME NEW s PROVE OpenOf(b, s) \subseteq 1..Len(b) /\ IsFiniteSet(OpenOf(b, s)) /\ Cardinality(OpenOf(b, s)) \in Nat
  <2>1. OpenOf(b, s) \subseteq 1..Len(b)
    BY <1>1 DEF OpenOf
  <2>2. QED
    BY <1>2, <2>1, FS_Subset, FS_CardinalityType
<1>4. ASSUME NEW s, NEW m
      PROVE  TradesOf(b, s, m) \subseteq 1..Len(b) /\ IsFiniteSet(TradesOf(b, s, m)) /\ Cardinality(TradesOf(b, s, m)) \in Nat
  <2>1. TradesOf(b, s, m) \subseteq 1..Len(b)
    BY <1>1 DEF TradesOf
  <2>2. QED
    BY <1>2, <2>1, FS_Subset, FS_CardinalityType
<1>5. QED
  BY <1>1, <1>3, <1>4

NewRow(s, tick) ==
  [strategy |-> s, mint |-> tick.mint, entryAt |-> tick.at, open |-> TRUE, exitAt |-> -1, pnl |-> 0]

ClosedRow(r, tick) == [r EXCEPT !.open = FALSE, !.pnl = tick.gain, !.exitAt = tick.at]

\* The day with the breaker as the entry leaves it.
Looked(d, s, day) ==
  [d EXCEPT ![s][day].latched = ShouldLatchCircuitBreaker(d[s][day].latched, d[s][day].pnl, StartingBalance)]

\* The day after an exit, with a fault or without.
Posted(d, s, day, tick) ==
  LET after == AfterExit(d[s][day], tick.gain)
  IN  CASE tick.fault = "pnl" -> d
        [] tick.fault = "latch" -> [d EXCEPT ![s][day].pnl = after.pnl]
        [] OTHER -> [d EXCEPT ![s][day] = after]

Looks(w, v, s, tick) ==
  /\ v.trades = w.trades /\ v.paths = w.paths /\ v.torn = w.torn
  /\ v.daily = w.daily \/ v.daily = Looked(w.daily, s, DayOf(tick.at))

Enters(w, v, s, tick) ==
  /\ OpenOf(w.trades, s) \intersect TradesOf(w.trades, s, tick.mint) = {}
  /\ Cardinality(OpenOf(w.trades, s)) < MaxPositions
  /\ Cardinality(TradesOf(w.trades, s, tick.mint)) <= MaxReentries
  /\ Len(w.trades) < MaxTrades
  /\ v.trades = Append(w.trades, NewRow(s, tick))
  /\ v.paths = [w.paths EXCEPT ![Len(w.trades) + 1] = StartTrade(w.paths[Len(w.trades) + 1], tick.fault)]
  /\ v.torn = w.torn
  /\ v.daily = Looked(w.daily, s, DayOf(tick.at))

Leaves(w, v, s, i, tick) ==
  /\ v.trades = [w.trades EXCEPT ![i] = ClosedRow(w.trades[i], tick)]
  /\ v.paths = [w.paths EXCEPT ![i] = RecordExit(w.paths[i], tick.at - w.trades[i].entryAt, tick.fault)]
  /\ v.torn = IF tick.fault \in {"pnl", "latch"} THEN w.torn \union {<<i, tick.fault>>} ELSE w.torn
  /\ v.daily = Posted(w.daily, s, DayOf(tick.at), tick)

LEMMA EntryKinds ==
  ASSUME NEW w, IsWorld(w), Book(w.trades), NEW s \in Names, NEW tick,
         OpenOf(w.trades, s) \intersect TradesOf(w.trades, s, tick.mint) = {}
  PROVE  LET v == ProcessEntry(w, s, tick) IN IsWorld(v) /\ (Looks(w, v, s, tick) \/ Enters(w, v, s, tick))
<1> DEFINE v == ProcessEntry(w, s, tick)
           day == w.daily[s][DayOf(tick.at)]
           looked == [w EXCEPT !.daily[s][DayOf(tick.at)].latched =
                        ShouldLatchCircuitBreaker(day.latched, day.pnl, StartingBalance)]
           history == TokenHistory(w.trades, s, tick.mint)
           allowed == EntryAllowed(FALSE, day, Cardinality(OpenOf(w.trades, s)), history, tick.at)
           entered == [looked EXCEPT !.trades = Append(@, NewRow(s, tick)),
                                     !.paths[Len(w.trades) + 1] = StartTrade(@, tick.fault)]
<1>1. PICK l : l = looked
  OBVIOUS
<1>2. IsWorld(l) /\ l.trades = w.trades /\ l.paths = w.paths /\ l.torn = w.torn /\ l.daily = Looked(w.daily, s, DayOf(tick.at))
  <2>1. l = [w EXCEPT !.daily = Looked(w.daily, s, DayOf(tick.at))]
    BY <1>1 DEF Looked
  <2>2. QED
    BY <2>1 DEF IsWorld
<1>3. v = IF s \notin tick.wish THEN w ELSE IF ~allowed THEN l ELSE IF Len(w.trades) = MaxTrades THEN w
          ELSE [l EXCEPT !.trades = Append(@, NewRow(s, tick)), !.paths[Len(w.trades) + 1] = StartTrade(@, tick.fault)]
  BY <1>1 DEF ProcessEntry, NewRow
<1>4. PICK t : t = [l EXCEPT !.trades = Append(@, NewRow(s, tick)), !.paths[Len(w.trades) + 1] = StartTrade(@, tick.fault)]
  OBVIOUS
<1>5. /\ IsWorld(t) /\ t.torn = w.torn /\ t.daily = Looked(w.daily, s, DayOf(tick.at))
      /\ t.trades = Append(w.trades, NewRow(s, tick))
      /\ t.paths = [w.paths EXCEPT ![Len(w.trades) + 1] = StartTrade(w.paths[Len(w.trades) + 1], tick.fault)]
  BY <1>2, <1>4 DEF IsWorld
<1>6. history.totalTrades = Cardinality(TradesOf(w.trades, s, tick.mint))
  BY DEF TokenHistory
<1>7. allowed => /\ Cardinality(OpenOf(w.trades, s)) < MaxPositions
                 /\ Cardinality(TradesOf(w.trades, s, tick.mint)) <= MaxReentries
  <2> HIDE DEF history, day
  <2>1. QED
    BY <1>6 DEF EntryAllowed, CanOpenNewPosition, CanReenter
<1> HIDE DEF allowed, history
<1>8. Len(w.trades) # MaxTrades => Len(w.trades) < MaxTrades
  BY ShadowAssumption, BookSets DEF Book
<1>9. CASE v = w
  BY <1>9 DEF Looks
<1>10. CASE v = l
  BY <1>2, <1>10 DEF Looks
<1>11. CASE v = t /\ allowed /\ Len(w.trades) # MaxTrades
  <2> HIDE DEF v
  <2>1. IsWorld(v) /\ Enters(w, v, s, tick)
    BY <1>5, <1>7, <1>8, <1>11 DEF Enters
  <2>2. QED
    BY <2>1 DEF v
<1>12. QED
  BY <1>3, <1>4, <1>9, <1>10, <1>11

LEMMA ExitKinds ==
  ASSUME NEW w, IsWorld(w), NEW s, NEW i, NEW tick
  PROVE  LET v == ProcessExit(w, s, i, tick) IN IsWorld(v) /\ (Looks(w, v, s, tick) \/ Leaves(w, v, s, i, tick))
<1> DEFINE v == ProcessExit(w, s, i, tick)
           tears == tick.fault \in {"pnl", "latch"}
<1>1. CASE s \notin tick.wish
  BY <1>1 DEF ProcessExit, Looks
<1>2. CASE s \in tick.wish
  <2>1. PICK r : r = [w EXCEPT !.trades[i] = [@ EXCEPT !.open = FALSE, !.pnl = tick.gain, !.exitAt = tick.at],
                               !.paths[i] = RecordExit(@, tick.at - w.trades[i].entryAt, tick.fault)]
    OBVIOUS
  <2>2. /\ IsWorld(r) /\ r.daily = w.daily /\ r.torn = w.torn
        /\ r.trades = [w.trades EXCEPT ![i] = ClosedRow(w.trades[i], tick)]
        /\ r.paths = [w.paths EXCEPT ![i] = RecordExit(w.paths[i], tick.at - w.trades[i].entryAt, tick.fault)]
    BY <2>1 DEF IsWorld, ClosedRow
  <2>3. PICK p : p = PostExit(r, s, tick)
    OBVIOUS
  <2>4. /\ IsWorld(p) /\ p.daily = Posted(w.daily, s, DayOf(tick.at), tick)
        /\ p.trades = r.trades /\ p.paths = r.paths /\ p.torn = r.torn
    <3>1. p = [r EXCEPT !.daily = Posted(r.daily, s, DayOf(tick.at), tick)]
      <4>1. r = [r EXCEPT !.daily = r.daily]
        BY <2>2 DEF IsWorld
      <4>2. QED
        BY <2>3, <4>1 DEF PostExit, Posted
    <3>2. QED
      BY <2>2, <3>1 DEF IsWorld
  <2>5. v = [p EXCEPT !.torn = IF tears THEN @ \union {<<i, tick.fault>>} ELSE @, !.halted = tears]
    BY <1>2, <2>1, <2>3 DEF ProcessExit
  <2> HIDE DEF v
  <2>6. /\ IsWorld(v) /\ v.trades = p.trades /\ v.paths = p.paths /\ v.daily = p.daily
        /\ v.torn = IF tears THEN p.torn \union {<<i, tick.fault>>} ELSE p.torn
    BY <2>4, <2>5 DEF IsWorld
  <2>7. Leaves(w, v, s, i, tick)
    BY <2>2, <2>4, <2>6 DEF Leaves
  <2>8. QED
    BY <2>6, <2>7 DEF v
<1>3. QED
  BY <1>1, <1>2

\* A strategy looks on, enters, or closes an open trade of its own.
LEMMA Kinds ==
  ASSUME NEW w, IsWorld(w), Book(w.trades), NEW s \in Names, NEW tick, NEW v, v = ProcessStrategyTick(w, s, tick)
  PROVE  /\ IsWorld(v)
         /\ Looks(w, v, s, tick) \/ Enters(w, v, s, tick) \/ \E i \in OpenOf(w.trades, s) : Leaves(w, v, s, i, tick)
<1> DEFINE open == OpenOf(w.trades, s) \intersect TradesOf(w.trades, s, tick.mint)
<1>1. CASE w.halted
  BY <1>1 DEF ProcessStrategyTick, Looks
<1>2. CASE ~w.halted /\ open = {}
  BY <1>2, EntryKinds DEF ProcessStrategyTick
<1>3. CASE ~w.halted /\ open # {}
  <2>1. open \subseteq Nat
    BY BookSets
  <2>2. PICK i \in open : i = Min(open)
    BY <1>3, <2>1, MinIn
  <2>3. v = ProcessExit(w, s, i, tick)
    BY <1>3, <2>2 DEF ProcessStrategyTick
  <2>4. QED
    BY <2>2, <2>3, ExitKinds
<1>4. QED
  BY <1>1, <1>2, <1>3

------------------------------------------------------------------------------
\* The limits.

\* A strategy's own limits in a book of trades.
Within(b) ==
  \A s \in Names :
    /\ Cardinality(OpenOf(b, s)) <= MaxPositions
    /\ \A m \in Mints :
         /\ \A i, j \in OpenOf(b, s) \intersect TradesOf(b, s, m) : i = j
         /\ Cardinality(TradesOf(b, s, m)) <= MaxReentries + 1

LEMMA LimitsFollow ==
  ASSUME Book(trades), Within(trades) PROVE ShadowLimits
<1>1. ASSUME NEW s \in Names
      PROVE  /\ {i \in {j \in DOMAIN trades : trades[j].strategy = s} : trades[i].open} = OpenOf(trades, s)
             /\ \A m \in Mints : {i \in {j \in DOMAIN trades : trades[j].strategy = s} : trades[i].mint = m} = TradesOf(trades, s, m)
             /\ \A m \in Mints : {i \in OpenOf(trades, s) : trades[i].mint = m} = OpenOf(trades, s) \intersect TradesOf(trades, s, m)
  BY DEF OpenOf, TradesOf
<1>2. ASSUME NEW s \in Names, NEW m \in Mints
      PROVE  Cardinality(OpenOf(trades, s) \intersect TradesOf(trades, s, m)) <= 1
  <2> DEFINE S == OpenOf(trades, s) \intersect TradesOf(trades, s, m)
  <2>1. \A i, j \in S : i = j
    BY DEF Within
  <2> HIDE DEF S
  <2>2. CASE S = {}
    BY <2>2, FS_EmptySet DEF S
  <2>3. CASE S # {}
    <3>1. PICK i \in S : S = {i}
      BY <2>1, <2>3
    <3>2. QED
      BY <3>1, FS_Singleton DEF S
  <2>4. QED
    BY <2>2, <2>3
<1>3. QED
  BY <1>1, <1>2 DEF ShadowLimits, Within

\* A trade more.
LEMMA AppendSets ==
  ASSUME NEW b, Book(b), NEW r \in Row, r.open, NEW s, NEW m
  PROVE  /\ OpenOf(Append(b, r), s) = OpenOf(b, s) \union (IF r.strategy = s THEN {Len(b) + 1} ELSE {})
         /\ TradesOf(Append(b, r), s, m) =
              TradesOf(b, s, m) \union (IF r.strategy = s /\ r.mint = m THEN {Len(b) + 1} ELSE {})
<1> DEFINE c == Append(b, r)
<1>1. DOMAIN b = 1..Len(b) /\ Len(b) \in Nat
  BY BookSets
<1>2. DOMAIN c = 1..(Len(b) + 1) /\ c[Len(b) + 1] = r /\ \A i \in 1..Len(b) : c[i] = b[i]
  BY <1>1, AppendProperties DEF Book
<1>3. 1..(Len(b) + 1) = 1..Len(b) \union {Len(b) + 1}
  BY <1>1
<1> HIDE DEF c
<1>4. /\ OpenOf(c, s) = OpenOf(b, s) \union (IF r.strategy = s THEN {Len(b) + 1} ELSE {})
      /\ TradesOf(c, s, m) = TradesOf(b, s, m) \union (IF r.strategy = s /\ r.mint = m THEN {Len(b) + 1} ELSE {})
  BY <1>1, <1>2, <1>3 DEF OpenOf, TradesOf
<1>5. QED
  BY <1>4 DEF c

LEMMA EnterWithin ==
  ASSUME NEW b, Book(b), Within(b), Len(b) < MaxTrades, NEW r \in Row, r.open,
         OpenOf(b, r.strategy) \intersect TradesOf(b, r.strategy, r.mint) = {},
         Cardinality(OpenOf(b, r.strategy)) < MaxPositions,
         Cardinality(TradesOf(b, r.strategy, r.mint)) <= MaxReentries
  PROVE  Book(Append(b, r)) /\ Within(Append(b, r))
<1> DEFINE c == Append(b, r)
           n == Len(b) + 1
<1>1. Book(c)
  BY ShadowAssumption DEF Book
<1>2. MaxPositions \in Nat /\ MaxReentries \in Nat
  BY RiskAssumption
<1>3. ASSUME NEW s, NEW m
      PROVE  /\ OpenOf(c, s) = OpenOf(b, s) \union (IF r.strategy = s THEN {n} ELSE {})
             /\ TradesOf(c, s, m) = TradesOf(b, s, m) \union (IF r.strategy = s /\ r.mint = m THEN {n} ELSE {})
             /\ n \notin OpenOf(b, s) /\ n \notin TradesOf(b, s, m)
  <2>1. n \notin 1..Len(b)
    BY BookSets
  <2>2. OpenOf(b, s) \subseteq 1..Len(b) /\ TradesOf(b, s, m) \subseteq 1..Len(b)
    BY BookSets
  <2>3. n \notin OpenOf(b, s) /\ n \notin TradesOf(b, s, m)
    BY <2>1, <2>2
  <2>4. /\ OpenOf(c, s) = OpenOf(b, s) \union (IF r.strategy = s THEN {n} ELSE {})
        /\ TradesOf(c, s, m) = TradesOf(b, s, m) \union (IF r.strategy = s /\ r.mint = m THEN {n} ELSE {})
    BY AppendSets
  <2>5. QED
    BY <2>3, <2>4
<1> HIDE DEF c, n
<1>4. ASSUME NEW s \in Names PROVE Cardinality(OpenOf(c, s)) <= MaxPositions
  <2>1. CASE r.strategy = s
    <3>1. Cardinality(OpenOf(c, s)) = Cardinality(OpenOf(b, s)) + 1
      BY <1>3, <2>1, BookSets, FS_AddElement
    <3>2. QED
      BY <1>2, <2>1, <3>1, BookSets
  <2>2. CASE r.strategy # s
    BY <1>3, <2>2 DEF Within
  <2>3. QED
    BY <2>1, <2>2
<1>5. ASSUME NEW s \in Names, NEW m \in Mints PROVE Cardinality(TradesOf(c, s, m)) <= MaxReentries + 1
  <2>1. CASE r.strategy = s /\ r.mint = m
    <3>1. Cardinality(TradesOf(c, s, m)) = Cardinality(TradesOf(b, s, m)) + 1
      BY <1>3, <2>1, BookSets, FS_AddElement
    <3>2. QED
      BY <1>2, <2>1, <3>1, BookSets
  <2>2. CASE ~(r.strategy = s /\ r.mint = m)
    <3>1. TradesOf(c, s, m) = TradesOf(b, s, m)
      <4>1. TradesOf(c, s, m) = TradesOf(b, s, m) \union (IF r.strategy = s /\ r.mint = m THEN {n} ELSE {})
        BY <1>3
      <4>2. (IF r.strategy = s /\ r.mint = m THEN {n} ELSE {}) = {}
        BY <2>2
      <4>3. QED
        BY <4>1, <4>2
    <3>2. QED
      BY <3>1 DEF Within
  <2>3. QED
    BY <2>1, <2>2
<1>6. ASSUME NEW s \in Names, NEW m \in Mints, NEW i \in OpenOf(c, s) \intersect TradesOf(c, s, m),
             NEW j \in OpenOf(c, s) \intersect TradesOf(c, s, m)
      PROVE  i = j
  <2>1. CASE r.strategy = s /\ r.mint = m
    BY <1>3, <2>1
  <2>2. CASE ~(r.strategy = s /\ r.mint = m)
    BY <1>3, <2>2 DEF Within
  <2>3. QED
    BY <2>1, <2>2
<1>7. Within(c)
  BY <1>4, <1>5, <1>6 DEF Within
<1>8. QED
  BY <1>1, <1>7 DEF c

\* A trade that closes keeps its strategy and its token.
LEMMA CloseSets ==
  ASSUME NEW b, Book(b), NEW s, NEW i \in OpenOf(b, s), NEW tick, tick.at \in Int, tick.gain \in Int,
         NEW r, r = ClosedRow(b[i], tick)
  PROVE  /\ r \in Row /\ ~r.open /\ r.exitAt = tick.at /\ r.pnl = tick.gain
         /\ r.strategy = s /\ r.mint = b[i].mint /\ r.entryAt = b[i].entryAt
         /\ i \in 1..Len(b) /\ b[i] \in Row /\ b[i].open /\ b[i].strategy = s
         /\ Book([b EXCEPT ![i] = r]) /\ Len([b EXCEPT ![i] = r]) = Len(b)
<1>1. i \in 1..Len(b) /\ b[i] \in Row /\ b[i].open /\ b[i].strategy = s
  BY BookSets DEF OpenOf, Book
<1>2. r \in Row /\ ~r.open /\ r.exitAt = tick.at /\ r.pnl = tick.gain
      /\ r.strategy = s /\ r.mint = b[i].mint /\ r.entryAt = b[i].entryAt
  BY <1>1 DEF ClosedRow, Row
<1>3. Book([b EXCEPT ![i] = r]) /\ Len([b EXCEPT ![i] = r]) = Len(b)
  BY <1>1, <1>2, ExceptSeq DEF Book
<1>4. QED
  BY <1>1, <1>2, <1>3

LEMMA LeaveWithin ==
  ASSUME NEW b, Book(b), Within(b), NEW s, NEW i \in OpenOf(b, s), NEW r \in Row, ~r.open,
         r.strategy = b[i].strategy, r.mint = b[i].mint
  PROVE  Within([b EXCEPT ![i] = r])
<1> DEFINE c == [b EXCEPT ![i] = r]
<1>1. i \in 1..Len(b) /\ DOMAIN b = 1..Len(b) /\ DOMAIN c = 1..Len(b) /\ c[i] = r /\ \A j \in DOMAIN b : j # i => c[j] = b[j]
  BY BookSets DEF OpenOf
<1> HIDE DEF c
<1>2. ASSUME NEW q, NEW m PROVE OpenOf(c, q) \subseteq OpenOf(b, q) /\ TradesOf(c, q, m) = TradesOf(b, q, m)
  BY <1>1 DEF OpenOf, TradesOf
<1>3. ASSUME NEW q \in Names PROVE Cardinality(OpenOf(c, q)) <= MaxPositions
  <2>1. Cardinality(OpenOf(c, q)) <= Cardinality(OpenOf(b, q)) /\ Cardinality(OpenOf(c, q)) \in Nat
    BY <1>2, BookSets, FS_Subset, FS_CardinalityType
  <2>2. Cardinality(OpenOf(b, q)) \in Nat /\ Cardinality(OpenOf(b, q)) <= MaxPositions /\ MaxPositions \in Nat
    BY BookSets, RiskAssumption DEF Within
  <2>3. QED
    BY <2>1, <2>2
<1>4. Within(c)
  BY <1>2, <1>3 DEF Within
<1>5. QED
  BY <1>4 DEF c

------------------------------------------------------------------------------
\* The paths of a book's trades.

PathsOk(b, ps) ==
  /\ ps \in [1..MaxTrades -> Path]
  /\ \A i \in 1..MaxTrades : Sound(ps[i])
  /\ \A i \in 1..Len(b) : Tells(ps[i], b[i].open, b[i].exitAt - b[i].entryAt)
  /\ \A i \in 1..MaxTrades : i > Len(b) => ps[i] = NoPath

AllKept(ps, qs) == \A i \in 1..MaxTrades : Kept(ps[i], qs[i])

\* One path changes.
LEMMA PathChanges ==
  ASSUME NEW b, Len(b) \in 0..MaxTrades, NEW ps, PathsOk(b, ps), NEW c, NEW i \in 1..MaxTrades, NEW q, Sound(q), Kept(ps[i], q),
         Len(c) \in 0..MaxTrades, 1..Len(c) = 1..Len(b) \union {i}, Tells(q, c[i].open, c[i].exitAt - c[i].entryAt),
         \A j \in 1..Len(b) : j # i => c[j] = b[j]
  PROVE  PathsOk(c, [ps EXCEPT ![i] = q]) /\ AllKept(ps, [ps EXCEPT ![i] = q])
<1> DEFINE qs == [ps EXCEPT ![i] = q]
<1>1. qs \in [1..MaxTrades -> Path] /\ qs[i] = q /\ \A j \in 1..MaxTrades : j # i => qs[j] = ps[j]
  BY DEF PathsOk, Sound
<1> HIDE DEF qs
<1>2. \A j \in 1..MaxTrades : Sound(qs[j]) /\ Kept(ps[j], qs[j])
  BY <1>1 DEF PathsOk, Kept
<1>3. ASSUME NEW j \in 1..Len(c) PROVE Tells(qs[j], c[j].open, c[j].exitAt - c[j].entryAt)
  <2>1. j \in 1..MaxTrades /\ (j # i => j \in 1..Len(b))
    <3>1. MaxTrades \in Nat /\ Len(c) \in Nat /\ Len(c) <= MaxTrades
      BY ShadowAssumption
    <3>2. j \in 1..MaxTrades
      BY <3>1
    <3>3. j \in 1..Len(b) \union {i}
      OBVIOUS
    <3>4. QED
      BY <3>2, <3>3
  <2>2. QED
    BY <1>1, <2>1 DEF PathsOk
<1>4. ASSUME NEW j \in 1..MaxTrades, j > Len(c) PROVE qs[j] = NoPath
  <2>1. j \notin 1..Len(c)
    BY <1>4
  <2>2. j # i /\ j > Len(b)
    BY <1>4, <2>1
  <2>3. QED
    BY <1>1, <2>2 DEF PathsOk
<1>5. QED
  BY <1>1, <1>2, <1>3, <1>4 DEF PathsOk, AllKept, qs

\* Trade r joins book b, which becomes c.
Joins(b, ps, c, qs, r, fault) ==
  /\ r \in Row /\ r.open /\ Len(b) < MaxTrades
  /\ c = Append(b, r)
  /\ qs = [ps EXCEPT ![Len(b) + 1] = StartTrade(ps[Len(b) + 1], fault)]

LEMMA EnterPaths ==
  ASSUME NEW b, Book(b), NEW ps, PathsOk(b, ps), NEW r, NEW fault, NEW c, NEW qs, Joins(b, ps, c, qs, r, fault)
  PROVE  PathsOk(c, qs) /\ AllKept(ps, qs)
<1> PICK n : n = Len(b) + 1
  OBVIOUS
<1> r \in Row /\ r.open /\ Len(b) < MaxTrades /\ c = Append(b, r) /\ qs = [ps EXCEPT ![n] = StartTrade(ps[n], fault)]
  BY DEF Joins
<1> DEFINE q == StartTrade(ps[n], fault)
<1>1. MaxTrades \in Nat /\ Len(b) \in Nat
  BY ShadowAssumption, BookSets
<1>2. n \in 1..MaxTrades /\ n > Len(b) /\ Len(b) \in 0..MaxTrades
  BY <1>1
<1>3. ps[n] = NoPath
  BY <1>2 DEF PathsOk
<1>4. Sound(q) /\ Tells(q, TRUE, c[n].exitAt - c[n].entryAt) /\ Kept(ps[n], q)
  <2>1. ~NoPath.disk.final
    BY NoPathSound
  <2>2. QED
    BY <1>3, <2>1, StartSound DEF Kept
<1>5. Len(c) = n /\ c[n] = r /\ \A j \in 1..Len(b) : c[j] = b[j]
  BY <1>1, AppendProperties DEF Book
<1> HIDE DEF q
<1>6. Len(c) \in 0..MaxTrades /\ 1..Len(c) = 1..Len(b) \union {n}
  BY <1>1, <1>2, <1>5
<1>7. Tells(q, c[n].open, c[n].exitAt - c[n].entryAt)
  <2>1. c[n].open = TRUE
    BY <1>5 DEF Row
  <2>2. QED
    BY <1>4, <2>1
<1>8. PathsOk(c, [ps EXCEPT ![n] = q]) /\ AllKept(ps, [ps EXCEPT ![n] = q])
  BY <1>2, <1>4, <1>5, <1>6, <1>7, PathChanges
<1>9. QED
  BY <1>8 DEF q

\* Trade i of book b closes as r, and the book becomes c.
Closes(b, ps, c, qs, i, r, fault) ==
  /\ i \in 1..Len(b) /\ b[i] \in Row /\ b[i].open /\ r \in Row /\ ~r.open
  /\ c = [b EXCEPT ![i] = r]
  /\ qs = [ps EXCEPT ![i] = RecordExit(ps[i], r.exitAt - r.entryAt, fault)]

LEMMA LeavePaths ==
  ASSUME NEW b, Book(b), NEW ps, PathsOk(b, ps), NEW i, NEW r, NEW fault, NEW c, NEW qs, Closes(b, ps, c, qs, i, r, fault)
  PROVE  PathsOk(c, qs) /\ AllKept(ps, qs)
<1> PICK hold : hold = r.exitAt - r.entryAt
  OBVIOUS
<1> /\ i \in 1..Len(b) /\ b[i] \in Row /\ b[i].open /\ r \in Row /\ ~r.open
    /\ c = [b EXCEPT ![i] = r] /\ qs = [ps EXCEPT ![i] = RecordExit(ps[i], hold, fault)]
  BY DEF Closes
<1> DEFINE q == RecordExit(ps[i], hold, fault)
<1>1. MaxTrades \in Nat /\ Len(b) \in 0..MaxTrades
  BY ShadowAssumption, BookSets DEF Book
<1>2. i \in 1..MaxTrades /\ hold \in Int /\ r.open = FALSE /\ b[i].open = TRUE
  BY <1>1 DEF Row
<1>3. Len(c) = Len(b) /\ c[i] = r /\ \A j \in 1..Len(b) : j # i => c[j] = b[j]
  BY <1>2 DEF Book
<1>4. Sound(ps[i]) /\ Tells(ps[i], TRUE, b[i].exitAt - b[i].entryAt)
  BY <1>2 DEF PathsOk
<1>5. Sound(q) /\ Tells(q, FALSE, hold) /\ Kept(ps[i], q)
  BY <1>2, <1>4, ExitSound
<1> HIDE DEF q
<1>6. Tells(q, c[i].open, c[i].exitAt - c[i].entryAt) /\ 1..Len(c) = 1..Len(b) \union {i}
  BY <1>2, <1>3, <1>5
<1>7. PathsOk(c, [ps EXCEPT ![i] = q]) /\ AllKept(ps, [ps EXCEPT ![i] = q])
  BY <1>1, <1>2, <1>3, <1>5, <1>6, PathChanges
<1>8. QED
  BY <1>7 DEF q

\* Every path changes, and the book does not.
LEMMA PathsChange ==
  ASSUME NEW b, Book(b), NEW ps, PathsOk(b, ps), NEW qs, DOMAIN qs = 1..MaxTrades, qs = [i \in 1..MaxTrades |-> qs[i]],
         \A i \in 1..MaxTrades : Sound(qs[i]) /\ Kept(ps[i], qs[i]),
         \A i \in 1..Len(b) : Tells(qs[i], b[i].open, b[i].exitAt - b[i].entryAt),
         \A i \in 1..MaxTrades : i > Len(b) => qs[i] = NoPath
  PROVE  PathsOk(b, qs) /\ AllKept(ps, qs)
BY DEF PathsOk, AllKept, Sound

------------------------------------------------------------------------------
\* The days.

Results(b) == [i \in DOMAIN b |-> b[i].pnl]

ClosedOn(b, s, d) == {i \in DOMAIN b : b[i].strategy = s /\ ~b[i].open /\ DayOf(b[i].exitAt) = d}

\* The trades of a day whose result was posted.
Booked(b, t, s, d) == {i \in ClosedOn(b, s, d) : <<i, "pnl">> \notin t}

DayOk(b, t, row, s, d) ==
  /\ row.pnl = SumFunctionOnSet(Results(b), Booked(b, t, s, d))
  /\ IsDailyLossLimitBreached(row.pnl, StartingBalance) => row.latched \/ \E i \in ClosedOn(b, s, d) : <<i, "latch">> \in t

\* It is inductive because only a closed trade can have been torn.
DaysOk(b, t, dy) ==
  /\ Diary(dy)
  /\ \A i \in DOMAIN b : b[i].open => \A kind \in {"pnl", "latch"} : <<i, kind>> \notin t
  /\ \A i, kind : <<i, kind>> \in t => i \in DOMAIN b
  /\ \A s \in Names, d \in Days : DayOk(b, t, dy[s][d], s, d)

\* The entry may latch the breaker and leaves the total.
LEMMA LookDays ==
  ASSUME NEW b, NEW t, NEW dy, DaysOk(b, t, dy), NEW s \in Names, NEW day \in Days
  PROVE  DaysOk(b, t, Looked(dy, s, day))
<1> DEFINE row == dy[s][day]
           new == [row EXCEPT !.latched = ShouldLatchCircuitBreaker(row.latched, row.pnl, StartingBalance)]
           ey == Looked(dy, s, day)
<1>1. row \in [pnl : Int, latched : BOOLEAN]
  BY DEF DaysOk, Diary
<1>2. new \in [pnl : Int, latched : BOOLEAN] /\ new.pnl = row.pnl /\ (row.latched => new.latched)
  BY <1>1 DEF ShouldLatchCircuitBreaker, IsDailyLossLimitBreached
<1>3. ey = [dy EXCEPT ![s] = [dy[s] EXCEPT ![day] = new]]
  BY DEF Looked
<1> HIDE DEF ey, new
<1>4. Diary(ey) /\ \A q \in Names, d \in Days : ey[q][d] = IF q = s /\ d = day THEN new ELSE dy[q][d]
  BY <1>2, <1>3 DEF DaysOk, Diary
<1>5. ASSUME NEW q \in Names, NEW d \in Days PROVE DayOk(b, t, ey[q][d], q, d)
  <2>1. DayOk(b, t, dy[q][d], q, d)
    BY DEF DaysOk
  <2>2. CASE q = s /\ d = day
    BY <1>2, <1>4, <2>1, <2>2 DEF DayOk
  <2>3. CASE ~(q = s /\ d = day)
    BY <1>4, <2>1, <2>3
  <2>4. QED
    BY <2>2, <2>3
<1>6. DaysOk(b, t, ey)
  BY <1>4, <1>5 DEF DaysOk
<1>7. QED
  BY <1>6 DEF ey

\* A trade more that is open counts on no day.
LEMMA EnterDays ==
  ASSUME NEW b, Book(b), NEW t, NEW dy, DaysOk(b, t, dy), NEW r \in Row, r.open
  PROVE  DaysOk(Append(b, r), t, dy)
<1> DEFINE c == Append(b, r)
<1>1. DOMAIN b = 1..Len(b) /\ Len(b) \in Nat /\ \A i \in DOMAIN b : b[i] \in Row
  BY BookSets DEF Book
<1>2. DOMAIN c = 1..(Len(b) + 1) /\ c[Len(b) + 1] = r /\ \A i \in 1..Len(b) : c[i] = b[i]
  BY <1>1, AppendProperties DEF Book
<1> HIDE DEF c
<1>3. 1..(Len(b) + 1) = 1..Len(b) \union {Len(b) + 1}
  BY <1>1
<1>4. ASSUME NEW s, NEW d PROVE ClosedOn(c, s, d) = ClosedOn(b, s, d) /\ Booked(c, t, s, d) = Booked(b, t, s, d)
  <2>1. ClosedOn(c, s, d) = ClosedOn(b, s, d)
    BY <1>1, <1>2, <1>3 DEF ClosedOn
  <2>2. QED
    BY <2>1 DEF Booked
<1>5. Results(b) \in [1..Len(b) -> Int] /\ Results(c) \in [1..(Len(b) + 1) -> Int]
  <2>1. \A i \in 1..(Len(b) + 1) : c[i] \in Row
    BY <1>1, <1>2, <1>3
  <2>2. QED
    BY <1>1, <1>2, <2>1 DEF Results, Row
<1>6. ASSUME NEW s, NEW d
      PROVE  SumFunctionOnSet(Results(c), Booked(c, t, s, d)) = SumFunctionOnSet(Results(b), Booked(b, t, s, d))
  <2> DEFINE T == Booked(b, t, s, d)
  <2>1. T \subseteq 1..Len(b) /\ T \subseteq 1..(Len(b) + 1)
    BY <1>1, <1>3 DEF Booked, ClosedOn
  <2>2. \A x \in T : Results(b)[x] = Results(c)[x]
    BY <1>1, <1>2, <1>3, <2>1 DEF Results
  <2> HIDE DEF T
  <2>3. IsFiniteSet(1..Len(b)) /\ IsFiniteSet(1..(Len(b) + 1))
    BY <1>1, FS_Interval
  <2>4. SumFunctionOnSet(Results(b), T) = SumFunctionOnSet(Results(c), T)
    <3>1. PICK S, R : S = 1..Len(b) /\ R = 1..(Len(b) + 1)
      OBVIOUS
    <3>2. PICK f \in [S -> Int], g \in [R -> Int] : f = Results(b) /\ g = Results(c)
      BY <1>5, <3>1
    <3>3. IsFiniteSet(S) /\ IsFiniteSet(R)
      BY <2>3, <3>1
    <3>4. T \in SUBSET S /\ T \subseteq R
      BY <2>1, <3>1
    <3>5. \A x \in T : f[x] = g[x]
      BY <2>2, <3>2
    <3>6. SumFunctionOnSet(f, T) = SumFunctionOnSet(g, T)
      BY <3>3, <3>4, <3>5, SumSame
    <3>7. QED
      BY <3>2, <3>6
  <2>5. QED
    BY <1>4, <2>4 DEF T
<1>7. ASSUME NEW s \in Names, NEW d \in Days PROVE DayOk(c, t, dy[s][d], s, d)
  BY <1>4, <1>6 DEF DaysOk, DayOk
<1>8. \A i \in DOMAIN c : c[i].open => \A kind \in {"pnl", "latch"} : <<i, kind>> \notin t
  <2>1. Len(b) + 1 \notin DOMAIN b
    BY <1>1
  <2>2. QED
    BY <1>1, <1>2, <1>3, <2>1 DEF DaysOk
<1>9. \A i, kind : <<i, kind>> \in t => i \in DOMAIN c
  BY <1>1, <1>2, <1>3 DEF DaysOk
<1>10. DaysOk(c, t, dy)
  BY <1>7, <1>8, <1>9 DEF DaysOk
<1>11. QED
  BY <1>10 DEF c

\* The exit posts its result to the day, or leaves a trace of what it left out.
LEMMA LeaveDays ==
  ASSUME NEW b, Book(b), NEW t, NEW dy, DaysOk(b, t, dy), NEW s \in Names, NEW i \in OpenOf(b, s),
         NEW tick, tick.at \in Int, DayOf(tick.at) \in Days, tick.gain \in Int,
         NEW r, r = ClosedRow(b[i], tick),
         NEW u, u = IF tick.fault \in {"pnl", "latch"} THEN t \union {<<i, tick.fault>>} ELSE t
  PROVE  DaysOk([b EXCEPT ![i] = r], u, Posted(dy, s, DayOf(tick.at), tick))
<1> DEFINE c == [b EXCEPT ![i] = r]
           day == DayOf(tick.at)
           old == dy[s][day]
           after == AfterExit(old, tick.gain)
           new == IF tick.fault = "pnl" THEN old
                  ELSE IF tick.fault = "latch" THEN [pnl |-> after.pnl, latched |-> old.latched] ELSE after
           ey == Posted(dy, s, day, tick)
<1>1. /\ r \in Row /\ ~r.open /\ r.exitAt = tick.at /\ r.pnl = tick.gain /\ r.strategy = s
      /\ i \in 1..Len(b) /\ b[i].open /\ DOMAIN b = 1..Len(b) /\ Len(b) \in Nat /\ \A j \in 1..Len(b) : b[j] \in Row
  BY CloseSets, BookSets DEF Book
<1>2. DOMAIN c = 1..Len(b) /\ c[i] = r /\ \A j \in 1..Len(b) : j # i => c[j] = b[j]
  BY <1>1
<1>3. old \in [pnl : Int, latched : BOOLEAN]
  BY DEF DaysOk, Diary
<1>4. after.pnl = old.pnl + tick.gain /\ after \in [pnl : Int, latched : BOOLEAN]
      /\ (after.latched <=> old.latched \/ IsDailyLossLimitBreached(after.pnl, StartingBalance))
  <2>1. old.pnl + tick.gain \in Int
    BY <1>3
  <2>2. (old.latched \/ IsDailyLossLimitBreached(old.pnl + tick.gain, StartingBalance)) \in BOOLEAN
    BY <1>3 DEF IsDailyLossLimitBreached
  <2>3. QED
    BY <2>1, <2>2 DEF AfterExit
<1>5. new \in [pnl : Int, latched : BOOLEAN]
  BY <1>3, <1>4
<1>6. new.pnl = IF tick.fault = "pnl" THEN old.pnl ELSE old.pnl + tick.gain
  BY <1>3, <1>4
<1>7. (old.latched => new.latched) /\ (tick.fault \notin {"pnl", "latch"} => new.latched = after.latched)
  BY <1>3, <1>4
<1>8. Diary(ey) /\ \A q \in Names, d \in Days : ey[q][d] = IF q = s /\ d = day THEN new ELSE dy[q][d]
  <2>1. dy \in [Names -> [Days -> [pnl : Int, latched : BOOLEAN]]]
    BY DEF DaysOk, Diary
  <2>2. [old EXCEPT !.pnl = after.pnl] = [pnl |-> after.pnl, latched |-> old.latched]
    BY <1>3
  <2>3. dy = [dy EXCEPT ![s] = [dy[s] EXCEPT ![day] = old]]
    BY <2>1
  <2>4. ey = [dy EXCEPT ![s] = [dy[s] EXCEPT ![day] = new]]
    <3>1. CASE tick.fault = "pnl"
      BY <2>3, <3>1 DEF Posted
    <3>2. CASE tick.fault = "latch"
      BY <2>2, <3>2 DEF Posted
    <3>3. CASE tick.fault \notin {"pnl", "latch"}
      BY <3>3 DEF Posted
    <3>4. QED
      BY <3>1, <3>2, <3>3
  <2> HIDE DEF ey, new, old
  <2>5. QED
    BY <1>5, <2>1, <2>4 DEF Diary
<1> HIDE DEF c, ey, new, old, after
<1>9. \A kind \in {"pnl", "latch"} : <<i, kind>> \notin t
  BY <1>1 DEF DaysOk
<1>10. /\ t \subseteq u /\ \A j, kind : <<j, kind>> \in u => <<j, kind>> \in t \/ (j = i /\ kind = tick.fault)
       /\ tick.fault \in {"pnl", "latch"} => <<i, tick.fault>> \in u
  OBVIOUS
<1>11. i \notin ClosedOn(b, s, day)
  BY <1>1 DEF ClosedOn
<1>12. ASSUME NEW q, NEW d
       PROVE  ClosedOn(c, q, d) = ClosedOn(b, q, d) \union (IF q = s /\ d = day THEN {i} ELSE {})
  BY <1>1, <1>2 DEF ClosedOn
<1>13. ASSUME NEW q, NEW d
       PROVE  Booked(c, u, q, d) = Booked(b, t, q, d) \union (IF q = s /\ d = day /\ tick.fault # "pnl" THEN {i} ELSE {})
  <2>1. \A j \in ClosedOn(b, q, d) : j # i /\ (<<j, "pnl">> \in u <=> <<j, "pnl">> \in t)
    BY <1>1, <1>10 DEF ClosedOn
  <2>2. <<i, "pnl">> \in u <=> tick.fault = "pnl"
    BY <1>9, <1>10
  <2>3. QED
    BY <1>12, <2>1, <2>2 DEF Booked
<1>interval. PICK S : S = 1..Len(b)
  OBVIOUS
<1>14. PICK f \in [S -> Int], g \in [S -> Int] : S = 1..Len(b) /\ IsFiniteSet(S) /\ f = Results(b) /\ g = Results(c)
  <2>1. Results(b) \in [1..Len(b) -> Int] /\ Results(c) \in [1..Len(b) -> Int]
    <3>1. \A j \in 1..Len(b) : c[j] \in Row
      BY <1>1, <1>2
    <3>2. QED
      BY <1>1, <1>2, <3>1 DEF Results, Row
  <2>2. IsFiniteSet(1..Len(b))
    BY <1>1, FS_Interval
  <2>3. QED
    BY <1>interval, <2>1, <2>2
<1>15. g[i] = tick.gain /\ i \in S /\ \A j \in S : j # i => f[j] = g[j]
  BY <1>1, <1>2, <1>14 DEF Results
<1>16. ASSUME NEW q, NEW d
       PROVE  /\ SumFunctionOnSet(f, Booked(b, t, q, d)) = SumFunctionOnSet(g, Booked(b, t, q, d))
              /\ SumFunctionOnSet(g, Booked(b, t, q, d)) \in Int
              /\ SumFunctionOnSet(g, Booked(b, t, q, d) \union {i}) = SumFunctionOnSet(g, Booked(b, t, q, d)) + tick.gain
  <2> DEFINE T == Booked(b, t, q, d)
  <2>1. T \in SUBSET S /\ i \notin T
    BY <1>1, <1>14 DEF Booked, ClosedOn
  <2> HIDE DEF T
  <2>2. \A x \in T : f[x] = g[x]
    BY <1>15, <2>1
  <2> IsFiniteSet(S) /\ T \in SUBSET S
    BY <1>14, <2>1
  <2>3. SumFunctionOnSet(f, T) = SumFunctionOnSet(g, T)
    BY <2>2, SumSame
  <2>4. i \in S \ T
    BY <1>15, <2>1
  <2>5. SumFunctionOnSet(g, T) \in Int /\ SumFunctionOnSet(g, T \union {i}) = SumFunctionOnSet(g, T) + g[i]
    BY <2>4, SumGrows
  <2>6. QED
    BY <1>15, <2>3, <2>5 DEF T
<1>17. ASSUME NEW q \in Names, NEW d \in Days PROVE DayOk(c, u, ey[q][d], q, d)
  <2>1. DayOk(b, t, dy[q][d], q, d)
    BY DEF DaysOk
  <2>2. dy[q][d].pnl = SumFunctionOnSet(g, Booked(b, t, q, d))
    BY <1>14, <1>16, <2>1 DEF DayOk
  <2>3. \A j \in ClosedOn(b, q, d) : j \in ClosedOn(c, q, d) /\ (<<j, "latch">> \in t => <<j, "latch">> \in u)
    BY <1>10, <1>12
  <2>4. IsDailyLossLimitBreached(dy[q][d].pnl, StartingBalance) =>
          dy[q][d].latched \/ \E j \in ClosedOn(c, q, d) : <<j, "latch">> \in u
    BY <2>1, <2>3 DEF DayOk
  <2>5. CASE ~(q = s /\ d = day)
    <3>1. Booked(c, u, q, d) = Booked(b, t, q, d) /\ ey[q][d] = dy[q][d]
      <4>1. Booked(c, u, q, d) = Booked(b, t, q, d) \union (IF q = s /\ d = day /\ tick.fault # "pnl" THEN {i} ELSE {})
        BY <1>13
      <4>2. (IF q = s /\ d = day /\ tick.fault # "pnl" THEN {i} ELSE {}) = {}
        BY <2>5
      <4>3. ey[q][d] = dy[q][d]
        BY <1>8, <2>5
      <4>4. QED
        BY <4>1, <4>2, <4>3
    <3>2. QED
      BY <1>14, <2>2, <2>4, <3>1 DEF DayOk
  <2>6. CASE q = s /\ d = day /\ tick.fault = "pnl"
    <3>1. Booked(c, u, q, d) = Booked(b, t, q, d) /\ ey[q][d] = dy[q][d]
      <4>1. Booked(c, u, q, d) = Booked(b, t, q, d) \union (IF q = s /\ d = day /\ tick.fault # "pnl" THEN {i} ELSE {})
        BY <1>13
      <4>2. (IF q = s /\ d = day /\ tick.fault # "pnl" THEN {i} ELSE {}) = {}
        BY <2>6
      <4>3. ey[q][d] = dy[q][d]
        BY <1>8, <2>6 DEF new, old
      <4>4. QED
        BY <4>1, <4>2, <4>3
    <3>2. QED
      BY <1>14, <2>2, <2>4, <3>1 DEF DayOk
  <2>7. CASE q = s /\ d = day /\ tick.fault # "pnl"
    <3>1. Booked(c, u, q, d) = Booked(b, t, q, d) \union {i} /\ ey[q][d] = new /\ dy[q][d] = old
      BY <1>8, <1>13, <2>7 DEF old
    <3>2. new.pnl = SumFunctionOnSet(g, Booked(c, u, q, d))
      BY <1>6, <1>16, <2>2, <2>7, <3>1
    <3>3. i \in ClosedOn(c, q, d)
      BY <1>12, <2>7
    <3>4. CASE tick.fault = "latch"
      BY <1>10, <1>14, <3>1, <3>2, <3>3, <3>4 DEF DayOk
    <3>5. CASE tick.fault # "latch"
      <4>1. new.latched = after.latched /\ new.pnl = after.pnl
        BY <1>4, <1>6, <1>7, <2>7, <3>5
      <4>2. QED
        BY <1>4, <1>14, <3>1, <3>2, <4>1 DEF DayOk
    <3>6. QED
      BY <3>4, <3>5
  <2>8. QED
    BY <2>5, <2>6, <2>7
<1>18. \A j \in DOMAIN c : c[j].open => \A kind \in {"pnl", "latch"} : <<j, kind>> \notin u
  BY <1>1, <1>2, <1>10 DEF DaysOk
<1>19. \A j, kind : <<j, kind>> \in u => j \in DOMAIN c
  BY <1>1, <1>2, <1>10 DEF DaysOk
<1>20. DaysOk(c, u, ey)
  BY <1>8, <1>17, <1>18, <1>19 DEF DaysOk
<1>21. QED
  BY <1>20 DEF c, ey

------------------------------------------------------------------------------
\* A tick.

\* The inductive invariant of the ledger's trades and their paths.  It needs
\* the limits to be kept by every strategy's own rows, the paths to be sound,
\* and a path that nobody has entered yet to be empty.
LedgerOk(b, ps) == Book(b) /\ Within(b) /\ PathsOk(b, ps)

\* From world w the tick has come to world v: nothing was broken on the way.
Onward(w, v) ==
  /\ IsWorld(v) /\ LedgerOk(v.trades, v.paths)
  /\ AllKept(w.paths, v.paths)
  /\ DaysOk(w.trades, w.torn, w.daily) => DaysOk(v.trades, v.torn, v.daily)

LEMMA OnwardSelf == ASSUME NEW w, IsWorld(w), LedgerOk(w.trades, w.paths) PROVE Onward(w, w)
BY DEF Onward, AllKept, Kept

LEMMA OnwardTwice == ASSUME NEW w, NEW v, NEW u, Onward(w, v), Onward(v, u) PROVE Onward(w, u)
BY DEF Onward, AllKept, Kept

LEMMA StrategyStep ==
  ASSUME NEW w, IsWorld(w), LedgerOk(w.trades, w.paths), NEW s \in Names, NEW tick, Sensible(tick),
         NEW v, v = ProcessStrategyTick(w, s, tick)
  PROVE  Onward(w, v)
<1> DEFINE day == DayOf(tick.at)
<1>1. day \in Days /\ tick.at \in Int /\ tick.gain \in Int /\ tick.mint \in Mints
  BY DayOfTick DEF Sensible
<1>2. Book(w.trades) /\ Within(w.trades) /\ PathsOk(w.trades, w.paths)
  BY DEF LedgerOk
<1>3. IsWorld(v)
  BY <1>2, Kinds
<1> HIDE DEF day
<1>4. DaysOk(w.trades, w.torn, w.daily) => DaysOk(w.trades, w.torn, Looked(w.daily, s, day))
  BY <1>1, LookDays
<1>5. CASE Looks(w, v, s, tick)
  BY <1>2, <1>3, <1>4, <1>5 DEF Looks, Onward, LedgerOk, AllKept, Kept, day
<1>6. CASE Enters(w, v, s, tick)
  <2>1. PICK r : r = NewRow(s, tick)
    OBVIOUS
  <2>2. r \in Row /\ r.open /\ r.strategy = s /\ r.mint = tick.mint
    BY <1>1, <2>1 DEF NewRow, Row
  <2>3. PICK n : n = Len(w.trades) + 1
    OBVIOUS
  <2>4. Book(Append(w.trades, r)) /\ Within(Append(w.trades, r))
    BY <1>2, <1>6, <2>2, EnterWithin DEF Enters
  <2>5. v.trades = Append(w.trades, r) /\ v.paths = [w.paths EXCEPT ![n] = StartTrade(w.paths[n], tick.fault)]
    BY <1>6, <2>1, <2>3 DEF Enters
  <2>6. Len(w.trades) < MaxTrades
    BY <1>6 DEF Enters
  <2>7. PathsOk(v.trades, v.paths) /\ AllKept(w.paths, v.paths)
    <3>1. Joins(w.trades, w.paths, v.trades, v.paths, r, tick.fault)
      BY <2>2, <2>3, <2>5, <2>6 DEF Joins
    <3>2. QED
      BY <1>2, <3>1, EnterPaths
  <2>8. DaysOk(w.trades, w.torn, Looked(w.daily, s, day)) => DaysOk(v.trades, w.torn, Looked(w.daily, s, day))
    BY <1>2, <2>2, <2>5, EnterDays
  <2>9. v.torn = w.torn /\ v.daily = Looked(w.daily, s, day)
    BY <1>6 DEF Enters, day
  <2>10. QED
    BY <1>3, <1>4, <2>4, <2>5, <2>7, <2>8, <2>9 DEF Onward, LedgerOk
<1>7. ASSUME NEW i \in OpenOf(w.trades, s), Leaves(w, v, s, i, tick) PROVE Onward(w, v)
  <2>1. PICK r : r = ClosedRow(w.trades[i], tick)
    OBVIOUS
  <2>2. /\ r \in Row /\ ~r.open /\ r.exitAt = tick.at /\ r.strategy = w.trades[i].strategy
        /\ r.mint = w.trades[i].mint /\ r.entryAt = w.trades[i].entryAt
        /\ i \in 1..Len(w.trades) /\ w.trades[i] \in Row /\ w.trades[i].open
        /\ Book([w.trades EXCEPT ![i] = r])
    BY <1>1, <1>2, <2>1, CloseSets
  <2>3. v.trades = [w.trades EXCEPT ![i] = r]
    BY <1>7, <2>1 DEF Leaves
  <2>4. Within(v.trades)
    BY <1>2, <2>2, <2>3, LeaveWithin
  <2>5. PICK hold : hold = r.exitAt - r.entryAt
    OBVIOUS
  <2>6. v.paths = [w.paths EXCEPT ![i] = RecordExit(w.paths[i], hold, tick.fault)]
    BY <1>7, <2>2, <2>5 DEF Leaves
  <2>7. PathsOk(v.trades, v.paths) /\ AllKept(w.paths, v.paths)
    <3>1. Closes(w.trades, w.paths, v.trades, v.paths, i, r, tick.fault)
      BY <2>2, <2>3, <2>5, <2>6 DEF Closes
    <3>2. QED
      BY <1>2, <3>1, LeavePaths
  <2>8. v.torn = (IF tick.fault \in {"pnl", "latch"} THEN w.torn \union {<<i, tick.fault>>} ELSE w.torn)
        /\ v.daily = Posted(w.daily, s, day, tick)
    BY <1>7 DEF Leaves, day
  <2>9. DaysOk(w.trades, w.torn, w.daily) => DaysOk(v.trades, v.torn, v.daily)
    BY <1>1, <1>2, <2>1, <2>3, <2>8, LeaveDays DEF day
  <2>10. QED
    BY <1>3, <2>2, <2>3, <2>4, <2>7, <2>9 DEF Onward, LedgerOk
<1>8. QED
  BY <1>2, <1>5, <1>6, <1>7, Kinds

\* Strategy after strategy: the first that broke something would have been
\* handed a world in which nothing was broken.
LEMMA TickStep ==
  ASSUME NEW w, IsWorld(w), LedgerOk(w.trades, w.paths), NEW tick, Sensible(tick), NEW v, v = ProcessTick(w, tick)
  PROVE  Onward(w, v)
<1> PICK n \in Nat : n = Len(Strategies)
  BY TickStages
<1>1. PICK f : Stages(w, tick, f, n) /\ v = f[n]
  BY TickStages
<1>2. \A k \in 1..n : Strategies[k] \in Names
  BY ShadowAssumption DEF Names, ToSet
<1>3. f[0] = w /\ \A k \in 1..n : f[k] = ProcessStrategyTick(f[k - 1], Strategies[k], tick)
  <2>1. \A k \in 0..n : f[k] = IF k = 0 THEN w ELSE ProcessStrategyTick(f[k - 1], Strategies[k], tick)
    BY <1>1 DEF Stages
  <2>2. 0 \in 0..n /\ \A k \in 1..n : k \in 0..n /\ k # 0
    OBVIOUS
  <2>3. QED
    BY <2>1, <2>2
<1> DEFINE bad == {k \in 0..n : ~Onward(w, f[k])}
<1>4. SUFFICES ASSUME bad # {} PROVE FALSE
  BY <1>1
<1>5. PICK k \in bad : \A j \in bad : k <= j
  <2>1. bad \subseteq Nat
    OBVIOUS
  <2> HIDE DEF bad
  <2>2. QED
    BY <1>4, <2>1, Least
<1>6. k \in 1..n
  <2>1. k \in 0..n /\ ~Onward(w, f[k])
    OBVIOUS
  <2>2. k # 0
    BY <1>3, <2>1, OnwardSelf
  <2>3. QED
    BY <2>1, <2>2
<1>7. Onward(w, f[k - 1])
  <2>1. k - 1 \in 0..n /\ ~(k <= k - 1)
    BY <1>6
  <2>2. QED
    BY <1>5, <2>1
<1>8. Onward(f[k - 1], f[k])
  <2>1. IsWorld(f[k - 1]) /\ LedgerOk(f[k - 1].trades, f[k - 1].paths)
    BY <1>7 DEF Onward
  <2>2. f[k] = ProcessStrategyTick(f[k - 1], Strategies[k], tick) /\ Strategies[k] \in Names
    BY <1>2, <1>3, <1>6
  <2>3. QED
    BY <2>1, <2>2, StrategyStep
<1>9. QED
  BY <1>5, <1>7, <1>8, OnwardTwice

------------------------------------------------------------------------------
\* The process.

ShadowInv == now \in 0..MaxTime /\ LedgerOk(trades, paths)

\* What a step leaves, and what it may not change.
Stays == Onward(World, World')

LEMMA WorldHolds ==
  /\ IsWorld(World) /\ World.trades = trades /\ World.paths = paths /\ World.torn = torn /\ World.daily = daily
  /\ IsWorld(World') /\ World'.trades = trades' /\ World'.paths = paths' /\ World'.torn = torn' /\ World'.daily = daily'
BY DEF World, IsWorld

LEMMA ShadowInit == ASSUME Init PROVE ShadowInv
<1>1. MaxTime \in Nat /\ MaxTrades \in Nat /\ MaxPositions \in Nat /\ MaxReentries \in Nat
  BY ShadowAssumption, RiskAssumption
<1>2. trades = <<>> /\ paths = [i \in 1..MaxTrades |-> NoPath] /\ now = 0
  BY DEF Init
<1>3. Len(trades) = 0 /\ DOMAIN trades = {} /\ Book(trades)
  BY <1>1, <1>2 DEF Book
<1>4. \A s, m : OpenOf(trades, s) = {} /\ TradesOf(trades, s, m) = {}
  BY <1>3 DEF OpenOf, TradesOf
<1>5. Within(trades)
  BY <1>1, <1>4, FS_EmptySet DEF Within
<1>6. PathsOk(trades, paths)
  <2>1. NoPath \in Path /\ Sound(NoPath)
    BY NoPathSound
  <2>2. 1..Len(trades) = {} /\ \A i \in 1..MaxTrades : paths[i] = NoPath
    BY <1>2, <1>3
  <2>3. paths \in [1..MaxTrades -> Path]
    BY <1>2, <2>1
  <2>4. QED
    BY <2>1, <2>2, <2>3 DEF PathsOk
<1>7. QED
  BY <1>1, <1>2, <1>3, <1>5, <1>6 DEF ShadowInv, LedgerOk

LEMMA TickStays == ASSUME ShadowInv, Tick PROVE Stays /\ now' = now
<1> DEFINE At(tick) == tick.mint \in Mints /\ tick.at \in {t \in (now - Lag)..now : t >= 0}
           Make(m, t, q, ws, g, f) == [mint |-> m, at |-> t, quality |-> q, wish |-> ws, gain |-> g, fault |-> f]
<1>1. PICK tick : At(tick) /\ tick.gain \in Int /\ OnMarketTick(tick)
  <2>1. PICK mint \in Mints, at \in {t \in (now - Lag)..now : t >= 0} : \E quality, wish :
          LET exits == \E s \in wish : OpenOf(trades, s) \intersect TradesOf(trades, s, mint) # {}
          IN  \E gain \in IF exits THEN Gains ELSE {0} : \E fault :
                OnMarketTick(Make(mint, at, quality, wish, gain, fault))
    BY DEF Tick
  <2>2. \A exits \in BOOLEAN : (IF exits THEN Gains ELSE {0}) \subseteq Int
    BY ShadowAssumption
  <2>3. \E quality, wish : \E gain \in Int : \E fault : OnMarketTick(Make(mint, at, quality, wish, gain, fault))
    BY <2>1, <2>2
  <2>4. PICK quality, wish : \E gain \in Int : \E fault : OnMarketTick(Make(mint, at, quality, wish, gain, fault))
    BY <2>3
  <2>5. PICK gain \in Int : \E fault : OnMarketTick(Make(mint, at, quality, wish, gain, fault))
    BY <2>4
  <2>6. PICK fault : OnMarketTick(Make(mint, at, quality, wish, gain, fault))
    BY <2>5
  <2>7. PICK tick : tick = Make(mint, at, quality, wish, gain, fault)
    OBVIOUS
  <2>8. At(tick) /\ tick.gain \in Int /\ OnMarketTick(tick)
    BY <2>6, <2>7
  <2>9. QED
    BY <2>8
<1>2. Sensible(tick)
  <2>1. now \in Int /\ Lag \in Int /\ MaxTime \in Int /\ now <= MaxTime
    BY ShadowAssumption DEF ShadowInv
  <2>2. tick.at \in Int /\ 0 <= tick.at /\ tick.at <= now
    BY <1>1, <2>1
  <2>3. tick.at \in 0..MaxTime
    BY <2>1, <2>2
  <2>4. QED
    BY <1>1, <2>3 DEF Sensible
<1>3. PICK after : /\ after = IF Blocked(tick) THEN World ELSE ProcessTick(World, tick)
                   /\ trades' = after.trades /\ daily' = after.daily /\ paths' = after.paths /\ torn' = after.torn
  BY <1>1 DEF OnMarketTick, World
<1>4. LedgerOk(World.trades, World.paths)
  BY WorldHolds DEF ShadowInv
<1>5. Onward(World, after)
  <2>1. CASE Blocked(tick)
    BY <1>3, <1>4, <2>1, WorldHolds, OnwardSelf
  <2>2. CASE ~Blocked(tick)
    BY <1>2, <1>3, <1>4, <2>2, WorldHolds, TickStep
  <2>3. QED
    BY <2>1, <2>2
<1>6. Stays
  BY <1>3, <1>5, WorldHolds DEF Onward, Stays
<1>7. now' = now
  BY <1>1 DEF OnMarketTick
<1>8. QED
  BY <1>6, <1>7

\* A step that touches neither trades nor days keeps what the paths keep.
LEMMA PathsStay ==
  ASSUME ShadowInv, UNCHANGED <<trades, daily, torn>>, PathsOk(trades, paths'), AllKept(paths, paths')
  PROVE  Stays
BY WorldHolds DEF ShadowInv, LedgerOk, Stays, Onward

LEMMA TimerStays ==
  ASSUME ShadowInv, NEW i \in DOMAIN trades, NEW o, NEW status \in {"observed", "missing"}, NEW fault,
         ObserveTimer(i, o, status, fault)
  PROVE  Stays
<1>1. MaxTrades \in Nat /\ Len(trades) \in 0..MaxTrades /\ i \in 1..Len(trades)
      /\ Book(trades) /\ PathsOk(trades, paths) /\ trades[i] \in Row
  BY ShadowAssumption, BookSets DEF ShadowInv, LedgerOk, Book
<1>2. i \in 1..MaxTrades /\ trades[i].open \in BOOLEAN
  BY <1>1 DEF Row
<1>3. Sound(paths[i]) /\ Tells(paths[i], trades[i].open, trades[i].exitAt - trades[i].entryAt)
  BY <1>1, <1>2 DEF PathsOk
<1>4. o \in Offsets
  BY <1>3 DEF ObserveTimer, Sound, Path
<1>5. PICK q : q = Observe(paths[i], o, status, fault)
  OBVIOUS
<1>6. Sound(q) /\ Tells(q, trades[i].open, trades[i].exitAt - trades[i].entryAt) /\ Kept(paths[i], q)
  BY <1>2, <1>3, <1>4, <1>5, ObserveSound
<1>7. paths' = [paths EXCEPT ![i] = q] /\ UNCHANGED <<trades, daily, torn>>
  BY <1>5 DEF ObserveTimer
<1>8. 1..Len(trades) = 1..Len(trades) \union {i}
  BY <1>1
<1>9. PathsOk(trades, [paths EXCEPT ![i] = q]) /\ AllKept(paths, [paths EXCEPT ![i] = q])
  BY <1>1, <1>2, <1>6, <1>8, PathChanges
<1>10. QED
  BY <1>7, <1>9, PathsStay

LEMMA StopStays == ASSUME ShadowInv, NEW fault, StopPricePaths(fault) PROVE Stays
<1>1. PICK qs : qs = [i \in 1..MaxTrades |-> StopPath(paths[i], fault)]
  OBVIOUS
<1>2. Book(trades) /\ PathsOk(trades, paths) /\ MaxTrades \in Nat
  BY ShadowAssumption DEF ShadowInv, LedgerOk
<1>3. paths' = qs /\ UNCHANGED <<trades, daily, torn>>
  BY <1>1, <1>2 DEF StopPricePaths, PathsOk
<1>4. ASSUME NEW i \in 1..MaxTrades
      PROVE  /\ Sound(qs[i]) /\ Kept(paths[i], qs[i])
             /\ i \in 1..Len(trades) => Tells(qs[i], trades[i].open, trades[i].exitAt - trades[i].entryAt)
             /\ i > Len(trades) => qs[i] = NoPath
  <2>1. Sound(paths[i]) /\ qs[i] = StopPath(paths[i], fault)
    BY <1>1, <1>2 DEF PathsOk
  <2>2. CASE i \in 1..Len(trades)
    <3>1. Tells(paths[i], trades[i].open, trades[i].exitAt - trades[i].entryAt) /\ trades[i].open \in BOOLEAN
      <4>1. trades[i] \in Row
        BY <1>2, <2>2 DEF Book
      <4>2. QED
        BY <1>2, <2>2, <4>1 DEF PathsOk, Row
    <3>2. ~(i > Len(trades))
      BY <1>2, <2>2, BookSets
    <3>3. QED
      BY <2>1, <3>1, <3>2, StopSound
  <2>3. CASE i \notin 1..Len(trades)
    <3>1. i > Len(trades)
      BY <1>2, <2>3, BookSets
    <3>2. paths[i] = NoPath
      BY <1>2, <3>1 DEF PathsOk
    <3>3. qs[i] = NoPath
      BY <2>1, <3>2 DEF StopPath, NoPath
    <3>4. QED
      BY <2>1, <2>3, <3>2, <3>3 DEF Kept
  <2>4. QED
    BY <2>2, <2>3
<1>5. 1..Len(trades) \subseteq 1..MaxTrades
  BY <1>2, BookSets DEF Book
<1>6. DOMAIN qs = 1..MaxTrades /\ qs = [i \in 1..MaxTrades |-> qs[i]]
  BY <1>1
<1>7. PathsOk(trades, qs) /\ AllKept(paths, qs)
  BY <1>2, <1>4, <1>5, <1>6, PathsChange
<1>8. QED
  BY <1>3, <1>7, PathsStay

LEMMA CrashStays == ASSUME ShadowInv, Crash PROVE Stays
<1>1. PICK qs : qs = [i \in 1..MaxTrades |-> Forgotten(paths[i])]
  OBVIOUS
<1>2. Book(trades) /\ PathsOk(trades, paths) /\ MaxTrades \in Nat
  BY ShadowAssumption DEF ShadowInv, LedgerOk
<1>3. paths' = qs /\ UNCHANGED <<trades, daily, torn>>
  BY <1>1, <1>2 DEF Crash, Down, PathsOk
<1>4. ASSUME NEW i \in 1..MaxTrades
      PROVE  /\ Sound(qs[i]) /\ Kept(paths[i], qs[i])
             /\ i \in 1..Len(trades) => Tells(qs[i], trades[i].open, trades[i].exitAt - trades[i].entryAt)
             /\ i > Len(trades) => qs[i] = NoPath
  <2>1. Sound(paths[i]) /\ qs[i] = Forgotten(paths[i])
    BY <1>1, <1>2 DEF PathsOk
  <2>2. CASE i \in 1..Len(trades)
    <3>1. Tells(paths[i], trades[i].open, trades[i].exitAt - trades[i].entryAt) /\ trades[i].open \in BOOLEAN
      <4>1. trades[i] \in Row
        BY <1>2, <2>2 DEF Book
      <4>2. QED
        BY <1>2, <2>2, <4>1 DEF PathsOk, Row
    <3>2. ~(i > Len(trades))
      BY <1>2, <2>2, BookSets
    <3>3. QED
      BY <2>1, <3>1, <3>2, ForgetSound
  <2>3. CASE i \notin 1..Len(trades)
    <3>1. i > Len(trades)
      BY <1>2, <2>3, BookSets
    <3>2. paths[i] = NoPath
      BY <1>2, <3>1 DEF PathsOk
    <3>3. qs[i] = NoPath
      BY <2>1, <3>2 DEF Forgotten, NoPath
    <3>4. QED
      BY <2>1, <2>3, <3>2, <3>3 DEF Kept
  <2>4. QED
    BY <2>2, <2>3
<1>5. 1..Len(trades) \subseteq 1..MaxTrades
  BY <1>2, BookSets DEF Book
<1>6. DOMAIN qs = 1..MaxTrades /\ qs = [i \in 1..MaxTrades |-> qs[i]]
  BY <1>1
<1>7. PathsOk(trades, qs) /\ AllKept(paths, qs)
  BY <1>2, <1>4, <1>5, <1>6, PathsChange
<1>8. QED
  BY <1>3, <1>7, PathsStay

\* The inductive step, and what it keeps.
LEMMA ShadowStep == ASSUME ShadowInv, [Next]_vars PROVE ShadowInv' /\ Stays
<1>1. SUFFICES Stays /\ now' \in 0..MaxTime
  BY WorldHolds DEF Stays, Onward, ShadowInv
<1>2. Stays \/ ~UNCHANGED <<trades, daily, torn, paths>>
  BY WorldHolds, OnwardSelf DEF ShadowInv, Stays, World
<1>3. now \in 0..MaxTime /\ MaxTime \in Nat
  BY ShadowAssumption DEF ShadowInv
<1>4. CASE Tick
  BY <1>3, <1>4, TickStays
<1>5. ASSUME NEW i \in DOMAIN trades, NEW status \in {"observed", "missing"}, NEW fault, NEW o,
             ObserveTimer(i, o, status, fault)
      PROVE  Stays /\ now' \in 0..MaxTime
  BY <1>3, <1>5, TimerStays DEF ObserveTimer
<1>6. ASSUME NEW fault, StopPricePaths(fault) PROVE Stays /\ now' \in 0..MaxTime
  BY <1>3, <1>6, StopStays DEF StopPricePaths
<1>7. CASE Crash
  BY <1>3, <1>7, CrashStays DEF Crash, Down
<1>8. CASE Restart
  BY <1>2, <1>3, <1>8 DEF Restart
<1>9. CASE TimePasses
  BY <1>2, <1>3, <1>9 DEF TimePasses
<1>10. CASE UNCHANGED vars
  BY <1>2, <1>3, <1>10 DEF vars
<1>11. QED
  BY <1>4, <1>5, <1>6, <1>7, <1>8, <1>9, <1>10 DEF Next

LEMMA Inductive == Spec => []ShadowInv
<1>1. Init => ShadowInv
  BY ShadowInit
<1>2. ShadowInv /\ [Next]_vars => ShadowInv'
  BY ShadowStep
<1>3. QED
  BY <1>1, <1>2, PTL DEF Spec

------------------------------------------------------------------------------
\* The theorems.

\* Every strategy keeps to the hard limits on its own rows of the ledger, with
\* however many strategies on one tick, throws between their statements, and
\* restarts: the concurrent positions, one open trade of a mint, and the
\* re-entries of a mint (processStrategyTick, evaluateEntryRisk).
THEOREM LimitsHold == Spec => []ShadowLimits
<1>1. ShadowInv => ShadowLimits
  BY LimitsFollow DEF ShadowInv, LedgerOk
<1>2. QED
  BY <1>1, Inductive, PTL

\* A path that was finalised is never written again: a path that is final is not
\* tracked, and the recorder writes only what it tracks (closed, cancelTimers).
THEOREM ConclusionsStay == Spec => PathFinal
<1>1. ASSUME ShadowInv, [Next]_vars
      PROVE  [\A i \in DOMAIN paths : paths[i].disk.final => paths'[i].disk = paths[i].disk]_vars
  <2>1. AllKept(paths, paths') /\ DOMAIN paths = 1..MaxTrades
    BY <1>1, ShadowStep, WorldHolds DEF Stays, Onward, ShadowInv, LedgerOk, PathsOk
  <2>2. QED
    BY <2>1 DEF AllKept, Kept
<1>2. QED
  BY <1>1, Inductive, PTL DEF Spec, PathFinal

\* A path that ended with an exit is that of a closed trade and says of every
\* offset on which side of the exit it lay, and no timer outlives its trade: an
\* open trade's path holds nothing but observations until then (recordExit).
THEOREM PathsTellTheTrade == Spec => []PathMatchesTrade
<1>1. ASSUME ShadowInv, NEW i \in DOMAIN trades
      PROVE  Tells(paths[i], trades[i].open, trades[i].exitAt - trades[i].entryAt)
  BY <1>1, BookSets DEF ShadowInv, LedgerOk, PathsOk
<1>2. ShadowInv => PathMatchesTrade
  BY <1>1 DEF PathMatchesTrade, Tells, Exited, Settled
<1>3. QED
  BY <1>2, Inductive, PTL

\* The day of a strategy is the sum of its own trades closed that day, and a
\* loss at the limit has latched its breaker, but for the trades whose exit was
\* torn between its statements (processExit).  The configuration's schema
\* demands a positive starting balance; without one the limit counts as reached
\* before any exit has latched it.
THEOREM DaysAddUp == ASSUME StartingBalance > 0 PROVE Spec => []DailyAccounts
<1> DEFINE Days0 == DaysOk(trades, torn, daily)
<1>1. Init => Days0
  <2> SUFFICES ASSUME Init PROVE Days0
    OBVIOUS
  <2>1. DOMAIN trades = {} /\ torn = {} /\ daily = [s \in Names |-> [d \in Days |-> FreshDay]]
    BY DEF Init
  <2>2. ~IsDailyLossLimitBreached(0, StartingBalance)
    <3>1. DailyLossLimitPct * StartingBalance > 0
      BY DailyLossAssumption
    <3>2. QED
      BY <3>1, DailyLossAssumption DEF IsDailyLossLimitBreached
  <2>3. ASSUME NEW s, NEW d PROVE SumFunctionOnSet(Results(trades), Booked(trades, torn, s, d)) = 0
    <3>1. Booked(trades, torn, s, d) = {} /\ Results(trades) \in [{} -> Int]
      BY <2>1 DEF Booked, ClosedOn, Results
    <3>2. QED
      BY <3>1, SumOfNone, FS_EmptySet
  <2>4. Diary(daily)
    BY <2>1 DEF Diary, FreshDay
  <2>5. ASSUME NEW s \in Names, NEW d \in Days PROVE DayOk(trades, torn, daily[s][d], s, d)
    <3>1. daily[s][d].pnl = 0
      BY <2>1 DEF FreshDay
    <3>2. QED
      BY <2>2, <2>3, <3>1 DEF DayOk
  <2>6. QED
    BY <2>1, <2>4, <2>5 DEF DaysOk
<1>2. ShadowInv /\ Days0 /\ [Next]_vars => Days0'
  BY ShadowStep, WorldHolds DEF Stays, Onward
<1>3. Days0 => DailyAccounts
  BY DEF DaysOk, DayOk, DailyAccounts, Results, Booked, ClosedOn
<1>4. QED
  BY <1>1, <1>2, <1>3, Inductive, PTL DEF Spec

==============================================================================
