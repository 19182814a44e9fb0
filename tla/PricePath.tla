------------------------------- MODULE PricePath -------------------------------
(***************************************************************************)
(* The price path of one trade: shadow/pricePath.ts.  After an entry a     *)
(* timer runs for each of a few offsets; it records what the position was  *)
(* worth then.  The exit, or the end of the process, settles the offsets   *)
(* that were never observed and finalises the path.                        *)
(*                                                                         *)
(* An operation works on a pair: `mem`, what PricePathRecorder tracks, and *)
(* `disk`, what PricePathStore holds.  `fault` is the database write that  *)
(* throws, "none", the first "point" or the "metrics": the recorder        *)
(* swallows the error and keeps what it had done so far.                   *)
(***************************************************************************)
EXTENDS Integers, FiniteSets, FiniteSetsExt

CONSTANT Offsets  \* offsetsMs

ASSUME OffsetsAssumption == Offsets \subseteq Nat \ {0} /\ IsFiniteSet(Offsets) /\ Offsets # {}

NoPoint == "none"
NoPath ==
  [mem |-> [tracked |-> FALSE, timers |-> {}, points |-> [o \in Offsets |-> NoPoint]],
   disk |-> [status |-> "none", final |-> FALSE, points |-> [o \in Offsets |-> NoPoint]]]

Unsettled(points) == {o \in Offsets : points[o] = "none"}
AllObserved(points) == \A o \in Offsets : points[o] = "observed"

StartTrade(p, fault) ==
  IF fault = "metrics"
  THEN [p EXCEPT !.mem.tracked = TRUE]
  ELSE [p EXCEPT !.mem.tracked = TRUE, !.mem.timers = Offsets, !.disk.status = "open"]

\* The timer of an offset fires.  The path is "complete" when this offset was
\* observed and every offset has an outcome.
Observe(p, o, status, fault) ==
  LET seen == [p EXCEPT !.mem.timers = @ \ {o}, !.mem.points[o] = status]
      stored == [seen EXCEPT !.disk.points[o] = status]
      done == status = "observed" /\ Unsettled(stored.mem.points) = {}
  IN  IF ~p.mem.tracked THEN [p EXCEPT !.mem.timers = @ \ {o}]
      ELSE IF fault = "point" THEN seen
      ELSE IF fault = "metrics" THEN stored
      ELSE [stored EXCEPT !.disk.status = IF done THEN "complete" ELSE "open", !.disk.final = FALSE]

\* Every timer is cancelled, every unsettled offset gets its outcome, the
\* metrics are written for good, and the path is forgotten.
Settle(p, outcome, status, fault) ==
  LET quiet == [p EXCEPT !.mem.timers = {}]
      open == Unsettled(p.mem.points)
      settled == [o \in Offsets |-> IF o \in open THEN outcome[o] ELSE p.mem.points[o]]
      stored == [o \in Offsets |-> IF o \in open THEN outcome[o] ELSE p.disk.points[o]]
  IN  IF fault = "point"
      THEN IF open = {} THEN quiet ELSE [quiet EXCEPT !.mem.points[Min(open)] = outcome[Min(open)]]
      ELSE IF fault = "metrics"
      THEN [quiet EXCEPT !.mem.points = settled, !.disk.points = stored]
      ELSE [mem |-> [quiet.mem EXCEPT !.points = settled, !.tracked = FALSE],
            disk |-> [points |-> stored, final |-> TRUE, status |-> status]]

\* Variant: the exit leaves the path tracked.
ExitKeepsTracking(p, hold, fault) ==
  LET outcome == [o \in Offsets |-> IF o > hold THEN "after_exit" ELSE "preempted"]
      done == Settle(p, outcome, IF AllObserved(p.mem.points) THEN "exited_after_path" ELSE "exited_early", fault)
  IN  IF p.mem.tracked THEN [done EXCEPT !.mem.tracked = TRUE] ELSE p

\* Variant: an offset that the exit preempted counts as after the exit.
ExitBlamesOffset(p, hold, fault) ==
  LET outcome == [o \in Offsets |-> "after_exit"]
  IN  IF p.mem.tracked
      THEN Settle(p, outcome, IF AllObserved(p.mem.points) THEN "exited_after_path" ELSE "exited_early", fault)
      ELSE p

\* `hold` is how long the trade was held.
RecordExit(p, hold, fault) ==
  LET outcome == [o \in Offsets |-> IF o > hold THEN "after_exit" ELSE "preempted"]
  IN  IF p.mem.tracked
      THEN Settle(p, outcome, IF AllObserved(p.mem.points) THEN "exited_after_path" ELSE "exited_early", fault)
      ELSE p

\* Shutdown.  The recorder forgets every path, also one whose rows it could
\* not write.
StopPath(p, fault) ==
  LET outcome == [o \in Offsets |-> "interrupted"]
      real == IF fault = "point" /\ Unsettled(p.mem.points) = {} THEN "none" ELSE fault
      stopped == Settle(p, outcome, IF AllObserved(p.mem.points) THEN "complete" ELSE "interrupted", real)
  IN  IF p.mem.tracked THEN [stopped EXCEPT !.mem.tracked = FALSE] ELSE p

==============================================================================
