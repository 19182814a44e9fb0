------------------------- MODULE EvaluationScheduler -------------------------
(***************************************************************************)
(* Global evaluation backpressure: orchestrator/evaluationScheduler.ts and *)
(* the watch timers of orchestrator/loop.ts that are its only client.      *)
(*                                                                         *)
(* A tick of a watched token is dispatched at once while a slot is free;   *)
(* otherwise it is held as at most one pending signal per token, in the    *)
(* order the tokens started waiting.  A dispatch that ends promotes the    *)
(* token that has waited longest.  JavaScript runs one task at a time, so  *)
(* each operation is one atomic step; the synchronous prefix of the        *)
(* dispatched evaluation (up to its first await) belongs to the same step. *)
(***************************************************************************)
EXTENDS Integers, Sequences, FiniteSets

CONSTANTS
  Mints,          \* the tokens discovery can report
  MaxConcurrent   \* options.maxConcurrent: dispatches that may run at once

\* The constructor throws unless maxConcurrent > 0; loop.ts passes
\* Math.max(1, cfg.providers.rpc.maxConcurrent).
ASSUME SchedulerAssumption == MaxConcurrent \in Nat \ {0}

VARIABLES
  active,        \* number of running dispatches
  activeByMint,  \* how many of them belong to each token
  pending,       \* the waiting tokens, in the Map's insertion order
  stopped,       \* stop() was called
  watched,       \* tokens with a live interval timer (loop.ts `watched`)
  aged           \* tokens older than discovery.maxTokenAgeSec

vars == <<active, activeByMint, pending, stopped, watched, aged>>

Waiting == {pending[i] : i \in 1..Len(pending)}

\* Map.delete on the pending map: later entries keep their order.
Without(s, m) ==
  IF \E i \in 1..Len(s) : s[i] = m
  THEN LET k == CHOOSE i \in 1..Len(s) : s[i] = m
       IN  [i \in 1..Len(s)-1 |-> IF i < k THEN s[i] ELSE s[i+1]]
  ELSE s

Init ==
  /\ active = 0
  /\ activeByMint = [m \in Mints |-> 0]
  /\ pending = <<>>
  /\ stopped = FALSE
  /\ watched = {}
  /\ aged = {}

------------------------------------------------------------------------------

\* A slot is free when n dispatches run.
HasSlot(n) == n < MaxConcurrent

\* Variant: the token's other dispatch is forgotten.
CountedOnce(byMint, m) == [byMint EXCEPT ![m] = 1]

\* One more dispatch of m runs.
Counted(byMint, m) == [byMint EXCEPT ![m] = @ + 1]

\* A tick without a slot: one signal per token, at its first place in line.
Enqueued(m) == IF m \in Waiting THEN pending ELSE Append(pending, m)

(***************************************************************************)
(* dispatch(m, run): takes a slot and runs evaluateToken up to its first   *)
(* await.  That prefix calls stopWatching for a token past its age limit,  *)
(* unless another evaluation of the token holds its lease, in which case   *)
(* the run may end at once.  `byMint`, `w` and `q` are the dispatch        *)
(* counts, the watched set and the queue that the dispatch finds.          *)
(***************************************************************************)
Dispatch(m, byMint, w, q) ==
  /\ activeByMint' = Counted(byMint, m)
  /\ \/ /\ m \in aged
        /\ watched' = w \ {m}
        /\ pending' = IF m \in w THEN Without(q, m) ELSE q
     \/ /\ m \notin aged \/ byMint[m] > 0
        /\ watched' = w
        /\ pending' = q

\* requestTick(m, run), called with the watched set `w`; once stopped it
\* returns without effect.
RequestTick(m, w) ==
  /\ ~stopped
  /\ \/ /\ HasSlot(active)
        /\ active' = active + 1
        /\ Dispatch(m, activeByMint, w, pending)
     \/ /\ ~HasSlot(active)
        /\ pending' = Enqueued(m)
        /\ watched' = w
        /\ UNCHANGED <<active, activeByMint>>

\* Discovery reports a token: watchToken sets its timer and ticks it at once.
WatchToken(m) ==
  /\ ~stopped
  /\ m \notin watched
  /\ RequestTick(m, watched \union {m})
  /\ UNCHANGED <<stopped, aged>>

\* The token's interval timer fires.
TimerTick(m) ==
  /\ m \in watched
  /\ RequestTick(m, watched)
  /\ UNCHANGED <<stopped, aged>>

\* Variant: a dispatch that ends promotes nothing.
PromoteNextNever(n, byMint) ==
  active' = n /\ activeByMint' = byMint /\ UNCHANGED <<pending, watched>>

\* Variant: the token that started waiting last is served first.
PromoteLast(n, byMint) ==
  IF stopped \/ ~HasSlot(n) \/ pending = <<>>
  THEN PromoteNextNever(n, byMint)
  ELSE /\ active' = n + 1
       /\ Dispatch(pending[Len(pending)], byMint, watched, SubSeq(pending, 1, Len(pending) - 1))

\* promoteNext, after a dispatch ended and left the counts `n` and `byMint`:
\* the token that has waited longest, if any, takes the slot.
PromoteNext(n, byMint) ==
  \/ /\ stopped \/ ~HasSlot(n) \/ pending = <<>>
     /\ active' = n
     /\ activeByMint' = byMint
     /\ UNCHANGED <<pending, watched>>
  \/ /\ ~stopped
     /\ HasSlot(n)
     /\ pending # <<>>
     /\ active' = n + 1
     /\ Dispatch(Head(pending), byMint, watched, Tail(pending))

\* A dispatched evaluation of m settles, whatever its outcome: the finally
\* handler frees its slot and promotes a waiting token.
Settle(m) ==
  /\ activeByMint[m] > 0
  /\ PromoteNext(active - 1, [activeByMint EXCEPT ![m] = @ - 1])
  /\ UNCHANGED <<stopped, aged>>

\* stopOrchestrator: stops watching every token (which forgets its pending
\* signal), then stops the scheduler; running evaluations are left to finish.
StopOrchestrator ==
  /\ ~stopped
  /\ stopped' = TRUE
  /\ watched' = {}
  /\ pending' = <<>>
  /\ UNCHANGED <<active, activeByMint, aged>>

\* The clock passes a token's maximum age.
Age(m) ==
  /\ m \notin aged
  /\ aged' = aged \union {m}
  /\ UNCHANGED <<active, activeByMint, pending, stopped, watched>>

Next ==
  \/ \E m \in Mints : WatchToken(m) \/ TimerTick(m) \/ Settle(m) \/ Age(m)
  \/ StopOrchestrator

Spec == Init /\ [][Next]_vars

------------------------------------------------------------------------------

TypeOK ==
  /\ active \in Int
  /\ activeByMint \in [Mints -> Nat]
  /\ pending \in Seq(Mints)
  /\ stopped \in BOOLEAN
  /\ watched \subseteq Mints
  /\ aged \subseteq Mints

\* Backpressure: the orchestrator never offers the provider gate more
\* simultaneous evaluations than it can serve without queueing.
Backpressure == active <= MaxConcurrent

\* No slot leaks and none is invented: the global count is the number of
\* dispatches actually running (the counter and the per-token Map are
\* updated by separate statements of dispatch and of its finally handler).
Dispatches(byMint) == UNION {{m} \X (1..byMint[m]) : m \in Mints}
SlotAccounting == active = Cardinality(Dispatches(activeByMint))

\* A tick waits only while every slot is taken, so a dispatch that ends must
\* promote exactly one waiting token: a slot it left idle would never be
\* offered to the queue again.
WorkConserving == pending # <<>> => active = MaxConcurrent /\ ~stopped

\* One coalesced signal per token, and none for a token that is no longer
\* watched (evaluationScheduler.ts: "a token no longer watched can never
\* consume a future slot").
PendingSignals ==
  /\ \A i, j \in 1..Len(pending) : pending[i] = pending[j] => i = j
  /\ Waiting \subseteq watched

\* m has been waiting longer than n.
Ahead(m, n) ==
  \E i, j \in 1..Len(pending) : i < j /\ pending[i] = m /\ pending[j] = n

\* No barging: a dispatch that leaves a token m waiting is the dispatch of a
\* token that was waiting ahead of m, never of a newcomer or a later one.
NoBarging ==
  [][\A m, n \in Mints :
       (/\ m \in Waiting
        /\ \E i \in 1..Len(pending') : pending'[i] = m
        /\ activeByMint'[n] > activeByMint[n]) => Ahead(n, m)]_vars

\* No starvation: a waiting token is dispatched (or dropped because the
\* orchestrator stops), however often the other tokens tick.
PendingServed == \A m \in Mints : m \in Waiting ~> m \notin Waiting

==============================================================================
