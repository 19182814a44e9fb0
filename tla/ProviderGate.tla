----------------------------- MODULE ProviderGate -----------------------------
(***************************************************************************)
(* One logical request to an upstream provider, and many of them sharing   *)
(* its endpoints: providers/providerGate.ts.                               *)
(*                                                                         *)
(* A request tries the endpoints in order.  An attempt at one takes a      *)
(* concurrency slot, then a place on the endpoint's rate clock, then does  *)
(* its HTTP call, and is retried after a backoff that holds no slot.       *)
(* Everything is cut at the request's deadline.  Steps of this module are  *)
(* the segments between two awaits.  Some continuations run as microtasks: *)
(* they are pending ("woken", "settled") when the step that caused them    *)
(* ends, other microtasks may run before them, and timers may not.  Timers *)
(* fire on time.  Metrics and the reason of a failure are left out.        *)
(***************************************************************************)
EXTENDS Integers, Sequences, FiniteSets

CONSTANTS
  Requests,            \* logical requests; each is made once
  NumEndpoints,        \* the primary and its fallbacks, in order
  MaxConcurrent, Timeout, MaxRetries, MaxTotal, Threshold, Cooldown,
  UnsupportedCooldown, \* ProviderGateOptions
  Spacing,             \* 1000 / maxRequestsPerSecond
  Grace,               \* HARD_ABANDON_GRACE_MS
  Delays,              \* the waits a backoff or a Retry-After may ask for
  MaxTime              \* bound on the clock

ASSUME GateAssumption ==
  /\ IsFiniteSet(Requests)
  /\ {NumEndpoints, MaxConcurrent, Timeout, MaxTotal, Threshold} \subseteq Nat \ {0}
  /\ {MaxRetries, Cooldown, UnsupportedCooldown, Spacing, Grace, MaxTime} \subseteq Nat
  /\ Delays \subseteq Nat

VARIABLES
  now,              \* the clock
  aborted,          \* shutdown() was called
  active,           \* per endpoint: slots in use
  waiters,          \* per endpoint: requests waiting for a slot
  nextSlotAt,       \* per endpoint: the rate clock
  failures,         \* per endpoint: consecutiveFailures
  openUntil,        \* per endpoint: its circuit is open until then
  unsupportedUntil, \* per endpoint: the method is not served until then
  req               \* where each request stands

endpointState == <<active, waiters, nextSlotAt>>
health == <<failures, openUntil, unsupportedUntil>>
vars == <<now, aborted, active, waiters, nextSlotAt, failures, openUntil,
          unsupportedUntil, req>>

Endpoints == 1..NumEndpoints
At(pcs, e) == {r \in Requests : req[r].pc \in pcs /\ req[r].ep = e}

Fresh == [pc |-> "new", ep |-> 0, attempt |-> 0, attempted |-> FALSE, evidence |-> FALSE,
          truncated |-> FALSE, deadline |-> 0, until |-> 0, outcome |-> "none"]

Init ==
  /\ now = 0
  /\ aborted = FALSE
  /\ active = [e \in Endpoints |-> 0]
  /\ waiters = [e \in Endpoints |-> <<>>]
  /\ nextSlotAt = [e \in Endpoints |-> 0]
  /\ failures = [e \in Endpoints |-> 0]
  /\ openUntil = [e \in Endpoints |-> 0]
  /\ unsupportedUntil = [e \in Endpoints |-> 0]
  /\ req = [r \in Requests |-> Fresh]

------------------------------------------------------------------------------
\* Pending continuations and timers

\* No microtask is pending: the event loop may turn to a timer.
Quiet == \A r \in Requests :
  /\ req[r].pc \notin {"woken", "settled"}
  /\ ~(aborted /\ req[r].pc \in {"spacing", "backoff"})

\* A timer of r is due: its queue wait, its sleep, or the limit of its attempt.
Due(r) ==
  \/ req[r].pc = "queued" /\ req[r].deadline <= now
  \/ req[r].pc \in {"spacing", "backoff", "fetching", "aborting"} /\ req[r].until <= now

Tick ==
  /\ now < MaxTime
  /\ Quiet
  /\ \A r \in Requests : ~Due(r)
  /\ now' = now + 1
  /\ UNCHANGED <<aborted, endpointState, health, req>>

------------------------------------------------------------------------------
\* Slots

Later(a, b) == IF a < b THEN b ELSE a

\* The records `rs` after release() of a slot of e called the first waiter; the
\* call does nothing for a waiter that an abort has called before.
AfterWake(rs, e) ==
  IF waiters[e] # <<>> /\ rs[Head(waiters[e])].pc = "queued"
  THEN [rs EXCEPT ![Head(waiters[e])].pc = "woken"]
  ELSE rs

\* Variant: the slot is not given back.
ReleaseForgotten(e, rs) == req' = rs /\ UNCHANGED <<active, waiters>>

\* release(st): the slot counts as free at once; a woken waiter counts itself
\* only when its continuation runs.
Release(e, rs) ==
  /\ active' = [active EXCEPT ![e] = Later(0, @ - 1)]
  /\ waiters' = [waiters EXCEPT ![e] = IF @ = <<>> THEN @ ELSE Tail(@)]
  /\ req' = AfterWake(rs, e)

\* Variant: a request that got no slot counts as one that failed.
NotAttemptedAsFailure(q) == "failed"

\* How a visit of an endpoint ends that is cut before its next attempt.
NotAttempted(q) == IF q.attempted THEN "failed" ELSE "not_attempted"

Settled(q, outcome) == [q EXCEPT !.pc = "settled", !.outcome = outcome]

\* The HTTP call starts, with what is left of the budget as its time limit.
Fetching(q) ==
  LET left == q.deadline - now
  IN  [q EXCEPT !.pc = "fetching", !.attempted = TRUE, !.truncated = left < Timeout,
                !.until = now + IF left < Timeout THEN left ELSE Timeout]

\* The second half of acquire, slot in hand: r, whose record is q, takes its
\* place on the rate clock, or gives the slot back if that place is too late.
Claim(r, e, q) ==
  LET slot == Later(now, nextSlotAt[e])
  IN  \/ /\ slot >= q.deadline
         /\ waiters' = [waiters EXCEPT ![e] = IF @ = <<>> THEN @ ELSE Tail(@)]
         /\ req' = AfterWake([req EXCEPT ![r] = Settled(q, NotAttempted(q))], e)
         /\ UNCHANGED <<active, nextSlotAt>>
      \/ /\ slot < q.deadline
         /\ active' = [active EXCEPT ![e] = @ + 1]
         /\ nextSlotAt' = [nextSlotAt EXCEPT ![e] = slot + Spacing]
         /\ req' = [req EXCEPT ![r] = IF slot = now THEN Fetching(q)
                                      ELSE [q EXCEPT !.pc = "spacing", !.until = slot]]
         /\ UNCHANGED waiters

\* Variant: the place on the rate clock is taken before the slot is in hand.
ClockReserved(e) == Later(now, nextSlotAt[e]) + Spacing

\* A request that must wait for a slot leaves the rate clock alone.
ClockWhenQueued(e) == nextSlotAt[e]

\* acquire(st) by r, whose record is q: a slot at once, or a place in the queue
\* unless no time is left to wait.
Acquire(r, e, q) ==
  \/ /\ active[e] < MaxConcurrent
     /\ Claim(r, e, q)
  \/ /\ active[e] >= MaxConcurrent
     /\ nextSlotAt' = [nextSlotAt EXCEPT ![e] = ClockWhenQueued(e)]
     /\ waiters' = [waiters EXCEPT ![e] = IF q.deadline > now THEN Append(@, r) ELSE @]
     /\ req' = [req EXCEPT ![r] = IF q.deadline > now THEN [q EXCEPT !.pc = "queued"]
                                  ELSE Settled(q, NotAttempted(q))]
     /\ UNCHANGED active

\* The woken waiter's continuation runs.
Continue(r) ==
  LET e == req[r].ep
  IN  /\ req[r].pc = "woken"
      /\ \/ /\ ~aborted
            /\ Claim(r, e, req[r])
         \/ /\ aborted
            /\ req' = [req EXCEPT ![r] = Settled(req[r], NotAttempted(req[r]))]
            /\ UNCHANGED endpointState
      /\ UNCHANGED <<now, aborted, health>>

\* Variant: the timer does not remove the waiter.
StillWaiting(e, r) == waiters[e]

\* The queue of e without r.
Spliced(e, r) ==
  LET w == waiters[e]
      k == CHOOSE i \in 1..Len(w) : w[i] = r
  IN  IF \E i \in 1..Len(w) : w[i] = r
      THEN [i \in 1..Len(w)-1 |-> IF i < k THEN w[i] ELSE w[i+1]]
      ELSE w

\* The wait for a slot reaches the deadline.
QueueTimesOut(r) ==
  LET e == req[r].ep
  IN  /\ Quiet
      /\ req[r].pc = "queued"
      /\ Due(r)
      /\ waiters' = [waiters EXCEPT ![e] = Spliced(e, r)]
      /\ req' = [req EXCEPT ![r] = Settled(req[r], NotAttempted(req[r]))]
      /\ UNCHANGED <<now, aborted, active, nextSlotAt, health>>

\* The place on the rate clock is reached.
SpacingEnds(r) ==
  /\ Quiet
  /\ req[r].pc = "spacing"
  /\ Due(r)
  /\ req' = [req EXCEPT ![r] = Fetching(req[r])]
  /\ UNCHANGED <<now, aborted, endpointState, health>>

------------------------------------------------------------------------------
\* The HTTP call

InCall(r) == req[r].pc \in {"fetching", "aborting"}

\* The provider answers something that the caller has to interpret, also
\* after the abort was signalled to a call that does not observe it.
Answers(r) ==
  /\ InCall(r)
  /\ Release(req[r].ep, [req EXCEPT ![r] = Settled(req[r], "ok")])
  /\ UNCHANGED <<now, aborted, nextSlotAt, health>>

\* The provider answers that it does not serve the method.
AnswersUnsupported(r) ==
  /\ InCall(r)
  /\ unsupportedUntil' = [unsupportedUntil EXCEPT ![req[r].ep] = now + UnsupportedCooldown]
  /\ Release(req[r].ep, [req EXCEPT ![r] = Settled([req[r] EXCEPT !.evidence = TRUE], "failed")])
  /\ UNCHANGED <<now, aborted, nextSlotAt, failures, openUntil>>

\* Variants: a wait is taken even if it ends beyond the budget; one retry too many.
RetryFitsAlways(q, delay) == q.attempt < MaxRetries
RetryFitsOffByOne(q, delay) == q.attempt <= MaxRetries /\ now + delay < q.deadline

\* A retry is left, and its wait ends within the budget.
RetryFits(q, delay) == q.attempt < MaxRetries /\ now + delay < q.deadline

\* The attempt counts as a failure of the endpoint: retried or given up on.
Fails(r, delay) ==
  LET q == [req[r] EXCEPT !.evidence = TRUE]
  IN  Release(q.ep, [req EXCEPT ![r] = IF RetryFits(q, delay)
                                       THEN [q EXCEPT !.pc = "backoff", !.until = now + delay]
                                       ELSE Settled(q, "failed")])

\* 429, 5xx, or a network error before the time limit.
AnswersFailure(r, delay) ==
  /\ InCall(r)
  /\ Fails(r, delay)
  /\ UNCHANGED <<now, aborted, nextSlotAt, health>>

\* The attempt is over without an answer: a failure of the endpoint only if it
\* had the full time limit.
CallEnds(r, delay) ==
  \/ /\ req[r].truncated
     /\ Release(req[r].ep, [req EXCEPT ![r] = Settled(req[r], "local_deadline")])
  \/ /\ ~req[r].truncated
     /\ Fails(r, delay)

\* The time limit passes: the call is aborted and ends ...
TimesOut(r, delay) ==
  /\ Quiet
  /\ req[r].pc = "fetching"
  /\ Due(r)
  /\ CallEnds(r, delay)
  /\ UNCHANGED <<now, aborted, nextSlotAt, health>>

\* ... or it does not observe the abort ...
Hangs(r) ==
  /\ Quiet
  /\ req[r].pc = "fetching"
  /\ Due(r)
  /\ req' = [req EXCEPT ![r].pc = "aborting", ![r].until = @ + Grace]
  /\ UNCHANGED <<now, aborted, endpointState, health>>

\* ... until it rejects late, or the hard boundary abandons it at `until`.
\* Whatever an abandoned call does later has no effect.
Abandon(r, delay) ==
  /\ req[r].pc = "aborting"
  /\ CallEnds(r, delay)
  /\ UNCHANGED <<now, aborted, nextSlotAt, health>>

\* The wait before a retry ends.
BackoffEnds(r) ==
  LET q == [req[r] EXCEPT !.attempt = @ + 1]
  IN  /\ Quiet
      /\ req[r].pc = "backoff"
      /\ Due(r)
      /\ Acquire(r, q.ep, q)
      /\ UNCHANGED <<now, aborted, health>>

------------------------------------------------------------------------------
\* The logical request

\* The endpoints after `last` that are neither cut off by their circuit nor
\* known not to serve the method.
Candidates(last) ==
  {e \in Endpoints : e > last /\ openUntil[e] <= now /\ unsupportedUntil[e] <= now}

\* r turns to the next endpoint, or fails when there is none.
Visit(r, last, deadline) ==
  \/ /\ Candidates(last) = {}
     /\ req' = [req EXCEPT ![r] = [Fresh EXCEPT !.pc = "done"]]
     /\ UNCHANGED endpointState
  \/ \E e \in Candidates(last) :
       /\ \A f \in Candidates(last) : e <= f
       /\ Acquire(r, e, [Fresh EXCEPT !.ep = e, !.deadline = deadline])

\* execute(req).
Execute(r) ==
  /\ req[r].pc = "new"
  /\ ~aborted
  /\ Visit(r, 0, now + MaxTotal)
  /\ UNCHANGED <<now, aborted, health>>

\* Only a failure of the endpoint counts against it: not what the local gate or
\* the budget cut short, nor a method that is not served.
Counts(q) == q.outcome = "failed" /\ unsupportedUntil[q.ep] <= now /\ ~aborted

\* The visit's outcome reaches execute: the circuit, then the next endpoint.
Conclude(r) ==
  LET q == req[r]
      failed == failures[q.ep] + 1
  IN  /\ q.pc = "settled"
      /\ failures' = [failures EXCEPT ![q.ep] = IF q.outcome = "ok" THEN 0
                                                ELSE IF Counts(q) THEN failed ELSE @]
      /\ openUntil' = [openUntil EXCEPT ![q.ep] =
                         IF Counts(q) /\ failed >= Threshold /\ @ <= now THEN now + Cooldown ELSE @]
      /\ \/ /\ q.outcome = "ok" \/ aborted \/ now >= q.deadline
            /\ req' = [req EXCEPT ![r] = [Fresh EXCEPT !.pc = "done"]]
            /\ UNCHANGED endpointState
         \/ /\ q.outcome # "ok"
            /\ ~aborted
            /\ now < q.deadline
            /\ Visit(r, q.ep, q.deadline)
      /\ UNCHANGED <<now, aborted, unsupportedUntil>>

------------------------------------------------------------------------------
\* Shutdown

\* The abort calls every queued waiter, and leaves the queues as they are.
Shutdown ==
  /\ ~aborted
  /\ aborted' = TRUE
  /\ req' = [r \in Requests |-> IF req[r].pc = "queued" THEN [req[r] EXCEPT !.pc = "woken"] ELSE req[r]]
  /\ UNCHANGED <<now, endpointState, health>>

\* It ends every sleep: one that holds a slot gives it back.
SleepAborted(r) ==
  /\ aborted
  /\ \/ /\ req[r].pc = "spacing"
        /\ Release(req[r].ep, [req EXCEPT ![r] = Settled(req[r], NotAttempted(req[r]))])
     \/ /\ req[r].pc = "backoff"
        /\ req' = [req EXCEPT ![r] = Settled(req[r], "failed")]
        /\ UNCHANGED <<active, waiters>>
  /\ UNCHANGED <<now, aborted, nextSlotAt, health>>

\* It aborts every call that observes it.
CallAborted(r) ==
  /\ aborted
  /\ InCall(r)
  /\ Release(req[r].ep, [req EXCEPT ![r] = Settled(req[r], "failed")])
  /\ UNCHANGED <<now, aborted, nextSlotAt, health>>

Next ==
  \/ Tick \/ Shutdown
  \/ \E r \in Requests :
       \/ Execute(r) \/ Continue(r) \/ QueueTimesOut(r) \/ SpacingEnds(r)
       \/ Answers(r) \/ AnswersUnsupported(r) \/ Hangs(r) \/ BackoffEnds(r)
       \/ Conclude(r) \/ SleepAborted(r) \/ CallAborted(r)
       \/ \E delay \in Delays : AnswersFailure(r, delay) \/ TimesOut(r, delay) \/ Abandon(r, delay)

Spec == Init /\ [][Next]_vars

------------------------------------------------------------------------------

TypeOK ==
  /\ now \in 0..MaxTime
  /\ aborted \in BOOLEAN
  /\ active \in [Endpoints -> Nat]
  /\ waiters \in [Endpoints -> Seq(Requests)]
  /\ {nextSlotAt, failures, openUntil, unsupportedUntil} \subseteq [Endpoints -> Nat]
  /\ \A r \in Requests :
       /\ req[r].pc \in {"new", "queued", "woken", "spacing", "fetching", "aborting",
                         "backoff", "settled", "done"}
       /\ req[r].ep \in 0..NumEndpoints
       /\ req[r].attempt \in 0..MaxRetries
       /\ {req[r].attempted, req[r].evidence, req[r].truncated} \subseteq BOOLEAN
       /\ {req[r].deadline, req[r].until} \subseteq Nat
       /\ req[r].outcome \in {"none", "ok", "failed", "not_attempted", "local_deadline"}

\* No slot leaks and none is given back twice, on any of the paths that end an
\* attempt or cut it short before it starts; the Math.max of release, which
\* would hide a second release, is never needed.
SlotAccounting ==
  \A e \in Endpoints : active[e] = Cardinality(At({"spacing", "fetching", "aborting"}, e))

\* A request waits only while every slot is taken or promised to a waiter that
\* was called: a release that is lost (to a waiter whose time ran out, to one
\* that finds its place on the clock too late) would freeze the queue.
NoIdleSlot ==
  \A e \in Endpoints : waiters[e] # <<>> /\ ~aborted =>
    active[e] + Cardinality(At({"woken"}, e)) >= MaxConcurrent

\* The rate clock runs ahead of time only by the requests that sleep until
\* their place on it, and so never drifts away under overload (providerGate.ts:
\* "it only ever advances for logical requests that are actually about to
\* dispatch an HTTP attempt").
RateClockTruthful ==
  \A e \in Endpoints : ~aborted =>
    nextSlotAt[e] <= now + Spacing * (1 + Cardinality(At({"spacing"}, e)))

\* Every request ends within its budget, and at the latest one grace period
\* after it, whatever mix of queueing, spacing, retries, fallbacks and calls
\* that hang it went through.
SettlesInTime ==
  \A r \in Requests : req[r].pc \notin {"new", "done"} => now <= req[r].deadline + Grace

\* A circuit is opened by evidence only: a visit that counts as a failure of
\* the endpoint had an attempt that failed there with its full time limit or
\* by an answer, never only waits of our own (EndpointOutcome, "says something
\* about OUR OWN configured capacity").
FailuresAreEvidence ==
  [][\A e \in Endpoints : failures'[e] > failures[e] =>
       \E r \in At({"settled"}, e) : req[r].evidence /\ req'[r] # req[r]]_vars

\* providerGate.ts promises "a concurrency bound" per endpoint: never more than
\* MaxConcurrent attempts at once.
ConcurrencyBound == \A e \in Endpoints : active[e] <= MaxConcurrent

==============================================================================
