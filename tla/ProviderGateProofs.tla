--------------------------- MODULE ProviderGateProofs ---------------------------
(***************************************************************************)
(* For any number of requests and endpoints and all limits of the gate:    *)
(* slots are given back exactly once, every request ends in time, and only *)
(* evidence counts against an endpoint.                                    *)
(***************************************************************************)
EXTENDS ProviderGate, FiniteSetTheorems, TLAPS

Stages == {"new", "queued", "woken", "spacing", "fetching", "aborting", "backoff", "settled", "done"}
Holding == {"spacing", "fetching", "aborting"}

Records ==
  [pc : Stages, ep : Nat, attempt : Nat, attempted : BOOLEAN, evidence : BOOLEAN, truncated : BOOLEAN,
   deadline : Nat, until : Nat, outcome : {"none", "ok", "failed", "not_attempted", "local_deadline"}]

\* A request whose record is q is not past what it waits for, which ends
\* within its budget; an attempt that was retried has failed at the endpoint,
\* and it waits for one more attempt only if it has one left.
Sound(q) ==
  /\ IF q.pc \in {"new", "done"} THEN q.ep = 0 ELSE q.ep \in Endpoints
  /\ q.attempt <= MaxRetries
  /\ q.pc = "backoff" => q.attempt < MaxRetries
  /\ q.pc \in {"queued", "woken"} => now <= q.deadline
  /\ q.pc \in {"spacing", "backoff"} => now <= q.until /\ q.until < q.deadline
  /\ q.pc = "fetching" => now <= q.until /\ q.until <= q.deadline
  /\ q.pc = "aborting" => now <= q.until /\ q.until <= q.deadline + Grace
  /\ q.pc = "settled" => now <= q.deadline + Grace
  /\ q.pc \in {"queued", "woken", "spacing"} /\ q.attempted => q.evidence
  /\ q.pc = "backoff" => q.evidence
  /\ q.pc = "settled" /\ q.outcome = "failed" /\ ~aborted => q.evidence

Shapes ==
  /\ now \in Nat
  /\ aborted \in BOOLEAN
  /\ active \in [Endpoints -> Nat]
  /\ nextSlotAt \in [Endpoints -> Nat]
  /\ req \in [Requests -> Records]

\* Each place on the rate clock that is still to come, counted back from the
\* next free one, is the place of a request that sleeps until then.
PlacesTaken ==
  \A e \in Endpoints, k \in Nat :
    ~aborted /\ nextSlotAt[e] - (k + 1) * Spacing > now =>
      \E r \in At({"spacing"}, e) : req[r].until = nextSlotAt[e] - (k + 1) * Spacing

GateInv ==
  /\ Shapes
  /\ \A r \in Requests : Sound(req[r])
  /\ SlotAccounting
  /\ PlacesTaken
  /\ Spacing = 0 => \A e \in Endpoints : nextSlotAt[e] <= now

------------------------------------------------------------------------------
\* What a step of one request is.

\* Called from its wait, and nothing else.
Called(u) == req[u].pc = "queued" /\ req'[u] = [req[u] EXCEPT !.pc = "woken"]
OthersAreCalled(r) == \A u \in Requests \ {r} : req'[u] = req[u] \/ Called(u)

\* The request keeps what it had, takes a slot, or gives its slot back.
Keeps(r) ==
  /\ active' = active
  /\ req[r].pc \in Holding <=> req'[r].pc \in Holding
  /\ req'[r].pc \in Holding => req'[r].ep = req[r].ep
Takes(r) ==
  /\ req[r].pc \notin Holding /\ req'[r].pc \in Holding
  /\ active' = [active EXCEPT ![req'[r].ep] = @ + 1]
Gives(r) ==
  /\ req[r].pc \in Holding /\ req'[r].pc \notin Holding
  /\ active' = [active EXCEPT ![req[r].ep] = Later(0, @ - 1)]

\* It leaves the rate clock alone and sleeps no longer than it has to, or takes
\* the next place.
KeepsClock(r) ==
  /\ nextSlotAt' = nextSlotAt
  /\ req[r].pc = "spacing" => aborted \/ req[r].until <= now
TakesPlace(r) ==
  /\ req[r].pc # "spacing"
  /\ \E e \in Endpoints :
       /\ nextSlotAt' = [nextSlotAt EXCEPT ![e] = Later(now, nextSlotAt[e]) + Spacing]
       /\ nextSlotAt[e] > now =>
            req'[r].pc = "spacing" /\ req'[r].ep = e /\ req'[r].until = nextSlotAt[e]

StepOf(r) ==
  /\ UNCHANGED <<now, aborted>>
  /\ nextSlotAt' \in [Endpoints -> Nat]
  /\ KeepsClock(r) \/ TakesPlace(r)
  /\ req' \in [Requests -> Records]
  /\ OthersAreCalled(r)
  /\ Sound(req[r])'
  /\ Keeps(r) \/ Takes(r) \/ Gives(r)

LEMMA GateNumbers ==
  /\ NumEndpoints \in Nat \ {0} /\ Timeout \in Nat \ {0} /\ MaxTotal \in Nat \ {0}
  /\ Spacing \in Nat /\ Grace \in Nat /\ MaxTime \in Nat /\ MaxRetries \in Nat
  /\ IsFiniteSet(Requests)
  /\ Delays \subseteq Nat
BY GateAssumption

\* The slots in use are counted exactly.
LEMMA SlotsCounted ==
  ASSUME Shapes, SlotAccounting, \A u \in Requests : Sound(req[u]), NEW r \in Requests, StepOf(r)
  PROVE  SlotAccounting' /\ active' \in [Endpoints -> Nat]
<1> DEFINE H(e) == At(Holding, e)
           G(e) == {u \in Requests : req'[u].pc \in Holding /\ req'[u].ep = e}
<1>1. \A e \in Endpoints : IsFiniteSet(H(e)) /\ active[e] = Cardinality(H(e)) /\ active[e] \in Nat
  <2> SUFFICES ASSUME NEW e \in Endpoints
               PROVE  IsFiniteSet(H(e)) /\ active[e] = Cardinality(H(e)) /\ active[e] \in Nat
    OBVIOUS
  <2>1. H(e) \subseteq Requests
    BY DEF At
  <2>2. IsFiniteSet(H(e))
    BY <2>1, GateNumbers, FS_Subset
  <2>3. QED
    BY <2>2 DEF SlotAccounting, Holding, Shapes
<1>2. \A e \in Endpoints, u \in Requests \ {r} : u \in G(e) <=> u \in H(e)
  BY DEF StepOf, OthersAreCalled, Called, At, Holding, Shapes, Records
<1>3. \A e \in Endpoints : active'[e] = Cardinality(G(e)) /\ active'[e] \in Nat
  <2>1. CASE Keeps(r)
    <3>1. \A e \in Endpoints : r \in G(e) <=> r \in H(e)
      BY <2>1 DEF Keeps, At
    <3>2. \A e \in Endpoints : G(e) = H(e)
      BY <1>2, <3>1 DEF At
    <3> HIDE DEF H, G
    <3>3. QED
      BY <1>1, <2>1, <3>2 DEF Keeps
  <2>2. CASE Takes(r)
    <3>1. PICK f \in Endpoints : f = req'[r].ep
      BY <2>2 DEF Takes, StepOf, Sound, Holding, Endpoints
    <3>2. G(f) = H(f) \union {r} /\ r \notin H(f)
      BY <1>2, <2>2, <3>1 DEF Takes, At
    <3>3. \A e \in Endpoints \ {f} : G(e) = H(e)
      BY <1>2, <2>2, <3>1 DEF Takes, At
    <3>4. \A e \in Endpoints : active'[e] = IF e = f THEN active[f] + 1 ELSE active[e]
      BY <2>2, <3>1 DEF Takes, Shapes
    <3> HIDE DEF H, G
    <3>5. Cardinality(G(f)) = Cardinality(H(f)) + 1
      BY <1>1, <3>1, <3>2, FS_AddElement
    <3>6. QED
      BY <1>1, <3>1, <3>3, <3>4, <3>5
  <2>3. CASE Gives(r)
    <3>1. PICK f \in Endpoints : f = req[r].ep
      BY <2>3 DEF Gives, Sound, Holding
    <3>2. G(f) = H(f) \ {r} /\ r \in H(f)
      BY <1>2, <2>3, <3>1 DEF Gives, At
    <3>3. \A e \in Endpoints \ {f} : G(e) = H(e)
      BY <1>2, <2>3, <3>1 DEF Gives, At
    <3>4. \A e \in Endpoints : active'[e] = IF e = f THEN Later(0, active[f] - 1) ELSE active[e]
      BY <2>3, <3>1 DEF Gives, Shapes
    <3> HIDE DEF H, G
    <3>5. IsFiniteSet(G(f)) /\ Cardinality(G(f)) = Cardinality(H(f)) - 1
      BY <1>1, <3>1, <3>2, FS_RemoveElement
    <3>6. Cardinality(G(f)) \in Nat
      BY <3>5, FS_CardinalityType
    <3>7. Later(0, active[f] - 1) = Cardinality(G(f))
      BY <1>1, <3>1, <3>5, <3>6 DEF Later
    <3>8. QED
      BY <1>1, <3>1, <3>3, <3>4, <3>6, <3>7
  <2>4. QED
    BY <2>1, <2>2, <2>3 DEF StepOf
<1>4. SlotAccounting'
  <2>1. \A e \in Endpoints : G(e) = {u \in Requests : req'[u].pc \in {"spacing", "fetching", "aborting"} /\ req'[u].ep = e}
    BY DEF Holding
  <2> HIDE DEF G
  <2>2. QED
    BY <1>3, <2>1 DEF SlotAccounting, At
<1>5. active' \in [Endpoints -> Nat]
  <2> HIDE DEF G
  <2>1. \E f : active' = [active EXCEPT ![f] = active'[f]] \/ active' = active
    BY DEF StepOf, Keeps, Takes, Gives, Shapes
  <2>2. QED
    BY <1>3, <2>1 DEF Shapes
<1>6. QED
  BY <1>4, <1>5

\* The places on the clock stay accounted for.
LEMMA PlacesCounted ==
  ASSUME Shapes, PlacesTaken, NEW r \in Requests, StepOf(r) PROVE PlacesTaken'
<1> SUFFICES ASSUME NEW e \in Endpoints, NEW k \in Nat, ~aborted,
                    nextSlotAt'[e] - (k + 1) * Spacing > now
             PROVE  \E u \in Requests : /\ req'[u].pc = "spacing" /\ req'[u].ep = e
                                        /\ req'[u].until = nextSlotAt'[e] - (k + 1) * Spacing
  BY DEF PlacesTaken, At, StepOf
<1>1. now \in Nat /\ nextSlotAt[e] \in Nat /\ nextSlotAt'[e] \in Nat /\ Spacing \in Nat
  BY GateNumbers DEF Shapes, StepOf
<1>2. ASSUME NEW u \in Requests, u # r, req[u].pc = "spacing" PROVE req'[u] = req[u]
  BY <1>2 DEF StepOf, OthersAreCalled, Called
<1>3. ASSUME NEW j \in Nat, nextSlotAt[e] - (j + 1) * Spacing > now, nextSlotAt[e] - (j + 1) * Spacing
               = nextSlotAt'[e] - (k + 1) * Spacing
      PROVE  \E u \in Requests : /\ req'[u].pc = "spacing" /\ req'[u].ep = e
                                 /\ req'[u].until = nextSlotAt'[e] - (k + 1) * Spacing
  <2>1. PICK u \in Requests : req[u].pc = "spacing" /\ req[u].ep = e /\ req[u].until = nextSlotAt[e] - (j + 1) * Spacing
    BY <1>3 DEF PlacesTaken, At
  <2>2. u # r
    BY <1>1, <1>3, <2>1 DEF StepOf, KeepsClock, TakesPlace
  <2>3. QED
    BY <1>2, <1>3, <2>1, <2>2
<1>4. CASE nextSlotAt'[e] = nextSlotAt[e]
  BY <1>3, <1>4
<1>5. CASE nextSlotAt'[e] # nextSlotAt[e]
  <2>1. /\ nextSlotAt'[e] = Later(now, nextSlotAt[e]) + Spacing
        /\ nextSlotAt[e] > now =>
             req'[r].pc = "spacing" /\ req'[r].ep = e /\ req'[r].until = nextSlotAt[e]
    BY <1>1, <1>5 DEF StepOf, KeepsClock, TakesPlace, Shapes
  <2>2. (k + 1) * Spacing = k * Spacing + Spacing /\ k * Spacing \in Nat
    BY <1>1
  <2>3. nextSlotAt[e] > now /\ nextSlotAt'[e] = nextSlotAt[e] + Spacing
    BY <1>1, <2>1, <2>2 DEF Later
  <2>4. CASE k = 0
    BY <1>1, <2>1, <2>2, <2>3, <2>4
  <2>5. CASE k # 0
    <3>1. k - 1 \in Nat /\ (k - 1) + 1 = k
      BY <2>5
    <3>2. nextSlotAt[e] - k * Spacing = nextSlotAt'[e] - (k + 1) * Spacing
      BY <1>1, <2>2, <2>3
    <3>3. QED
      BY <1>3, <3>1, <3>2
  <2>6. QED
    BY <2>4, <2>5
<1>6. QED
  BY <1>4, <1>5

LEMMA Frame == ASSUME GateInv, NEW r \in Requests, StepOf(r) PROVE GateInv'
<1>1. SlotAccounting' /\ active' \in [Endpoints -> Nat]
  BY SlotsCounted DEF GateInv
<1>2. ASSUME NEW u \in Requests \ {r} PROVE Sound(req[u])'
  <2>1. Sound(req[u]) /\ req[u] \in Records /\ UNCHANGED <<now, aborted>>
    BY DEF GateInv, Shapes, StepOf
  <2>2. CASE req'[u] = req[u]
    BY <2>1, <2>2 DEF Sound
  <2>3. CASE Called(u)
    <3>1. req'[u] = [req[u] EXCEPT !.pc = "woken"] /\ req[u].pc = "queued"
      BY <2>3 DEF Called
    <3>2. QED
      BY <2>1, <3>1 DEF Sound, Records
  <2>4. QED
    BY <2>2, <2>3 DEF StepOf, OthersAreCalled
<1>3. PlacesTaken'
  BY PlacesCounted DEF GateInv
<1>4. ASSUME Spacing = 0, NEW e \in Endpoints PROVE nextSlotAt'[e] <= now'
  BY <1>4 DEF GateInv, Shapes, StepOf, KeepsClock, TakesPlace, Later
<1>5. QED
  BY <1>1, <1>2, <1>3, <1>4 DEF GateInv, StepOf, Shapes

------------------------------------------------------------------------------
\* The parts that steps are made of.

\* A release calls at most one waiter, and never the request that releases.
LEMMA Waking ==
  ASSUME NEW rs \in [Requests -> Records], NEW e, NEW r \in Requests, rs[r].pc # "queued"
  PROVE  /\ AfterWake(rs, e) \in [Requests -> Records]
         /\ AfterWake(rs, e)[r] = rs[r]
         /\ \A u \in Requests : \/ AfterWake(rs, e)[u] = rs[u]
                                \/ rs[u].pc = "queued" /\ AfterWake(rs, e)[u] = [rs[u] EXCEPT !.pc = "woken"]
<1> DEFINE w == Head(waiters[e])
<1>1. CASE waiters[e] # <<>> /\ rs[w].pc = "queued"
  <2>1. AfterWake(rs, e) = [rs EXCEPT ![w].pc = "woken"]
    BY <1>1 DEF AfterWake
  <2>2. \A u \in Requests : AfterWake(rs, e)[u] = IF u = w THEN [rs[u] EXCEPT !.pc = "woken"] ELSE rs[u]
    BY <2>1
  <2>3. \A u \in Requests : [rs[u] EXCEPT !.pc = "woken"] \in Records
    BY DEF Records, Stages
  <2>4. AfterWake(rs, e) \in [Requests -> Records]
    BY <2>1, <2>2, <2>3
  <2>5. QED
    BY <1>1, <2>2, <2>4
<1>2. CASE ~(waiters[e] # <<>> /\ rs[w].pc = "queued")
  BY <1>2 DEF AfterWake
<1>3. QED
  BY <1>1, <1>2

\* A request that ends its attempt, as record q, gives its slot back.
LEMMA Releasing ==
  ASSUME GateInv, NEW r \in Requests, req[r].pc \in Holding, req[r].pc = "spacing" => aborted, NEW q \in Records,
         q.pc \in {"settled", "backoff"}, Sound(q), UNCHANGED <<now, aborted, nextSlotAt>>,
         Release(req[r].ep, [req EXCEPT ![r] = q])
  PROVE  StepOf(r)
<1> DEFINE rs == [req EXCEPT ![r] = q]
           e == req[r].ep
<1>1. rs \in [Requests -> Records] /\ rs[r] = q /\ \A u \in Requests \ {r} : rs[u] = req[u]
  BY DEF GateInv, Shapes
<1>2. req' = AfterWake(rs, e) /\ rs[r].pc # "queued"
  BY <1>1 DEF Release
<1> HIDE DEF rs, e
<1>3. /\ req' \in [Requests -> Records]
      /\ req'[r] = q
      /\ \A u \in Requests : req'[u] = rs[u] \/ (rs[u].pc = "queued" /\ req'[u] = [rs[u] EXCEPT !.pc = "woken"])
  BY <1>1, <1>2, Waking
<1>4. OthersAreCalled(r)
  BY <1>1, <1>3 DEF OthersAreCalled, Called
<1>5. Sound(req[r])'
  BY <1>3 DEF Sound
<1>6. active' = [active EXCEPT ![req[r].ep] = Later(0, @ - 1)]
  BY DEF Release
<1>7. Gives(r)
  BY <1>3, <1>6 DEF Gives, Holding
<1>8. QED
  BY <1>3, <1>4, <1>5, <1>7 DEF StepOf, KeepsClock, GateInv, Shapes

\* Only the request itself changes, and the slots stay as they are.
LEMMA Alone ==
  ASSUME GateInv, NEW r \in Requests, NEW q \in Records, Sound(q), req' = [req EXCEPT ![r] = q],
         q.pc \in Holding <=> req[r].pc \in Holding, q.pc \in Holding => q.ep = req[r].ep,
         UNCHANGED <<now, aborted, active, nextSlotAt>>,
         req[r].pc = "spacing" => aborted \/ req[r].until <= now
  PROVE  StepOf(r)
<1>1. req' \in [Requests -> Records] /\ req'[r] = q /\ \A u \in Requests \ {r} : req'[u] = req[u]
  BY DEF GateInv, Shapes
<1>2. Sound(req[r])'
  BY <1>1 DEF Sound
<1>3. QED
  BY <1>1, <1>2 DEF StepOf, OthersAreCalled, Keeps, KeepsClock, GateInv, Shapes

\* The record of a request whose HTTP call starts.
LEMMA FetchingRecord ==
  ASSUME Shapes, NEW q \in Records, q.ep \in Endpoints, now < q.deadline, q.attempt <= MaxRetries
  PROVE  /\ Fetching(q) \in Records /\ Sound(Fetching(q))
         /\ Fetching(q).pc = "fetching" /\ Fetching(q).ep = q.ep
<1>1. q.deadline - now \in Nat /\ now \in Nat /\ q.deadline \in Nat /\ Timeout \in Nat
  BY GateNumbers DEF Shapes, Records
<1> DEFINE left == q.deadline - now
           until == now + IF left < Timeout THEN left ELSE Timeout
<1>2. until \in Nat /\ now <= until /\ until <= q.deadline /\ (left < Timeout) \in BOOLEAN
  BY <1>1
<1>3. Fetching(q) = [q EXCEPT !.pc = "fetching", !.attempted = TRUE, !.truncated = left < Timeout,
                              !.until = until]
  BY DEF Fetching
<1> HIDE DEF until, left
<1>4. QED
  BY <1>2, <1>3 DEF Records, Stages, Sound

\* The record of a visit that ends before its next attempt.
LEMMA NotAttemptedRecord ==
  ASSUME Shapes, NEW q \in Records, q.ep \in Endpoints, now <= q.deadline, q.attempted => q.evidence,
         q.attempt <= MaxRetries
  PROVE  /\ Settled(q, NotAttempted(q)) \in Records /\ Sound(Settled(q, NotAttempted(q)))
         /\ Settled(q, NotAttempted(q)).pc = "settled"
<1>1. now <= q.deadline + Grace
  BY GateNumbers DEF Shapes, Records
<1>2. QED
  BY <1>1 DEF Settled, NotAttempted, Records, Stages, Sound

\* A request without a slot, whose record is to be q, claims one.
LEMMA Claiming ==
  ASSUME GateInv, NEW r \in Requests, NEW q \in Records, q.ep \in Endpoints, now <= q.deadline,
         q.attempted => q.evidence, q.attempt <= MaxRetries, req[r].pc \notin Holding,
         Claim(r, q.ep, q), UNCHANGED <<now, aborted>>
  PROVE  StepOf(r)
<1> DEFINE e == q.ep
           slot == Later(now, nextSlotAt[e])
           ended == Settled(q, NotAttempted(q))
           rs == [req EXCEPT ![r] = ended]
<1>1. slot \in Nat /\ now <= slot
  BY DEF GateInv, Shapes, Later
<1>2. Shapes
  BY DEF GateInv
<1>3. CASE /\ req' = AfterWake(rs, e)
           /\ UNCHANGED <<active, nextSlotAt>>
  <2>1. ended \in Records /\ Sound(ended) /\ ended.pc = "settled"
    BY <1>2, NotAttemptedRecord
  <2>2. /\ rs \in [Requests -> Records] /\ rs[r] = ended /\ \A u \in Requests \ {r} : rs[u] = req[u]
        /\ rs[r].pc # "queued"
    BY <1>2, <2>1 DEF Shapes
  <2> HIDE DEF rs, ended
  <2>3. /\ req' \in [Requests -> Records]
        /\ req'[r] = ended
        /\ \A u \in Requests : req'[u] = rs[u] \/ (rs[u].pc = "queued" /\ req'[u] = [rs[u] EXCEPT !.pc = "woken"])
    BY <1>3, <2>1, <2>2, Waking
  <2>4. OthersAreCalled(r)
    BY <2>2, <2>3 DEF OthersAreCalled, Called
  <2>5. Sound(req[r])'
    BY <2>1, <2>3 DEF Sound
  <2>6. Keeps(r)
    BY <1>3, <2>1, <2>3 DEF Keeps, Holding
  <2>7. KeepsClock(r)
    BY <1>3 DEF KeepsClock, Holding
  <2>8. QED
    BY <1>2, <1>3, <2>3, <2>4, <2>5, <2>6, <2>7 DEF StepOf, Shapes
<1>4. CASE /\ slot < q.deadline
           /\ active' = [active EXCEPT ![e] = @ + 1]
           /\ nextSlotAt' = [nextSlotAt EXCEPT ![e] = slot + Spacing]
           /\ req' = [req EXCEPT ![r] = IF slot = now THEN Fetching(q)
                                        ELSE [q EXCEPT !.pc = "spacing", !.until = slot]]
  <2> DEFINE started == IF slot = now THEN Fetching(q) ELSE [q EXCEPT !.pc = "spacing", !.until = slot]
  <2>1. started \in Records /\ Sound(started) /\ started.pc \in Holding /\ started.ep = e
    <3>1. CASE slot = now
      BY <1>2, <1>4, <3>1, FetchingRecord DEF Holding
    <3>2. CASE slot # now
      BY <1>1, <1>4, <3>2 DEF Records, Stages, Sound, Holding
    <3>3. QED
      BY <3>1, <3>2
  <2>2. nextSlotAt' \in [Endpoints -> Nat]
    BY <1>1, <1>2, <1>4, GateNumbers DEF Shapes
  <2>3. /\ req' = [req EXCEPT ![r] = started]
        /\ slot # now => started.pc = "spacing" /\ started.until = slot
        /\ nextSlotAt[e] > now => slot # now /\ slot = nextSlotAt[e]
    BY <1>2, <1>4 DEF Records, Later, Shapes
  <2> HIDE DEF started
  <2>4. req' \in [Requests -> Records] /\ req'[r] = started /\ \A u \in Requests \ {r} : req'[u] = req[u]
    BY <1>2, <2>1, <2>3 DEF Shapes
  <2>5. Sound(req[r])'
    BY <2>1, <2>4 DEF Sound
  <2>6. Takes(r)
    BY <1>4, <2>1, <2>4 DEF Takes
  <2>7. TakesPlace(r)
    BY <1>4, <2>1, <2>3, <2>4 DEF TakesPlace, Holding
  <2>8. QED
    BY <2>2, <2>4, <2>5, <2>6, <2>7 DEF StepOf, OthersAreCalled
<1>5. QED
  BY <1>3, <1>4 DEF Claim

LEMMA Acquiring ==
  ASSUME GateInv, NEW r \in Requests, NEW q \in Records, q.ep \in Endpoints, now <= q.deadline,
         q.attempted => q.evidence, q.attempt <= MaxRetries, req[r].pc \notin Holding,
         Acquire(r, q.ep, q), UNCHANGED <<now, aborted>>
  PROVE  StepOf(r)
<1>1. Shapes
  BY DEF GateInv
<1>2. CASE Claim(r, q.ep, q)
  BY <1>2, Claiming
<1>3. CASE /\ nextSlotAt' = [nextSlotAt EXCEPT ![q.ep] = ClockWhenQueued(q.ep)]
           /\ req' = [req EXCEPT ![r] = IF q.deadline > now THEN [q EXCEPT !.pc = "queued"]
                                        ELSE Settled(q, NotAttempted(q))]
           /\ UNCHANGED active
  <2>1. nextSlotAt' = nextSlotAt /\ req[r].pc # "spacing"
    BY <1>1, <1>3 DEF Shapes, ClockWhenQueued, Holding
  <2>2. CASE q.deadline > now
    <3>1. [q EXCEPT !.pc = "queued"] \in Records /\ Sound([q EXCEPT !.pc = "queued"])
      BY DEF Records, Stages, Sound
    <3>2. req' = [req EXCEPT ![r] = [q EXCEPT !.pc = "queued"]] /\ [q EXCEPT !.pc = "queued"].pc \notin Holding
      BY <1>3, <2>2 DEF Holding, Records
    <3>3. QED
      BY <1>3, <2>1, <3>1, <3>2, Alone
  <2>3. CASE ~(q.deadline > now)
    <3>1. req' = [req EXCEPT ![r] = Settled(q, NotAttempted(q))]
      BY <1>3, <2>3
    <3>2. QED
      BY <1>1, <1>3, <2>1, <3>1, NotAttemptedRecord, Alone DEF Holding
  <2>4. QED
    BY <2>2, <2>3
<1>4. QED
  BY <1>2, <1>3 DEF Acquire

\* The records of a request that is done, and of one that turns to an endpoint.
LEMMA DoneRecord ==
  /\ [Fresh EXCEPT !.pc = "done"] \in Records
  /\ Sound([Fresh EXCEPT !.pc = "done"])
  /\ [Fresh EXCEPT !.pc = "done"].pc \notin Holding
<1> DEFINE q == [Fresh EXCEPT !.pc = "done"]
<1>1. q \in Records /\ q.pc = "done" /\ q.ep = 0 /\ q.attempt = 0
  BY DEF Fresh, Records, Stages
<1> HIDE DEF q
<1>2. Sound(q) /\ q.pc \notin Holding
  BY <1>1, GateNumbers DEF Sound, Holding
<1>3. QED
  BY <1>1, <1>2 DEF q

LEMMA VisitRecord ==
  ASSUME NEW e \in Nat, NEW deadline \in Nat
  PROVE  LET q == [Fresh EXCEPT !.ep = e, !.deadline = deadline]
         IN  /\ q \in Records /\ q.ep = e /\ q.deadline = deadline /\ ~q.attempted
             /\ q.attempt <= MaxRetries
<1> DEFINE q == [Fresh EXCEPT !.ep = e, !.deadline = deadline]
<1>1. q \in Records /\ q.ep = e /\ q.deadline = deadline /\ ~q.attempted /\ q.attempt = 0
  BY DEF Fresh, Records, Stages
<1> HIDE DEF q
<1>2. q.attempt <= MaxRetries
  BY <1>1, GateNumbers
<1>3. QED
  BY <1>1, <1>2 DEF q

\* The record of a request whose retry starts.
LEMMA RetryRecord ==
  ASSUME Shapes, NEW r \in Requests, Sound(req[r]), req[r].pc = "backoff"
  PROVE  LET q == [req[r] EXCEPT !.attempt = @ + 1]
         IN  /\ q \in Records /\ q.ep \in Endpoints /\ now <= q.deadline /\ (q.attempted => q.evidence)
             /\ q.attempt <= MaxRetries
<1> DEFINE q == [req[r] EXCEPT !.attempt = @ + 1]
<1>1. req[r] \in Records /\ now \in Nat
  BY DEF Shapes
<1>2. /\ q \in Records /\ q.ep = req[r].ep /\ q.deadline = req[r].deadline /\ q.attempt = req[r].attempt + 1
      /\ q.evidence = req[r].evidence
  BY <1>1 DEF Records, Stages
<1>3. /\ req[r].ep \in Endpoints /\ now <= req[r].until /\ req[r].until < req[r].deadline
      /\ req[r].attempt < MaxRetries /\ req[r].evidence
  BY DEF Sound
<1> HIDE DEF q
<1>4. q.attempt <= MaxRetries /\ now <= q.deadline
  BY <1>1, <1>2, <1>3, GateNumbers DEF Records
<1>5. QED
  BY <1>2, <1>3, <1>4 DEF q

\* A request turns to its next endpoint, or is done.
LEMMA Visiting ==
  ASSUME GateInv, NEW r \in Requests, req[r].pc \notin Holding, NEW last, NEW deadline \in Nat, now <= deadline,
         Visit(r, last, deadline), UNCHANGED <<now, aborted>>
  PROVE  StepOf(r)
<1>1. CASE req' = [req EXCEPT ![r] = [Fresh EXCEPT !.pc = "done"]] /\ UNCHANGED endpointState
  <2>1. /\ [Fresh EXCEPT !.pc = "done"] \in Records
        /\ Sound([Fresh EXCEPT !.pc = "done"])
        /\ [Fresh EXCEPT !.pc = "done"].pc \notin Holding
    BY DoneRecord
  <2>2. UNCHANGED <<active, nextSlotAt>> /\ req[r].pc # "spacing"
    BY <1>1 DEF endpointState, Holding
  <2>3. QED
    BY <1>1, <2>1, <2>2, Alone
<1>2. ASSUME NEW e \in Candidates(last), Acquire(r, e, [Fresh EXCEPT !.ep = e, !.deadline = deadline])
      PROVE  StepOf(r)
  <2> DEFINE q == [Fresh EXCEPT !.ep = e, !.deadline = deadline]
  <2>1. e \in Endpoints /\ e \in Nat
    BY GateNumbers DEF Candidates, Endpoints
  <2>2. /\ q \in Records /\ q.ep = e /\ q.deadline = deadline /\ ~q.attempted
        /\ q.attempt <= MaxRetries
    BY <1>2, <2>1, VisitRecord
  <2> HIDE DEF q
  <2>3. Acquire(r, q.ep, q)
    BY <1>2, <2>2 DEF q
  <2>4. QED
    BY <2>1, <2>2, <2>3, Acquiring
<1>3. QED
  BY <1>1, <1>2 DEF Visit

------------------------------------------------------------------------------
\* The steps.

LEMMA ContinueStep == ASSUME GateInv, NEW r \in Requests, Continue(r) PROVE StepOf(r)
<1>1. Shapes /\ req[r] \in Records /\ Sound(req[r]) /\ req[r].pc = "woken"
  BY DEF GateInv, Shapes, Continue
<1>2. /\ req[r].ep \in Endpoints /\ now <= req[r].deadline /\ req[r].pc \notin Holding
      /\ req[r].attempted => req[r].evidence
      /\ req[r].attempt <= MaxRetries
  BY <1>1 DEF Sound, Holding
<1>3. CASE Claim(r, req[r].ep, req[r])
  BY <1>1, <1>2, <1>3, Claiming DEF Continue
<1>4. CASE /\ req' = [req EXCEPT ![r] = Settled(req[r], NotAttempted(req[r]))]
           /\ UNCHANGED endpointState
  <2>1. UNCHANGED <<now, aborted, active, nextSlotAt>>
    BY <1>1, <1>4 DEF Continue, endpointState
  <2>2. QED
    BY <1>1, <1>2, <1>4, <2>1, NotAttemptedRecord, Alone DEF Holding
<1>5. QED
  BY <1>3, <1>4 DEF Continue

LEMMA QueueTimesOutStep == ASSUME GateInv, NEW r \in Requests, QueueTimesOut(r) PROVE StepOf(r)
<1>1. Shapes /\ req[r] \in Records /\ Sound(req[r]) /\ req[r].pc = "queued"
  BY DEF GateInv, Shapes, QueueTimesOut
<1>2. /\ req[r].ep \in Endpoints /\ now <= req[r].deadline /\ req[r].pc \notin Holding
      /\ req[r].attempted => req[r].evidence
      /\ req[r].attempt <= MaxRetries
  BY <1>1 DEF Sound, Holding
<1>3. /\ req' = [req EXCEPT ![r] = Settled(req[r], NotAttempted(req[r]))]
      /\ UNCHANGED <<now, aborted, active, nextSlotAt>>
  BY <1>1 DEF QueueTimesOut
<1>4. QED
  BY <1>1, <1>2, <1>3, NotAttemptedRecord, Alone DEF Holding

LEMMA SpacingEndsStep == ASSUME GateInv, NEW r \in Requests, SpacingEnds(r) PROVE StepOf(r)
<1>1. Shapes /\ req[r] \in Records /\ Sound(req[r]) /\ req[r].pc = "spacing"
  BY DEF GateInv, Shapes, SpacingEnds
<1>2. req[r].ep \in Endpoints /\ now < req[r].deadline /\ req[r].attempt <= MaxRetries
  BY <1>1 DEF Sound, Shapes, Records
<1>3. /\ req' = [req EXCEPT ![r] = Fetching(req[r])]
      /\ UNCHANGED <<now, aborted, active, nextSlotAt>> /\ req[r].until <= now
  BY <1>1 DEF SpacingEnds, Due, endpointState
<1>4. QED
  BY <1>1, <1>2, <1>3, FetchingRecord, Alone DEF Holding

\* A call that is under way has a record that may settle, in any way that is
\* either no failure, or one with evidence or after the abort.
LEMMA CallEndsRecord ==
  ASSUME GateInv, NEW r \in Requests, req[r].pc \in {"spacing", "fetching", "aborting"},
         NEW evidence \in BOOLEAN, NEW outcome \in {"ok", "failed", "not_attempted", "local_deadline"},
         outcome = "failed" => evidence \/ aborted
  PROVE  LET q == Settled([req[r] EXCEPT !.evidence = evidence], outcome)
         IN  q \in Records /\ Sound(q) /\ q.pc = "settled"
<1>1. req[r] \in Records /\ Sound(req[r]) /\ now \in Nat
  BY DEF GateInv, Shapes
<1>2. req[r].ep \in Endpoints /\ now <= req[r].deadline + Grace
  BY <1>1, GateNumbers DEF Sound, Records
<1>3. QED
  BY <1>1, <1>2 DEF Settled, Records, Stages, Sound

LEMMA FailsStep ==
  ASSUME GateInv, NEW r \in Requests, InCall(r), NEW delay \in Delays, Fails(r, delay),
         UNCHANGED <<now, aborted, nextSlotAt>>
  PROVE  StepOf(r)
<1> DEFINE q == [req[r] EXCEPT !.evidence = TRUE]
<1>1. /\ req[r] \in Records /\ Sound(req[r]) /\ now \in Nat /\ delay \in Nat
      /\ req[r].pc \in Holding /\ req[r].pc \in {"spacing", "fetching", "aborting"} /\ q.ep = req[r].ep
      /\ req[r].pc # "spacing"
  BY GateNumbers DEF GateInv, Shapes, InCall, Holding, Records
<1>2. CASE RetryFits(q, delay)
  <2>0. q \in Records /\ now + delay \in Nat
    <3>1. q \in Records
      BY <1>1 DEF Records, Stages
    <3>2. QED
      BY <1>1, <3>1
  <2>1. [q EXCEPT !.pc = "backoff", !.until = now + delay] \in Records
    <3> HIDE DEF q
    <3>1. QED
      BY <2>0 DEF Records, Stages
  <2>2. Sound([q EXCEPT !.pc = "backoff", !.until = now + delay])
    BY <1>1, <1>2 DEF Sound, RetryFits, Records
  <2>3. [q EXCEPT !.pc = "backoff", !.until = now + delay].pc = "backoff"
    BY <1>1 DEF Records
  <2>4. Release(req[r].ep, [req EXCEPT ![r] = [q EXCEPT !.pc = "backoff", !.until = now + delay]])
    BY <1>1, <1>2 DEF Fails
  <2>5. QED
    BY <1>1, <2>1, <2>2, <2>3, <2>4, Releasing
<1>3. CASE ~RetryFits(q, delay)
  <2>1. Settled(q, "failed") \in Records /\ Sound(Settled(q, "failed")) /\ Settled(q, "failed").pc = "settled"
    BY <1>1, CallEndsRecord
  <2>2. Release(req[r].ep, [req EXCEPT ![r] = Settled(q, "failed")])
    BY <1>1, <1>3 DEF Fails
  <2>3. QED
    BY <1>1, <2>1, <2>2, Releasing
<1>4. QED
  BY <1>2, <1>3

\* A call that settles without counting as a failure to be retried.
LEMMA SettlingStep ==
  ASSUME GateInv, NEW r \in Requests, req[r].pc \in Holding, req[r].pc = "spacing" => aborted,
         NEW evidence \in BOOLEAN, NEW outcome \in {"ok", "failed", "not_attempted", "local_deadline"},
         outcome = "failed" => evidence \/ aborted,
         Release(req[r].ep, [req EXCEPT ![r] = Settled([req[r] EXCEPT !.evidence = evidence], outcome)]),
         UNCHANGED <<now, aborted, nextSlotAt>>
  PROVE  StepOf(r)
<1> DEFINE q == Settled([req[r] EXCEPT !.evidence = evidence], outcome)
<1>1. q \in Records /\ Sound(q) /\ q.pc = "settled"
  BY CallEndsRecord DEF Holding
<1>2. QED
  BY <1>1, Releasing

\* ... with the evidence that it had.
LEMMA SameEvidence ==
  ASSUME GateInv, NEW r \in Requests
  PROVE  req[r].evidence \in BOOLEAN /\ [req[r] EXCEPT !.evidence = req[r].evidence] = req[r]
BY DEF GateInv, Shapes, Records

LEMMA CallEndsStep ==
  ASSUME GateInv, NEW r \in Requests, InCall(r), NEW delay \in Delays, CallEnds(r, delay),
         UNCHANGED <<now, aborted, nextSlotAt>>
  PROVE  StepOf(r)
<1>1. CASE Release(req[r].ep, [req EXCEPT ![r] = Settled(req[r], "local_deadline")])
  BY <1>1, SameEvidence, SettlingStep DEF InCall, Holding
<1>2. CASE Fails(r, delay)
  BY <1>2, FailsStep
<1>3. QED
  BY <1>1, <1>2 DEF CallEnds

LEMMA AnswersStep == ASSUME GateInv, NEW r \in Requests, Answers(r) PROVE StepOf(r)
BY SameEvidence, SettlingStep DEF Answers, InCall, Holding

LEMMA UnsupportedStep == ASSUME GateInv, NEW r \in Requests, AnswersUnsupported(r) PROVE StepOf(r)
BY SettlingStep DEF AnswersUnsupported, InCall, Holding

LEMMA AbortedStep == ASSUME GateInv, NEW r \in Requests, CallAborted(r) PROVE StepOf(r)
BY SameEvidence, SettlingStep DEF CallAborted, InCall, Holding

LEMMA SleepAbortedStep == ASSUME GateInv, NEW r \in Requests, SleepAborted(r) PROVE StepOf(r)
<1>1. aborted /\ UNCHANGED <<now, aborted, nextSlotAt>> /\ Shapes /\ req[r] \in Records /\ Sound(req[r])
  BY DEF SleepAborted, GateInv, Shapes
<1>2. CASE /\ req[r].pc = "spacing"
           /\ Release(req[r].ep, [req EXCEPT ![r] = Settled(req[r], NotAttempted(req[r]))])
  BY <1>1, <1>2, SameEvidence, SettlingStep DEF Holding, NotAttempted
<1>3. CASE /\ req[r].pc = "backoff"
           /\ req' = [req EXCEPT ![r] = Settled(req[r], "failed")]
           /\ UNCHANGED <<active, waiters>>
  <2>1. now <= req[r].deadline + Grace
    BY <1>1, <1>3, GateNumbers DEF Sound, Shapes, Records
  <2>2. /\ Settled(req[r], "failed") \in Records /\ Sound(Settled(req[r], "failed"))
        /\ Settled(req[r], "failed").pc = "settled"
    BY <1>1, <1>3, <2>1 DEF Settled, Records, Stages, Sound
  <2>3. QED
    BY <1>1, <1>3, <2>2, Alone DEF Holding, Shapes
<1>4. QED
  BY <1>2, <1>3 DEF SleepAborted

LEMMA HangsStep == ASSUME GateInv, NEW r \in Requests, Hangs(r) PROVE StepOf(r)
<1> DEFINE q == [req[r] EXCEPT !.pc = "aborting", !.until = @ + Grace]
<1>1. Shapes /\ req[r] \in Records /\ Sound(req[r]) /\ req[r].pc = "fetching"
  BY DEF Hangs, GateInv, Shapes
<1>2. q \in Records /\ Sound(q) /\ q.pc = "aborting" /\ q.ep = req[r].ep
  <2>1. req[r].until \in Nat /\ req[r].until + Grace \in Nat
    BY <1>1, GateNumbers DEF Records
  <2>2. q = [req[r] EXCEPT !.pc = "aborting", !.until = req[r].until + Grace]
    OBVIOUS
  <2>3. q \in Records
    BY <1>1, <2>1, <2>2 DEF Records, Stages
  <2>4. /\ q.pc = "aborting" /\ q.ep = req[r].ep /\ q.until = req[r].until + Grace
        /\ q.deadline = req[r].deadline /\ q.attempt = req[r].attempt
    BY <1>1, <2>2 DEF Records
  <2> HIDE DEF q
  <2>5. Sound(q)
    BY <1>1, <2>1, <2>4, GateNumbers DEF Records, Sound, Shapes
  <2>6. QED
    BY <2>3, <2>4, <2>5
<1>3. req' = [req EXCEPT ![r] = q]
  BY DEF Hangs
<1>4. UNCHANGED <<now, aborted, active, nextSlotAt>>
  BY DEF Hangs, endpointState
<1> HIDE DEF q
<1>5. QED
  BY <1>1, <1>2, <1>3, <1>4, Alone DEF Holding, Shapes

LEMMA BackoffEndsStep == ASSUME GateInv, NEW r \in Requests, BackoffEnds(r) PROVE StepOf(r)
<1> DEFINE q == [req[r] EXCEPT !.attempt = @ + 1]
<1>1. Shapes /\ req[r] \in Records /\ Sound(req[r]) /\ req[r].pc = "backoff" /\ req[r].pc \notin Holding
  BY DEF BackoffEnds, GateInv, Shapes, Holding
<1>2. /\ q \in Records /\ q.ep \in Endpoints /\ now <= q.deadline /\ (q.attempted => q.evidence)
      /\ q.attempt <= MaxRetries
  BY <1>1, RetryRecord
<1>3. Acquire(r, q.ep, q) /\ UNCHANGED <<now, aborted>>
  BY DEF BackoffEnds
<1> HIDE DEF q
<1>4. QED
  BY <1>1, <1>2, <1>3, Acquiring

LEMMA ExecuteStep == ASSUME GateInv, NEW r \in Requests, Execute(r) PROVE StepOf(r)
<1>1. now + MaxTotal \in Nat /\ now <= now + MaxTotal /\ req[r].pc \notin Holding
  BY GateNumbers DEF GateInv, Shapes, Execute, Holding
<1>2. QED
  BY <1>1, Visiting DEF Execute

LEMMA ConcludeStep == ASSUME GateInv, NEW r \in Requests, Conclude(r) PROVE StepOf(r)
<1>1. Shapes /\ req[r] \in Records /\ req[r].pc = "settled" /\ req[r].pc \notin Holding
  BY DEF Conclude, GateInv, Shapes, Holding
<1>2. CASE req' = [req EXCEPT ![r] = [Fresh EXCEPT !.pc = "done"]] /\ UNCHANGED endpointState
  <2>1. /\ [Fresh EXCEPT !.pc = "done"] \in Records
        /\ Sound([Fresh EXCEPT !.pc = "done"])
        /\ [Fresh EXCEPT !.pc = "done"].pc \notin Holding
    BY DoneRecord
  <2>2. UNCHANGED <<now, aborted, active, nextSlotAt>>
    BY <1>1, <1>2 DEF Conclude, endpointState
  <2>3. QED
    BY <1>1, <1>2, <2>1, <2>2, Alone
<1>3. CASE now < req[r].deadline /\ Visit(r, req[r].ep, req[r].deadline)
  <2>1. req[r].deadline \in Nat /\ now <= req[r].deadline
    BY <1>1, <1>3 DEF Records, Shapes
  <2>2. QED
    BY <1>1, <1>3, <2>1, Visiting DEF Conclude
<1>4. QED
  BY <1>2, <1>3 DEF Conclude

\* Time passes only when nobody's timer is due and no continuation is pending.
LEMMA TickStep == ASSUME GateInv, Tick PROVE GateInv'
<1>1. Shapes' /\ now' = now + 1 /\ now \in Nat /\ UNCHANGED <<aborted, active, req>>
  BY DEF Tick, GateInv, Shapes, endpointState
<1>2. ASSUME NEW r \in Requests PROVE Sound(req[r])'
  <2>1. Sound(req[r]) /\ req[r] \in Records
    BY DEF GateInv, Shapes
  <2>2. req[r].pc \notin {"woken", "settled"} /\ ~Due(r)
    BY DEF Tick, Quiet
  <2>3. QED
    BY <1>1, <2>1, <2>2, GateNumbers DEF Sound, Due, Records
<1>3. SlotAccounting'
  BY <1>1 DEF GateInv, SlotAccounting, At
<1>4. PlacesTaken'
  <2>1. UNCHANGED nextSlotAt
    BY DEF Tick, endpointState
  <2>2. \A e \in Endpoints, k \in Nat : nextSlotAt[e] - (k + 1) * Spacing \in Int
    BY GateNumbers DEF GateInv, Shapes
  <2>3. QED
    BY <1>1, <2>1, <2>2 DEF GateInv, PlacesTaken, At
<1>5. ASSUME Spacing = 0, NEW e \in Endpoints PROVE nextSlotAt'[e] <= now'
  BY <1>1, <1>5 DEF Tick, endpointState, GateInv, Shapes
<1>6. QED
  BY <1>1, <1>2, <1>3, <1>4, <1>5 DEF GateInv

LEMMA ShutdownStep == ASSUME GateInv, Shutdown PROVE GateInv'
<1>1. ASSUME NEW r \in Requests
      PROVE  /\ req'[r] = IF req[r].pc = "queued" THEN [req[r] EXCEPT !.pc = "woken"] ELSE req[r]
             /\ req'[r] \in Records
             /\ req'[r].ep = req[r].ep
             /\ req'[r].pc \in Holding <=> req[r].pc \in Holding
             /\ Sound(req[r])'
  <2>1. req'[r] = IF req[r].pc = "queued" THEN [req[r] EXCEPT !.pc = "woken"] ELSE req[r]
    BY DEF Shutdown
  <2>2. Sound(req[r]) /\ req[r] \in Records /\ now' = now /\ aborted'
    BY DEF GateInv, Shapes, Shutdown
  <2>3. QED
    BY <2>1, <2>2 DEF Records, Stages, Sound, Holding
<1>2. Shapes'
  <2>1. req' \in [Requests -> Records]
    BY <1>1 DEF Shutdown
  <2>2. QED
    BY <2>1 DEF Shutdown, endpointState, GateInv, Shapes
<1>3. \A e \in Endpoints : At(Holding, e)' = At(Holding, e)
  BY <1>1 DEF At
<1>4. SlotAccounting'
  BY <1>3 DEF Shutdown, endpointState, GateInv, SlotAccounting, Holding
<1>5. PlacesTaken'
  BY DEF Shutdown, PlacesTaken
<1>6. UNCHANGED <<now, nextSlotAt>>
  BY DEF Shutdown, endpointState
<1>7. QED
  BY <1>1, <1>2, <1>4, <1>5, <1>6 DEF GateInv

LEMMA RequestStep ==
  ASSUME GateInv, Next
  PROVE  Tick \/ Shutdown \/ \E r \in Requests : StepOf(r)
<1>1. ASSUME NEW r \in Requests, NEW delay \in Delays,
             AnswersFailure(r, delay) \/ TimesOut(r, delay) \/ Abandon(r, delay)
      PROVE  StepOf(r)
  BY <1>1, FailsStep, CallEndsStep DEF AnswersFailure, TimesOut, Abandon, InCall
<1>2. QED
  BY <1>1, ContinueStep, QueueTimesOutStep, SpacingEndsStep, AnswersStep, UnsupportedStep, AbortedStep,
     SleepAbortedStep, HangsStep, BackoffEndsStep, ExecuteStep, ConcludeStep DEF Next

LEMMA GateStep == ASSUME GateInv, [Next]_vars PROVE GateInv'
<1>1. CASE UNCHANGED vars
  BY <1>1 DEF vars, endpointState, GateInv, Shapes, Sound, SlotAccounting, PlacesTaken, At
<1>2. CASE Next
  BY <1>2, RequestStep, TickStep, ShutdownStep, Frame
<1>3. QED
  BY <1>1, <1>2

LEMMA GateInit == Init => GateInv
<1> SUFFICES ASSUME Init PROVE GateInv
  OBVIOUS
<1>1. Shapes
  BY DEF Init, Shapes, Fresh, Records, Stages
<1>2. \A r \in Requests : req[r].pc = "new" /\ req[r].ep = 0 /\ req[r].attempt = 0
  BY DEF Init, Fresh
<1>3. \A r \in Requests : Sound(req[r])
  BY <1>2, GateNumbers DEF Sound
<1>4. SlotAccounting
  <2>1. \A e \in Endpoints : At(Holding, e) = {}
    BY <1>2 DEF At, Holding
  <2>2. QED
    BY <2>1, FS_EmptySet DEF Init, SlotAccounting, Holding
<1>5. PlacesTaken
  <2>1. \A k \in Nat : (k + 1) * Spacing \in Nat
    BY GateNumbers
  <2>2. QED
    BY <2>1 DEF Init, PlacesTaken
<1>6. \A e \in Endpoints : nextSlotAt[e] <= now
  BY DEF Init
<1>7. QED
  BY <1>1, <1>3, <1>4, <1>5, <1>6 DEF GateInv

------------------------------------------------------------------------------

\* There are at least as many sleepers as places that are still to come.
LEMMA Sleepers == GateInv => RateClockTruthful
<1> SUFFICES ASSUME GateInv, NEW e \in Endpoints, ~aborted,
                    ~(nextSlotAt[e] <= now + Spacing * (1 + Cardinality(At({"spacing"}, e))))
             PROVE  FALSE
  BY DEF RateClockTruthful
<1> DEFINE S == At({"spacing"}, e)
           n == Cardinality(S)
           Sleeper(k) == CHOOSE r \in S : req[r].until = nextSlotAt[e] - k * Spacing
           place == [k \in 1..n+1 |-> Sleeper(k)]
<1>1. IsFiniteSet(S) /\ n \in Nat
  <2>1. S \subseteq Requests
    BY DEF At
  <2>2. QED
    BY <2>1, GateNumbers, FS_Subset, FS_CardinalityType
<1>2. now \in Nat /\ nextSlotAt[e] \in Nat /\ Spacing \in Nat
  BY GateNumbers DEF GateInv, Shapes
<1>3. nextSlotAt[e] > now + Spacing * (1 + n)
  BY <1>1, <1>2
<1>4. ASSUME NEW k \in 1..n+1 PROVE place[k] \in S /\ req[place[k]].until = nextSlotAt[e] - k * Spacing
  <2>1. k * Spacing <= Spacing * (1 + n) /\ k * Spacing \in Nat /\ Spacing * (1 + n) \in Nat
    <3>1. PICK d \in Nat : 1 + n = k + d
      <4>1. 1 + n - k \in Nat /\ 1 + n = k + (1 + n - k)
        BY <1>1
      <4>2. QED
        BY <4>1
    <3>2. Spacing * (k + d) = k * Spacing + Spacing * d /\ Spacing * d \in Nat /\ k * Spacing \in Nat
      BY <1>2
    <3>3. QED
      BY <3>1, <3>2
  <2>2. k - 1 \in Nat /\ (k - 1) + 1 = k /\ nextSlotAt[e] - k * Spacing > now
    BY <1>2, <1>3, <2>1
  <2>3. \E r \in S : req[r].until = nextSlotAt[e] - k * Spacing
    BY <2>2 DEF GateInv, PlacesTaken
  <2> HIDE DEF S
  <2>4. QED
    BY <2>3
<1>5. Spacing # 0
  <2> SUFFICES ASSUME Spacing = 0 PROVE FALSE
    OBVIOUS
  <2>1. nextSlotAt[e] <= now
    BY DEF GateInv
  <2>2. QED
    BY <1>1, <1>2, <1>3, <2>1
<1>6. ASSUME NEW k \in 1..n+1, NEW l \in 1..n+1, place[k] = place[l] PROVE k = l
  <2>1. k * Spacing = l * Spacing
    BY <1>1, <1>2, <1>4, <1>6
  <2>2. QED
    BY <1>1, <1>2, <1>5, <2>1
<1> HIDE DEF S, place
<1>7. place \in [1..n+1 -> S]
  BY <1>4 DEF place
<1>8. Cardinality(1..n+1) = n + 1 /\ IsFiniteSet(1..n+1)
  BY <1>1, FS_Interval
<1>9. PICK k, l \in 1..n+1 : k # l /\ place[k] = place[l]
  BY <1>1, <1>7, <1>8, FS_PigeonHole
<1>10. QED
  BY <1>6, <1>9

\* However requests queue, sleep, fail, hang, are cut or shut down: the slots
\* in use of an endpoint are those of the requests that hold one, its rate
\* clock is ahead by no more than those that sleep, and a request ends at the
\* latest one grace period after its budget (acquire, release, execute,
\* HARD_ABANDON_GRACE_MS).
THEOREM GateSafety == Spec => [](SlotAccounting /\ RateClockTruthful /\ SettlesInTime)
<1>1. GateInv => SlotAccounting /\ RateClockTruthful /\ SettlesInTime
  <2> SUFFICES ASSUME GateInv, NEW r \in Requests, req[r].pc \notin {"new", "done"}
               PROVE  now <= req[r].deadline + Grace
    BY Sleepers DEF GateInv, SettlesInTime
  <2>1. req[r] \in Records /\ Sound(req[r]) /\ now \in Nat
    BY DEF GateInv, Shapes
  <2>2. QED
    BY <2>1, GateNumbers DEF Sound, Records, Stages
<1>2. GateInv /\ [Next]_vars => GateInv'
  BY GateStep
<1>3. QED
  BY <1>1, <1>2, GateInit, PTL DEF Spec

\* Only the conclusion of a visit counts failures.
LEMMA OnlyConcluded ==
  ASSUME [Next]_vars PROVE UNCHANGED failures \/ \E r \in Requests : Conclude(r)
<1>1. ASSUME NEW r \in Requests, NEW delay \in Delays, AnswersFailure(r, delay) \/ TimesOut(r, delay) \/ Abandon(r, delay)
      PROVE  UNCHANGED failures
  BY <1>1 DEF AnswersFailure, TimesOut, Abandon, health
<1>2. ASSUME NEW r \in Requests,
             \/ Execute(r) \/ Continue(r) \/ QueueTimesOut(r) \/ SpacingEnds(r) \/ Answers(r)
             \/ Hangs(r) \/ BackoffEnds(r) \/ SleepAborted(r) \/ CallAborted(r)
      PROVE  UNCHANGED failures
  BY <1>2 DEF Execute, Continue, QueueTimesOut, SpacingEnds, Answers, Hangs, BackoffEnds, SleepAborted,
              CallAborted, health
<1>3. ASSUME NEW r \in Requests, AnswersUnsupported(r) PROVE UNCHANGED failures
  BY <1>3 DEF AnswersUnsupported
<1>4. CASE Tick \/ Shutdown \/ UNCHANGED vars
  BY <1>4 DEF Tick, Shutdown, health, vars
<1>5. QED
  BY <1>1, <1>2, <1>3, <1>4 DEF Next

\* The count that opens a circuit is a number.
LEMMA FailuresType ==
  ASSUME failures \in [Endpoints -> Nat], [Next]_vars PROVE failures' \in [Endpoints -> Nat]
<1>1. ASSUME NEW r \in Requests, Conclude(r) PROVE failures' \in [Endpoints -> Nat]
  <2> DEFINE e == req[r].ep
             v == IF req[r].outcome = "ok" THEN 0 ELSE IF Counts(req[r]) THEN failures[e] + 1 ELSE failures[e]
  <2>1. failures' = [failures EXCEPT ![e] = v]
    BY <1>1 DEF Conclude
  <2>2. e \in Endpoints => v \in Nat
    OBVIOUS
  <2> HIDE DEF e, v
  <2>3. QED
    BY <2>1, <2>2
<1>2. QED
  BY <1>1, OnlyConcluded

CountedInv == GateInv /\ failures \in [Endpoints -> Nat]

\* A request that acquires at an endpoint stands there afterwards.
LEMMA AcquiredThere ==
  ASSUME Shapes, NEW r \in Requests, NEW q \in Records, q.ep \in Endpoints, now <= q.deadline,
         q.attempted => q.evidence, q.attempt <= MaxRetries, Acquire(r, q.ep, q)
  PROVE  req'[r].ep = q.ep
<1>1. Settled(q, NotAttempted(q)).ep = q.ep /\ Fetching(q).ep = q.ep
  BY DEF Settled, Fetching, Records
<1>2. CASE req' = AfterWake([req EXCEPT ![r] = Settled(q, NotAttempted(q))], q.ep)
  <2> DEFINE rs == [req EXCEPT ![r] = Settled(q, NotAttempted(q))]
  <2>1. rs \in [Requests -> Records] /\ rs[r] = Settled(q, NotAttempted(q)) /\ rs[r].pc # "queued"
    BY NotAttemptedRecord DEF Shapes
  <2> HIDE DEF rs
  <2>2. AfterWake(rs, q.ep)[r] = rs[r]
    BY <2>1, Waking
  <2>3. req' = AfterWake(rs, q.ep)
    BY <1>2 DEF rs
  <2>4. QED
    BY <1>1, <2>1, <2>2, <2>3
<1>3. CASE \E slot \in {Later(now, nextSlotAt[q.ep])} :
             req' = [req EXCEPT ![r] = IF slot = now THEN Fetching(q) ELSE [q EXCEPT !.pc = "spacing", !.until = slot]]
  BY <1>1, <1>3 DEF Shapes, Records
<1>4. CASE req' = [req EXCEPT ![r] = IF q.deadline > now THEN [q EXCEPT !.pc = "queued"]
                                     ELSE Settled(q, NotAttempted(q))]
  BY <1>1, <1>4 DEF Shapes, Records
<1>5. QED
  BY <1>2, <1>3, <1>4 DEF Acquire, Claim

\* A visit that concludes leaves its endpoint.
LEMMA ConcludeMoves == ASSUME GateInv, NEW r \in Requests, Conclude(r) PROVE req'[r] # req[r]
<1>1. Shapes /\ req[r] \in Records /\ req[r].pc = "settled" /\ Sound(req[r])
  BY DEF Conclude, GateInv, Shapes
<1>2. req[r].ep \in Nat /\ req[r].deadline \in Nat
  BY <1>1 DEF Records
<1>3. CASE req' = [req EXCEPT ![r] = [Fresh EXCEPT !.pc = "done"]]
  BY <1>1, <1>3 DEF Fresh, Shapes
<1>4. ASSUME NEW e \in Candidates(req[r].ep), now < req[r].deadline,
             Acquire(r, e, [Fresh EXCEPT !.ep = e, !.deadline = req[r].deadline])
      PROVE  req'[r] # req[r]
  <2> DEFINE q == [Fresh EXCEPT !.ep = e, !.deadline = req[r].deadline]
  <2>1. e \in Endpoints /\ e \in Nat /\ e > req[r].ep
    BY GateNumbers DEF Candidates, Endpoints
  <2>2. /\ q \in Records /\ q.ep = e /\ q.deadline = req[r].deadline /\ ~q.attempted
        /\ q.attempt <= MaxRetries
    BY <1>2, <2>1, VisitRecord
  <2> HIDE DEF q
  <2>3. Acquire(r, q.ep, q)
    BY <1>4, <2>2 DEF q
  <2>4. now <= q.deadline
    BY <1>1, <1>2, <1>4, <2>2 DEF Shapes
  <2>5. req'[r].ep = q.ep
    BY <1>1, <2>1, <2>2, <2>3, <2>4, AcquiredThere
  <2>6. QED
    BY <1>2, <2>1, <2>2, <2>5
<1>5. QED
  BY <1>3, <1>4 DEF Conclude, Visit

\* For all limits: what is counted against an endpoint, and opens its circuit,
\* is a visit with an attempt that failed there (executeWithFallback,
\* EndpointOutcome).
THEOREM EvidenceOnly == Spec => FailuresAreEvidence
<1> DEFINE Counting == \A e \in Endpoints : failures'[e] > failures[e] =>
                         \E r \in At({"settled"}, e) : req[r].evidence /\ req'[r] # req[r]
<1>1. ASSUME GateInv, failures \in [Endpoints -> Nat], [Next]_vars PROVE Counting
  <2> SUFFICES ASSUME NEW e \in Endpoints, failures'[e] > failures[e]
               PROVE  \E r \in At({"settled"}, e) : req[r].evidence /\ req'[r] # req[r]
    OBVIOUS
  <2>1. failures[e] \in Nat
    BY <1>1
  <2>2. PICK r \in Requests : Conclude(r)
    BY <1>1, <2>1, OnlyConcluded
  <2>3. req[r].ep = e /\ Counts(req[r]) /\ req[r].pc = "settled"
    <3> DEFINE f == req[r].ep
               v == IF req[r].outcome = "ok" THEN 0 ELSE IF Counts(req[r]) THEN failures[f] + 1 ELSE failures[f]
    <3>1. failures' = [failures EXCEPT ![f] = v]
      BY <2>2 DEF Conclude
    <3>2. f = e
      BY <1>1, <2>1, <3>1
    <3>3. v > failures[e]
      BY <1>1, <3>1, <3>2
    <3>4. Counts(req[r])
      BY <2>1, <3>2, <3>3
    <3>5. QED
      BY <2>2, <3>2, <3>4 DEF Conclude
  <2>4. req[r].evidence
    BY <1>1, <2>3 DEF GateInv, Sound, Counts
  <2>5. QED
    BY <1>1, <2>2, <2>3, <2>4, ConcludeMoves DEF At
<1>2. Init => CountedInv
  BY GateInit DEF Init, CountedInv
<1>3. CountedInv /\ [Next]_vars => CountedInv'
  BY GateStep, FailuresType DEF CountedInv
<1>4. CountedInv /\ [Next]_vars
        => [\A e \in Endpoints : failures'[e] > failures[e] =>
              \E r \in At({"settled"}, e) : req[r].evidence /\ req'[r] # req[r]]_vars
  BY <1>1 DEF CountedInv
<1>5. QED
  BY <1>2, <1>3, <1>4, PTL DEF Spec, FailuresAreEvidence

------------------------------------------------------------------------------
\* No slot idles while a request waits.

\* A request that holds a slot, or was promised one.
Provided == Holding \union {"woken"}
ProvidedAt(rs, e) == {u \in Requests : rs[u].pc \in Provided /\ rs[u].ep = e}

\* The queue q of e holds, by the records rs, requests that wait there, once each.
Line(q, rs, e) ==
  /\ q \in Seq(Requests)
  /\ \A i \in 1..Len(q) : rs[q[i]].pc = "queued" /\ rs[q[i]].ep = e
  /\ \A i, j \in 1..Len(q) : q[i] = q[j] => i = j

Busy(q, rs, e) == q # <<>> => Cardinality(ProvidedAt(rs, e)) >= MaxConcurrent

LineInv ==
  ~aborted =>
    /\ waiters \in [Endpoints -> Seq(Requests)]
    /\ \A e \in Endpoints : Line(waiters[e], req, e) /\ Busy(waiters[e], req, e)

LEMMA ProvidedFinite == ASSUME NEW rs, NEW e PROVE IsFiniteSet(ProvidedAt(rs, e)) /\ Cardinality(ProvidedAt(rs, e)) \in Nat
<1>1. ProvidedAt(rs, e) \subseteq Requests
  BY DEF ProvidedAt
<1>2. QED
  BY <1>1, GateNumbers, FS_Subset, FS_CardinalityType

\* A queue at which those provided for stay so, and nobody in it moves.
LEMMA Undisturbed ==
  ASSUME NEW e, NEW q, NEW rs, NEW ss, Line(q, rs, e), Busy(q, rs, e),
         \A u \in Requests : rs[u].pc = "queued" /\ rs[u].ep = e => ss[u] = rs[u],
         \A u \in Requests : rs[u].pc \in Provided /\ rs[u].ep = e => ss[u].pc \in Provided /\ ss[u].ep = e
  PROVE  Line(q, ss, e) /\ Busy(q, ss, e)
<1>1. \A i \in 1..Len(q) : q[i] \in Requests
  BY DEF Line
<1>2. Line(q, ss, e)
  BY <1>1 DEF Line
<1>3. ProvidedAt(rs, e) \subseteq ProvidedAt(ss, e)
  BY DEF ProvidedAt
<1>4. Cardinality(ProvidedAt(rs, e)) <= Cardinality(ProvidedAt(ss, e))
  BY <1>3, ProvidedFinite, FS_Subset
<1>5. MaxConcurrent \in Nat
  BY GateAssumption
<1>6. QED
  BY <1>2, <1>4, <1>5, ProvidedFinite DEF Busy

\* A request that does not wait goes on at its endpoint, or had no slot.
LEMMA GoesOn ==
  ASSUME GateInv, LineInv, ~aborted, NEW r \in Requests, NEW q \in Records, req' = [req EXCEPT ![r] = q],
         req[r].pc # "queued", req[r].pc \in Provided => q.pc \in Provided /\ q.ep = req[r].ep,
         UNCHANGED <<aborted, waiters>>
  PROVE  LineInv'
<1>1. req'[r] = q /\ \A u \in Requests \ {r} : req'[u] = req[u]
  BY DEF GateInv, Shapes
<1>2. ASSUME NEW e \in Endpoints PROVE Line(waiters[e], req', e) /\ Busy(waiters[e], req', e)
  <2>1. Line(waiters[e], req, e) /\ Busy(waiters[e], req, e)
    BY DEF LineInv
  <2>2. \A u \in Requests : req[u].pc = "queued" /\ req[u].ep = e => req'[u] = req[u]
    BY <1>1
  <2>3. \A u \in Requests : req[u].pc \in Provided /\ req[u].ep = e => req'[u].pc \in Provided /\ req'[u].ep = e
    BY <1>1
  <2>4. QED
    BY <2>1, <2>2, <2>3, Undisturbed
<1>3. QED
  BY <1>2 DEF LineInv

\* A request that does not wait hands what it had at f to the first who does.
LEMMA HandsOver ==
  ASSUME GateInv, LineInv, ~aborted, NEW r \in Requests, NEW q \in Records, NEW f \in Endpoints,
         waiters' = [waiters EXCEPT ![f] = IF @ = <<>> THEN @ ELSE Tail(@)],
         req' = AfterWake([req EXCEPT ![r] = q], f),
         req[r].pc # "queued", q.pc # "queued", req[r].pc \in Provided => req[r].ep = f,
         UNCHANGED aborted
  PROVE  LineInv'
<1> DEFINE w == waiters[f]
           h == Head(w)
           rs == [req EXCEPT ![r] = q]
<1>1. rs[r] = q /\ \A u \in Requests \ {r} : rs[u] = req[u]
  BY DEF GateInv, Shapes
<1>2. rs \in [Requests -> Records]
  BY DEF GateInv, Shapes
<1>3. /\ waiters \in [Endpoints -> Seq(Requests)]
      /\ \A e \in Endpoints : Line(waiters[e], req, e) /\ Busy(waiters[e], req, e)
  BY DEF LineInv
<1>4. \A u \in Requests : req[u] \in Records
  BY DEF GateInv, Shapes
<1>5. CASE w = <<>>
  <2>1. waiters' = waiters
    BY <1>3, <1>5
  <2>2. req' = rs
    BY <1>5 DEF AfterWake
  <2>3. ASSUME NEW e \in Endpoints PROVE Line(waiters[e], req', e) /\ Busy(waiters[e], req', e)
    <3>1. CASE e = f
      <4>1. Line(w, req, f) /\ Len(w) = 0
        BY <1>3, <1>5
      <4>2. Line(w, req', f) /\ Busy(w, req', f)
        BY <1>5, <4>1 DEF Line, Busy
      <4>3. QED
        BY <3>1, <4>2
    <3>2. CASE e # f
      <4>1. \A u \in Requests : req[u].pc = "queued" /\ req[u].ep = e => req'[u] = req[u]
        BY <1>1, <2>2
      <4>2. \A u \in Requests : req[u].pc \in Provided /\ req[u].ep = e => req'[u].pc \in Provided /\ req'[u].ep = e
        BY <1>1, <2>2, <3>2
      <4>3. QED
        BY <1>3, <4>1, <4>2, Undisturbed
    <3>3. QED
      BY <3>1, <3>2
  <2>4. QED
    BY <1>3, <2>1, <2>3 DEF LineInv
<1>6. CASE w # <<>>
  <2>1. /\ w \in Seq(Requests) /\ Len(w) \in Nat \ {0} /\ h = w[1] /\ 1 \in 1..Len(w)
        /\ Tail(w) \in Seq(Requests) /\ Len(Tail(w)) = Len(w) - 1
        /\ \A i \in 1..Len(Tail(w)) : i + 1 \in 1..Len(w) /\ Tail(w)[i] = w[i+1]
    BY <1>3, <1>6
  <2>2. h \in Requests /\ req[h].pc = "queued" /\ req[h].ep = f /\ h # r
    BY <1>3, <2>1 DEF Line
  <2>3. rs[h].pc = "queued"
    BY <1>1, <2>2
  <2>4. req' = [rs EXCEPT ![h].pc = "woken"]
    BY <1>6, <2>3 DEF AfterWake
  <2> HIDE DEF rs, h
  <2>5. /\ req'[h].pc = "woken" /\ req'[h].ep = f
        /\ \A u \in Requests \ {r, h} : req'[u] = req[u]
    <3>1. \A u \in Requests : req'[u] = IF u = h THEN [rs[h] EXCEPT !.pc = "woken"] ELSE rs[u]
      BY <1>2, <2>2, <2>4
    <3>2. rs[h] = req[h] /\ req[h] \in Records
      BY <1>1, <1>4, <2>2 DEF rs
    <3>3. [req[h] EXCEPT !.pc = "woken"].pc = "woken" /\ [req[h] EXCEPT !.pc = "woken"].ep = f
      BY <2>2, <3>2 DEF Records
    <3>4. \A u \in Requests \ {r} : rs[u] = req[u]
      BY <1>1 DEF rs
    <3>5. QED
      BY <2>2, <3>1, <3>2, <3>3, <3>4
  <2>6. /\ waiters' \in [Endpoints -> Seq(Requests)]
        /\ waiters'[f] = Tail(w)
        /\ \A e \in Endpoints \ {f} : waiters'[e] = waiters[e]
    BY <1>3, <1>6, <2>1
  <2>7. ASSUME NEW e \in Endpoints, e # f PROVE Line(waiters'[e], req', e) /\ Busy(waiters'[e], req', e)
    <3>1. \A u \in Requests : req[u].pc = "queued" /\ req[u].ep = e => req'[u] = req[u]
      BY <2>2, <2>5, <2>7
    <3>2. \A u \in Requests : req[u].pc \in Provided /\ req[u].ep = e => req'[u].pc \in Provided /\ req'[u].ep = e
      BY <2>2, <2>5, <2>7 DEF Provided, Holding
    <3>3. Line(waiters[e], req', e) /\ Busy(waiters[e], req', e)
      BY <1>3, <3>1, <3>2, Undisturbed
    <3>4. QED
      BY <2>6, <2>7, <3>3
  <2>8. Line(Tail(w), req', f)
    <3>1. Line(w, req, f)
      BY <1>3
    <3>2. \A i \in 1..Len(Tail(w)) : /\ Tail(w)[i] \in Requests /\ Tail(w)[i] # h /\ Tail(w)[i] # r
                                     /\ req[Tail(w)[i]].pc = "queued" /\ req[Tail(w)[i]].ep = f
      <4> SUFFICES ASSUME NEW i \in 1..Len(Tail(w))
                   PROVE  /\ Tail(w)[i] \in Requests /\ Tail(w)[i] # h /\ Tail(w)[i] # r
                          /\ req[Tail(w)[i]].pc = "queued" /\ req[Tail(w)[i]].ep = f
        OBVIOUS
      <4>1. i \in Nat /\ i > 0 /\ i + 1 \in 1..Len(w) /\ i + 1 # 1 /\ Tail(w)[i] = w[i+1]
        BY <2>1
      <4>2. w[i+1] # w[1] /\ w[i+1] \in Requests /\ req[w[i+1]].pc = "queued" /\ req[w[i+1]].ep = f
        BY <2>1, <3>1, <4>1 DEF Line
      <4>3. QED
        BY <2>1, <4>1, <4>2
    <3>3. \A i, j \in 1..Len(Tail(w)) : Tail(w)[i] = Tail(w)[j] => i = j
      BY <2>1, <3>1 DEF Line
    <3>4. QED
      BY <2>1, <2>5, <3>2, <3>3 DEF Line
  <2>9. Busy(Tail(w), req', f)
    <3> DEFINE S == ProvidedAt(req, f)
               T == ProvidedAt(req', f)
    <3>1. h \notin S /\ IsFiniteSet(S) /\ IsFiniteSet(T) /\ Cardinality(S) \in Nat /\ Cardinality(T) \in Nat
      <4>1. h \notin S
        BY <2>2 DEF ProvidedAt, Provided, Holding
      <4>2. QED
        BY <4>1, ProvidedFinite
    <3>2. (S \ {r}) \union {h} \subseteq T
      BY <2>2, <2>5 DEF ProvidedAt, Provided
    <3>3. Cardinality(S) >= MaxConcurrent
      BY <1>3, <1>6 DEF Busy
    <3> HIDE DEF S, T
    <3>4. /\ IsFiniteSet(S \ {r}) /\ Cardinality(S \ {r}) \in Nat
          /\ Cardinality(S \ {r}) = Cardinality(S) - 1 \/ Cardinality(S \ {r}) = Cardinality(S)
      <4>1. IsFiniteSet(S \ {r}) /\ Cardinality(S \ {r}) \in Nat
        BY <3>1, FS_Subset, FS_CardinalityType
      <4>2. CASE r \in S
        BY <3>1, <4>1, <4>2, FS_RemoveElement
      <4>3. CASE r \notin S
        <5>1. S \ {r} = S
          BY <4>3
        <5>2. QED
          BY <4>1, <5>1
      <4>4. QED
        BY <4>2, <4>3
    <3>5. /\ Cardinality((S \ {r}) \union {h}) = Cardinality(S \ {r}) + 1
          /\ IsFiniteSet((S \ {r}) \union {h})
      BY <3>1, <3>4, FS_AddElement
    <3>6. Cardinality((S \ {r}) \union {h}) <= Cardinality(T)
      BY <3>1, <3>2, FS_Subset
    <3>7. Cardinality(T) >= MaxConcurrent
      BY <3>1, <3>3, <3>4, <3>5, <3>6, GateAssumption
    <3>8. QED
      BY <3>7 DEF Busy, T
  <2>10. \A e \in Endpoints : Line(waiters'[e], req', e) /\ Busy(waiters'[e], req', e)
    BY <2>6, <2>7, <2>8, <2>9
  <2>11. QED
    BY <2>6, <2>10 DEF LineInv
<1>7. QED
  BY <1>5, <1>6

\* A request whose wait is over leaves the line.
LEMMA LeavesLine ==
  ASSUME GateInv, LineInv, ~aborted, NEW r \in Requests, NEW q \in Records, req' = [req EXCEPT ![r] = q],
         req[r].pc = "queued", q.pc \notin Provided, req[r].ep \in Endpoints,
         waiters' = [waiters EXCEPT ![req[r].ep] = Spliced(req[r].ep, r)],
         UNCHANGED aborted
  PROVE  LineInv'
<1> DEFINE f == req[r].ep
           w == waiters[f]
           k == CHOOSE i \in 1..Len(w) : w[i] = r
           rest == [i \in 1..Len(w)-1 |-> IF i < k THEN w[i] ELSE w[i+1]]
<1>1. req'[r] = q /\ \A u \in Requests \ {r} : req'[u] = req[u]
  BY DEF GateInv, Shapes
<1>2. /\ waiters \in [Endpoints -> Seq(Requests)]
      /\ \A e \in Endpoints : Line(waiters[e], req, e) /\ Busy(waiters[e], req, e)
  BY DEF LineInv
<1>3. \A u \in Requests : req[u].pc \in Provided => req'[u] = req[u]
  BY <1>1 DEF Provided, Holding
<1>4. ASSUME NEW p, NEW e \in Endpoints, p \in Seq(Requests), Len(p) <= Len(waiters[e]),
             \A i \in 1..Len(p) : p[i] # r /\ \E j \in 1..Len(waiters[e]) : p[i] = waiters[e][j],
             \A i, j \in 1..Len(p) : p[i] = p[j] => i = j
      PROVE  Line(p, req', e) /\ Busy(p, req', e)
  <2>1. Line(waiters[e], req, e) /\ Busy(waiters[e], req, e) /\ waiters[e] \in Seq(Requests)
    BY <1>2
  <2>2. \A i \in 1..Len(p) : p[i] \in Requests \ {r}
    BY <1>4
  <2>3. \A i \in 1..Len(p) : req[p[i]].pc = "queued" /\ req[p[i]].ep = e
    <3>1. \A j \in 1..Len(waiters[e]) : req[waiters[e][j]].pc = "queued" /\ req[waiters[e][j]].ep = e
      BY <2>1 DEF Line
    <3> SUFFICES ASSUME NEW i \in 1..Len(p) PROVE req[p[i]].pc = "queued" /\ req[p[i]].ep = e
      OBVIOUS
    <3>2. PICK j \in 1..Len(waiters[e]) : p[i] = waiters[e][j]
      BY <1>4
    <3>3. QED
      BY <3>1, <3>2
  <2>4. Line(p, req', e)
    BY <1>1, <1>4, <2>2, <2>3 DEF Line
  <2>5. p # <<>> => waiters[e] # <<>>
    BY <1>4, <2>1
  <2>6. ProvidedAt(req, e) \subseteq ProvidedAt(req', e)
    BY <1>3 DEF ProvidedAt
  <2>7. Cardinality(ProvidedAt(req, e)) <= Cardinality(ProvidedAt(req', e))
    BY <2>6, ProvidedFinite, FS_Subset
  <2>8. MaxConcurrent \in Nat
    BY GateAssumption
  <2>9. QED
    BY <2>1, <2>4, <2>5, <2>7, <2>8, ProvidedFinite DEF Busy
<1>5. ASSUME NEW e \in Endpoints, \A i \in 1..Len(waiters[e]) : waiters[e][i] # r
      PROVE  Line(waiters[e], req', e) /\ Busy(waiters[e], req', e)
  <2>1. /\ waiters[e] \in Seq(Requests) /\ Len(waiters[e]) <= Len(waiters[e])
        /\ \A i, j \in 1..Len(waiters[e]) : waiters[e][i] = waiters[e][j] => i = j
    BY <1>2 DEF Line
  <2>2. QED
    BY <1>4, <1>5, <2>1
<1>6. ASSUME NEW e \in Endpoints, e # f PROVE \A i \in 1..Len(waiters[e]) : waiters[e][i] # r
  BY <1>2, <1>6 DEF Line
<1>7. /\ Spliced(f, r) \in Seq(Requests)
      /\ Line(Spliced(f, r), req', f) /\ Busy(Spliced(f, r), req', f)
  <2>1. CASE ~ \E i \in 1..Len(w) : w[i] = r
    <3>1. Spliced(f, r) = w
      BY <2>1 DEF Spliced
    <3>2. Line(w, req', f) /\ Busy(w, req', f)
      BY <1>5, <2>1
    <3>3. QED
      BY <1>2, <3>1, <3>2
  <2>2. CASE \E i \in 1..Len(w) : w[i] = r
    <3>1. k \in 1..Len(w) /\ w[k] = r
      BY <2>2
    <3>2. Spliced(f, r) = rest
      BY <2>2 DEF Spliced
    <3>3. Line(w, req, f) /\ w \in Seq(Requests) /\ Len(w) \in Nat /\ Len(w) - 1 \in Nat
      BY <1>2, <3>1
    <3>4. \A i \in 1..Len(w)-1 : /\ i \in 1..Len(w) /\ i + 1 \in 1..Len(w) /\ i + 1 # i
                                 /\ w[i] \in Requests /\ w[i+1] \in Requests
      BY <3>3
    <3> HIDE DEF k
    <3>5. rest \in [1..Len(w)-1 -> Requests]
      BY <3>4
    <3>6. rest \in Seq(Requests) /\ Len(rest) = Len(w) - 1
      BY <3>3, <3>5
    <3>7. \A i \in 1..Len(rest) : rest[i] = IF i < k THEN w[i] ELSE w[i+1]
      BY <3>6
    <3>8. \A a, b \in 1..Len(w) : w[a] = w[b] => a = b
      BY <3>3 DEF Line
    <3>9. \A i \in 1..Len(rest) : rest[i] # r /\ \E j \in 1..Len(w) : rest[i] = w[j]
      <4> SUFFICES ASSUME NEW i \in 1..Len(rest) PROVE rest[i] # r /\ \E j \in 1..Len(w) : rest[i] = w[j]
        OBVIOUS
      <4>1. i \in 1..Len(w) /\ i + 1 \in 1..Len(w) /\ i \in Nat /\ k \in Nat
        BY <3>1, <3>3, <3>4, <3>6
      <4>2. CASE i < k
        <5>1. rest[i] = w[i] /\ i # k
          BY <3>7, <4>1, <4>2
        <5>2. QED
          BY <3>1, <3>8, <4>1, <5>1
      <4>3. CASE ~(i < k)
        <5>1. rest[i] = w[i+1] /\ i + 1 # k
          BY <3>7, <4>1, <4>3
        <5>2. QED
          BY <3>1, <3>8, <4>1, <5>1
      <4>4. QED
        BY <4>2, <4>3
    <3>10. \A i, j \in 1..Len(rest) : rest[i] = rest[j] => i = j
      <4> SUFFICES ASSUME NEW i \in 1..Len(rest), NEW j \in 1..Len(rest), rest[i] = rest[j] PROVE i = j
        OBVIOUS
      <4> DEFINE at(n) == IF n < k THEN n ELSE n + 1
      <4>1. /\ at(i) \in 1..Len(w) /\ at(j) \in 1..Len(w)
            /\ rest[i] = w[at(i)] /\ rest[j] = w[at(j)]
        BY <3>4, <3>6, <3>7
      <4>2. at(i) = at(j)
        <5> HIDE DEF at
        <5>1. QED
          BY <3>8, <4>1
      <4>3. QED
        BY <3>1, <3>3, <4>2
    <3> HIDE DEF rest, w
    <3>11. Len(rest) <= Len(w)
      BY <3>3, <3>6
    <3>12. Line(rest, req', f) /\ Busy(rest, req', f)
      BY <1>4, <3>6, <3>9, <3>10, <3>11 DEF w
    <3>13. QED
      BY <3>2, <3>6, <3>12
  <2>3. QED
    BY <2>1, <2>2
<1>8. waiters' \in [Endpoints -> Seq(Requests)] /\ waiters'[f] = Spliced(f, r) /\ \A e \in Endpoints \ {f} : waiters'[e] = waiters[e]
  BY <1>2, <1>7
<1>9. \A e \in Endpoints : Line(waiters'[e], req', e) /\ Busy(waiters'[e], req', e)
  BY <1>5, <1>6, <1>7, <1>8
<1>10. QED
  BY <1>8, <1>9 DEF LineInv

\* A request joins the line of an endpoint that has no slot free.
LEMMA JoinsLine ==
  ASSUME GateInv, LineInv, ~aborted, NEW r \in Requests, NEW q \in Records, req' = [req EXCEPT ![r] = q],
         req[r].pc \notin Provided \union {"queued"}, q.pc = "queued", q.ep \in Endpoints,
         active[q.ep] >= MaxConcurrent,
         waiters' = [waiters EXCEPT ![q.ep] = Append(@, r)],
         UNCHANGED aborted
  PROVE  LineInv'
<1> DEFINE f == q.ep
           w == waiters[f]
<1>1. req'[r] = q /\ \A u \in Requests \ {r} : req'[u] = req[u]
  BY DEF GateInv, Shapes
<1>2. /\ waiters \in [Endpoints -> Seq(Requests)]
      /\ \A e \in Endpoints : Line(waiters[e], req, e) /\ Busy(waiters[e], req, e)
  BY DEF LineInv
<1>3. \A u \in Requests : req[u].pc \in Provided \union {"queued"} => req'[u] = req[u]
  BY <1>1
<1>4. \A e \in Endpoints : Line(waiters[e], req', e) /\ Busy(waiters[e], req', e)
  <2> SUFFICES ASSUME NEW e \in Endpoints PROVE Line(waiters[e], req', e) /\ Busy(waiters[e], req', e)
    OBVIOUS
  <2>1. \A u \in Requests : req[u].pc = "queued" /\ req[u].ep = e => req'[u] = req[u]
    BY <1>3
  <2>2. \A u \in Requests : req[u].pc \in Provided /\ req[u].ep = e => req'[u].pc \in Provided /\ req'[u].ep = e
    BY <1>3
  <2>3. QED
    BY <1>2, <2>1, <2>2, Undisturbed
<1>5. Line(Append(w, r), req', f)
  <2>1. w \in Seq(Requests) /\ Line(w, req', f) /\ Line(w, req, f)
    BY <1>2, <1>4
  <2>2. \A i \in 1..Len(w) : w[i] # r
    BY <2>1 DEF Line
  <2>3. /\ Append(w, r) \in Seq(Requests) /\ Len(Append(w, r)) = Len(w) + 1 /\ Len(w) \in Nat
        /\ \A i \in 1..Len(w) : Append(w, r)[i] = w[i]
        /\ Append(w, r)[Len(w) + 1] = r
    BY <2>1
  <2>4. \A i \in 1..Len(Append(w, r)) : i \in 1..Len(w) \/ i = Len(w) + 1
    BY <2>3
  <2> HIDE DEF w
  <2>5. \A i \in 1..Len(Append(w, r)) : req'[Append(w, r)[i]].pc = "queued" /\ req'[Append(w, r)[i]].ep = f
    BY <1>1, <2>1, <2>3, <2>4 DEF Line
  <2>6. \A i, j \in 1..Len(Append(w, r)) : Append(w, r)[i] = Append(w, r)[j] => i = j
    BY <2>1, <2>2, <2>3, <2>4 DEF Line
  <2>7. QED
    BY <2>3, <2>5, <2>6 DEF Line
<1>6. Busy(Append(w, r), req', f)
  <2>1. At(Holding, f) \subseteq ProvidedAt(req', f)
    BY <1>3 DEF At, ProvidedAt, Provided
  <2>2. Cardinality(At(Holding, f)) <= Cardinality(ProvidedAt(req', f)) /\ Cardinality(At(Holding, f)) \in Nat
    <3>1. IsFiniteSet(ProvidedAt(req', f))
      BY ProvidedFinite
    <3>2. QED
      BY <2>1, <3>1, FS_Subset, FS_CardinalityType
  <2>3. active[f] = Cardinality(At(Holding, f))
    BY DEF GateInv, SlotAccounting, Holding
  <2>4. Cardinality(ProvidedAt(req', f)) \in Nat /\ MaxConcurrent \in Nat
    BY ProvidedFinite, GateAssumption
  <2>5. Cardinality(ProvidedAt(req', f)) >= MaxConcurrent
    BY <2>2, <2>3, <2>4
  <2>6. QED
    BY <2>5 DEF Busy
<1>7. /\ waiters' \in [Endpoints -> Seq(Requests)]
      /\ waiters'[f] = Append(w, r)
      /\ \A e \in Endpoints \ {f} : waiters'[e] = waiters[e]
  BY <1>2
<1>8. \A e \in Endpoints : Line(waiters'[e], req', e) /\ Busy(waiters'[e], req', e)
  BY <1>4, <1>5, <1>6, <1>7
<1>9. QED
  BY <1>7, <1>8 DEF LineInv

------------------------------------------------------------------------------

\* Whoever claims a slot takes it, or passes it on.
LEMMA ClaimLine ==
  ASSUME GateInv, LineInv, ~aborted, NEW r \in Requests, NEW q \in Records, q.ep \in Endpoints,
         req[r].pc \notin Holding \union {"queued"}, req[r].pc = "woken" => req[r].ep = q.ep, now <= q.deadline,
         q.attempted => q.evidence, q.attempt <= MaxRetries, Claim(r, q.ep, q), UNCHANGED aborted
  PROVE  LineInv'
<1> DEFINE slot == Later(now, nextSlotAt[q.ep])
           ended == Settled(q, NotAttempted(q))
           started == IF slot = now THEN Fetching(q) ELSE [q EXCEPT !.pc = "spacing", !.until = slot]
<1>1. Shapes /\ slot \in Nat
  BY DEF GateInv, Shapes, Later
<1>2. CASE /\ waiters' = [waiters EXCEPT ![q.ep] = IF @ = <<>> THEN @ ELSE Tail(@)]
           /\ req' = AfterWake([req EXCEPT ![r] = ended], q.ep)
  <2>1. ended \in Records /\ ended.pc = "settled"
    BY <1>1, NotAttemptedRecord
  <2>2. req[r].pc # "queued" /\ (req[r].pc \in Provided => req[r].ep = q.ep)
    BY DEF Provided
  <2> HIDE DEF ended
  <2>3. ended.pc # "queued"
    BY <2>1
  <2>4. QED
    BY <1>2, <2>1, <2>2, <2>3, HandsOver
<1>3. CASE /\ slot < q.deadline
           /\ req' = [req EXCEPT ![r] = started]
           /\ UNCHANGED waiters
  <2>1. started \in Records /\ started.pc \in Provided /\ started.ep = q.ep
    <3>1. CASE slot = now
      BY <1>1, <1>3, <3>1, FetchingRecord DEF Provided, Holding
    <3>2. CASE slot # now
      BY <1>1, <3>2 DEF Records, Stages, Provided, Holding
    <3>3. QED
      BY <3>1, <3>2
  <2>2. req[r].pc # "queued" /\ (req[r].pc \in Provided => req[r].ep = q.ep)
    BY DEF Provided
  <2> HIDE DEF started
  <2>3. QED
    BY <1>3, <2>1, <2>2, GoesOn
<1>4. QED
  BY <1>2, <1>3 DEF Claim

LEMMA AcquireLine ==
  ASSUME GateInv, LineInv, ~aborted, NEW r \in Requests, NEW q \in Records, q.ep \in Endpoints,
         req[r].pc \notin Provided \union {"queued"}, now <= q.deadline,
         q.attempted => q.evidence, q.attempt <= MaxRetries, Acquire(r, q.ep, q), UNCHANGED aborted
  PROVE  LineInv'
<1>1. Shapes /\ waiters \in [Endpoints -> Seq(Requests)]
  BY DEF GateInv, LineInv
<1>2. CASE Claim(r, q.ep, q)
  BY <1>2, ClaimLine DEF Provided
<1>3. CASE /\ active[q.ep] >= MaxConcurrent
           /\ waiters' = [waiters EXCEPT ![q.ep] = IF q.deadline > now THEN Append(@, r) ELSE @]
           /\ req' = [req EXCEPT ![r] = IF q.deadline > now THEN [q EXCEPT !.pc = "queued"]
                                        ELSE Settled(q, NotAttempted(q))]
  <2>1. CASE q.deadline > now
    <3> DEFINE p == [q EXCEPT !.pc = "queued"]
    <3>1. p \in Records /\ p.pc = "queued" /\ p.ep = q.ep
      BY DEF Records, Stages
    <3>2. req' = [req EXCEPT ![r] = p] /\ waiters' = [waiters EXCEPT ![q.ep] = Append(@, r)]
      BY <1>3, <2>1
    <3> HIDE DEF p
    <3>3. QED
      BY <1>3, <3>1, <3>2, JoinsLine
  <2>2. CASE ~(q.deadline > now)
    <3> DEFINE p == Settled(q, NotAttempted(q))
    <3>1. p \in Records
      BY <1>1, NotAttemptedRecord
    <3>2. req' = [req EXCEPT ![r] = p] /\ waiters' = waiters
      BY <1>1, <1>3, <2>2
    <3> HIDE DEF p
    <3>3. QED
      BY <3>1, <3>2, GoesOn
  <2>3. QED
    BY <2>1, <2>2
<1>4. QED
  BY <1>2, <1>3 DEF Acquire

LEMMA VisitLine ==
  ASSUME GateInv, LineInv, ~aborted, NEW r \in Requests, req[r].pc \notin Provided \union {"queued"},
         NEW last, NEW deadline \in Nat, now <= deadline, Visit(r, last, deadline), UNCHANGED aborted
  PROVE  LineInv'
<1>1. CASE req' = [req EXCEPT ![r] = [Fresh EXCEPT !.pc = "done"]] /\ UNCHANGED endpointState
  <2> DEFINE p == [Fresh EXCEPT !.pc = "done"]
  <2>1. p \in Records /\ waiters' = waiters
    BY <1>1 DEF Fresh, Records, Stages, endpointState
  <2>2. req' = [req EXCEPT ![r] = p]
    BY <1>1
  <2> HIDE DEF p
  <2>3. QED
    BY <2>1, <2>2, GoesOn
<1>2. ASSUME NEW e \in Candidates(last), Acquire(r, e, [Fresh EXCEPT !.ep = e, !.deadline = deadline])
      PROVE  LineInv'
  <2> DEFINE q == [Fresh EXCEPT !.ep = e, !.deadline = deadline]
  <2>1. e \in Endpoints /\ e \in Nat
    BY GateNumbers DEF Candidates, Endpoints
  <2>2. /\ q \in Records /\ q.ep = e /\ q.deadline = deadline /\ ~q.attempted
        /\ q.attempt <= MaxRetries
    BY <1>2, <2>1, VisitRecord
  <2> HIDE DEF q
  <2>3. Acquire(r, q.ep, q)
    BY <1>2, <2>2 DEF q
  <2>4. QED
    BY <2>1, <2>2, <2>3, AcquireLine
<1>3. QED
  BY <1>1, <1>2 DEF Visit

\* A request that ends its attempt hands its slot over.
LEMMA ReleaseLine ==
  ASSUME GateInv, LineInv, ~aborted, NEW r \in Requests, req[r].pc \in Holding, NEW q \in Records,
         q.pc # "queued", Release(req[r].ep, [req EXCEPT ![r] = q]), UNCHANGED aborted
  PROVE  LineInv'
<1>1. req[r].ep \in Endpoints /\ req[r].pc # "queued"
  BY DEF GateInv, Sound, Holding
<1>2. /\ waiters' = [waiters EXCEPT ![req[r].ep] = IF @ = <<>> THEN @ ELSE Tail(@)]
      /\ req' = AfterWake([req EXCEPT ![r] = q], req[r].ep)
  BY DEF Release
<1>3. QED
  BY <1>1, <1>2, HandsOver

\* What each step does to the lines.
LEMMA LineSteps ==
  ASSUME GateInv, LineInv, ~aborted, NEW r \in Requests
  PROVE  /\ Execute(r) => LineInv'
         /\ Continue(r) => LineInv'
         /\ QueueTimesOut(r) => LineInv'
         /\ SpacingEnds(r) => LineInv'
         /\ Answers(r) \/ AnswersUnsupported(r) => LineInv'
         /\ Hangs(r) => LineInv'
         /\ BackoffEnds(r) => LineInv'
         /\ Conclude(r) => LineInv'
<1>1. Shapes /\ req[r] \in Records /\ Sound(req[r]) /\ now \in Nat
  BY DEF GateInv, Shapes
<1>2. ASSUME Execute(r) PROVE LineInv'
  <2>1. /\ now + MaxTotal \in Nat /\ now <= now + MaxTotal
        /\ req[r].pc \notin Provided \union {"queued"} /\ UNCHANGED aborted
    BY <1>1, <1>2, GateNumbers DEF Execute, Provided, Holding
  <2>2. QED
    BY <1>2, <2>1, VisitLine DEF Execute
<1>3. ASSUME Continue(r) PROVE LineInv'
  <2>1. /\ req[r].pc = "woken" /\ req[r].ep \in Endpoints /\ now <= req[r].deadline
        /\ req[r].attempted => req[r].evidence
      /\ req[r].attempt <= MaxRetries
        /\ req[r].pc \notin Holding \union {"queued"} /\ UNCHANGED aborted
    BY <1>1, <1>3 DEF Continue, Sound, Holding
  <2>2. Claim(r, req[r].ep, req[r])
    BY <1>3 DEF Continue
  <2>3. QED
    BY <1>1, <2>1, <2>2, ClaimLine
<1>4. ASSUME QueueTimesOut(r) PROVE LineInv'
  <2> DEFINE p == Settled(req[r], NotAttempted(req[r]))
  <2>1. /\ req[r].pc = "queued" /\ req[r].ep \in Endpoints /\ now <= req[r].deadline
        /\ req[r].attempted => req[r].evidence
      /\ req[r].attempt <= MaxRetries
    BY <1>1, <1>4 DEF QueueTimesOut, Sound
  <2>2. p \in Records /\ p.pc \notin Provided
    BY <1>1, <2>1, NotAttemptedRecord DEF Provided, Holding
  <2>3. /\ req' = [req EXCEPT ![r] = p]
        /\ waiters' = [waiters EXCEPT ![req[r].ep] = Spliced(req[r].ep, r)]
        /\ UNCHANGED aborted
    BY <1>4 DEF QueueTimesOut
  <2> HIDE DEF p
  <2>4. QED
    BY <2>1, <2>2, <2>3, LeavesLine
<1>5. ASSUME SpacingEnds(r) PROVE LineInv'
  <2> DEFINE p == Fetching(req[r])
  <2>1. /\ req[r].pc = "spacing" /\ req[r].ep \in Endpoints /\ now < req[r].deadline
        /\ req[r].attempt <= MaxRetries
    BY <1>1, <1>5 DEF SpacingEnds, Sound, Records
  <2>2. p \in Records /\ p.pc \in Provided /\ p.ep = req[r].ep
    BY <1>1, <2>1, FetchingRecord DEF Provided, Holding
  <2>3. req' = [req EXCEPT ![r] = p] /\ UNCHANGED <<aborted, waiters>>
    BY <1>5 DEF SpacingEnds, endpointState
  <2> HIDE DEF p
  <2>4. QED
    BY <2>1, <2>2, <2>3, GoesOn
<1>6. ASSUME Answers(r) \/ AnswersUnsupported(r) PROVE LineInv'
  <2>1. req[r].pc \in Holding /\ req[r].pc \in {"spacing", "fetching", "aborting"} /\ UNCHANGED aborted
    BY <1>6 DEF Answers, AnswersUnsupported, InCall, Holding
  <2>2. CASE Answers(r)
    <3>1. Settled(req[r], "ok") \in Records /\ Settled(req[r], "ok").pc # "queued"
      BY <1>1 DEF Settled, Records, Stages
    <3>2. Release(req[r].ep, [req EXCEPT ![r] = Settled(req[r], "ok")])
      BY <2>2 DEF Answers
    <3>3. QED
      BY <2>1, <3>1, <3>2, ReleaseLine
  <2>3. CASE AnswersUnsupported(r)
    <3> DEFINE p == Settled([req[r] EXCEPT !.evidence = TRUE], "failed")
    <3>1. p \in Records /\ p.pc # "queued"
      BY <1>1 DEF Settled, Records, Stages
    <3>2. Release(req[r].ep, [req EXCEPT ![r] = p])
      BY <2>3 DEF AnswersUnsupported
    <3> HIDE DEF p
    <3>3. QED
      BY <2>1, <3>1, <3>2, ReleaseLine
  <2>4. QED
    BY <1>6, <2>2, <2>3
<1>7. ASSUME Hangs(r) PROVE LineInv'
  <2> DEFINE p == [req[r] EXCEPT !.pc = "aborting", !.until = @ + Grace]
  <2>1. p \in Records /\ p.pc = "aborting" /\ p.ep = req[r].ep
    <3>1. req[r].until \in Nat /\ req[r].until + Grace \in Nat
      BY <1>1, GateNumbers DEF Records
    <3>2. p = [req[r] EXCEPT !.pc = "aborting", !.until = req[r].until + Grace]
      OBVIOUS
    <3>3. QED
      BY <1>1, <3>1, <3>2 DEF Records, Stages
  <2>2. req' = [req EXCEPT ![r] = p] /\ UNCHANGED <<aborted, waiters>> /\ req[r].pc = "fetching"
    BY <1>7 DEF Hangs, endpointState
  <2> HIDE DEF p
  <2>3. QED
    BY <2>1, <2>2, GoesOn DEF Provided, Holding
<1>8. ASSUME BackoffEnds(r) PROVE LineInv'
  <2> DEFINE q == [req[r] EXCEPT !.attempt = @ + 1]
  <2>1. req[r].pc = "backoff" /\ req[r].pc \notin Provided \union {"queued"} /\ UNCHANGED aborted
    BY <1>8 DEF BackoffEnds, Provided, Holding
  <2>2. /\ q \in Records /\ q.ep \in Endpoints /\ now <= q.deadline /\ (q.attempted => q.evidence)
      /\ q.attempt <= MaxRetries
    BY <1>1, <2>1, RetryRecord
  <2>3. Acquire(r, q.ep, q)
    BY <1>8 DEF BackoffEnds
  <2> HIDE DEF q
  <2>4. QED
    BY <2>1, <2>2, <2>3, AcquireLine
<1>9. ASSUME Conclude(r) PROVE LineInv'
  <2>1. req[r].pc \notin Provided \union {"queued"} /\ UNCHANGED aborted
    BY <1>9 DEF Conclude, Provided, Holding
  <2>2. CASE req' = [req EXCEPT ![r] = [Fresh EXCEPT !.pc = "done"]] /\ UNCHANGED endpointState
    <3> DEFINE p == [Fresh EXCEPT !.pc = "done"]
    <3>1. p \in Records /\ req' = [req EXCEPT ![r] = p] /\ waiters' = waiters
      BY <2>2 DEF Fresh, Records, Stages, endpointState
    <3> HIDE DEF p
    <3>2. QED
      BY <2>1, <3>1, GoesOn
  <2>3. CASE now < req[r].deadline /\ Visit(r, req[r].ep, req[r].deadline)
    <3>1. req[r].deadline \in Nat /\ now <= req[r].deadline
      BY <1>1, <2>3 DEF Records
    <3>2. QED
      BY <2>1, <2>3, <3>1, VisitLine
  <2>4. QED
    BY <1>9, <2>2, <2>3 DEF Conclude
<1>10. QED
  BY <1>2, <1>3, <1>4, <1>5, <1>6, <1>7, <1>8, <1>9

\* An attempt that fails or ends hands its slot over.
LEMMA AttemptEndsLine ==
  ASSUME GateInv, LineInv, ~aborted, NEW r \in Requests, NEW delay \in Delays, InCall(r),
         Fails(r, delay) \/ CallEnds(r, delay), UNCHANGED aborted
  PROVE  LineInv'
<1>1. req[r] \in Records /\ req[r].pc \in Holding /\ now + delay \in Nat
  BY GateNumbers DEF GateInv, Shapes, InCall, Holding
<1>2. CASE Fails(r, delay)
  <2> DEFINE q == [req[r] EXCEPT !.evidence = TRUE]
             p == IF RetryFits(q, delay) THEN [q EXCEPT !.pc = "backoff", !.until = now + delay] ELSE Settled(q, "failed")
  <2>1. q \in Records /\ q.ep = req[r].ep
    BY <1>1 DEF Records
  <2>2. Release(req[r].ep, [req EXCEPT ![r] = p])
    BY <1>2, <2>1 DEF Fails
  <2> HIDE DEF q
  <2>3. p \in Records /\ p.pc # "queued"
    BY <1>1, <2>1 DEF Settled, Records, Stages
  <2> HIDE DEF p
  <2>4. QED
    BY <1>1, <2>2, <2>3, ReleaseLine
<1>3. CASE Release(req[r].ep, [req EXCEPT ![r] = Settled(req[r], "local_deadline")])
  <2>1. Settled(req[r], "local_deadline") \in Records /\ Settled(req[r], "local_deadline").pc # "queued"
    BY <1>1 DEF Settled, Records, Stages
  <2>2. QED
    BY <1>1, <1>3, <2>1, ReleaseLine
<1>4. QED
  BY <1>2, <1>3 DEF CallEnds

LEMMA LineStep == ASSUME GateInv, LineInv, [Next]_vars PROVE LineInv'
<1>1. CASE aborted
  <2>1. aborted'
    <3>1. ASSUME NEW r \in Requests, NEW delay \in Delays,
                 AnswersFailure(r, delay) \/ TimesOut(r, delay) \/ Abandon(r, delay)
          PROVE  aborted'
      BY <1>1, <3>1 DEF AnswersFailure, TimesOut, Abandon
    <3>2. QED
      BY <1>1, <3>1 DEF Next, vars, Tick, Shutdown, Execute, Continue, QueueTimesOut, SpacingEnds, Answers,
                        AnswersUnsupported, Hangs, BackoffEnds, Conclude, SleepAborted, CallAborted
  <2>2. QED
    BY <2>1 DEF LineInv
<1>2. CASE ~aborted
  <2>1. CASE Shutdown
    BY <2>1 DEF Shutdown, LineInv
  <2>2. CASE Tick \/ UNCHANGED vars
    <3>1. UNCHANGED <<aborted, waiters, req>>
      BY <2>2 DEF Tick, vars, endpointState
    <3>2. \A e \in Endpoints : Line(waiters[e], req, e) /\ Busy(waiters[e], req, e) =>
                              Line(waiters'[e], req', e) /\ Busy(waiters'[e], req', e)
      BY <3>1
    <3>3. QED
      BY <1>2, <3>1, <3>2 DEF LineInv
  <2>3. ASSUME NEW r \in Requests, NEW delay \in Delays,
               AnswersFailure(r, delay) \/ TimesOut(r, delay) \/ Abandon(r, delay)
        PROVE  LineInv'
    BY <1>2, <2>3, AttemptEndsLine DEF AnswersFailure, TimesOut, Abandon, InCall
  <2>4. ASSUME NEW r \in Requests, SleepAborted(r) \/ CallAborted(r) PROVE FALSE
    BY <1>2, <2>4 DEF SleepAborted, CallAborted
  <2>5. QED
    BY <1>2, <2>1, <2>2, <2>3, <2>4, LineSteps DEF Next
<1>3. QED
  BY <1>1, <1>2

LEMMA LineStart == ASSUME Init PROVE LineInv
<1>1. waiters = [e \in Endpoints |-> <<>>]
  BY DEF Init
<1>2. \A e \in Endpoints : waiters[e] = <<>> /\ waiters[e] \in Seq(Requests) /\ Len(waiters[e]) = 0
  BY <1>1
<1>3. waiters \in [Endpoints -> Seq(Requests)]
  BY <1>1, <1>2
<1>4. \A e \in Endpoints : Line(waiters[e], req, e) /\ Busy(waiters[e], req, e)
  BY <1>2 DEF Line, Busy
<1>5. QED
  BY <1>3, <1>4 DEF LineInv

\* While a request waits at an endpoint, all its slots are in use or promised
\* to requests that were called, whoever times out of the line, claims a slot
\* too late, fails or hangs (acquire's finally, release).
THEOREM SlotsNeverIdle == Spec => []NoIdleSlot
<1>1. ASSUME GateInv, LineInv PROVE NoIdleSlot
  <2> SUFFICES ASSUME NEW e \in Endpoints, waiters[e] # <<>>, ~aborted
               PROVE  active[e] + Cardinality(At({"woken"}, e)) >= MaxConcurrent
    BY DEF NoIdleSlot
  <2> DEFINE S == At(Holding, e)
             T == At({"woken"}, e)
  <2>1. IsFiniteSet(S) /\ IsFiniteSet(T)
    <3>1. S \subseteq Requests /\ T \subseteq Requests
      BY DEF At
    <3>2. QED
      BY <3>1, GateNumbers, FS_Subset
  <2>2. S \cap T = {} /\ ProvidedAt(req, e) = S \union T
    BY DEF At, ProvidedAt, Provided, Holding
  <2>3. active[e] = Cardinality(S)
    BY <1>1 DEF GateInv, SlotAccounting, Holding
  <2>4. Cardinality(S \union T) >= MaxConcurrent
    BY <1>1, <2>2 DEF LineInv, Busy
  <2> HIDE DEF S
  <2>5. Cardinality(S \union T) = Cardinality(S) + Cardinality(T)
    <3> HIDE DEF T
    <3>1. Cardinality(S \union T) = Cardinality(S) + Cardinality(T) - Cardinality(S \cap T)
      BY <2>1, FS_Union
    <3>2. Cardinality(S) \in Nat /\ Cardinality(T) \in Nat /\ Cardinality(S \cap T) = 0
      BY <2>1, <2>2, FS_CardinalityType, FS_EmptySet
    <3>3. QED
      BY <3>1, <3>2
  <2>6. QED
    BY <2>3, <2>4, <2>5
<1>2. GateInv /\ LineInv /\ [Next]_vars => GateInv' /\ LineInv'
  BY GateStep, LineStep
<1>3. QED
  BY <1>1, <1>2, GateInit, LineStart, PTL DEF Spec

------------------------------------------------------------------------------
\* Type correctness.

Queues == [Endpoints -> Seq(Requests)]

\* A queue without a request is still a queue.
LEMMA SplicedType ==
  ASSUME waiters \in Queues, NEW e \in Endpoints, NEW r PROVE Spliced(e, r) \in Seq(Requests)
<1> DEFINE w == waiters[e]
           k == CHOOSE i \in 1..Len(w) : w[i] = r
           rest == [i \in 1..Len(w)-1 |-> IF i < k THEN w[i] ELSE w[i+1]]
<1>1. w \in Seq(Requests) /\ Len(w) \in Nat
  BY DEF Queues
<1>2. CASE \E i \in 1..Len(w) : w[i] = r
  <2>1. Spliced(e, r) = rest /\ Len(w) - 1 \in Nat
    BY <1>1, <1>2 DEF Spliced
  <2>2. \A i \in 1..Len(w)-1 : w[i] \in Requests /\ w[i+1] \in Requests
    BY <1>1, <2>1
  <2> HIDE DEF k, w
  <2>3. rest \in [1..Len(w)-1 -> Requests]
    BY <2>2
  <2> HIDE DEF rest
  <2>4. rest \in Seq(Requests)
    BY <2>1, <2>3
  <2>5. QED
    BY <2>1, <2>4
<1>3. CASE ~ \E i \in 1..Len(w) : w[i] = r
  BY <1>1, <1>3 DEF Spliced
<1>4. QED
  BY <1>2, <1>3

\* One queue changes, to another sequence of requests.
LEMMA QueueChanges ==
  ASSUME waiters \in Queues, NEW e, NEW q, e \in Endpoints => q \in Seq(Requests),
         waiters' = [waiters EXCEPT ![e] = q]
  PROVE  waiters' \in Queues
BY DEF Queues

LEMMA CalledQueue ==
  ASSUME waiters \in Queues, NEW e, waiters' = [waiters EXCEPT ![e] = IF @ = <<>> THEN @ ELSE Tail(@)]
  PROVE  waiters' \in Queues
<1> DEFINE q == IF waiters[e] = <<>> THEN waiters[e] ELSE Tail(waiters[e])
<1>1. e \in Endpoints => q \in Seq(Requests)
  BY DEF Queues
<1>2. waiters' = [waiters EXCEPT ![e] = q]
  OBVIOUS
<1> HIDE DEF q
<1>3. QED
  BY <1>1, <1>2, QueueChanges

LEMMA AcquireQueue ==
  ASSUME waiters \in Queues, NEW r \in Requests, NEW e, NEW q, Acquire(r, e, q)
  PROVE  waiters' \in Queues
<1>1. CASE Claim(r, e, q)
  BY <1>1, CalledQueue DEF Claim
<1>2. CASE waiters' = [waiters EXCEPT ![e] = IF q.deadline > now THEN Append(@, r) ELSE @]
  <2> DEFINE p == IF q.deadline > now THEN Append(waiters[e], r) ELSE waiters[e]
  <2>1. e \in Endpoints => p \in Seq(Requests)
    BY DEF Queues
  <2>2. waiters' = [waiters EXCEPT ![e] = p]
    BY <1>2
  <2> HIDE DEF p
  <2>3. QED
    BY <2>1, <2>2, QueueChanges
<1>3. QED
  BY <1>1, <1>2 DEF Acquire

LEMMA QueuesStep == ASSUME waiters \in Queues, [Next]_vars PROVE waiters' \in Queues
<1>1. ASSUME NEW rs, NEW e, Release(e, rs) PROVE waiters' \in Queues
  BY <1>1, CalledQueue DEF Release
<1>2. ASSUME NEW r, NEW delay, CallEnds(r, delay) \/ Fails(r, delay) PROVE waiters' \in Queues
  BY <1>1, <1>2 DEF CallEnds, Fails
<1>3. ASSUME NEW r \in Requests, NEW last, NEW deadline, Visit(r, last, deadline) PROVE waiters' \in Queues
  BY <1>3, AcquireQueue DEF Visit, endpointState
<1>4. ASSUME NEW r \in Requests, NEW delay \in Delays,
             AnswersFailure(r, delay) \/ TimesOut(r, delay) \/ Abandon(r, delay)
      PROVE  waiters' \in Queues
  BY <1>2, <1>4 DEF AnswersFailure, TimesOut, Abandon
<1>5. ASSUME NEW r \in Requests, Answers(r) \/ AnswersUnsupported(r) \/ CallAborted(r) \/ SleepAborted(r)
      PROVE  waiters' \in Queues
  BY <1>1, <1>5 DEF Answers, AnswersUnsupported, CallAborted, SleepAborted
<1>6. ASSUME NEW r \in Requests, Execute(r) \/ Conclude(r) PROVE waiters' \in Queues
  BY <1>3, <1>6 DEF Execute, Conclude, endpointState
<1>7. ASSUME NEW r \in Requests, Continue(r) PROVE waiters' \in Queues
  BY <1>7, CalledQueue DEF Continue, Claim, endpointState
<1>8. ASSUME NEW r \in Requests, BackoffEnds(r) PROVE waiters' \in Queues
  BY <1>8, AcquireQueue DEF BackoffEnds
<1>9. ASSUME NEW r \in Requests, QueueTimesOut(r) PROVE waiters' \in Queues
  <2>1. waiters' = [waiters EXCEPT ![req[r].ep] = Spliced(req[r].ep, r)]
    BY <1>9 DEF QueueTimesOut
  <2>2. QED
    BY <2>1, SplicedType, QueueChanges
<1>10. ASSUME NEW r \in Requests, Hangs(r) \/ SpacingEnds(r) PROVE waiters' \in Queues
  BY <1>10 DEF Hangs, SpacingEnds, endpointState
<1>11. CASE Tick \/ Shutdown \/ UNCHANGED vars
  BY <1>11 DEF Tick, Shutdown, endpointState, vars
<1>12. QED
  BY <1>4, <1>5, <1>6, <1>7, <1>8, <1>9, <1>10, <1>11 DEF Next

\* When circuits close again, and when an unserved method is asked for again,
\* are times.
LEMMA CooldownsType ==
  ASSUME now \in Nat, {openUntil, unsupportedUntil} \subseteq [Endpoints -> Nat], [Next]_vars
  PROVE  {openUntil', unsupportedUntil'} \subseteq [Endpoints -> Nat]
<1>1. Cooldown \in Nat /\ UnsupportedCooldown \in Nat
  BY GateAssumption
<1>2. ASSUME NEW r \in Requests, Conclude(r) PROVE {openUntil', unsupportedUntil'} \subseteq [Endpoints -> Nat]
  <2> DEFINE e == req[r].ep
             v == IF Counts(req[r]) /\ failures[e] + 1 >= Threshold /\ openUntil[e] <= now
                  THEN now + Cooldown ELSE openUntil[e]
  <2>1. openUntil' = [openUntil EXCEPT ![e] = v] /\ UNCHANGED unsupportedUntil
    BY <1>2 DEF Conclude
  <2>2. e \in Endpoints => v \in Nat
    BY <1>1
  <2> HIDE DEF e, v
  <2>3. QED
    BY <2>1, <2>2
<1>3. ASSUME NEW r \in Requests, AnswersUnsupported(r)
      PROVE  {openUntil', unsupportedUntil'} \subseteq [Endpoints -> Nat]
  <2> DEFINE e == req[r].ep
             v == now + UnsupportedCooldown
  <2>1. unsupportedUntil' = [unsupportedUntil EXCEPT ![e] = v] /\ UNCHANGED openUntil /\ v \in Nat
    BY <1>1, <1>3 DEF AnswersUnsupported
  <2> HIDE DEF e, v
  <2>2. QED
    BY <2>1
<1>4. ASSUME NEW r \in Requests, NEW delay \in Delays, AnswersFailure(r, delay) \/ TimesOut(r, delay) \/ Abandon(r, delay)
      PROVE  UNCHANGED <<openUntil, unsupportedUntil>>
  BY <1>4 DEF AnswersFailure, TimesOut, Abandon, health
<1>5. ASSUME NEW r \in Requests,
             \/ Execute(r) \/ Continue(r) \/ QueueTimesOut(r) \/ SpacingEnds(r) \/ Answers(r)
             \/ Hangs(r) \/ BackoffEnds(r) \/ SleepAborted(r) \/ CallAborted(r)
      PROVE  UNCHANGED <<openUntil, unsupportedUntil>>
  BY <1>5 DEF Execute, Continue, QueueTimesOut, SpacingEnds, Answers, Hangs, BackoffEnds, SleepAborted,
              CallAborted, health
<1>6. CASE Tick \/ Shutdown \/ UNCHANGED vars
  BY <1>6 DEF Tick, Shutdown, health, vars
<1>7. QED
  BY <1>2, <1>3, <1>4, <1>5, <1>6 DEF Next

Typed ==
  /\ GateInv
  /\ now <= MaxTime
  /\ waiters \in Queues
  /\ {failures, openUntil, unsupportedUntil} \subseteq [Endpoints -> Nat]

\* Type correctness for all limits: times and counts never go below zero, no
\* attempt goes beyond the retries allowed, a request that is under way stands
\* at an endpoint, and a queue holds requests, also after a shutdown left it as
\* it was (providerGate.ts).
THEOREM GateTypes == Spec => []TypeOK
<1>1. Init => Typed
  <2> SUFFICES ASSUME Init PROVE Typed
    OBVIOUS
  <2>1. GateInv
    BY GateInit
  <2>2. <<>> \in Seq(Requests)
    OBVIOUS
  <2>3. waiters \in Queues /\ {failures, openUntil, unsupportedUntil} \subseteq [Endpoints -> Nat] /\ now = 0
    BY <2>2 DEF Init, Queues
  <2>4. QED
    BY <2>1, <2>3, GateNumbers DEF Typed
<1>2. Typed /\ [Next]_vars => Typed'
  <2> SUFFICES ASSUME Typed, [Next]_vars PROVE Typed'
    OBVIOUS
  <2>1. GateInv'
    BY GateStep DEF Typed
  <2>2. now' <= MaxTime
    <3>1. now \in Nat /\ MaxTime \in Nat /\ now <= MaxTime
      BY GateNumbers DEF Typed, GateInv, Shapes
    <3>2. CASE Tick
      BY <3>1, <3>2 DEF Tick
    <3>3. CASE UNCHANGED now
      BY <3>1, <3>3
    <3>4. Tick \/ UNCHANGED now
      BY RequestStep DEF Typed, Shutdown, StepOf, vars
    <3>5. QED
      BY <3>2, <3>3, <3>4
  <2>3. waiters' \in Queues
    BY QueuesStep DEF Typed
  <2>4. {failures', openUntil', unsupportedUntil'} \subseteq [Endpoints -> Nat]
    BY FailuresType, CooldownsType DEF Typed, GateInv, Shapes
  <2>5. QED
    BY <2>1, <2>2, <2>3, <2>4 DEF Typed
<1>3. Typed => TypeOK
  <2> SUFFICES ASSUME Typed PROVE TypeOK
    OBVIOUS
  <2>1. /\ now \in 0..MaxTime /\ aborted \in BOOLEAN /\ active \in [Endpoints -> Nat]
        /\ waiters \in [Endpoints -> Seq(Requests)]
        /\ {nextSlotAt, failures, openUntil, unsupportedUntil} \subseteq [Endpoints -> Nat]
    BY GateNumbers DEF Typed, GateInv, Shapes, Queues
  <2>2. ASSUME NEW r \in Requests
        PROVE  /\ req[r] \in Records
               /\ req[r].ep \in 0..NumEndpoints
               /\ req[r].attempt \in 0..MaxRetries
    BY GateNumbers DEF Typed, GateInv, Shapes, Sound, Endpoints, Records
  <2>3. QED
    BY <2>1, <2>2 DEF TypeOK, Records, Stages
<1>4. QED
  BY <1>1, <1>2, <1>3, PTL DEF Spec

==============================================================================
