----------------------------- MODULE AdmissionGate -----------------------------
(***************************************************************************)
(* How the callers of the RPC provider share it:                           *)
(*   providers/priorityAdmissionGate.ts  PriorityAdmissionGate             *)
(*   providers/providerStack.ts          which callers have which priority *)
(* A caller holds a ticket of the admission gate for one logical request.  *)
(* The request makes attempts, one at a time, each at an endpoint of the   *)
(* provider gate and each in one of that endpoint's slots; between them it *)
(* waits for a backoff and holds its ticket only.  Here the provider gate  *)
(* is reduced to those slots; ProviderGate models it.                      *)
(***************************************************************************)
EXTENDS Integers, Sequences, FiniteSets

CONSTANTS
  High,          \* callers of priority 'high': the evaluations
  Low,           \* callers of priority 'low': the requests of discovery
  Endpoints,     \* endpoints of the provider gate
  MaxConcurrent  \* cfg.providers.rpc.maxConcurrent

\* The same number bounds the evaluations: the evaluation scheduler runs at
\* most that many, and an evaluation awaits its RPC reads one after another.
ASSUME AdmissionAssumption ==
  /\ MaxConcurrent \in Nat \ {0}
  /\ IsFiniteSet(High)
  /\ IsFiniteSet(Low)
  /\ High \intersect Low = {}
  /\ Cardinality(High) <= MaxConcurrent

VARIABLES
  active,       \* tickets handed out
  highWaiters,  \* callers waiting for a ticket, in order
  lowWaiters,
  shutdownFlag, \* shutdown() was called
  admitted,     \* callers inside run's fn
  attempts      \* the callers whose attempt holds a slot of each endpoint

vars == <<active, highWaiters, lowWaiters, shutdownFlag, admitted, attempts>>

Callers == High \union Low
QueueSet(q) == {q[i] : i \in 1..Len(q)}
Waiters == QueueSet(highWaiters) \union QueueSet(lowWaiters)
Attempting(c) == \E e \in Endpoints : c \in attempts[e]

Init ==
  /\ active = 0
  /\ highWaiters = <<>>
  /\ lowWaiters = <<>>
  /\ shutdownFlag = FALSE
  /\ admitted = {}
  /\ attempts = [e \in Endpoints |-> {}]

------------------------------------------------------------------------------

\* Variant: the admission gate is wider than the provider gate.
MaxAdmissionsPlusOne == MaxConcurrent + 1

\* providerStack.ts sizes the admission gate like the provider gate.
MaxAdmissions == MaxConcurrent

HasTicket == active < MaxAdmissions

\* The caller joins the queue of its priority.
Enqueue(c) ==
  /\ highWaiters' = IF c \in High THEN Append(highWaiters, c) ELSE highWaiters
  /\ lowWaiters' = IF c \in Low THEN Append(lowWaiters, c) ELSE lowWaiters

\* acquire(priority), by a caller with no request under way.
Acquire(c) ==
  /\ c \notin admitted
  /\ c \notin Waiters
  /\ ~shutdownFlag
  /\ \/ /\ HasTicket
        /\ active' = active + 1
        /\ admitted' = admitted \union {c}
        /\ UNCHANGED <<highWaiters, lowWaiters>>
     \/ /\ ~HasTicket
        /\ Enqueue(c)
        /\ UNCHANGED <<active, admitted>>
  /\ UNCHANGED <<shutdownFlag, attempts>>

\* The provider gate starts an attempt of an admitted request; NeverQueues
\* states that it always has a slot for it.
BeginAttempt(c, e) ==
  /\ c \in admitted
  /\ ~Attempting(c)
  /\ Cardinality(attempts[e]) < MaxConcurrent
  /\ attempts' = [attempts EXCEPT ![e] = @ \union {c}]
  /\ UNCHANGED <<active, highWaiters, lowWaiters, shutdownFlag, admitted>>

EndAttempt(c, e) ==
  /\ c \in attempts[e]
  /\ attempts' = [attempts EXCEPT ![e] = @ \ {c}]
  /\ UNCHANGED <<active, highWaiters, lowWaiters, shutdownFlag, admitted>>

\* Variants of Promote: nobody is woken; arrival decides nothing and discovery
\* goes first; the latest arrival goes first.
PromoteNobody(inside) ==
  active' = active - 1 /\ admitted' = inside /\ UNCHANGED <<highWaiters, lowWaiters>>
PromoteLowFirst(inside) ==
  IF lowWaiters = <<>> THEN PromoteNobody(inside)
  ELSE /\ active' = active
       /\ admitted' = inside \union {Head(lowWaiters)}
       /\ lowWaiters' = Tail(lowWaiters)
       /\ UNCHANGED highWaiters
PromoteLatestLow(inside) ==
  IF highWaiters # <<>> \/ lowWaiters = <<>> THEN PromoteNobody(inside)
  ELSE /\ active' = active
       /\ admitted' = inside \union {lowWaiters[Len(lowWaiters)]}
       /\ lowWaiters' = SubSeq(lowWaiters, 1, Len(lowWaiters) - 1)
       /\ UNCHANGED highWaiters

\* release(): the ticket that came back goes to the first high waiter, then
\* to the first low one.  wake() counts the new ticket in the same step.
\* `inside` are the callers left inside fn.
Promote(inside) ==
  \/ /\ highWaiters # <<>>
     /\ active' = active
     /\ admitted' = inside \union {Head(highWaiters)}
     /\ highWaiters' = Tail(highWaiters)
     /\ UNCHANGED lowWaiters
  \/ /\ highWaiters = <<>>
     /\ lowWaiters # <<>>
     /\ active' = active
     /\ admitted' = inside \union {Head(lowWaiters)}
     /\ lowWaiters' = Tail(lowWaiters)
     /\ UNCHANGED highWaiters
  \/ /\ highWaiters = <<>>
     /\ lowWaiters = <<>>
     /\ active' = active - 1
     /\ admitted' = inside
     /\ UNCHANGED <<highWaiters, lowWaiters>>

\* The request of c settles, and the finally block of run releases its ticket.
Finish(c) ==
  /\ c \in admitted
  /\ ~Attempting(c)
  /\ Promote(admitted \ {c})
  /\ UNCHANGED <<shutdownFlag, attempts>>

\* shutdown(): every waiter is rejected; admitted callers unwind by themselves.
Shutdown ==
  /\ ~shutdownFlag
  /\ shutdownFlag' = TRUE
  /\ highWaiters' = <<>>
  /\ lowWaiters' = <<>>
  /\ UNCHANGED <<active, admitted, attempts>>

Next ==
  \/ \E c \in Callers :
       \/ Acquire(c)
       \/ Finish(c)
       \/ \E e \in Endpoints : BeginAttempt(c, e) \/ EndAttempt(c, e)
  \/ Shutdown

Spec == Init /\ [][Next]_vars

\* Attempts end at their time limit and a request makes a bounded number of
\* them, so each admitted request settles: it cannot go on attempting for
\* ever, hence strong fairness of Finish.  Callers need not come back.
FairSpec ==
  /\ Spec
  /\ \A c \in Callers :
       /\ SF_vars(Finish(c))
       /\ \A e \in Endpoints : WF_vars(EndAttempt(c, e))

------------------------------------------------------------------------------

TypeOK ==
  /\ active \in Int
  /\ highWaiters \in Seq(High)
  /\ lowWaiters \in Seq(Low)
  /\ shutdownFlag \in BOOLEAN
  /\ admitted \subseteq Callers
  /\ attempts \in [Endpoints -> SUBSET Callers]

\* No ticket leaks or is handed out twice: the counter, which release and wake
\* move in different calls, is the number of callers inside fn, within the
\* bound, and none of those callers is still waiting.
TicketAccounting ==
  /\ active = Cardinality(admitted)
  /\ active <= MaxConcurrent
  /\ admitted \intersect Waiters = {}

\* A caller waits only while every ticket is taken: a release that woke nobody
\* would leave its ticket idle until the next release, or for ever.
NoIdleTicket == Waiters # {} => active = MaxConcurrent /\ ~shutdownFlag

\* priorityAdmissionGate.ts: contention is resolved before it "ever reaches
\* ProviderGate's own queue".  Every admitted request that may begin an
\* attempt finds a slot at every endpoint, so the provider gate's own queue,
\* which knows no priorities, never holds an RPC request.
NeverQueues ==
  \A c \in admitted : ~Attempting(c) =>
    \A e \in Endpoints : Cardinality(attempts[e]) < MaxConcurrent

\* No discovery request is admitted while an evaluation that was already
\* waiting goes on waiting.
HighFirst ==
  [][\A l \in Low : l \notin admitted /\ l \in admitted' =>
       \A h \in High : ~(h \in QueueSet(highWaiters) /\ h \in QueueSet(highWaiters'))]_vars

\* No caller waits for ever: no evaluation, whatever discovery does, and no
\* discovery request either, although evaluations always go first
\* (providerStack.ts: "safe from starvation"): there are no more of them than
\* tickets, so in the end one settles while no other waits.
WaitersServed == \A c \in Callers : c \in Waiters ~> c \notin Waiters

==============================================================================
