-------------------------- MODULE AdmissionGateProofs --------------------------
(***************************************************************************)
(* For every set of callers and endpoints and every width of the gate: no  *)
(* ticket leaks, none is idle while a caller waits, an admitted request    *)
(* always finds a slot of the provider gate, and no discovery request is   *)
(* admitted past a waiting evaluation.                                     *)
(***************************************************************************)
EXTENDS AdmissionGate, FiniteSetTheorems, TLAPS

\* A queue over S: each caller once.
Line(q, S) ==
  /\ q \in Seq(S)
  /\ \A i, j \in 1..Len(q) : q[i] = q[j] => i = j

\* The inductive invariant.  TicketAccounting needs that a woken caller was
\* not inside already, hence that it is queued once and nowhere else;
\* NeverQueues needs that only ticket holders hold slots.
Inv ==
  /\ TypeOK
  /\ Line(highWaiters, High)
  /\ Line(lowWaiters, Low)
  /\ \A e \in Endpoints : attempts[e] \subseteq admitted
  /\ TicketAccounting
  /\ NoIdleTicket

------------------------------------------------------------------------------

\* Appending a newcomer keeps a line and adds it to the queued callers.
LEMMA AppendLine ==
  ASSUME NEW S, NEW q, Line(q, S), NEW c \in S, c \notin QueueSet(q)
  PROVE  /\ Line(Append(q, c), S)
         /\ QueueSet(Append(q, c)) = QueueSet(q) \union {c}
<1> DEFINE r == Append(q, c)
<1>1. /\ q \in Seq(S) /\ r \in Seq(S)
      /\ Len(q) \in Nat /\ Len(r) = Len(q) + 1
      /\ \A i \in 1..Len(q) : r[i] = q[i]
      /\ r[Len(q) + 1] = c
  BY DEF Line
<1>2. \A i \in 1..Len(q) : q[i] # c
  BY DEF QueueSet
<1>3. \A i, j \in 1..Len(r) : r[i] = r[j] => i = j
  <2> SUFFICES ASSUME NEW i \in 1..Len(r), NEW j \in 1..Len(r), r[i] = r[j]
               PROVE  i = j
    OBVIOUS
  <2>1. (i \in 1..Len(q) \/ i = Len(q) + 1) /\ (j \in 1..Len(q) \/ j = Len(q) + 1)
    BY <1>1
  <2>2. \A a, b \in 1..Len(q) : q[a] = q[b] => a = b
    BY DEF Line
  <2>3. QED
    BY <1>1, <1>2, <2>1, <2>2
<1>4. QueueSet(r) = QueueSet(q) \union {c}
  <2>1. \A i \in 1..Len(r) : i \in 1..Len(q) \/ i = Len(q) + 1
    BY <1>1
  <2>2. \A i \in 1..Len(q) : i \in 1..Len(r)
    BY <1>1
  <2>3. Len(q) + 1 \in 1..Len(r)
    BY <1>1
  <2>4. QED
    BY <1>1, <2>1, <2>2, <2>3 DEF QueueSet
<1>5. QED
  BY <1>1, <1>3, <1>4 DEF Line

\* The head of a line is one of its callers, and no longer in what is left.
LEMMA TailLine ==
  ASSUME NEW S, NEW q, Line(q, S), q # <<>>
  PROVE  /\ Head(q) \in S
         /\ Head(q) \in QueueSet(q)
         /\ Line(Tail(q), S)
         /\ QueueSet(Tail(q)) = QueueSet(q) \ {Head(q)}
<1> DEFINE r == Tail(q)
<1>1. /\ q \in Seq(S) /\ r \in Seq(S)
      /\ Head(q) = q[1]
      /\ Len(q) \in Nat \ {0}
      /\ Len(r) = Len(q) - 1
      /\ \A i \in 1..Len(r) : r[i] = q[i+1]
  BY DEF Line
<1>2. 1 \in 1..Len(q) /\ \A i \in 1..Len(r) : i + 1 \in 1..Len(q) /\ i + 1 # 1
  BY <1>1
<1>3. \A a, b \in 1..Len(q) : q[a] = q[b] => a = b
  BY DEF Line
<1>4. \A i, j \in 1..Len(r) : r[i] = r[j] => i = j
  <2> SUFFICES ASSUME NEW i \in 1..Len(r), NEW j \in 1..Len(r), r[i] = r[j]
               PROVE  i = j
    OBVIOUS
  <2>1. i + 1 = j + 1
    BY <1>1, <1>2, <1>3
  <2>2. QED
    BY <1>1, <2>1
<1>5. QueueSet(r) \subseteq QueueSet(q) \ {Head(q)}
  BY <1>1, <1>2, <1>3 DEF QueueSet
<1>6. ASSUME NEW x \in QueueSet(q), x # Head(q)
      PROVE  x \in QueueSet(r)
  <2>1. PICK i \in 1..Len(q) : q[i] = x
    BY DEF QueueSet
  <2>2. i - 1 \in 1..Len(r) /\ (i - 1) + 1 = i
    BY <1>1, <1>6, <2>1
  <2>3. r[i-1] = x
    BY <1>1, <2>1, <2>2
  <2>4. QED
    BY <2>2, <2>3 DEF QueueSet
<1>7. Head(q) \in S /\ Head(q) \in QueueSet(q)
  BY <1>1, <1>2 DEF QueueSet
<1>8. QED
  BY <1>1, <1>4, <1>5, <1>6, <1>7 DEF Line

LEMMA QueueSetBasics ==
  /\ QueueSet(<<>>) = {}
  /\ \A S, q : q \in Seq(S) => QueueSet(q) \subseteq S
  /\ \A S, q : q \in Seq(S) /\ QueueSet(q) = {} => q = <<>>
<1>1. QueueSet(<<>>) = {}
  BY DEF QueueSet
<1>2. ASSUME NEW S, NEW q \in Seq(S)
      PROVE  /\ QueueSet(q) \subseteq S
             /\ QueueSet(q) = {} => q = <<>>
  <2>1. QueueSet(q) \subseteq S
    BY DEF QueueSet
  <2>2. ASSUME q # <<>>
        PROVE  QueueSet(q) # {}
    <3>1. 1 \in 1..Len(q)
      BY <2>2
    <3>2. q[1] \in QueueSet(q)
      BY <3>1 DEF QueueSet
    <3>3. QED
      BY <3>2
  <2>3. QED
    BY <2>1, <2>2
<1>3. QED
  BY <1>1, <1>2

\* Callers inside are counted by a natural number that a newcomer raises and
\* a leaver lowers by one.
LEMMA Inside ==
  ASSUME NEW T \in SUBSET Callers
  PROVE  /\ IsFiniteSet(T)
         /\ Cardinality(T) \in Nat
         /\ \A c \in Callers : c \notin T => Cardinality(T \union {c}) = Cardinality(T) + 1
         /\ \A c \in T : Cardinality(T \ {c}) = Cardinality(T) - 1
<1>1. IsFiniteSet(Callers)
  BY AdmissionAssumption, FS_Union DEF Callers
<1>2. IsFiniteSet(T)
  BY <1>1, FS_Subset
<1>3. Cardinality(T) \in Nat
  BY <1>2, FS_CardinalityType
<1>4. \A c \in Callers : c \notin T => Cardinality(T \union {c}) = Cardinality(T) + 1
  BY <1>2, FS_AddElement
<1>5. \A c \in T : Cardinality(T \ {c}) = Cardinality(T) - 1
  BY <1>2, FS_RemoveElement
<1>6. QED
  BY <1>2, <1>3, <1>4, <1>5

------------------------------------------------------------------------------

LEMMA InitInv == Init => Inv
<1> SUFFICES ASSUME Init PROVE Inv
  OBVIOUS
<1>1. TypeOK
  <2>1. attempts \in [Endpoints -> SUBSET Callers]
    BY DEF Init
  <2>2. highWaiters \in Seq(High) /\ lowWaiters \in Seq(Low)
    BY DEF Init
  <2>3. active \in Int
    BY DEF Init
  <2>4. shutdownFlag \in BOOLEAN /\ admitted \subseteq Callers
    BY Zenon DEF Init
  <2>5. QED
    BY <2>1, <2>2, <2>3, <2>4 DEF TypeOK
<1>2. Line(highWaiters, High) /\ Line(lowWaiters, Low)
  BY DEF Init, Line
<1>3. Waiters = {}
  BY QueueSetBasics DEF Init, Waiters
<1>4. TicketAccounting
  BY <1>3, FS_EmptySet, AdmissionAssumption DEF Init, TicketAccounting
<1>5. QED
  BY <1>1, <1>2, <1>3, <1>4 DEF Init, Inv, NoIdleTicket

\* A caller gets a free ticket or joins its queue.
LEMMA AcquireInv ==
  ASSUME Inv, NEW c \in Callers, Acquire(c)
  PROVE  Inv'
<1> USE DEF Acquire
<1>1. /\ TypeOK /\ TicketAccounting /\ NoIdleTicket
      /\ Line(highWaiters, High) /\ Line(lowWaiters, Low)
      /\ \A e \in Endpoints : attempts[e] \subseteq admitted
  BY DEF Inv
<1>2. attempts' = attempts /\ shutdownFlag' = shutdownFlag /\ MaxConcurrent \in Nat
  BY AdmissionAssumption
<1>3. CASE HasTicket /\ active' = active + 1 /\ admitted' = admitted \union {c}
           /\ UNCHANGED <<highWaiters, lowWaiters>>
  <2>1. active < MaxConcurrent /\ active \in Int
    BY <1>1, <1>3 DEF HasTicket, MaxAdmissions, TypeOK
  <2>2. Waiters = {} /\ Waiters' = {}
    BY <1>1, <1>3, <2>1 DEF NoIdleTicket, Waiters
  <2>3. Cardinality(admitted') = Cardinality(admitted) + 1
    BY <1>1, <1>3, Inside DEF TypeOK
  <2>4. TypeOK' /\ \A e \in Endpoints : attempts'[e] \subseteq admitted'
    BY <1>1, <1>2, <1>3 DEF TypeOK
  <2>5. TicketAccounting'
    BY <1>1, <1>2, <1>3, <2>1, <2>2, <2>3 DEF TicketAccounting
  <2>6. QED
    BY <1>1, <1>3, <2>2, <2>4, <2>5 DEF Inv, Line, NoIdleTicket
<1>4. CASE ~HasTicket /\ Enqueue(c) /\ UNCHANGED <<active, admitted>>
  <2>1. active = MaxConcurrent
    BY <1>1, <1>2, <1>4 DEF HasTicket, MaxAdmissions, TypeOK, TicketAccounting
  <2>2. c \notin QueueSet(highWaiters) /\ c \notin QueueSet(lowWaiters)
    BY DEF Waiters
  <2>3. /\ Line(highWaiters', High) /\ Line(lowWaiters', Low)
        /\ Waiters' = Waiters \union {c}
    <3>1. CASE c \in High
      <4>1. c \notin Low
        BY <3>1, AdmissionAssumption
      <4>2. highWaiters' = Append(highWaiters, c) /\ lowWaiters' = lowWaiters
        BY <1>4, <3>1, <4>1 DEF Enqueue
      <4>3. QED
        BY <1>1, <2>2, <3>1, <4>2, AppendLine DEF Waiters
    <3>2. CASE c \in Low
      <4>1. c \notin High
        BY <3>2, AdmissionAssumption
      <4>2. lowWaiters' = Append(lowWaiters, c) /\ highWaiters' = highWaiters
        BY <1>4, <3>2, <4>1 DEF Enqueue
      <4>3. QED
        BY <1>1, <2>2, <3>2, <4>2, AppendLine DEF Waiters
    <3>3. QED
      BY <3>1, <3>2 DEF Callers
  <2>4. TypeOK'
    BY <1>1, <1>2, <1>4, <2>3 DEF TypeOK, Line
  <2>5. TicketAccounting'
    BY <1>1, <1>4, <2>3 DEF TicketAccounting
  <2>6. NoIdleTicket'
    BY <1>2, <1>4, <2>1 DEF NoIdleTicket
  <2>7. QED
    BY <1>1, <1>2, <1>4, <2>3, <2>4, <2>5, <2>6 DEF Inv
<1>5. QED
  BY <1>3, <1>4

\* A released ticket passes to a waiter or becomes free.
LEMMA FinishInv ==
  ASSUME Inv, NEW c \in Callers, Finish(c)
  PROVE  Inv'
<1> DEFINE inside == admitted \ {c}
<1>1. /\ TypeOK /\ TicketAccounting /\ NoIdleTicket
      /\ Line(highWaiters, High) /\ Line(lowWaiters, Low)
      /\ \A e \in Endpoints : attempts[e] \subseteq admitted
  BY DEF Inv
<1>2. /\ attempts' = attempts /\ shutdownFlag' = shutdownFlag
      /\ c \in admitted /\ ~Attempting(c) /\ Promote(inside)
      /\ MaxConcurrent \in Nat
  BY AdmissionAssumption DEF Finish
<1>3. \A e \in Endpoints : attempts[e] \subseteq inside
  BY <1>1, <1>2 DEF Attempting
<1>4. inside \subseteq Callers /\ Cardinality(inside) = active - 1 /\ active \in Int
  BY <1>1, <1>2, Inside DEF TypeOK, TicketAccounting
<1>5. QueueSet(highWaiters) \subseteq High /\ QueueSet(lowWaiters) \subseteq Low
  BY <1>1, QueueSetBasics DEF Line
\* What is common to the two cases in which a waiter w is woken.
<1>6. ASSUME NEW w \in Waiters,
             active' = active, admitted' = inside \union {w},
             Waiters' = Waiters \ {w},
             Line(highWaiters', High), Line(lowWaiters', Low)
      PROVE  Inv'
  <2>1. w \in Callers /\ w \notin inside
    BY <1>1, <1>5, <1>6 DEF Callers, Waiters, TicketAccounting
  <2>2. Cardinality(admitted') = active
    BY <1>4, <1>6, <2>1, Inside
  <2>3. TypeOK'
    BY <1>1, <1>2, <1>4, <1>6, <2>1 DEF TypeOK, Line
  <2>4. TicketAccounting'
    BY <1>1, <1>6, <2>2 DEF TicketAccounting
  <2>5. NoIdleTicket'
    BY <1>1, <1>2, <1>6 DEF NoIdleTicket
  <2>6. QED
    BY <1>2, <1>3, <1>6, <2>3, <2>4, <2>5 DEF Inv
<1>7. CASE /\ highWaiters # <<>>
           /\ active' = active
           /\ admitted' = inside \union {Head(highWaiters)}
           /\ highWaiters' = Tail(highWaiters)
           /\ UNCHANGED lowWaiters
  <2>1. /\ Head(highWaiters) \in QueueSet(highWaiters)
        /\ Line(highWaiters', High)
        /\ QueueSet(highWaiters') = QueueSet(highWaiters) \ {Head(highWaiters)}
    BY <1>1, <1>7, TailLine
  <2>2. Head(highWaiters) \notin QueueSet(lowWaiters)
    BY <1>5, <2>1, AdmissionAssumption
  <2>3. Waiters' = Waiters \ {Head(highWaiters)} /\ Head(highWaiters) \in Waiters
    BY <1>7, <2>1, <2>2 DEF Waiters
  <2>4. Line(lowWaiters', Low)
    BY <1>1, <1>7
  <2>5. QED
    BY <1>6, <1>7, <2>1, <2>3, <2>4
<1>8. CASE /\ highWaiters = <<>>
           /\ lowWaiters # <<>>
           /\ active' = active
           /\ admitted' = inside \union {Head(lowWaiters)}
           /\ lowWaiters' = Tail(lowWaiters)
           /\ UNCHANGED highWaiters
  <2>1. /\ Head(lowWaiters) \in QueueSet(lowWaiters)
        /\ Line(lowWaiters', Low)
        /\ QueueSet(lowWaiters') = QueueSet(lowWaiters) \ {Head(lowWaiters)}
    BY <1>1, <1>8, TailLine
  <2>2. Head(lowWaiters) \notin QueueSet(highWaiters)
    BY <1>5, <2>1, AdmissionAssumption
  <2>3. Waiters' = Waiters \ {Head(lowWaiters)} /\ Head(lowWaiters) \in Waiters
    BY <1>8, <2>1, <2>2 DEF Waiters
  <2>4. Line(highWaiters', High)
    BY <1>1, <1>8
  <2>5. QED
    BY <1>6, <1>8, <2>1, <2>3, <2>4
<1>9. CASE /\ highWaiters = <<>>
           /\ lowWaiters = <<>>
           /\ active' = active - 1
           /\ admitted' = inside
           /\ UNCHANGED <<highWaiters, lowWaiters>>
  <2>1. Waiters' = {}
    BY <1>9, QueueSetBasics DEF Waiters
  <2>2. TypeOK'
    BY <1>1, <1>2, <1>4, <1>9 DEF TypeOK
  <2>3. TicketAccounting'
    BY <1>1, <1>2, <1>4, <1>9, <2>1 DEF TicketAccounting
  <2>4. QED
    BY <1>1, <1>2, <1>3, <1>9, <2>1, <2>2, <2>3 DEF Inv, NoIdleTicket
<1>10. QED
  BY <1>2, <1>7, <1>8, <1>9 DEF Promote

\* Attempts move no ticket, and only a ticket holder begins one.
LEMMA AttemptInv ==
  ASSUME Inv, NEW c \in Callers, NEW e \in Endpoints, BeginAttempt(c, e) \/ EndAttempt(c, e)
  PROVE  Inv'
<1>1. /\ UNCHANGED <<active, highWaiters, lowWaiters, shutdownFlag, admitted>>
      /\ attempts' \in [Endpoints -> SUBSET Callers]
      /\ \A f \in Endpoints : attempts'[f] \subseteq admitted
  BY DEF Inv, TypeOK, BeginAttempt, EndAttempt
<1>2. QED
  BY <1>1 DEF Inv, TypeOK, TicketAccounting, NoIdleTicket, Waiters, Line

LEMMA ShutdownInv ==
  ASSUME Inv, Shutdown
  PROVE  Inv'
<1>1. /\ highWaiters' = <<>> /\ lowWaiters' = <<>> /\ shutdownFlag' = TRUE
      /\ UNCHANGED <<active, admitted, attempts>>
  BY DEF Shutdown
<1>2. Waiters' = {}
  BY <1>1, QueueSetBasics DEF Waiters
<1>3. Line(highWaiters', High) /\ Line(lowWaiters', Low)
  BY <1>1 DEF Line
<1>4. TypeOK'
  BY <1>1 DEF Inv, TypeOK
<1>5. TicketAccounting'
  BY <1>1, <1>2 DEF Inv, TicketAccounting
<1>6. QED
  BY <1>1, <1>2, <1>3, <1>4, <1>5 DEF Inv, NoIdleTicket

LEMMA NextInv == Inv /\ [Next]_vars => Inv'
<1> SUFFICES ASSUME Inv, [Next]_vars PROVE Inv'
  OBVIOUS
<1>1. CASE UNCHANGED vars
  BY <1>1 DEF vars, Inv, TypeOK, TicketAccounting, NoIdleTicket, Waiters, Line
<1>2. CASE Shutdown
  BY <1>2, ShutdownInv
<1>3. ASSUME NEW c \in Callers, Acquire(c)
      PROVE  Inv'
  BY <1>3, AcquireInv
<1>4. ASSUME NEW c \in Callers, Finish(c)
      PROVE  Inv'
  BY <1>4, FinishInv
<1>5. ASSUME NEW c \in Callers, NEW e \in Endpoints, BeginAttempt(c, e) \/ EndAttempt(c, e)
      PROVE  Inv'
  BY <1>5, AttemptInv
<1>6. QED
  BY <1>1, <1>2, <1>3, <1>4, <1>5 DEF Next

------------------------------------------------------------------------------

\* The slots of an endpoint are held by ticket holders only, and a caller
\* that is about to attempt holds a ticket and no slot.
LEMMA InvNeverQueues == Inv => NeverQueues
<1> SUFFICES ASSUME Inv, NEW c \in admitted, ~Attempting(c), NEW e \in Endpoints
             PROVE  Cardinality(attempts[e]) < MaxConcurrent
  BY DEF NeverQueues
<1>1. admitted \subseteq Callers /\ active = Cardinality(admitted) /\ active <= MaxConcurrent
  BY DEF Inv, TypeOK, TicketAccounting
<1>2. attempts[e] \subseteq admitted \ {c}
  BY DEF Inv, Attempting
<1>3. /\ IsFiniteSet(admitted \ {c})
      /\ Cardinality(admitted \ {c}) = Cardinality(admitted) - 1
      /\ Cardinality(admitted) \in Nat
  BY <1>1, Inside
<1>4. Cardinality(attempts[e]) <= Cardinality(admitted \ {c}) /\ IsFiniteSet(attempts[e])
  BY <1>2, <1>3, FS_Subset
<1>5. Cardinality(attempts[e]) \in Nat
  BY <1>4, FS_CardinalityType
<1>6. QED
  BY <1>1, <1>3, <1>4, <1>5, AdmissionAssumption

\* Tickets are neither lost nor invented nor idle while a caller waits, and
\* the provider gate's own queue is never used by a request that holds one.
THEOREM AdmissionSafety ==
  Spec => [](TypeOK /\ TicketAccounting /\ NoIdleTicket /\ NeverQueues)
<1>1. Inv => TypeOK /\ TicketAccounting /\ NoIdleTicket /\ NeverQueues
  BY InvNeverQueues DEF Inv
<1>2. QED
  BY InitInv, NextInv, <1>1, PTL DEF Spec

\* No discovery request gets a ticket while an evaluation that was waiting is
\* left waiting: a free ticket means an empty queue, and a returned one goes to
\* the evaluations first.
THEOREM EvaluationsFirst == Spec => HighFirst
<1> DEFINE Step ==
      \A l \in Low : l \notin admitted /\ l \in admitted' =>
        \A h \in High : ~(h \in QueueSet(highWaiters) /\ h \in QueueSet(highWaiters'))
<1>1. ASSUME Inv, [Next]_vars
      PROVE  Step
  <2> SUFFICES ASSUME NEW l \in Low, l \notin admitted, l \in admitted'
               PROVE  QueueSet(highWaiters) = {}
    BY <1>1
  <2>1. CASE \E c \in Callers : Acquire(c)
    <3>1. HasTicket
      BY <2>1 DEF Acquire
    <3>2. active # MaxConcurrent
      BY <1>1, <3>1, AdmissionAssumption DEF HasTicket, MaxAdmissions, Inv, TypeOK
    <3>3. QED
      BY <1>1, <3>2 DEF Inv, NoIdleTicket, Waiters
  <2>2. CASE \E c \in Callers : Finish(c)
    <3>1. PICK c \in Callers : Promote(admitted \ {c})
      BY <2>2 DEF Finish
    <3>2. highWaiters # <<>> => Head(highWaiters) \in High
      BY <1>1, TailLine DEF Inv
    <3>3. highWaiters = <<>>
      BY <3>1, <3>2, AdmissionAssumption DEF Promote
    <3>4. QED
      BY <3>3, QueueSetBasics
  <2>3. CASE admitted' = admitted
    BY <2>3
  <2>4. QED
    BY <1>1, <2>1, <2>2, <2>3 DEF Next, vars, BeginAttempt, EndAttempt, Shutdown
<1>2. Inv /\ [Next]_vars => [Step]_vars
  BY <1>1
<1>3. QED
  BY InitInv, NextInv, <1>2, PTL DEF Spec, HighFirst

==============================================================================
