-------------------------- MODULE EngineProcessProofs --------------------------
(***************************************************************************)
(* For every set of tokens and every positive number of slots: the         *)
(* scheduler never runs more dispatches than it has slots, never leaves a  *)
(* slot idle while a token waits, and never holds two signals of a token   *)
(* or one of a token that is not watched.  And for every set of            *)
(* transactions and fetch limits it keeps to that whatever discovery and a *)
(* shutdown do to it, nothing starts a request once the provider layer is  *)
(* shut down, and only tokens that were created are watched.               *)
(***************************************************************************)
EXTENDS EngineProcess, Sums

------------------------------------------------------------------------------
\* The scheduler on its own.

\* The queue holds each token once, and only watched tokens.
Queue(q, w) ==
  /\ q \in Seq(Mints)
  /\ \A i, j \in 1..Len(q) : q[i] = q[j] => i = j
  /\ \A i \in 1..Len(q) : q[i] \in w

\* The inductive invariant: the type, the two safety properties, and that
\* stopping empties the queue (without it a stopped scheduler could be left
\* with a waiting token and an idle slot).
Inv ==
  /\ TypeOK
  /\ Backpressure
  /\ WorkConserving
  /\ PendingSignals

------------------------------------------------------------------------------

\* Deleting a token from a queue without duplicates leaves such a queue, in
\* which the token no longer occurs.
LEMMA WithoutQueue ==
  ASSUME NEW q, NEW m, NEW w, Queue(q, w)
  PROVE  /\ Queue(Without(q, m), w \ {m})
         /\ Without(q, m) # <<>> => q # <<>>
<1> DEFINE k == CHOOSE i \in 1..Len(q) : q[i] = m
           r == [i \in 1..Len(q)-1 |-> IF i < k THEN q[i] ELSE q[i+1]]
<1>1. q \in Seq(Mints) /\ Len(q) \in Nat
  BY DEF Queue
<1>2. CASE \E i \in 1..Len(q) : q[i] = m
  <2>1. k \in 1..Len(q) /\ q[k] = m
    BY <1>2
  <2>2. Without(q, m) = r
    BY <1>2 DEF Without
  <2>3. Len(q) - 1 \in Nat
    BY <1>1, <2>1
  <2>4. \A i \in 1..Len(q)-1 :
          /\ i \in 1..Len(q) /\ i + 1 \in 1..Len(q)
          /\ q[i] \in Mints /\ q[i+1] \in Mints
    BY <1>1
  <2>5. r \in Seq(Mints) /\ Len(r) = Len(q) - 1
    <3>1. r \in [1..Len(q)-1 -> Mints]
      BY <2>4
    <3>2. QED
      BY <2>3, <3>1
  <2>6. \A i \in 1..Len(r) : r[i] = IF i < k THEN q[i] ELSE q[i+1]
    BY <2>5
  <2>7. \A i, j \in 1..Len(r) : r[i] = r[j] => i = j
    <3> SUFFICES ASSUME NEW i \in 1..Len(r), NEW j \in 1..Len(r), r[i] = r[j]
                 PROVE  i = j
      OBVIOUS
    <3>1. \A a, b \in 1..Len(q) : q[a] = q[b] => a = b
      BY DEF Queue
    <3>2. i \in 1..Len(q)-1 /\ j \in 1..Len(q)-1
      BY <2>5
    <3>3. QED
      BY <1>1, <2>1, <2>4, <2>6, <3>1, <3>2
  <2>8. \A i \in 1..Len(r) : r[i] \in w \ {m}
    <3> SUFFICES ASSUME NEW i \in 1..Len(r)
                 PROVE  r[i] \in w \ {m}
      OBVIOUS
    <3>1. i \in 1..Len(q)-1
      BY <2>5
    <3>2. \A a, b \in 1..Len(q) : q[a] = q[b] => a = b
      BY DEF Queue
    <3>3. \A a \in 1..Len(q) : q[a] \in w
      BY DEF Queue
    <3>4. QED
      BY <1>1, <2>1, <2>4, <2>6, <3>1, <3>2, <3>3
  <2>9. q # <<>>
    BY <1>2
  <2>10. QED
    BY <2>2, <2>5, <2>7, <2>8, <2>9 DEF Queue
<1>3. CASE ~ \E i \in 1..Len(q) : q[i] = m
  BY <1>3 DEF Without, Queue
<1>4. QED
  BY <1>2, <1>3

\* The head of a queue is a token, and its tail is a queue without the head.
LEMMA TailQueue ==
  ASSUME NEW q, NEW w, Queue(q, w), q # <<>>
  PROVE  /\ Head(q) \in Mints
         /\ Queue(Tail(q), w)
<1>1. /\ q \in Seq(Mints)
      /\ Head(q) = q[1]
      /\ Len(q) \in Nat \ {0}
      /\ Len(Tail(q)) = Len(q) - 1
      /\ Tail(q) \in Seq(Mints)
      /\ \A i \in 1..Len(Tail(q)) : Tail(q)[i] = q[i+1]
  BY DEF Queue
<1>2. \A i, j \in 1..Len(Tail(q)) : Tail(q)[i] = Tail(q)[j] => i = j
  BY <1>1 DEF Queue
<1>3. \A i \in 1..Len(Tail(q)) : Tail(q)[i] \in w
  BY <1>1 DEF Queue
<1>4. QED
  BY <1>1, <1>2, <1>3 DEF Queue

\* A dispatch that finds a queue leaves one, and counts itself.
LEMMA DispatchQueue ==
  ASSUME NEW m \in Mints, NEW byMint \in [Mints -> Nat], NEW w \in SUBSET Mints,
         NEW q, Queue(q, w), Dispatch(m, byMint, w, q)
  PROVE  /\ activeByMint' \in [Mints -> Nat]
         /\ watched' \subseteq Mints
         /\ Queue(pending', watched')
         /\ pending' # <<>> => q # <<>>
<1>1. activeByMint' \in [Mints -> Nat] /\ watched' \subseteq Mints
  BY DEF Dispatch, Counted
<1>2. CASE watched' = w /\ pending' = q
  BY <1>1, <1>2
<1>3. CASE watched' = w \ {m} /\ pending' = IF m \in w THEN Without(q, m) ELSE q
  <2>1. CASE m \in w
    BY <1>1, <1>3, <2>1, WithoutQueue
  <2>2. CASE m \notin w
    <3>1. watched' = w /\ pending' = q
      BY <1>3, <2>2
    <3>2. QED
      BY <1>1, <3>1
  <2>3. QED
    BY <2>1, <2>2
<1>4. QED
  BY <1>1, <1>2, <1>3 DEF Dispatch

------------------------------------------------------------------------------

\* What PendingSignals and the type say of the queue, as one fact.
LEMMA InvQueue == Inv => Queue(pending, watched)
BY DEF Inv, TypeOK, PendingSignals, Waiting, Queue

\* The converse, for the next state.
LEMMA QueueInv ==
  ASSUME active' \in Int,
         active' <= MaxConcurrent,
         activeByMint' \in [Mints -> Nat],
         stopped' \in BOOLEAN,
         watched' \subseteq Mints,
         aged' \subseteq Mints,
         Queue(pending', watched'),
         pending' # <<>> => active' = MaxConcurrent /\ ~stopped'
  PROVE  Inv'
BY DEF Inv, TypeOK, Backpressure, WorkConserving, PendingSignals, Waiting, Queue

\* A requested tick takes a free slot or joins the queue.
LEMMA RequestTickInv ==
  ASSUME Inv, NEW m \in Mints, NEW w \in SUBSET Mints, watched \subseteq w,
         m \in w, RequestTick(m, w), UNCHANGED <<stopped, aged>>
  PROVE  Inv'
<1>1. Queue(pending, w)
  BY InvQueue DEF Queue
<1>2. /\ active \in Int /\ active <= MaxConcurrent /\ MaxConcurrent \in Nat \ {0}
      /\ activeByMint \in [Mints -> Nat]
      /\ stopped' \in BOOLEAN /\ aged' \subseteq Mints
  BY SchedulerAssumption DEF Inv, TypeOK, Backpressure
<1>3. CASE /\ ~stopped
           /\ HasSlot(active)
           /\ active' = active + 1
           /\ Dispatch(m, activeByMint, w, pending)
  <2>1. pending = <<>>
    BY <1>2, <1>3 DEF Inv, WorkConserving, HasSlot
  <2>2. /\ activeByMint' \in [Mints -> Nat]
        /\ watched' \subseteq Mints
        /\ Queue(pending', watched')
        /\ pending' = <<>>
    BY <1>1, <1>2, <1>3, <2>1, DispatchQueue
  <2>3. active' \in Int /\ active' <= MaxConcurrent
    BY <1>2, <1>3 DEF HasSlot
  <2>4. QED
    BY <1>2, <2>2, <2>3, QueueInv
<1>4. CASE /\ ~stopped
           /\ ~HasSlot(active)
           /\ pending' = Enqueued(m)
           /\ watched' = w
           /\ UNCHANGED <<active, activeByMint>>
  <2>1. Queue(pending', watched')
    <3>1. CASE m \in Waiting
      <4>1. pending' = pending /\ watched' = w
        BY <1>4, <3>1 DEF Enqueued
      <4>2. QED
        BY <1>1, <4>1
    <3>2. CASE m \notin Waiting
      <4>1. pending' = Append(pending, m) /\ watched' = w
        BY <1>4, <3>2 DEF Enqueued
      <4>2. \A i \in 1..Len(pending) : pending[i] # m
        BY <3>2 DEF Waiting
      <4>3. Queue(Append(pending, m), w)
        BY <1>1, <4>2 DEF Queue
      <4>4. QED
        BY <4>1, <4>3
    <3>3. QED
      BY <3>1, <3>2
  <2>2. active' = MaxConcurrent /\ ~stopped'
    BY <1>2, <1>4 DEF HasSlot
  <2>3. /\ active' \in Int /\ active' <= MaxConcurrent
        /\ activeByMint' \in [Mints -> Nat]
        /\ watched' \subseteq Mints
    BY <1>2, <1>4
  <2>4. QED
    BY <1>2, <2>1, <2>2, <2>3, QueueInv
<1>5. QED
  BY <1>3, <1>4 DEF RequestTick

\* A dispatch that settles frees a slot and hands it to the queue's head.
LEMMA SettleInv ==
  ASSUME Inv, NEW m \in Mints, Settle(m)
  PROVE  Inv'
<1> DEFINE byMint == [activeByMint EXCEPT ![m] = @ - 1]
<1>1. Queue(pending, watched)
  BY InvQueue
<1>2. /\ active \in Int /\ active <= MaxConcurrent /\ MaxConcurrent \in Nat \ {0}
      /\ activeByMint \in [Mints -> Nat] /\ activeByMint[m] > 0
      /\ watched \in SUBSET Mints
      /\ stopped' \in BOOLEAN /\ aged' \subseteq Mints
  BY SchedulerAssumption DEF Inv, TypeOK, Backpressure, Settle
<1>3. byMint \in [Mints -> Nat]
  BY <1>2
<1>4. CASE /\ stopped \/ ~HasSlot(active - 1) \/ pending = <<>>
           /\ active' = active - 1
           /\ activeByMint' = byMint
           /\ UNCHANGED <<pending, watched>>
  <2>1. pending = <<>>
    BY <1>2, <1>4 DEF Inv, WorkConserving, HasSlot
  <2>2. active' \in Int /\ active' <= MaxConcurrent
    BY <1>2, <1>4
  <2>3. Queue(pending', watched')
    BY <1>1, <1>4
  <2>4. QED
    BY <1>2, <1>3, <1>4, <2>1, <2>2, <2>3, QueueInv
<1>5. CASE /\ ~stopped
           /\ HasSlot(active - 1)
           /\ pending # <<>>
           /\ active' = active - 1 + 1
           /\ Dispatch(Head(pending), byMint, watched, Tail(pending))
  <2>1. Head(pending) \in Mints /\ Queue(Tail(pending), watched)
    BY <1>1, <1>5, TailQueue
  <2>2. /\ activeByMint' \in [Mints -> Nat]
        /\ watched' \subseteq Mints
        /\ Queue(pending', watched')
    BY <1>2, <1>3, <1>5, <2>1, DispatchQueue
  <2>3. active = MaxConcurrent
    BY <1>5 DEF Inv, WorkConserving
  <2>4. active' = MaxConcurrent /\ ~stopped'
    BY <1>2, <1>5, <2>3 DEF Settle
  <2>5. QED
    BY <1>2, <2>2, <2>4, QueueInv
<1>6. QED
  BY <1>4, <1>5 DEF Settle, PromoteNext

------------------------------------------------------------------------------

\* Every step keeps the invariant.
LEMMA NextInv == Inv /\ [Next]_vars => Inv'
<1> SUFFICES ASSUME Inv, [Next]_vars PROVE Inv'
  OBVIOUS
<1> watched \subseteq Mints
  BY DEF Inv, TypeOK
<1>1. ASSUME NEW m \in Mints, WatchToken(m) PROVE Inv'
  <2>1. /\ watched \union {m} \in SUBSET Mints
        /\ RequestTick(m, watched \union {m})
        /\ UNCHANGED <<stopped, aged>>
    BY <1>1 DEF WatchToken
  <2>2. QED
    BY <2>1, RequestTickInv
<1>2. ASSUME NEW m \in Mints, TimerTick(m) PROVE Inv'
  BY <1>2, RequestTickInv DEF TimerTick
<1>3. ASSUME NEW m \in Mints, Settle(m) PROVE Inv'
  BY <1>3, SettleInv
<1>4. ASSUME NEW m \in Mints, Age(m) PROVE Inv'
  BY <1>4 DEF Age, Inv, TypeOK, Backpressure, WorkConserving, PendingSignals, Waiting
<1>5. CASE StopOrchestrator
  BY <1>5 DEF StopOrchestrator, Inv, TypeOK, Backpressure, WorkConserving, PendingSignals, Waiting
<1>6. CASE UNCHANGED vars
  BY <1>6 DEF vars, Inv, TypeOK, Backpressure, WorkConserving, PendingSignals, Waiting
<1>7. QED
  BY <1>1, <1>2, <1>3, <1>4, <1>5, <1>6 DEF Next

LEMMA SchedulerInit == Init => Inv
<1> SUFFICES ASSUME Init PROVE Inv
  OBVIOUS
<1>1. TypeOK
  <2>1. activeByMint \in [Mints -> Nat]
    BY DEF Init
  <2>2. pending \in Seq(Mints)
    <3>1. pending = <<>>
      BY DEF Init
    <3>2. QED
      BY <3>1
  <2>3. active \in Int
    BY DEF Init
  <2>4. stopped \in BOOLEAN /\ watched \subseteq Mints /\ aged \subseteq Mints
    BY Zenon DEF Init
  <2>5. QED
    BY <2>1, <2>2, <2>3, <2>4 DEF TypeOK
<1>2. Backpressure /\ WorkConserving
  BY SchedulerAssumption DEF Init, Backpressure, WorkConserving
<1>3. Len(pending) = 0
  BY DEF Init
<1>4. PendingSignals
  BY <1>3 DEF PendingSignals, Waiting
<1>5. QED
  BY <1>1, <1>2, <1>4 DEF Inv

\* Type correctness, the concurrency bound, work conservation and the shape
\* of the queue hold in every reachable state, for any number of slots.
THEOREM SchedulerSafety ==
  Spec => [](TypeOK /\ Backpressure /\ WorkConserving /\ PendingSignals)
<1>1. Inv => TypeOK /\ Backpressure /\ WorkConserving /\ PendingSignals
  BY DEF Inv
<1>2. QED
  BY <1>1, SchedulerInit, NextInv, PTL DEF Spec

------------------------------------------------------------------------------

\* Counting, which is inductive only together with the finiteness of what is
\* counted: there may be infinitely many tokens.
CountInv == IsFiniteSet(Dispatches(activeByMint)) /\ SlotAccounting

\* A dispatch more of a token is one pair more.
LEMMA OneMore ==
  ASSUME NEW byMint \in [Mints -> Nat], NEW m \in Mints, IsFiniteSet(Dispatches(byMint))
  PROVE  /\ IsFiniteSet(Dispatches(Counted(byMint, m)))
         /\ Cardinality(Dispatches(Counted(byMint, m))) = Cardinality(Dispatches(byMint)) + 1
<1> DEFINE d == <<m, byMint[m] + 1>>
<1>1. d \notin Dispatches(byMint)
  BY DEF Dispatches
<1>2. Dispatches(Counted(byMint, m)) = Dispatches(byMint) \union {d}
  BY DEF Dispatches, Counted
<1>3. QED
  BY <1>1, <1>2, FS_AddElement

\* A dispatch less is one pair less.
LEMMA OneLess ==
  ASSUME NEW less \in [Mints -> Nat], NEW m \in Mints, NEW byMint, byMint = Counted(less, m),
         IsFiniteSet(Dispatches(byMint))
  PROVE  /\ IsFiniteSet(Dispatches(less))
         /\ Cardinality(Dispatches(less)) = Cardinality(Dispatches(byMint)) - 1
<1> DEFINE d == <<m, less[m] + 1>>
<1>1. Dispatches(byMint) = Dispatches(less) \union {d} /\ d \notin Dispatches(less)
  BY DEF Dispatches, Counted
<1>2. d \in Dispatches(byMint) /\ Dispatches(less) = Dispatches(byMint) \ {d}
  BY <1>1
<1> HIDE DEF d
<1>3. QED
  BY <1>2, FS_RemoveElement

\* A dispatch from the counts `byMint`, of which there are n.
LEMMA DispatchCounts ==
  ASSUME NEW byMint \in [Mints -> Nat], NEW m \in Mints, NEW w, NEW q, NEW n \in Int,
         IsFiniteSet(Dispatches(byMint)), n = Cardinality(Dispatches(byMint)),
         active' = n + 1, Dispatch(m, byMint, w, q)
  PROVE  CountInv'
BY OneMore DEF Dispatch, CountInv, SlotAccounting

\* Every step keeps the count.
LEMMA CountStep == Inv /\ CountInv /\ [Next]_vars => CountInv'
<1> SUFFICES ASSUME Inv, CountInv, [Next]_vars PROVE CountInv'
  OBVIOUS
<1>1. /\ activeByMint \in [Mints -> Nat] /\ active \in Int
      /\ IsFiniteSet(Dispatches(activeByMint)) /\ active = Cardinality(Dispatches(activeByMint))
  BY DEF Inv, TypeOK, CountInv, SlotAccounting
<1>2. CASE UNCHANGED <<active, activeByMint>>
  BY <1>1, <1>2 DEF CountInv, SlotAccounting
<1>3. ASSUME NEW m \in Mints, NEW w, RequestTick(m, w) PROVE CountInv'
  <2>1. CASE active' = active + 1 /\ Dispatch(m, activeByMint, w, pending)
    BY <1>1, <2>1, DispatchCounts
  <2>2. QED
    BY <1>2, <1>3, <2>1 DEF RequestTick
<1>4. ASSUME NEW m \in Mints, Settle(m) PROVE CountInv'
  <2> DEFINE less == [activeByMint EXCEPT ![m] = @ - 1]
  <2>1. /\ less \in [Mints -> Nat] /\ IsFiniteSet(Dispatches(less))
        /\ active - 1 = Cardinality(Dispatches(less)) /\ active - 1 \in Int
    <3>1. activeByMint[m] \in Nat /\ activeByMint[m] > 0
      BY <1>1, <1>4 DEF Settle
    <3>2. less \in [Mints -> Nat]
      BY <1>1, <3>1
    <3>3. \A n \in Mints : activeByMint[n] = IF n = m THEN less[n] + 1 ELSE less[n]
      BY <1>1, <3>1
    <3> HIDE DEF less
    <3>4. activeByMint = Counted(less, m)
      BY <1>1, <3>2, <3>3 DEF Counted
    <3>5. QED
      BY <1>1, <3>2, <3>4, OneLess
  <2>2. CASE active' = active - 1 /\ activeByMint' = less
    <3> HIDE DEF less
    <3>1. QED
      BY <2>1, <2>2 DEF CountInv, SlotAccounting
  <2>3. CASE /\ pending # <<>> /\ active' = active - 1 + 1
             /\ Dispatch(Head(pending), less, watched, Tail(pending))
    <3>1. Head(pending) \in Mints
      BY <2>3, InvQueue, TailQueue
    <3> HIDE DEF less
    <3>2. QED
      BY <2>1, <2>3, <3>1, DispatchCounts
  <2>4. QED
    BY <1>4, <2>2, <2>3 DEF Settle, PromoteNext
<1>5. QED
  BY <1>2, <1>3, <1>4 DEF Next, vars, WatchToken, TimerTick, Age, StopOrchestrator

LEMMA CountInit == Init => CountInv
<1> SUFFICES ASSUME Init PROVE CountInv
  OBVIOUS
<1>1. Dispatches(activeByMint) = {} /\ active = 0
  BY DEF Init, Dispatches
<1>2. QED
  BY <1>1, FS_EmptySet DEF CountInv, SlotAccounting

\* The global counter and the counters of the tokens agree in every state, for
\* any set of tokens and any number of slots: what one statement adds the
\* other adds too, in dispatch() and in its finally handler, promotions
\* included.
THEOREM SlotsAccounted == Spec => []SlotAccounting
<1>1. CountInv => SlotAccounting
  BY DEF CountInv
<1>2. QED
  BY <1>1, SchedulerInit, NextInv, CountInit, CountStep, PTL DEF Spec

------------------------------------------------------------------------------

\* Deleting a token from a queue brings in no other token.
LEMMA WithoutKeeps ==
  ASSUME NEW q, NEW w, Queue(q, w), NEW h
  PROVE  Queue(Without(q, h), {q[i] : i \in 1..Len(q)})
<1> DEFINE own == {q[i] : i \in 1..Len(q)}
<1>1. Queue(q, own)
  BY DEF Queue
<1>2. Queue(Without(q, h), own \ {h})
  BY <1>1, WithoutQueue
<1>3. QED
  BY <1>2 DEF Queue

\* What a promotion leaves in line was behind the token it dispatches.
LEMMA PromotedFirst ==
  ASSUME Inv, pending # <<>>, NEW byMint,
         Dispatch(Head(pending), byMint, watched, Tail(pending)),
         NEW m, \E i \in 1..Len(pending') : pending'[i] = m
  PROVE  Ahead(Head(pending), m)
<1>1. Queue(pending, watched)
  BY InvQueue
<1> DEFINE q == Tail(pending)
<1>2. Queue(q, watched)
  BY <1>1, TailQueue
<1>3. pending' = q \/ pending' = Without(q, Head(pending))
  BY DEF Dispatch
<1>4. Queue(pending', {q[i] : i \in 1..Len(q)})
  <2>1. CASE pending' = q
    BY <1>2, <2>1 DEF Queue
  <2>2. CASE pending' = Without(q, Head(pending))
    <3>1. Queue(Without(q, Head(pending)), {q[i] : i \in 1..Len(q)})
      <4> HIDE DEF q
      <4>1. QED
        BY <1>2, WithoutKeeps
    <3>2. QED
      BY <2>2, <3>1
  <2>3. QED
    BY <1>3, <2>1, <2>2
<1>5. PICK i \in 1..Len(q) : q[i] = m
  BY <1>4 DEF Queue
<1>6. /\ Len(pending) \in Nat \ {0}
      /\ Head(pending) = pending[1]
      /\ Len(Tail(pending)) = Len(pending) - 1
      /\ Tail(pending)[i] = pending[i+1]
  BY <1>1 DEF Queue
<1>7. /\ 1 \in 1..Len(pending) /\ i + 1 \in 1..Len(pending)
      /\ 1 < i + 1 /\ pending[i+1] = m
  BY <1>5, <1>6
<1>8. QED
  BY <1>6, <1>7 DEF Ahead

\* No step dispatches a token past one that goes on waiting.
LEMMA StepInOrder ==
  ASSUME Inv, [Next]_vars, NEW m \in Mints, NEW n \in Mints,
         m \in Waiting, \E i \in 1..Len(pending') : pending'[i] = m,
         activeByMint'[n] > activeByMint[n]
  PROVE  Ahead(n, m)
<1>1. pending # <<>>
  BY DEF Waiting
<1>2. activeByMint \in [Mints -> Nat] /\ ~HasSlot(active)
  BY <1>1 DEF Inv, TypeOK, WorkConserving, HasSlot
<1>3. activeByMint' # activeByMint
  BY <1>2
<1>4. ASSUME NEW k \in Mints, WatchToken(k) \/ TimerTick(k) PROVE FALSE
  BY <1>2, <1>3, <1>4 DEF WatchToken, TimerTick, RequestTick
<1>5. ASSUME NEW k \in Mints, Settle(k) PROVE Ahead(n, m)
  <2> DEFINE byMint == [activeByMint EXCEPT ![k] = @ - 1]
  <2>1. \A x \in Mints : byMint[x] \in Int /\ byMint[x] <= activeByMint[x]
    BY <1>2
  <2>2. activeByMint' # byMint
    BY <2>1, <1>2
  <2>3. Dispatch(Head(pending), byMint, watched, Tail(pending))
    BY <1>5, <2>2 DEF Settle, PromoteNext
  <2>4. activeByMint' = [byMint EXCEPT ![Head(pending)] = @ + 1]
    BY <2>3 DEF Dispatch, Counted
  <2>5. n = Head(pending)
    BY <2>1, <2>4, <1>2
  <2>6. QED
    BY <1>1, <2>3, <2>5, PromotedFirst
<1>6. CASE StopOrchestrator \/ (\E k \in Mints : Age(k)) \/ UNCHANGED vars
  BY <1>3, <1>6 DEF StopOrchestrator, Age, vars
<1>7. QED
  BY <1>4, <1>5, <1>6 DEF Next

\* A token that waits is passed only by tokens that waited longer, for any
\* number of slots (evaluationScheduler.ts: promoteNext takes the first entry
\* of the pending map, and a tick finds a free slot only if nobody waits).
THEOREM ServedInOrder == Spec => NoBarging
<1> DEFINE A == \A m, n \in Mints :
                  (/\ m \in Waiting
                   /\ \E i \in 1..Len(pending') : pending'[i] = m
                   /\ activeByMint'[n] > activeByMint[n]) => Ahead(n, m)
<1>1. Inv /\ [Next]_vars => A
  BY StepInOrder
<1>2. Inv /\ [Next]_vars => [A]_vars
  BY <1>1
<1>3. Spec => [][A]_vars
  BY <1>2, SchedulerInit, NextInv, PTL DEF Spec
<1>4. QED
  BY <1>3 DEF NoBarging

------------------------------------------------------------------------------
\* The process around it.

\* Mints are the tokens that discovery can report.
Reportable == \A f \in Fetchable : Detected[f] \in Mints \union {Nobody}

\* What a shutdown has stopped when step s is under way.
HasStopped(s) ==
  /\ s # "running" => stopped /\ watched = {} /\ pending = <<>> /\ "raydium" \in deaf
  /\ s \notin {"running", "stop_raydium"} => "pumpfun" \in deaf

ProcessInv ==
  /\ Inv
  /\ step \in {Steps[k] : k \in DOMAIN Steps}
  /\ HasStopped(step)

------------------------------------------------------------------------------

\* A step is found at its place.
LEMMA StepPlace ==
  /\ DOMAIN Steps = 1..10
  /\ \A k \in 1..10 : StepNumber(Steps[k]) = k
<1>1. DOMAIN Steps = 1..10
  BY DEF Steps
<1>2. \A k, l \in 1..10 : Steps[k] = Steps[l] => k = l
  BY DEF Steps
<1>3. ASSUME NEW k \in 1..10 PROVE StepNumber(Steps[k]) = k
  BY <1>1, <1>2 DEF StepNumber
<1>4. QED
  BY <1>1, <1>3

\* Whatever the process does, the scheduler takes a step of its own or none.
LEMMA ProcessStepsSchedule ==
  ASSUME Reportable, [ProcessNext]_processVars PROVE [Next]_vars
<1>1. CASE UNCHANGED processVars
  BY <1>1 DEF processVars, vars
<1>2. ASSUME NEW m \in Mints, TimerFires(m) \/ EvaluationSettles(m) \/ TokenAges(m) PROVE Next
  BY <1>2 DEF TimerFires, EvaluationSettles, TokenAges, Next
<1>3. ASSUME NEW f \in Fetchable, HandleLogs(f[1], f[2]) \/ FetchFails(f[1], f[2]) PROVE UNCHANGED vars
  BY <1>3 DEF HandleLogs, FetchFails
<1>4. ASSUME NEW f \in Fetchable, FetchReturns(f[1], f[2]) PROVE [Next]_vars
  <2>1. f = <<f[1], f[2]>>
    BY DEF Fetchable
  <2>2. Detected[<<f[1], f[2]>>] \in Mints \union {Nobody}
    BY <2>1 DEF Reportable
  <2>3. QED
    BY <1>4, <2>2 DEF FetchReturns, Next
<1>5. ASSUME NEW s \in Sources, WindowElapses(s) PROVE UNCHANGED vars
  BY <1>5 DEF WindowElapses
<1>6. CASE BeginShutdown
  BY <1>6 DEF BeginShutdown, Next
<1>7. CASE StepEnds \/ Unsubscribed \/ StepTimesOut
  BY <1>7 DEF StepEnds, Unsubscribed, StepTimesOut, MoveOn
<1>8. QED
  BY <1>1, <1>2, <1>3, <1>4, <1>5, <1>6, <1>7 DEF ProcessNext

\* A scheduler that has stopped with an empty queue stays as it is, and can
\* only lose dispatches.
LEMMA StoppedSchedule ==
  ASSUME Inv, stopped, watched = {}, pending = <<>>, [Next]_vars
  PROVE  /\ stopped' /\ watched' = {} /\ pending' = <<>>
         /\ \A m \in Mints : activeByMint'[m] <= activeByMint[m]
<1>1. activeByMint \in [Mints -> Nat]
  BY DEF Inv, TypeOK
<1>2. CASE UNCHANGED vars
  BY <1>1, <1>2 DEF vars
<1>3. ASSUME NEW m \in Mints, Settle(m)
      PROVE  /\ stopped' /\ watched' = {} /\ pending' = <<>>
             /\ \A n \in Mints : activeByMint'[n] <= activeByMint[n]
  <2>1. /\ activeByMint' = [activeByMint EXCEPT ![m] = @ - 1]
        /\ UNCHANGED <<pending, watched, stopped>>
    BY <1>3 DEF Settle, PromoteNext
  <2>2. QED
    BY <1>1, <2>1
<1>4. ASSUME NEW m \in Mints, Age(m)
      PROVE  /\ stopped' /\ watched' = {} /\ pending' = <<>>
             /\ \A n \in Mints : activeByMint'[n] <= activeByMint[n]
  BY <1>1, <1>4 DEF Age
<1>5. ASSUME NEW m \in Mints PROVE ~WatchToken(m) /\ ~TimerTick(m)
  BY DEF WatchToken, TimerTick
<1>6. ~StopOrchestrator
  BY DEF StopOrchestrator
<1>7. QED
  BY <1>1, <1>2, <1>3, <1>4, <1>5, <1>6 DEF Next

\* A source is deaf for good.
LEMMA DeafStays == ASSUME [ProcessNext]_processVars PROVE deaf \subseteq deaf'
BY DEF ProcessNext, processVars, TimerFires, EvaluationSettles, TokenAges, Alongside, HandleLogs,
       FetchReturns, FetchFails, WindowElapses, BeginShutdown, StepEnds, Unsubscribed, StepTimesOut,
       MoveOn, DeafAfter

\* A step of the process leaves the shutdown where it is, begins it, or moves
\* it to its next step.
LEMMA ShutdownStep ==
  ASSUME [ProcessNext]_processVars
  PROVE  step' = step \/ BeginShutdown \/ (step \notin {"running", "exited"} /\ MoveOn)
BY DEF ProcessNext, processVars, TimerFires, EvaluationSettles, TokenAges, Alongside, HandleLogs,
       FetchReturns, FetchFails, WindowElapses, StepEnds, Unsubscribed, StepTimesOut, MayHang

LEMMA ProcessInvInit == ProcessInit => ProcessInv
<1> SUFFICES ASSUME ProcessInit PROVE ProcessInv
  OBVIOUS
<1>1. Init /\ step = "running"
  BY DEF ProcessInit
<1>2. Inv
  BY <1>1, SchedulerInit
<1>3. step \in {Steps[k] : k \in DOMAIN Steps}
  <2>1. Steps[1] = "running" /\ 1 \in DOMAIN Steps
    BY StepPlace DEF Steps
  <2>2. QED
    BY <1>1, <2>1
<1>4. QED
  BY <1>1, <1>2, <1>3 DEF ProcessInv, HasStopped

LEMMA ProcessInvStep == ASSUME Reportable, ProcessInv, [ProcessNext]_processVars PROVE ProcessInv'
<1>1. Inv' /\ [Next]_vars
  BY ProcessStepsSchedule, NextInv DEF ProcessInv
<1>2. CASE step' = step
  <2>1. step # "running" => stopped' /\ watched' = {} /\ pending' = <<>>
    BY <1>1, StoppedSchedule DEF ProcessInv, HasStopped
  <2>2. QED
    BY <1>1, <1>2, <2>1, DeafStays DEF ProcessInv, HasStopped
<1>3. CASE BeginShutdown
  <2>1. step' = Steps[2] /\ 2 \in DOMAIN Steps
    BY <1>3, StepPlace DEF BeginShutdown, Steps
  <2>2. QED
    BY <1>1, <1>3, <2>1 DEF BeginShutdown, StopOrchestrator, DeafAfter, ProcessInv, HasStopped
<1>4. CASE step \notin {"running", "exited"} /\ MoveOn
  <2>1. PICK k \in 1..10 : step = Steps[k]
    BY StepPlace DEF ProcessInv
  <2>2. k \in 2..9
    BY <1>4, <2>1 DEF Steps
  <2>3. step' = Steps[k + 1] /\ k + 1 \in DOMAIN Steps
    BY <1>4, <2>1, <2>2, StepPlace DEF MoveOn, StepAfter
  <2>4. step' \notin {"running", "stop_raydium"}
    BY <2>2, <2>3 DEF Steps
  <2>5. step # "stop_raydium" => "pumpfun" \in deaf'
    BY <1>4, DeafStays DEF ProcessInv, HasStopped
  <2>6. step = "stop_raydium" => step' = "stop_pumpfun"
    BY <2>1, <2>2, <2>3 DEF Steps
  <2>7. "pumpfun" \in deaf' /\ "raydium" \in deaf'
    BY <1>4, <2>5, <2>6, DeafStays DEF MoveOn, DeafAfter, ProcessInv, HasStopped
  <2>8. stopped' /\ watched' = {} /\ pending' = <<>>
    BY <1>4 DEF MoveOn, vars, ProcessInv, HasStopped
  <2>9. QED
    BY <1>1, <2>3, <2>7, <2>8 DEF ProcessInv, HasStopped
<1>5. QED
  BY <1>2, <1>3, <1>4, ShutdownStep

------------------------------------------------------------------------------

\* The bounds of the scheduler hold in the whole process: what discovery
\* finds, timers that fire and a shutdown at any time do nothing to it that it
\* does not allow for (watchToken, stopOrchestrator, evaluationScheduler.ts).
THEOREM ProcessSchedules ==
  ASSUME Reportable PROVE ProcessSpec => [](Backpressure /\ WorkConserving /\ PendingSignals /\ SlotAccounting)
<1>1. ProcessInv => Backpressure /\ WorkConserving /\ PendingSignals
  BY DEF ProcessInv, Inv
<1>2. ProcessInv /\ [ProcessNext]_processVars => ProcessInv'
  BY ProcessInvStep
<1>3. ProcessInv /\ CountInv /\ [ProcessNext]_processVars => CountInv'
  BY ProcessStepsSchedule, CountStep DEF ProcessInv
<1>4. ProcessInit => CountInv
  BY CountInit DEF ProcessInit
<1>5. CountInv => SlotAccounting
  BY DEF CountInv
<1>6. QED
  BY <1>1, <1>2, <1>3, <1>4, <1>5, ProcessInvInit, PTL DEF ProcessSpec

\* From the step that shuts the provider layer down, no step of the process
\* starts a fetch or dispatches an evaluation: by then both sources are deaf
\* even if neither could unsubscribe, and the scheduler has stopped with
\* nothing watched or waiting (stop() of the sources, stopOrchestrator,
\* runShutdown).
THEOREM QuietAfter == ASSUME Reportable PROVE ProcessSpec => QuietAfterAbort
<1>1. ASSUME ProcessInv, [ProcessNext]_processVars, Aborted
      PROVE  /\ fetching' \subseteq fetching
             /\ \A m \in Mints : activeByMint'[m] <= activeByMint[m]
  <2>1. step \notin {"running", "stop_raydium"}
    <3>1. StepNumber("running") = 1 /\ StepNumber("stop_raydium") = 2
          /\ StepNumber("abort_provider_requests") = 4
      BY StepPlace DEF Steps
    <3>2. QED
      BY <1>1, <3>1 DEF Aborted
  <2>2. stopped /\ watched = {} /\ pending = <<>> /\ "raydium" \in deaf /\ "pumpfun" \in deaf
    BY <1>1, <2>1 DEF ProcessInv, HasStopped
  <2>3. \A m \in Mints : activeByMint'[m] <= activeByMint[m]
    BY <1>1, <2>2, ProcessStepsSchedule, StoppedSchedule DEF ProcessInv
  <2>4. ASSUME NEW f \in Fetchable PROVE ~HandleLogs(f[1], f[2])
    BY <2>2 DEF HandleLogs, Fetchable, Sources
  <2>5. fetching' \subseteq fetching
    BY <1>1, <2>1, <2>4 DEF ProcessNext, processVars, TimerFires, EvaluationSettles, TokenAges, Alongside,
       FetchReturns, FetchFails, WindowElapses, BeginShutdown, StepEnds, Unsubscribed, StepTimesOut, MoveOn
  <2>6. QED
    BY <2>3, <2>5
<1>2. ProcessInv /\ [ProcessNext]_processVars
        => [Aborted => /\ fetching' \subseteq fetching
                       /\ \A m \in Mints : activeByMint'[m] <= activeByMint[m]]_processVars
  BY <1>1
<1>3. ProcessInv /\ [ProcessNext]_processVars => ProcessInv'
  BY ProcessInvStep
<1>4. QED
  BY <1>2, <1>3, ProcessInvInit, PTL DEF ProcessSpec, QuietAfterAbort

------------------------------------------------------------------------------
\* What discovery reports.

\* First() reports the token of one of the occurrences it is given.
LEMMA FirstIsOne ==
  ASSUME NEW tx, DOMAIN tx.calls = 1..Len(tx.calls), NEW evidence, evidence \subseteq DOMAIN tx.calls,
         First(tx, evidence) # Nobody
  PROVE  \E i \in evidence : First(tx, evidence) = tx.calls[i].accounts[1]
<1>1. evidence # {} /\ \A i \in evidence : i \in Nat /\ i <= Len(tx.calls)
  BY DEF First
<1> DEFINE places == {Place(tx, i) : i \in evidence}
<1>2. places \subseteq Nat /\ places # {}
  BY <1>1 DEF Place
<1>3. PICK x \in places : \A y \in places : x <= y
  <2> HIDE DEF places
  <2> QED
    BY <1>2, Least
<1>4. PICK i \in evidence : x = Place(tx, i)
  BY <1>3
<1>5. \A j \in evidence : Place(tx, i) <= Place(tx, j)
  BY <1>3, <1>4
<1>6. QED
  BY <1>1, <1>5 DEF First

\* A token is reported only of a transaction that created it.
LEMMA ReportedGenuine ==
  ASSUME CreationsReal, NEW f \in Fetchable, Detected[f] # Nobody
  PROVE  f[2] \in Txs /\ f[2].ok /\ Detected[f] \in f[2].makes /\ Detected[f] \in Mints
<1> DEFINE tx == f[2]
<1>1. f \in Sources \X Txs /\ f[1] \in Sources /\ tx \in Txs /\ WorthFetching(f[1], tx)
  BY DEF Fetchable
<1>2. tx.ok
  BY <1>1 DEF WorthFetching, MightBeCreation
<1>3. DOMAIN tx.calls = 1..Len(tx.calls) /\ tx.makes \subseteq Mints
  BY <1>1 DEF CreationsReal
<1>4. CASE f[1] = "pumpfun"
  <2> DEFINE evidence == {i \in ProgramInstructions(tx, "pumpfun") : IsCreate(tx.calls[i], tx)}
  <2>1. Detected[f] = First(tx, evidence)
    BY <1>1, <1>4 DEF Detected, DetectPumpFunCreation
  <2>2. evidence \subseteq DOMAIN tx.calls
    BY DEF ProgramInstructions
  <2>3. PICK i \in evidence : Detected[f] = tx.calls[i].accounts[1]
    <3> HIDE DEF evidence, tx
    <3> QED
      BY <1>3, <2>1, <2>2, FirstIsOne
  <2>4. tx.calls[i].program = "pumpfun" /\ IsCreate(tx.calls[i], tx) /\ i \in DOMAIN tx.calls
    BY DEF ProgramInstructions
  <2>5. QED
    BY <1>1, <1>2, <1>3, <2>3, <2>4 DEF CreationsReal
<1>5. CASE f[1] # "pumpfun"
  <2> DEFINE evidence == {i \in ProgramInstructions(tx, "raydium") : IsPool(tx.calls[i], tx)}
  <2>1. Detected[f] = First(tx, evidence)
    BY <1>1, <1>5 DEF Detected, DetectRaydiumPoolCreation
  <2>2. evidence \subseteq DOMAIN tx.calls
    BY DEF ProgramInstructions
  <2>3. PICK i \in evidence : Detected[f] = tx.calls[i].accounts[1]
    <3> HIDE DEF evidence, tx
    <3> QED
      BY <1>3, <2>1, <2>2, FirstIsOne
  <2>4. /\ tx.calls[i].program = "raydium" /\ i \in DOMAIN tx.calls
        /\ tx.calls[i].tag = "initialize2" /\ tx.calls[i].accounts[1] \in FreshMints(tx)
    BY DEF ProgramInstructions, IsPool, ValidInitialize2Layout
  <2>5. QED
    BY <1>1, <1>2, <1>3, <2>3, <2>4 DEF CreationsReal
<1>6. QED
  BY <1>4, <1>5

LEMMA RealReportable == CreationsReal => Reportable
BY ReportedGenuine DEF Reportable

\* The tokens the scheduler knows.
Known == {m \in Mints : m \in watched \/ activeByMint[m] > 0}

\* A dispatch makes no token known but its own.
LEMMA DispatchKnown ==
  ASSUME NEW m \in Mints, NEW byMint \in [Mints -> Nat], \A n \in Mints : byMint[n] <= activeByMint[n],
         activeByMint \in [Mints -> Nat], NEW w, NEW q, Dispatch(m, byMint, w, q)
  PROVE  \A n \in Known' : n \in w \/ n = m \/ n \in Known
BY DEF Dispatch, Counted, Known

\* A tick of m, with w watched.
LEMMA TickKnown ==
  ASSUME Inv, NEW m \in Mints, NEW w, RequestTick(m, w)
  PROVE  \A n \in Known' : n \in w \/ n = m \/ n \in Known
<1>1. activeByMint \in [Mints -> Nat]
  BY DEF Inv, TypeOK
<1>2. CASE Dispatch(m, activeByMint, w, pending)
  BY <1>1, <1>2, DispatchKnown
<1>3. CASE watched' = w /\ activeByMint' = activeByMint
  BY <1>3 DEF Known
<1>4. QED
  BY <1>2, <1>3 DEF RequestTick

\* Of the scheduler's steps only WatchToken makes a token known.
LEMMA ScheduleKnown ==
  ASSUME Inv,
         \/ \E m \in Mints : TimerTick(m) \/ Settle(m) \/ Age(m)
         \/ StopOrchestrator \/ UNCHANGED vars
  PROVE  Known' \subseteq Known
<1>1. activeByMint \in [Mints -> Nat] /\ watched \subseteq Mints
  BY DEF Inv, TypeOK
<1>2. ASSUME NEW m \in Mints, TimerTick(m) PROVE Known' \subseteq Known
  BY <1>2, TickKnown DEF TimerTick, Known
<1>3. ASSUME NEW m \in Mints, Settle(m) PROVE Known' \subseteq Known
  <2> DEFINE less == [activeByMint EXCEPT ![m] = @ - 1]
  <2>1. less \in [Mints -> Nat] /\ \A n \in Mints : less[n] <= activeByMint[n]
    BY <1>1, <1>3 DEF Settle
  <2>2. CASE activeByMint' = less /\ watched' = watched
    BY <2>1, <2>2, <1>1 DEF Known
  <2>3. CASE pending # <<>> /\ Dispatch(Head(pending), less, watched, Tail(pending))
    <3> HIDE DEF less
    <3>1. Head(pending) \in Mints /\ Head(pending) \in watched
      BY <2>3, InvQueue, TailQueue DEF Queue
    <3>2. QED
      BY <1>1, <2>1, <2>3, <3>1, DispatchKnown DEF Known
  <2>4. QED
    BY <1>3, <2>2, <2>3 DEF Settle, PromoteNext
<1>4. CASE \E m \in Mints : Age(m)
  BY <1>4 DEF Age, Known
<1>5. CASE StopOrchestrator \/ UNCHANGED vars
  BY <1>5 DEF StopOrchestrator, vars, Known
<1>6. QED
  BY <1>2, <1>3, <1>4, <1>5

\* No token is watched or evaluated that was not created, as far as the chain
\* is what it promises to be (CreationsReal): transactions that failed, other
\* programs with instructions of the same name, accounts that did not sign and
\* mints that existed before are never reported (handleLogs,
\* detectPumpFunCreation, detectRaydiumAmmV4PoolCreation), and nothing but a
\* report makes the orchestrator watch a token (watchToken).
THEOREM OnlyCreated == ASSUME CreationsReal PROVE ProcessSpec => []DiscoveredGenuine
<1> DEFINE Genuine(m) == \E tx \in Txs : tx.ok /\ m \in tx.makes
           KnownGenuine == \A m \in Known : Genuine(m)
<1>1. ProcessInit => KnownGenuine
  BY DEF ProcessInit, Init, Known
<1>2. ASSUME ProcessInv, KnownGenuine, [ProcessNext]_processVars PROVE KnownGenuine'
  <2>1. Inv
    BY <1>2 DEF ProcessInv
  <2>2. CASE Known' \subseteq Known
    BY <1>2, <2>2
  <2>3. ASSUME NEW f \in Fetchable, FetchReturns(f[1], f[2]) PROVE KnownGenuine'
    <3>1. f = <<f[1], f[2]>>
      BY DEF Fetchable
    <3>2. CASE UNCHANGED vars
      BY <2>1, <2>2, <3>2, ScheduleKnown
    <3>3. CASE Detected[f] # Nobody /\ WatchToken(Detected[f])
      <4> DEFINE m == Detected[f]
      <4>1. m \in Mints /\ Genuine(m)
        BY <3>3, ReportedGenuine
      <4>2. RequestTick(m, watched \union {m}) /\ watched \subseteq Mints
        BY <2>1, <3>3 DEF WatchToken, Inv, TypeOK
      <4> HIDE DEF m
      <4>3. \A n \in Known' : n \in watched \union {m} \/ n = m \/ n \in Known
        BY <2>1, <4>1, <4>2, TickKnown
      <4>4. QED
        BY <1>2, <4>1, <4>2, <4>3 DEF Known
    <3>4. QED
      BY <2>3, <3>1, <3>2, <3>3 DEF FetchReturns
  <2>4. CASE \/ \E m \in Mints : TimerTick(m) \/ Settle(m) \/ Age(m)
             \/ StopOrchestrator \/ UNCHANGED vars
    BY <2>1, <2>2, <2>4, ScheduleKnown
  <2>5. QED
    BY <1>2, <2>3, <2>4 DEF ProcessNext, processVars, vars, TimerFires, EvaluationSettles, TokenAges, HandleLogs,
       FetchFails, WindowElapses, BeginShutdown, StepEnds, Unsubscribed, StepTimesOut, MoveOn
<1>3. KnownGenuine => DiscoveredGenuine
  BY DEF DiscoveredGenuine, Known
<1>4. ProcessInv /\ [ProcessNext]_processVars => ProcessInv'
  BY RealReportable, ProcessInvStep
<1>5. QED
  <2> HIDE DEF KnownGenuine
  <2> QED
    BY <1>1, <1>2, <1>3, <1>4, ProcessInvInit, PTL DEF ProcessSpec

==============================================================================
