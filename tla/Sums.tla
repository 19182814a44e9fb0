---------------------------------- MODULE Sums ----------------------------------
(***************************************************************************)
(* Facts about numbers that the proofs of several components need: a set   *)
(* of naturals has a least element, and what the library's recursive sum   *)
(* of a function over a finite set adds up to.  The sum is counted: it is  *)
(* the number of points below the positive values less the number of those *)
(* above the negative ones.                                                *)
(***************************************************************************)
EXTENDS FiniteSets, Integers, FiniteSetTheorems, TLAPS

\* A set of naturals has a least element: of the intervals that end in it, one
\* contains no other.
LEMMA Least ==
  ASSUME NEW S, S \subseteq Nat, S # {}
  PROVE  \E x \in S : \A y \in S : x <= y
<1> DEFINE T == {0..x : x \in S}
<1>1. T \subseteq FiniteSubsetsOf(Nat) /\ T # {}
  <2>1. \A x \in S : 0..x \subseteq Nat /\ IsFiniteSet(0..x)
    BY FS_Interval
  <2>2. QED
    BY <2>1 DEF FiniteSubsetsOf
<1>2. PICK t \in T : \A u \in T : <<u, t>> \notin StrictSubsetOrdering(Nat)
  <2> HIDE DEF T
  <2>1. QED
    BY <1>1, FS_StrictSubsetOrderingWellFounded, WFMin
<1>3. PICK x \in S : t = 0..x
  OBVIOUS
<1>4. ASSUME NEW y \in S, y < x PROVE FALSE
  <2>1. 0..y \subseteq 0..x /\ 0..y # 0..x /\ 0..x \subseteq Nat /\ 0..y \in T
    BY <1>4
  <2>2. QED
    BY <1>2, <1>3, <2>1 DEF StrictSubsetOrdering
<1>5. QED
  BY <1>4

------------------------------------------------------------------------------

\* Sums.  The points of the positive values of f, and the balance of these and
\* of those of the negative ones.
Ups(f, S) == UNION {{x} \X (1..f[x]) : x \in S}
Balance(f, S) == Cardinality(Ups(f, S)) - Cardinality(Ups([x \in DOMAIN f |-> -f[x]], S))

\* One value has as many points as it is high.
LEMMA Column ==
  ASSUME NEW x, NEW n \in Int
  PROVE  /\ IsFiniteSet({x} \X (1..n))
         /\ Cardinality({x} \X (1..n)) = IF n > 0 THEN n ELSE 0
<1>1. IsFiniteSet({x}) /\ Cardinality({x}) = 1
  BY FS_Singleton
<1>2. IsFiniteSet(1..n) /\ Cardinality(1..n) = IF n > 0 THEN n ELSE 0
  BY FS_Interval
<1>3. IsFiniteSet({x} \X (1..n)) /\ Cardinality({x} \X (1..n)) = Cardinality({x}) * Cardinality(1..n)
  BY <1>1, <1>2, FS_Product
<1>4. QED
  BY <1>1, <1>2, <1>3

\* One more value adds its points.
LEMMA UpsGrow ==
  ASSUME NEW T, IsFiniteSet(T), NEW f, \A y \in T : f[y] \in Int, NEW x, x \notin T, f[x] \in Int
  PROVE  /\ IsFiniteSet(Ups(f, T))
         /\ Cardinality(Ups(f, T \union {x})) = Cardinality(Ups(f, T)) + (IF f[x] > 0 THEN f[x] ELSE 0)
<1> DEFINE columns == {{y} \X (1..f[y]) : y \in T}
<1>1. IsFiniteSet(columns)
  <2>1. [y \in T |-> {y} \X (1..f[y])] \in Surjection(T, columns)
    BY DEF Surjection
  <2>2. QED
    BY <2>1, FS_Surjection DEF ExistsSurjection
<1>2. \A c \in columns : IsFiniteSet(c)
  BY Column
<1>3. IsFiniteSet(Ups(f, T))
  BY <1>1, <1>2, FS_UNION DEF Ups
<1>4. Ups(f, T \union {x}) = Ups(f, T) \union ({x} \X (1..f[x]))
  BY DEF Ups
<1>5. Ups(f, T) \intersect ({x} \X (1..f[x])) = {}
  BY DEF Ups
<1>6. IsFiniteSet({x} \X (1..f[x])) /\ Cardinality({x} \X (1..f[x])) = IF f[x] > 0 THEN f[x] ELSE 0
  BY Column
<1>7. Cardinality(Ups(f, T) \intersect ({x} \X (1..f[x]))) = 0
  BY <1>5, FS_EmptySet
<1> DEFINE old == Ups(f, T)
           new == {x} \X (1..f[x])
<1> HIDE DEF old, new
<1>8. Cardinality(old \union new) = Cardinality(old) + Cardinality(new) - 0
  BY <1>3, <1>6, <1>7, FS_Union DEF old, new
<1>9. Cardinality(old) \in Nat
  BY <1>3, FS_CardinalityType DEF old
<1>10. Cardinality(old \union new) = Cardinality(old) + (IF f[x] > 0 THEN f[x] ELSE 0)
  BY <1>6, <1>8, <1>9 DEF new
<1>11. QED
  BY <1>3, <1>4, <1>10 DEF old, new

\* Counted by points, one more value adds to the balance what it is.
LEMMA BalanceGrows ==
  ASSUME NEW S, NEW f \in [S -> Int], NEW T \in SUBSET S, IsFiniteSet(T), NEW x \in S \ T
  PROVE  /\ Balance(f, T) \in Int
         /\ Balance(f, T \union {x}) = Balance(f, T) + f[x]
<1> DEFINE g == [y \in S |-> -f[y]]
           u == Ups(f, T)
           d == Ups(g, T)
           v == Ups(f, T \union {x})
           e == Ups(g, T \union {x})
<1>1. DOMAIN f = S /\ f[x] \in Int /\ g[x] = -f[x] /\ \A y \in T : f[y] \in Int /\ g[y] \in Int
  OBVIOUS
<1>2. Balance(f, T) = Cardinality(u) - Cardinality(d) /\ Balance(f, T \union {x}) = Cardinality(v) - Cardinality(e)
  BY <1>1 DEF Balance
<1> HIDE DEF g, u, d, v, e
<1>3. IsFiniteSet(u) /\ Cardinality(v) = Cardinality(u) + (IF f[x] > 0 THEN f[x] ELSE 0)
  BY <1>1, UpsGrow DEF u, v
<1>4. IsFiniteSet(d) /\ Cardinality(e) = Cardinality(d) + (IF g[x] > 0 THEN g[x] ELSE 0)
  BY <1>1, UpsGrow DEF d, e
<1>5. Cardinality(u) \in Nat /\ Cardinality(d) \in Nat
  BY <1>3, <1>4, FS_CardinalityType
<1>6. QED
  BY <1>1, <1>2, <1>3, <1>4, <1>5

\* The sum that the library defines by recursion is that balance: the balance
\* satisfies the recursion, and the smallest set on which another solution
\* differed from it would have a smaller one.
LEMMA SumIsBalance ==
  ASSUME NEW S, IsFiniteSet(S), NEW f \in [S -> Int], NEW T \in SUBSET S
  PROVE  SumFunctionOnSet(f, T) = Balance(f, T)
<1> DEFINE pick(s) == CHOOSE x \in s : TRUE
           step(h, s) == IF s = {} THEN 0 ELSE f[pick(s)] + h[s \ {pick(s)}]
           iter == CHOOSE h : h = [s \in SUBSET T |-> step(h, s)]
           g == [s \in SUBSET T |-> Balance(f, s)]
<1>1. SumFunctionOnSet(f, T) = iter[T]
  BY DEF SumFunctionOnSet, FoldFunctionOnSet, MapThenFoldSet
<1> HIDE DEF iter, g
<1>2. ASSUME NEW s \in SUBSET T, s # {}
      PROVE  pick(s) \in s /\ s \ {pick(s)} \in SUBSET T /\ Balance(f, s) = f[pick(s)] + Balance(f, s \ {pick(s)})
  <2>1. PICK x \in s : x = pick(s)
    BY <1>2
  <2>2. PICK rest \in SUBSET S : rest = s \ {x}
    OBVIOUS
  <2>3. IsFiniteSet(rest) /\ s = rest \union {x} /\ x \in S \ rest
    BY <2>2, FS_Subset
  <2>4. Balance(f, rest) \in Int /\ Balance(f, s) = Balance(f, rest) + f[x] /\ f[x] \in Int
    BY <2>3, BalanceGrows
  <2>5. Balance(f, s) = f[x] + Balance(f, rest)
    BY <2>4
  <2>6. QED
    BY <2>1, <2>2, <2>5
<1>3. Balance(f, {}) = 0
  <2>1. \A h : Ups(h, {}) = {}
    BY DEF Ups
  <2>2. Balance(f, {}) = Cardinality({}) - Cardinality({})
    BY <2>1 DEF Balance
  <2>3. QED
    BY <2>2, FS_EmptySet
<1>4. g = [s \in SUBSET T |-> step(g, s)]
  <2>1. ASSUME NEW s \in SUBSET T PROVE g[s] = step(g, s)
    <3>1. CASE s = {}
      BY <1>3, <3>1 DEF g
    <3>2. CASE s # {}
      BY <1>2, <3>2 DEF g
    <3>3. QED
      BY <3>1, <3>2
  <2>2. g = [s \in SUBSET T |-> g[s]]
    BY DEF g
  <2>3. QED
    BY <2>1, <2>2
<1>5. iter = [s \in SUBSET T |-> step(iter, s)]
  BY <1>4 DEF iter
<1>6. ASSUME NEW s \in SUBSET T, iter[s] # Balance(f, s) PROVE FALSE
  <2> DEFINE bad == {t \in SUBSET T : iter[t] # Balance(f, t)}
             sizes == {Cardinality(t) : t \in bad}
  <2>1. ASSUME NEW t \in SUBSET T PROVE IsFiniteSet(t) /\ Cardinality(t) \in Nat
    BY FS_Subset, FS_CardinalityType
  <2>2. sizes \subseteq Nat /\ sizes # {}
    BY <1>6, <2>1
  <2>3. PICK t \in bad : \A r \in bad : Cardinality(t) <= Cardinality(r)
    <3> HIDE DEF sizes
    <3>1. PICK n \in sizes : \A k \in sizes : n <= k
      BY <2>2, Least
    <3>2. QED
      BY <3>1 DEF sizes
  <2>4. t # {}
    BY <1>3, <1>5, <2>3
  <2>5. PICK x \in t : x = pick(t)
    BY <2>4
  <2>6. iter[t] = f[x] + iter[t \ {x}]
    BY <1>5, <2>4, <2>5
  <2>7. t \ {x} \notin bad
    <3>1. Cardinality(t \ {x}) = Cardinality(t) - 1
      BY <2>1, FS_RemoveElement
    <3>2. Cardinality(t) \in Nat
      BY <2>1
    <3>3. QED
      BY <2>3, <3>1, <3>2
  <2>8. QED
    BY <1>2, <2>3, <2>4, <2>5, <2>6, <2>7
<1>7. QED
  BY <1>1, <1>6

\* A sum grows by the value that is added to it.
LEMMA SumGrows ==
  ASSUME NEW S, IsFiniteSet(S), NEW f \in [S -> Int], NEW T \in SUBSET S, NEW x \in S \ T
  PROVE  /\ SumFunctionOnSet(f, T) \in Int
         /\ SumFunctionOnSet(f, T \union {x}) = SumFunctionOnSet(f, T) + f[x]
<1>1. IsFiniteSet(T)
  BY FS_Subset
<1>2. PICK U \in SUBSET S : U = T \union {x}
  OBVIOUS
<1>3. SumFunctionOnSet(f, T) = Balance(f, T) /\ SumFunctionOnSet(f, U) = Balance(f, U)
  BY SumIsBalance
<1>4. Balance(f, T) \in Int /\ Balance(f, U) = Balance(f, T) + f[x]
  BY <1>1, <1>2, BalanceGrows
<1>5. QED
  BY <1>2, <1>3, <1>4

\* A sum depends on the values it adds only, also if they are those of functions
\* on different sets.
LEMMA SumSame ==
  ASSUME NEW S, IsFiniteSet(S), NEW f \in [S -> Int], NEW R, IsFiniteSet(R), NEW g \in [R -> Int],
         NEW T \in SUBSET S, T \subseteq R, \A x \in T : f[x] = g[x]
  PROVE  SumFunctionOnSet(f, T) = SumFunctionOnSet(g, T)
<1>1. Ups(f, T) = Ups(g, T)
  BY DEF Ups
<1>2. Ups([x \in DOMAIN f |-> -f[x]], T) = Ups([x \in DOMAIN g |-> -g[x]], T)
  BY DEF Ups
<1>3. Balance(f, T) = Balance(g, T)
  BY <1>1, <1>2 DEF Balance
<1>4. QED
  BY <1>3, SumIsBalance

\* The sum of no value is zero.
LEMMA SumOfNone ==
  ASSUME NEW S, IsFiniteSet(S), NEW f \in [S -> Int]
  PROVE  SumFunctionOnSet(f, {}) = 0
<1>1. SumFunctionOnSet(f, {}) = Balance(f, {})
  BY SumIsBalance
<1>2. \A h : Ups(h, {}) = {}
  BY DEF Ups
<1>3. Balance(f, {}) = Cardinality({}) - Cardinality({})
  BY <1>2 DEF Balance
<1>4. QED
  BY <1>1, <1>3, FS_EmptySet

\* A set of numbers up to a bound has a greatest.
LEMMA Greatest ==
  ASSUME NEW n \in Nat, NEW S \in SUBSET (0..n), S # {}
  PROVE  \E x \in S : \A y \in S : y <= x
<1> DEFINE B == {k \in Nat : \A y \in S : y <= k}
<1>1. n \in B
  OBVIOUS
<1>2. PICK k \in B : \A l \in B : k <= l
  BY <1>1, Least
<1>3. CASE k \in S
  BY <1>3
<1>4. CASE k \notin S
  <2>1. \A y \in S : y \in Nat /\ y < k
    BY <1>2, <1>4
  <2>2. k - 1 \in B
    <3>1. PICK y \in S : TRUE
      OBVIOUS
    <3>2. k - 1 \in Nat
      BY <1>2, <2>1, <3>1
    <3>3. \A z \in S : z <= k - 1
      BY <1>2, <2>1
    <3>4. QED
      BY <3>2, <3>3
  <2>3. QED
    BY <1>2, <2>2
<1>5. QED
  BY <1>3, <1>4

\* The sums over two sets that share nothing add up.
LEMMA SumJoins ==
  ASSUME NEW S, IsFiniteSet(S), NEW f \in [S -> Int], NEW U \in SUBSET S, NEW V \in SUBSET S, U \intersect V = {}
  PROVE  /\ SumFunctionOnSet(f, U) \in Int /\ SumFunctionOnSet(f, V) \in Int
         /\ SumFunctionOnSet(f, U \union V) = SumFunctionOnSet(f, U) + SumFunctionOnSet(f, V)
<1> DEFINE g == [x \in DOMAIN f |-> -f[x]]
<1>1. ASSUME NEW h, \A x \in S : h[x] \in Int, NEW R \in SUBSET S
      PROVE  IsFiniteSet(Ups(h, R)) /\ Cardinality(Ups(h, R)) \in Nat
  <2> DEFINE columns == {{x} \X (1..h[x]) : x \in R}
  <2>1. IsFiniteSet(R)
    BY FS_Subset
  <2>2. IsFiniteSet(columns)
    <3>1. [x \in R |-> {x} \X (1..h[x])] \in Surjection(R, columns)
      BY DEF Surjection
    <3>2. QED
      BY <2>1, <3>1, FS_Surjection DEF ExistsSurjection
  <2>3. \A c \in columns : IsFiniteSet(c)
    <3> SUFFICES ASSUME NEW x \in R PROVE IsFiniteSet({x} \X (1..h[x]))
      OBVIOUS
    <3>1. PICK n \in Int : n = h[x]
      BY <1>1
    <3>2. QED
      BY <3>1, Column
  <2>4. IsFiniteSet(Ups(h, R))
    BY <2>2, <2>3, FS_UNION DEF Ups
  <2>5. QED
    BY <2>4, FS_CardinalityType
<1>2. ASSUME NEW h, \A x \in S : h[x] \in Int
      PROVE  Cardinality(Ups(h, U \union V)) = Cardinality(Ups(h, U)) + Cardinality(Ups(h, V))
  <2>1. Ups(h, U \union V) = Ups(h, U) \union Ups(h, V) /\ Ups(h, U) \intersect Ups(h, V) = {}
    BY DEF Ups
  <2>2. /\ IsFiniteSet(Ups(h, U)) /\ Cardinality(Ups(h, U)) \in Nat
        /\ IsFiniteSet(Ups(h, V)) /\ Cardinality(Ups(h, V)) \in Nat
    BY <1>1, <1>2
  <2>3. Cardinality(Ups(h, U) \intersect Ups(h, V)) = 0
    BY <2>1, FS_EmptySet
  <2>4. PICK A, B, C : A = Ups(h, U) /\ B = Ups(h, V) /\ C = Ups(h, U \union V) /\ C = A \union B
    BY <2>1
  <2>5. Cardinality(A \union B) = Cardinality(A) + Cardinality(B) - Cardinality(A \intersect B)
    BY <2>2, <2>4, FS_Union
  <2>6. PICK a \in Nat, c \in Nat : a = Cardinality(A) /\ c = Cardinality(B)
    BY <2>2, <2>4
  <2>7. Cardinality(C) = a + c
    <3>1. Cardinality(A \intersect B) = 0
      BY <2>3, <2>4
    <3>2. Cardinality(C) = a + c - 0
      BY <2>4, <2>5, <2>6, <3>1
    <3>3. QED
      BY <3>2
  <2>8. QED
    BY <2>4, <2>6, <2>7
<1>3. \A x \in S : f[x] \in Int /\ g[x] \in Int
  OBVIOUS
<1> HIDE DEF g
<1>4. ASSUME NEW R \in SUBSET S
      PROVE  SumFunctionOnSet(f, R) = Cardinality(Ups(f, R)) - Cardinality(Ups(g, R))
  BY SumIsBalance DEF Balance, g
<1>5. /\ Cardinality(Ups(f, U)) \in Nat /\ Cardinality(Ups(g, U)) \in Nat
      /\ Cardinality(Ups(f, V)) \in Nat /\ Cardinality(Ups(g, V)) \in Nat
  BY <1>1, <1>3
<1>6. /\ Cardinality(Ups(f, U \union V)) = Cardinality(Ups(f, U)) + Cardinality(Ups(f, V))
      /\ Cardinality(Ups(g, U \union V)) = Cardinality(Ups(g, U)) + Cardinality(Ups(g, V))
  BY <1>2, <1>3
<1>7. U \union V \in SUBSET S
  OBVIOUS
<1>8. QED
  BY <1>4, <1>5, <1>6, <1>7

==============================================================================
