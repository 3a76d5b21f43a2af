--------------------------- MODULE PriceTimeProofs ---------------------------
(***************************************************************************)
(* Sums over the orders of a level, for any number of orders, any ids and   *)
(* any requests, and what rests on them: the levels' totals (limit.go:8),   *)
(* the end of matchOrder's loops, the published depth, and that the book    *)
(* implements price-time priority.                                          *)
(***************************************************************************)
EXTENDS OrderBookProofs, FiniteSetTheorems

\* Induction over the naturals for a set of them, from the well-foundedness
\* of the strict subsets of finite sets: what lets a sum over a level's orders
\* be reasoned about for any number of orders.
LEMMA NatSetInduction ==
    ASSUME NEW T, 0 \in T, \A n \in Nat : n \in T => n + 1 \in T
    PROVE  \A n \in Nat : n \in T
<1> DEFINE U == {0 .. n : n \in Nat \ T}
           R == StrictSubsetOrdering(Nat)
<1> SUFFICES ASSUME NEW k \in Nat, k \notin T
             PROVE  FALSE
  BY Zenon
<1>1. U # {}
  BY Zenon
<1>2. U \subseteq FiniteSubsetsOf(Nat)
  <2> SUFFICES ASSUME NEW n \in Nat PROVE 0 .. n \in FiniteSubsetsOf(Nat)
    BY Zenon
  <2>1. IsFiniteSet(0 .. n)
    BY FS_Interval
  <2> QED BY <2>1 DEF FiniteSubsetsOf
<1>3. IsWellFoundedOn(R, FiniteSubsetsOf(Nat))
  BY FS_StrictSubsetOrderingWellFounded, Zenon
<1> HIDE DEF U, R
<1>4. PICK x \in U : \A y \in U : ~(<<y, x>> \in R)
  BY <1>1, <1>2, <1>3, WFMin, Zenon
<1> USE DEF U, R
<1>5. PICK m \in Nat \ T : x = 0 .. m
  BY <1>4, Zenon
<1>6. m # 0 /\ m - 1 \in Nat /\ m - 1 \notin T
  BY <1>5
<1>7. 0 .. m - 1 \in U
  BY <1>6, Zenon
<1>8. <<0 .. m - 1, x>> \in R
  <2>1. 0 .. m - 1 \subseteq x /\ 0 .. m - 1 # x
    BY <1>5, <1>6
  <2>2. x \in SUBSET Nat /\ 0 .. m - 1 \in SUBSET Nat
    BY <1>5, <1>6
  <2> QED BY <2>1, <2>2, Zenon DEF StrictSubsetOrdering
<1> QED BY <1>4, <1>7, <1>8, Zenon

-----------------------------------------------------------------------------
\* The element a sum takes first, and the sum of f over s when g has the sums
\* over the smaller sets.
Pick(s) == CHOOSE x \in s : TRUE

SumStep(g, f, s) == IF s = {} THEN 0 ELSE f[Pick(s)] + g[s \ {Pick(s)}]

\* g has the sum of f over every subset of S.
Running(g, f, S) == g = [s \in SUBSET S |-> SumStep(g, f, s)]

\* The term a sum over a non-empty finite set splits off is in the set.
LEMMA PickIn ==
    ASSUME NEW s, s # {}
    PROVE  Pick(s) \in s
BY Zenon DEF Pick

\* A set without one of its elements has one element less.
LEMMA SmallerSet ==
    ASSUME NEW S, IsFiniteSet(S), NEW s \in SUBSET S, s # {}
    PROVE  /\ s \ {Pick(s)} \in SUBSET S
           /\ Cardinality(s) \in Nat \ {0}
           /\ Cardinality(s \ {Pick(s)}) = Cardinality(s) - 1
<1>1. IsFiniteSet(s)
  BY FS_Subset, Zenon
<1>2. Cardinality(s) \in Nat /\ Cardinality(s) # 0
  BY <1>1, FS_CardinalityType, FS_EmptySet, Zenon
<1>3. Cardinality(s \ {Pick(s)}) = Cardinality(s) - 1
  BY <1>1, PickIn, FS_RemoveElement, Zenon
<1> QED BY <1>2, <1>3, Zenon

\* The recursion behind a sum has a solution on the finite subsets of a set.
LEMMA RunningExists ==
    ASSUME NEW f, NEW S, IsFiniteSet(S)
    PROVE  \E g : Running(g, f, S)
<1> DEFINE Small(n) == {s \in SUBSET S : Cardinality(s) <= n}
           T == {n \in Nat : \E g : g = [s \in Small(n) |-> SumStep(g, f, s)]}
<1>0. \A s \in SUBSET S : IsFiniteSet(s) /\ Cardinality(s) \in Nat /\ (Cardinality(s) = 0 <=> s = {})
  BY FS_Subset, FS_CardinalityType, FS_EmptySet, Zenon
<1>1. 0 \in T
  <2> DEFINE g == [s \in Small(0) |-> 0]
  <2>1. ASSUME NEW s \in Small(0) PROVE s = {}
    BY <1>0
  <2>2. g = [s \in Small(0) |-> SumStep(g, f, s)]
    BY <2>1, Zenon DEF SumStep
  <2> QED BY <2>2, Zenon
<1>2. ASSUME NEW n \in Nat, n \in T
      PROVE  n + 1 \in T
  <2>1. PICK g : g = [s \in Small(n) |-> SumStep(g, f, s)]
    BY <1>2, Zenon
  <2> DEFINE h == [s \in Small(n + 1) |-> SumStep(g, f, s)]
  <2>2. ASSUME NEW s \in Small(n)
        PROVE  s \in Small(n + 1) /\ h[s] = g[s]
    BY <2>1, <1>0
  <2>3. ASSUME NEW s \in Small(n + 1)
        PROVE  SumStep(g, f, s) = SumStep(h, f, s)
    <3>1. CASE s = {}
      BY <3>1, Zenon DEF SumStep
    <3>2. CASE s # {}
      <4>1. s \ {Pick(s)} \in Small(n)
        BY <3>2, SmallerSet
      <4> QED BY <4>1, <2>2, <3>2, Zenon DEF SumStep
    <3> QED BY <3>1, <3>2, Zenon
  <2>4. h = [s \in Small(n + 1) |-> SumStep(h, f, s)]
    BY <2>3, Zenon
  <2>5. \E k : k = [s \in Small(n + 1) |-> SumStep(k, f, s)]
    <3> HIDE DEF h, Small
    <3> QED BY <2>4, Zenon
  <2>6. n + 1 \in Nat
    OBVIOUS
  <2> HIDE DEF h, Small
  <2> QED BY <2>5, <2>6, Zenon
<1>3. \A n \in Nat : n \in T
  <2> HIDE DEF T
  <2> QED BY <1>1, <1>2, NatSetInduction, Zenon
<1>4. Cardinality(S) \in Nat /\ Small(Cardinality(S)) = SUBSET S
  <2>1. Cardinality(S) \in Nat
    BY FS_CardinalityType, Zenon
  <2>2. \A s \in SUBSET S : Cardinality(s) <= Cardinality(S)
    BY FS_Subset, Zenon
  <2> QED BY <2>1, <2>2, Zenon
<1> QED BY <1>3, <1>4, Zenon DEF Running

\* A sum over a set is the value of that recursion.
LEMMA SumIsRunning ==
    ASSUME NEW f, NEW S, IsFiniteSet(S)
    PROVE  \E g : Running(g, f, S) /\ SumFunctionOnSet(f, S) = g[S]
<1>1. PICK h : Running(h, f, S)
  BY RunningExists, Zenon
<1> QED BY <1>1, Zenon DEF Running, SumStep, SumFunctionOnSet, FoldFunctionOnSet, MapThenFoldSet, Pick

\* The recursion has one solution on finite sets.
LEMMA RunningUnique ==
    ASSUME NEW e, NEW f, NEW S, IsFiniteSet(S), NEW U \in SUBSET S,
           \A x \in U : e[x] = f[x],
           NEW g, Running(g, e, S), NEW h, Running(h, f, U)
    PROVE  \A s \in SUBSET U : g[s] = h[s]
<1> DEFINE T == {n \in Nat : \A s \in SUBSET U : Cardinality(s) <= n => g[s] = h[s]}
<1>0. \A s \in SUBSET U : IsFiniteSet(s) /\ Cardinality(s) \in Nat /\ (Cardinality(s) = 0 <=> s = {})
  BY FS_Subset, FS_CardinalityType, FS_EmptySet, Zenon
<1>1. \A s \in SUBSET U : g[s] = SumStep(g, e, s) /\ h[s] = SumStep(h, f, s)
  BY Zenon DEF Running
<1>2. 0 \in T
  <2> SUFFICES ASSUME NEW s \in SUBSET U, Cardinality(s) <= 0
               PROVE  g[s] = h[s]
    BY Zenon
  <2>1. s = {}
    BY <1>0
  <2> QED BY <2>1, <1>1, Zenon DEF SumStep
<1>3. ASSUME NEW n \in Nat, n \in T
      PROVE  n + 1 \in T
  <2> SUFFICES ASSUME NEW s \in SUBSET U, Cardinality(s) <= n + 1
               PROVE  g[s] = h[s]
    OBVIOUS
  <2>1. CASE s = {}
    BY <2>1, <1>1, Zenon DEF SumStep
  <2>2. CASE s # {}
    <3>1. /\ s \ {Pick(s)} \in SUBSET U
          /\ Cardinality(s \ {Pick(s)}) <= n
      <4>1. IsFiniteSet(U)
        BY FS_Subset, Zenon
      <4> QED BY <4>1, <2>2, SmallerSet
    <3>2. g[s \ {Pick(s)}] = h[s \ {Pick(s)}]
      BY <1>3, <3>1, Zenon
    <3>3. e[Pick(s)] = f[Pick(s)]
      BY <2>2, PickIn, Zenon
    <3> QED BY <3>2, <3>3, <1>1, <2>2, Zenon DEF SumStep
  <2> QED BY <2>1, <2>2, Zenon
<1>4. \A n \in Nat : n \in T
  <2> HIDE DEF T
  <2> QED BY <1>2, <1>3, NatSetInduction, Zenon
<1> QED BY <1>0, <1>4

\* Sums of functions that agree on the set are equal.
LEMMA SumEqual ==
    ASSUME NEW S, IsFiniteSet(S), NEW e, NEW f, \A x \in S : e[x] = f[x]
    PROVE  SumFunctionOnSet(e, S) = SumFunctionOnSet(f, S)
<1>1. PICK g : Running(g, e, S) /\ SumFunctionOnSet(e, S) = g[S]
  BY SumIsRunning, Zenon
<1>2. PICK h : Running(h, f, S) /\ SumFunctionOnSet(f, S) = h[S]
  BY SumIsRunning, Zenon
<1> QED BY <1>1, <1>2, RunningUnique

\* A level without orders has a total of nothing.
LEMMA SumEmpty == ASSUME NEW f PROVE SumFunctionOnSet(f, {}) = 0
<1>1. PICK g : Running(g, f, {}) /\ SumFunctionOnSet(f, {}) = g[{}]
  BY SumIsRunning, FS_EmptySet, Zenon
<1> QED BY <1>1, Zenon DEF Running, SumStep

\* A sum splits into the term it picks and the sum of the others.
LEMMA SumPick ==
    ASSUME NEW S, IsFiniteSet(S), S # {}, NEW f
    PROVE  SumFunctionOnSet(f, S) = f[Pick(S)] + SumFunctionOnSet(f, S \ {Pick(S)})
<1> DEFINE U == S \ {Pick(S)}
<1>1. PICK g : Running(g, f, S) /\ SumFunctionOnSet(f, S) = g[S]
  BY SumIsRunning, Zenon
<1>2. IsFiniteSet(U) /\ U \in SUBSET S
  BY FS_RemoveElement, Zenon
<1>3. PICK h : Running(h, f, U) /\ SumFunctionOnSet(f, U) = h[U]
  BY <1>2, SumIsRunning, Zenon
<1>4. g[U] = h[U]
  BY <1>1, <1>2, <1>3, RunningUnique
<1>5. g[S] = f[Pick(S)] + g[U]
  BY <1>1, Zenon DEF Running, SumStep
<1> QED BY <1>1, <1>3, <1>4, <1>5, Zenon

\* A sum of integers is an integer.
LEMMA SumType ==
    ASSUME NEW S, IsFiniteSet(S), NEW f, \A x \in S : f[x] \in Int
    PROVE  SumFunctionOnSet(f, S) \in Int
<1> DEFINE T == {n \in Nat : \A U \in SUBSET S : Cardinality(U) <= n => SumFunctionOnSet(f, U) \in Int}
<1>0. \A s \in SUBSET S : IsFiniteSet(s) /\ Cardinality(s) \in Nat /\ (Cardinality(s) = 0 <=> s = {})
  BY FS_Subset, FS_CardinalityType, FS_EmptySet, Zenon
<1>1. 0 \in T
  BY <1>0, SumEmpty
<1>2. ASSUME NEW n \in Nat, n \in T
      PROVE  n + 1 \in T
  <2> SUFFICES ASSUME NEW U \in SUBSET S, Cardinality(U) <= n + 1, U # {}
               PROVE  SumFunctionOnSet(f, U) \in Int
    BY SumEmpty
  <2>1. SumFunctionOnSet(f, U) = f[Pick(U)] + SumFunctionOnSet(f, U \ {Pick(U)})
    BY <1>0, SumPick, Zenon
  <2>2. SumFunctionOnSet(f, U \ {Pick(U)}) \in Int
    BY <1>2, SmallerSet, <1>0
  <2>3. f[Pick(U)] \in Int
    BY PickIn, Zenon
  <2> QED BY <2>1, <2>2, <2>3
<1>3. \A n \in Nat : n \in T
  <2> HIDE DEF T
  <2> QED BY <1>1, <1>2, NatSetInduction, Zenon
<1> QED BY <1>0, <1>3

\* A sum splits into any of its terms and the sum of the others: the total of
\* a level does not depend on the order of its queue.
LEMMA SumRemove ==
    ASSUME NEW S, IsFiniteSet(S), NEW f, \A x \in S : f[x] \in Int, NEW x \in S
    PROVE  SumFunctionOnSet(f, S) = f[x] + SumFunctionOnSet(f, S \ {x})
<1> DEFINE T == {n \in Nat : \A U \in SUBSET S : Cardinality(U) <= n =>
                    \A y \in U : SumFunctionOnSet(f, U) = f[y] + SumFunctionOnSet(f, U \ {y})}
<1>0. \A s \in SUBSET S : IsFiniteSet(s) /\ Cardinality(s) \in Nat /\ (Cardinality(s) = 0 <=> s = {})
  BY FS_Subset, FS_CardinalityType, FS_EmptySet, Zenon
<1>1. 0 \in T
  BY <1>0
<1>2. ASSUME NEW n \in Nat, n \in T
      PROVE  n + 1 \in T
  <2> SUFFICES ASSUME NEW U \in SUBSET S, Cardinality(U) <= n + 1, NEW y \in U
               PROVE  SumFunctionOnSet(f, U) = f[y] + SumFunctionOnSet(f, U \ {y})
    OBVIOUS
  <2> DEFINE p == Pick(U)
  <2>1. SumFunctionOnSet(f, U) = f[p] + SumFunctionOnSet(f, U \ {p})
    BY <1>0, SumPick, Zenon
  <2>2. p \in U
    BY PickIn, Zenon
  <2>3. /\ Cardinality(U \ {p}) <= n
        /\ Cardinality(U \ {y}) <= n
    BY <1>0, <2>2, FS_RemoveElement
  <2>4. CASE p # y
    <3> DEFINE W == (U \ {p}) \ {y}
    <3>1. SumFunctionOnSet(f, U \ {p}) = f[y] + SumFunctionOnSet(f, W)
      BY <1>2, <2>3, <2>4, Zenon
    <3>2. SumFunctionOnSet(f, U \ {y}) = f[p] + SumFunctionOnSet(f, W)
      <4>1. SumFunctionOnSet(f, U \ {y}) = f[p] + SumFunctionOnSet(f, (U \ {y}) \ {p})
        BY <1>2, <2>2, <2>3, <2>4, Zenon
      <4>2. (U \ {y}) \ {p} = W
        BY Zenon
      <4> QED BY <4>1, <4>2, Zenon
    <3>3. f[p] \in Int /\ f[y] \in Int
      BY <2>2, Zenon
    <3>4. SumFunctionOnSet(f, W) \in Int
      BY <1>0, SumType, Zenon
    <3> HIDE DEF p, W
    <3> QED BY <2>1, <3>1, <3>2, <3>3, <3>4
  <2> QED BY <2>1, <2>4, Zenon
<1>3. \A n \in Nat : n \in T
  <2> HIDE DEF T
  <2> QED BY <1>1, <1>2, NatSetInduction, Zenon
<1> QED BY <1>0, <1>3

\* A sum of naturals is a natural, bounded by the bound on its terms.
LEMMA SumBound ==
    ASSUME NEW S, IsFiniteSet(S), NEW f, NEW N \in Nat, NEW M \in Nat,
           \A x \in S : f[x] \in Nat /\ N * f[x] <= M
    PROVE  SumFunctionOnSet(f, S) \in Nat /\ N * SumFunctionOnSet(f, S) <= Cardinality(S) * M
<1> DEFINE Holds(U) == SumFunctionOnSet(f, U) \in Nat /\ N * SumFunctionOnSet(f, U) <= Cardinality(U) * M
           T == {n \in Nat : \A U \in SUBSET S : Cardinality(U) <= n => Holds(U)}
<1>0. \A s \in SUBSET S : IsFiniteSet(s) /\ Cardinality(s) \in Nat /\ (Cardinality(s) = 0 <=> s = {})
  BY FS_Subset, FS_CardinalityType, FS_EmptySet, Zenon
<1>1. Holds({})
  BY SumEmpty, FS_EmptySet
<1>2. 0 \in T
  <2> HIDE DEF Holds
  <2> QED BY <1>0, <1>1
<1>3. ASSUME NEW n \in Nat, n \in T
      PROVE  n + 1 \in T
  <2> SUFFICES ASSUME NEW U \in SUBSET S, Cardinality(U) <= n + 1, U # {}
               PROVE  Holds(U)
    <3> HIDE DEF Holds
    <3> QED BY <1>1
  <2> DEFINE p == Pick(U)
             a == SumFunctionOnSet(f, U \ {p})
             c == Cardinality(U \ {p})
  <2>1. SumFunctionOnSet(f, U) = f[p] + a
    BY <1>0, SumPick, Zenon
  <2>2. /\ U \ {p} \in SUBSET S /\ c <= n /\ Cardinality(U) = c + 1 /\ c \in Nat
    BY SmallerSet, <1>0
  <2>3. a \in Nat /\ N * a <= c * M
    BY <1>3, <2>2, Zenon
  <2>4. f[p] \in Nat /\ N * f[p] <= M
    BY PickIn, Zenon
  <2> HIDE DEF p, a, c
  <2>5. N * (f[p] + a) = N * f[p] + N * a /\ (c + 1) * M = c * M + M
    BY <2>2, <2>3, <2>4
  <2>6. N * f[p] \in Nat /\ N * a \in Nat /\ c * M \in Nat
    BY <2>2, <2>3, <2>4
  <2> QED BY <2>1, <2>2, <2>3, <2>4, <2>5, <2>6
<1>4. \A n \in Nat : n \in T
  <2> HIDE DEF T
  <2> QED BY <1>2, <1>3, NatSetInduction, Zenon
<1>5. Holds(S)
  <2> HIDE DEF Holds
  <2> QED BY <1>0, <1>4
<1> QED BY <1>5, Zenon

-----------------------------------------------------------------------------
\* A remainder is the one number below the modulus that differs by a multiple.
LEMMA ModUnique ==
    ASSUME NEW m \in Nat \ {0}, NEW a \in Int, NEW k \in Int, NEW r \in 0 .. m - 1, a = m * k + r
    PROVE  a % m = r
OBVIOUS

\* A number is a multiple of the modulus and its remainder.
LEMMA ModQuot ==
    ASSUME NEW m \in Nat \ {0}, NEW a \in Int
    PROVE  /\ a \div m \in Int
           /\ a % m \in 0 .. m - 1
           /\ a = m * (a \div m) + (a % m)
OBVIOUS

\* A remainder may be taken before or after an addition: uint64 arithmetic
\* (limit.go:32, 51) gives the total modulo 2^64 however often it wraps.
LEMMA ModStep ==
    ASSUME NEW m \in Nat \ {0}, NEW a \in Int, NEW b \in Int
    PROVE  ((a % m) + (b - a)) % m = b % m
<1> DEFINE k == a \div m
           j == b \div m
           s == a % m
           r == b % m
<1>1. k \in Int /\ s \in 0 .. m - 1 /\ a = m * k + s
  BY ModQuot, Zenon
<1>2. j \in Int /\ r \in 0 .. m - 1 /\ b = m * j + r
  BY ModQuot, Zenon
<1> HIDE DEF k, j, s, r
<1>3. s + (b - a) = m * (j - k) + r
  <2>1. m * (j - k) = m * j - m * k
    BY <1>1, <1>2
  <2>2. m * j \in Int /\ m * k \in Int
    BY <1>1, <1>2
  <2> QED BY <1>1, <1>2, <2>1, <2>2
<1>4. (s + (b - a)) % m = r
  <2>1. s + (b - a) \in Int /\ j - k \in Int
    BY <1>1, <1>2
  <2> QED BY <1>2, <1>3, <2>1, ModUnique, Zenon
<1> QED BY <1>4, Zenon DEF s, r

\* One term of a sum changes.
LEMMA SumChange ==
    ASSUME NEW S, IsFiniteSet(S), NEW f, NEW g, NEW x \in S,
           \A y \in S : f[y] \in Int /\ g[y] \in Int,
           \A y \in S \ {x} : g[y] = f[y]
    PROVE  SumFunctionOnSet(g, S) = SumFunctionOnSet(f, S) - f[x] + g[x]
<1> DEFINE U == S \ {x}
<1>1. IsFiniteSet(U)
  BY FS_RemoveElement, Zenon
<1>2. SumFunctionOnSet(g, U) = SumFunctionOnSet(f, U)
  BY <1>1, SumEqual, Zenon
<1>3. SumFunctionOnSet(f, U) \in Int
  BY <1>1, SumType, Zenon
<1>4. SumFunctionOnSet(f, S) = f[x] + SumFunctionOnSet(f, U)
  BY SumRemove, Zenon
<1>5. SumFunctionOnSet(g, S) = g[x] + SumFunctionOnSet(g, U)
  BY SumRemove, Zenon
<1> HIDE DEF U
<1> QED BY <1>2, <1>3, <1>4, <1>5

\* A term is added to a sum.
LEMMA SumAdd ==
    ASSUME NEW S, IsFiniteSet(S), NEW f, NEW x, x \notin S,
           \A y \in S \cup {x} : f[y] \in Int
    PROVE  SumFunctionOnSet(f, S \cup {x}) = SumFunctionOnSet(f, S) + f[x]
<1> DEFINE U == S \cup {x}
<1>1. IsFiniteSet(U) /\ x \in U /\ U \ {x} = S
  BY FS_AddElement, Zenon
<1>2. \A y \in U : f[y] \in Int
  BY Zenon
<1> HIDE DEF U
<1>3. SumFunctionOnSet(f, U) = f[x] + SumFunctionOnSet(f, S)
  BY <1>1, <1>2, SumRemove, Zenon
<1>4. SumFunctionOnSet(f, S) \in Int /\ f[x] \in Int
  BY <1>1, <1>2, SumType, Zenon
<1>5. SumFunctionOnSet(f, U) = SumFunctionOnSet(f, S) + f[x]
  BY <1>3, <1>4
<1> QED BY <1>5, Zenon DEF U

\* Wrapping between the steps of a sum does not show at its end.
LEMMA WrapStep ==
    ASSUME NEW a \in Int, NEW q \in Int
    PROVE  /\ Wrap(Wrap(a) + q) = Wrap(a + q)
           /\ Wrap(Wrap(a) - q) = Wrap(a - q)
<1>1. Wrap(a) \in Int
  BY WrapType
<1>2. ASSUME NEW b \in Int
      PROVE  Wrap(Wrap(a) + (b - a)) = Wrap(b)
  <2>1. Modulus \in Nat \ {0}
    BY LimitAssumption, Zenon
  <2> QED BY <2>1, ModStep, Zenon DEF Wrap
<1>3. a + q \in Int /\ (a + q) - a = q /\ a - q \in Int /\ Wrap(a) + ((a - q) - a) = Wrap(a) - q
  BY <1>1
<1> QED BY <1>2, <1>3, Zenon

\* A level has finitely many orders.
LEMMA FiniteMembers ==
    ASSUME NEW l
    PROVE  IsFiniteSet(Members(l)) /\ Members(l) \subseteq Ref
<1>1. Members(l) \in SUBSET Ref
  BY Zenon DEF Members
<1>2. IsFiniteSet(Ref)
  BY FS_Interval, LimitAssumption DEF Ref
<1> QED BY <1>1, <1>2, FS_Subset, Zenon

\* A level whose orders and their fills do not change keeps its total.
LEMMA TotalUnchanged ==
    ASSUME BookInv, BookInv', NEW l \in Ref, Members(l)' = Members(l),
           \A o \in Members(l) : Remaining(o)' = Remaining(o)
    PROVE  Total(l)' = Total(l)
<1>1. \A o \in Members(l) : Unfilled'[o] = Unfilled[o]
  BY UnfilledQuantities, FiniteMembers, Zenon DEF Unfilled
<1>2. IsFiniteSet(Members(l))
  BY FiniteMembers, Zenon
<1> QED BY <1>1, <1>2, SumEqual, Zenon DEF Total

\* A level's total is an integer.
LEMMA TotalType ==
    ASSUME BookInv, NEW l
    PROVE  Total(l) \in Int
BY UnfilledQuantities, FiniteMembers, SumType DEF Total

\* An order leaves a level with what it still wants.
LEMMA TotalLess ==
    ASSUME BookInv, NEW l \in Ref, NEW o \in Members(l),
           Members(l)' = Members(l) \ {o},
           \A m \in Members(l) \ {o} : Remaining(m)' = Remaining(m)
    PROVE  Total(l)' = Total(l) - Remaining(o)
<1> DEFINE M == Members(l) \ {o}
<1>1. IsFiniteSet(Members(l)) /\ \A m \in Members(l) : Unfilled[m] \in Int /\ Unfilled[m] = Remaining(m)
  BY UnfilledQuantities, FiniteMembers
<1>2. IsFiniteSet(M)
  BY <1>1, FS_RemoveElement, Zenon
<1>3. \A m \in M : Unfilled'[m] = Unfilled[m]
  BY UnfilledQuantities, FiniteMembers, Zenon DEF Unfilled
<1>4. SumFunctionOnSet(Unfilled', M) = SumFunctionOnSet(Unfilled, M)
  BY <1>2, <1>3, SumEqual, Zenon
<1>5. Total(l) = Unfilled[o] + SumFunctionOnSet(Unfilled, M)
  BY <1>1, SumRemove, Zenon DEF Total
<1>6. Total(l)' = SumFunctionOnSet(Unfilled', M)
  BY Zenon DEF Total
<1>7. SumFunctionOnSet(Unfilled, M) \in Int
  BY <1>1, <1>2, SumType, Zenon
<1> HIDE DEF M
<1> QED BY <1>1, <1>4, <1>5, <1>6, <1>7

\* An order joins a level with what it still wants.
LEMMA TotalMore ==
    ASSUME BookInv, BookInv', NEW l \in Ref, NEW o \in Ref, o \notin Members(l),
           Members(l)' = Members(l) \cup {o},
           \A m \in Ref : Remaining(m)' = Remaining(m)
    PROVE  Total(l)' = Total(l) + Remaining(o)
<1>1. /\ IsFiniteSet(Members(l)) /\ Members(l) \subseteq Ref
      /\ \A m \in Ref : Unfilled[m] \in Int /\ Unfilled[m] = Remaining(m)
  BY UnfilledQuantities, FiniteMembers
<1>2. Unfilled' = Unfilled
  BY Zenon DEF Unfilled
<1>3. SumFunctionOnSet(Unfilled, Members(l) \cup {o}) = Total(l) + Unfilled[o]
  BY <1>1, SumAdd, Zenon DEF Total
<1> QED BY <1>1, <1>2, <1>3, Zenon DEF Total

\* Each operation changes a level's total by what it changes the level's
\* orders by.
LEMMA VolumeNext ==
    ASSUME BookInv, BookInv', VolumeExact, [Next]_vars
    PROVE  VolumeExact'
<1>1. LimitTypeOK
  BY Zenon DEF BookInv, TypeOK
<1>2. \A l \in Ref : Total(l) \in Int /\ volume[l] = Wrap(Total(l))
  BY TotalType, Zenon DEF VolumeExact
<1>3. volume \in [Ref -> Int]
  BY <1>1, LimitAssumption DEF LimitTypeOK
<1>4. ASSUME NEW i \in Ids, NEW r \in Requests, Process(i, r)
      PROVE  VolumeExact'
  <2>1. /\ UNCHANGED <<limitOf, volume, filled>> /\ count \in Nat
        /\ order' = [order EXCEPT ![count + 1] = NewOrder(i, r)]
    BY <1>4 DEF Process, limitVars, BookInv, TypeOK
  <2>2. ASSUME NEW l \in Ref PROVE Total(l)' = Total(l)
    <3>1. Members(l)' = Members(l)
      BY <2>1, Zenon DEF Members
    <3>2. ASSUME NEW o \in Members(l) PROVE Remaining(o)' = Remaining(o)
      <4>1. o \in Ref /\ o <= count
        BY DEF BookInv, Arrived, Members, Ref, Nil
      <4>2. order'[o] = order[o]
        BY <2>1, <4>1 DEF BookInv, TypeOK, Ref
      <4> QED BY <2>1, <4>2, Zenon DEF Remaining
    <3> QED BY <3>1, <3>2, TotalUnchanged, Zenon
  <2> QED BY <1>2, <2>1, <2>2, Zenon DEF VolumeExact
<1>5. ASSUME UNCHANGED <<limitOf, volume, filled, order>>
      PROVE  VolumeExact'
  BY <1>2, <1>5, Zenon DEF VolumeExact, Total, Members, Unfilled, Remaining
<1>6. ASSUME FillHead PROVE VolumeExact'
  <2>1. PICK l \in Ref, m \in Ref, q \in Nat : l = Best /\ m = Maker /\ q = MatchQty
    BY <1>6, FillFacts, Zenon
  <2>2. /\ m \in Members(l) /\ limitOf[m] = l /\ limitOf[taker] = Nil
        /\ \A o \in Ref : Remaining(o)' =
                IF o \in {taker, m} THEN Remaining(o) - q ELSE Remaining(o)
        /\ volume' = [volume EXCEPT ![l] = Wrap(@ - q)]
        /\ limitOf' = IF Remaining(m) = q THEN [limitOf EXCEPT ![m] = Nil] ELSE limitOf
    BY <1>6, <2>1, FillFacts, Zenon
  <2>3. \A k \in Ref : taker \notin Members(k)
    BY <2>2 DEF Members, Ref, Nil
  <2>4. \A o \in Members(l) \ {m} : Remaining(o)' = Remaining(o)
    BY <2>2, <2>3, UnfilledQuantities, FiniteMembers, Zenon
  <2>5. Total(l)' = Total(l) - q
    <3>1. CASE Remaining(m) = q
      <4>1. Members(l)' = Members(l) \ {m}
        BY <1>1, <2>2, <3>1, LeaveMembers, Zenon
      <4> QED BY <2>2, <2>4, <3>1, <4>1, TotalLess, Zenon
    <3>2. CASE Remaining(m) # q
      <4>1. Members(l)' = Members(l)
        BY <2>2, <3>2, Zenon DEF Members
      <4>2. /\ IsFiniteSet(Members(l))
            /\ \A o \in Members(l) : Unfilled[o] \in Int /\ Unfilled'[o] \in Int
            /\ \A o \in Members(l) \ {m} : Unfilled'[o] = Unfilled[o]
            /\ Unfilled'[m] = Unfilled[m] - q
        <5>1. /\ IsFiniteSet(Members(l)) /\ Members(l) \subseteq Ref
              /\ \A o \in Ref : Unfilled[o] = Remaining(o) /\ Remaining(o) \in Nat
          BY UnfilledQuantities, FiniteMembers, Zenon
        <5>2. \A o \in Ref : Unfilled'[o] = Remaining(o)'
          BY Zenon DEF Unfilled
        <5>3. ASSUME NEW o \in Members(l) PROVE Unfilled[o] \in Int /\ Unfilled'[o] \in Int
          BY <2>2, <5>1, <5>2
        <5>4. Unfilled'[m] = Unfilled[m] - q
          BY <2>2, <5>1, <5>2, Zenon
        <5>5. \A o \in Members(l) \ {m} : Unfilled'[o] = Unfilled[o]
          BY <2>4, <5>1, <5>2, Zenon
        <5> QED BY <5>1, <5>3, <5>4, <5>5, Zenon
      <4>3. SumFunctionOnSet(Unfilled', Members(l))
                = SumFunctionOnSet(Unfilled, Members(l)) - Unfilled[m] + Unfilled'[m]
        <5> DEFINE S == Members(l)
                   f == Unfilled
                   g == Unfilled'
        <5>1. /\ IsFiniteSet(S) /\ m \in S
              /\ \A o \in S : f[o] \in Int /\ g[o] \in Int
              /\ \A o \in S \ {m} : g[o] = f[o]
          BY <2>2, <4>2, Zenon
        <5> HIDE DEF S, f, g
        <5>2. SumFunctionOnSet(g, S) = SumFunctionOnSet(f, S) - f[m] + g[m]
          BY <5>1, SumChange
        <5> QED BY <5>2, Zenon DEF S, f, g
      <4>4. /\ Total(l)' = SumFunctionOnSet(Unfilled', Members(l))
            /\ Total(l) = SumFunctionOnSet(Unfilled, Members(l))
        BY <4>1, Zenon DEF Total
      <4>5. Total(l) \in Int /\ Unfilled[m] \in Int
        BY <1>2, <2>2, <4>2, Zenon
      <4> QED BY <4>2, <4>3, <4>4, <4>5
    <3> QED BY <3>1, <3>2, Zenon
  <2>6. ASSUME NEW k \in Ref, k # l PROVE Total(k)' = Total(k)
    <3>1. Members(k)' = Members(k)
      BY <1>1, <2>2, <2>6, LeaveMembers DEF Members
    <3>2. \A o \in Members(k) : Remaining(o)' = Remaining(o)
      BY <2>2, <2>3, <2>6, Zenon DEF Members
    <3> QED BY <3>1, <3>2, TotalUnchanged, Zenon
  <2>7. volume'[l] = Wrap(Total(l) - q)
    BY <1>2, <1>3, <2>2, WrapStep
  <2> QED BY <1>2, <1>3, <2>2, <2>5, <2>6, <2>7, Zenon DEF VolumeExact
<1>7. ASSUME FinishProcess PROVE VolumeExact'
  <2>1. /\ UNCHANGED <<order, filled>> /\ taker \in Ref /\ limitOf[taker] = Nil
        /\ \/ UNCHANGED <<limitOf, volume>>
           \/ \E l \in Ref : /\ limitOf' = [limitOf EXCEPT ![taker] = l]
                             /\ volume' = [volume EXCEPT ![l] = Wrap(@ + Remaining(taker))]
    BY <1>7, FinishFacts, Zenon
  <2>2. CASE UNCHANGED <<limitOf, volume>>
    BY <1>5, <2>1, <2>2, Zenon
  <2>3. ASSUME NEW l \in Ref, limitOf' = [limitOf EXCEPT ![taker] = l],
               volume' = [volume EXCEPT ![l] = Wrap(@ + Remaining(taker))]
        PROVE  VolumeExact'
    <3>1. \A o \in Ref : Remaining(o)' = Remaining(o)
      BY <2>1, Zenon DEF Remaining
    <3>2. \A k \in Ref : Members(k)' = IF k = l THEN Members(k) \cup {taker} ELSE Members(k)
      BY <1>1, <2>1, <2>3, JoinMembers, Zenon
    <3>3. Total(l)' = Total(l) + Remaining(taker)
      <4>1. taker \notin Members(l) /\ Members(l)' = Members(l) \cup {taker}
        BY <2>1, <3>2 DEF Members, Ref, Nil
      <4> QED BY <2>1, <3>1, <4>1, TotalMore, Zenon
    <3>4. ASSUME NEW k \in Ref, k # l PROVE Total(k)' = Total(k)
      BY <3>1, <3>2, <3>4, UnfilledQuantities, FiniteMembers, TotalUnchanged, Zenon
    <3>5. Remaining(taker) \in Int /\ volume' = [volume EXCEPT ![l] = Wrap(volume[l] + Remaining(taker))]
      BY <1>3, <2>1, <2>3, UnfilledQuantities
    <3>6. volume'[l] = Wrap(Total(l) + Remaining(taker))
      BY <1>2, <1>3, <3>5, WrapStep, Zenon
    <3> QED BY <1>2, <1>3, <3>3, <3>4, <3>5, <3>6, Zenon DEF VolumeExact
  <2> QED BY <2>1, <2>2, <2>3, Zenon
<1>8. ASSUME NEW i \in Ids, Cancel(i) PROVE VolumeExact'
  <2>1. /\ UNCHANGED <<order, filled>>
        /\ \E o \in Ref, l \in Ref :
                /\ limitOf[o] = l /\ o \in Members(l)
                /\ limitOf' = [limitOf EXCEPT ![o] = Nil]
                /\ volume' = [volume EXCEPT ![l] = Wrap(@ - Remaining(o))]
    BY <1>8, CancelFacts, ZenonT(30)
  <2>2. PICK o \in Ref, l \in Ref :
            /\ limitOf[o] = l /\ o \in Members(l)
            /\ limitOf' = [limitOf EXCEPT ![o] = Nil]
            /\ volume' = [volume EXCEPT ![l] = Wrap(@ - Remaining(o))]
    BY <2>1, Zenon
  <2>3. \A m \in Ref : Remaining(m)' = Remaining(m)
    BY <2>1, Zenon DEF Remaining
  <2>4. \A k \in Ref : Members(k)' = IF k = l THEN Members(k) \ {o} ELSE Members(k)
    BY <1>1, <2>2, LeaveMembers, Zenon
  <2>5. Total(l)' = Total(l) - Remaining(o)
    <3>1. Members(l)' = Members(l) \ {o} /\ Members(l) \subseteq Ref
      BY <2>4, UnfilledQuantities, FiniteMembers, Zenon
    <3> QED BY <2>2, <2>3, <3>1, TotalLess, Zenon
  <2>6. ASSUME NEW k \in Ref, k # l PROVE Total(k)' = Total(k)
    BY <2>3, <2>4, <2>6, UnfilledQuantities, FiniteMembers, TotalUnchanged, Zenon
  <2>7. Remaining(o) \in Int /\ volume' = [volume EXCEPT ![l] = Wrap(volume[l] - Remaining(o))]
    BY <1>3, <2>2, UnfilledQuantities
  <2>8. volume'[l] = Wrap(Total(l) - Remaining(o))
    BY <1>2, <1>3, <2>7, WrapStep, Zenon
  <2> QED BY <1>2, <1>3, <2>5, <2>6, <2>7, <2>8, Zenon DEF VolumeExact
<1>9. CASE EnterLevel \/ LeaveLevel \/ UNCHANGED vars
  BY <1>5, <1>9, Zenon DEF EnterLevel, LeaveLevel, vars, limitVars
<1>10. CASE \E i \in Ids, r \in Requests : Process(i, r)
  BY <1>4, <1>10, Zenon
<1>11. CASE \E i \in Ids : Cancel(i)
  BY <1>8, <1>11, Zenon
<1> QED BY <1>6, <1>7, <1>9, <1>10, <1>11, Zenon DEF Next, Matching

\* TotalVolume (limit.go:8) is always the unfilled quantity of the level's
\* orders modulo the integer width: AddOrder, RemoveOrder and the direct
\* subtraction in matchOrder (orderbook.go:140) never miss a unit, whatever
\* clients send and whatever the width.
THEOREM VolumeAlwaysExact == Spec => []VolumeExact
<1>1. Init => VolumeExact
  <2> SUFFICES ASSUME Init, NEW l \in Ref PROVE volume[l] = Wrap(Total(l))
    BY Zenon DEF VolumeExact
  <2>1. Members(l) = {} /\ volume[l] = 0
    BY DEF Init, LimitInit, Members, Ref, Nil
  <2>2. Total(l) = 0
    BY <2>1, SumEmpty, Zenon DEF Total
  <2> QED BY <2>1, <2>2, LimitAssumption DEF Wrap
<1>2. BookInv /\ BookInv' /\ VolumeExact /\ [Next]_vars => VolumeExact'
  BY VolumeNext, Zenon
<1> QED BY <1>1, <1>2, BookInvariant, PTL DEF Spec

\* A level without orders reports no volume: the outer loop drops it.
LEMMA EmptyLevelIsZero ==
    ASSUME BookInv, VolumeExact, NEW l \in Ref, head[l] = Nil
    PROVE  volume[l] = 0
<1>1. Members(l) = {}
  BY Zenon DEF BookInv, FifoLinks, EndsOK
<1>2. Total(l) = 0
  BY <1>1, SumEmpty, Zenon DEF Total
<1> QED BY <1>2, LimitAssumption DEF VolumeExact, Wrap

\* matchOrder's loops end: every step inside Process leaves fewer to take, for
\* any integer width and any quantities, also when a level's total wraps.
THEOREM ProcessAlwaysReturns == Spec => ProcessReturns
<1>1. BookInv /\ VolumeExact /\ RestingOpen /\ [Next]_vars
        => [pc # "idle" /\ pc' # "idle" => StepsLeft' < StepsLeft]_vars
  BY EmptyLevelIsZero, LoopProgress, Zenon
<1> QED BY <1>1, BookInvariant, VolumeAlwaysExact, AlwaysOpen, PTL DEF Spec, ProcessReturns

\* While all quantities fit the integer width, a total is not wrapped, and it
\* is zero exactly when the level is empty: what matchOrder
\* (orderbook.go:151) and Cancel (orderbook.go:77) take it for.
LEMMA ZeroIsEmpty ==
    ASSUME BookInv, VolumeExact, RestingOpen, QuantitiesFit, NEW l \in Ref
    PROVE  /\ volume[l] = Total(l)
           /\ volume[l] = 0 <=> Members(l) = {}
<1> DEFINE M == Members(l)
           m == Modulus - 1
<1>1. m \in Nat /\ MaxOrders \in Nat /\ MaxOrders > 0
  BY LimitAssumption
<1>2. IsFiniteSet(M) /\ M \subseteq Ref
  BY FiniteMembers, Zenon
<1>3. ASSUME NEW o \in Ref
      PROVE  Unfilled[o] \in Nat /\ MaxOrders * Unfilled[o] <= m
  <2>1. /\ Unfilled[o] \in Nat /\ order[o].qty \in Nat /\ Unfilled[o] <= order[o].qty
    <3>1. Remaining(o) \in Nat /\ Unfilled[o] = Remaining(o)
      BY UnfilledQuantities, Zenon
    <3>2. order[o].qty \in Nat /\ filled[o] \in Nat
      BY Zenon DEF BookInv, TypeOK, OrderRec
    <3> QED BY <3>1, <3>2 DEF Remaining
  <2>2. MaxOrders * Unfilled[o] <= MaxOrders * order[o].qty
    BY <1>1, <2>1
  <2>3. MaxOrders * order[o].qty < Modulus /\ MaxOrders * order[o].qty \in Nat /\ MaxOrders * Unfilled[o] \in Nat
    BY <1>1, <2>1 DEF QuantitiesFit
  <2> QED BY <1>1, <2>1, <2>2, <2>3, LimitAssumption
<1>4. Cardinality(M) \in Nat /\ Cardinality(M) <= MaxOrders
  <2>1. IsFiniteSet(Ref) /\ Cardinality(Ref) = MaxOrders
    BY <1>1, FS_Interval DEF Ref
  <2> QED BY <1>2, <2>1, FS_Subset, FS_CardinalityType, Zenon
<1>5. Total(l) \in Nat /\ MaxOrders * Total(l) <= Cardinality(M) * m
  <2> HIDE DEF m
  <2> QED BY <1>1, <1>2, <1>3, SumBound, Zenon DEF Total
<1>6. Total(l) <= m
  <2> DEFINE t == Total(l)
             c == Cardinality(M)
             N == MaxOrders
  <2> HIDE DEF t, c, N, m
  <2>1. t \in Nat /\ c \in Nat /\ N \in Nat /\ m \in Nat /\ N > 0 /\ c <= N /\ N * t <= c * m
    BY <1>1, <1>4, <1>5, Zenon DEF t, c, N
  <2>2. c * m <= N * m
    BY <2>1
  <2>3. N * t <= N * m
    <3>1. N * t \in Nat /\ c * m \in Nat /\ N * m \in Nat
      BY <2>1
    <3> QED BY <2>1, <2>2, <3>1
  <2>4. t <= m
    BY <2>1, <2>3
  <2> QED BY <2>4, Zenon DEF t
<1>7. volume[l] = Total(l)
  <2>1. PICK t \in Int : t = Total(l) /\ t \in Nat
    BY <1>5
  <2>2. t = Modulus * 0 + t /\ t \in 0 .. Modulus - 1
    BY <1>6, <2>1, LimitAssumption
  <2>3. t % Modulus = t
    BY <2>2, LimitAssumption, ModUnique
  <2> QED BY <2>1, <2>3, Zenon DEF VolumeExact, Wrap
<1>8. CASE M = {}
  BY <1>7, <1>8, SumEmpty, Zenon DEF Total
<1>9. ASSUME NEW o \in M PROVE Total(l) # 0
  <2>1. IsFiniteSet(M \ {o}) /\ \A x \in M \ {o} : Unfilled[x] \in Nat /\ 0 * Unfilled[x] <= 0
    BY <1>2, <1>3, FS_RemoveElement
  <2>2. SumFunctionOnSet(Unfilled, M \ {o}) \in Nat
    BY <2>1, SumBound, Zenon
  <2>3. Total(l) = Unfilled[o] + SumFunctionOnSet(Unfilled, M \ {o})
    BY <1>2, <1>3, SumRemove DEF Total
  <2>4. Unfilled[o] \in Nat /\ Unfilled[o] > 0
    <3>1. o \in Ref /\ limitOf[o] # Nil
      BY DEF Members, Ref, Nil
    <3>2. Remaining(o) > 0 /\ Unfilled[o] = Remaining(o)
      BY <3>1, UnfilledQuantities, Zenon DEF RestingOpen
    <3> QED BY <1>3, <3>1, <3>2, Zenon
  <2> QED BY <2>2, <2>3, <2>4
<1> QED BY <1>7, <1>8, <1>9, Zenon

\* The same in this state and the next.
LEMMA ZeroIsEmptyAlways ==
    /\ BookInv /\ VolumeExact /\ RestingOpen /\ QuantitiesFit => ZeroMeansEmpty
    /\ (BookInv /\ VolumeExact /\ RestingOpen /\ QuantitiesFit => ZeroMeansEmpty)'
<1>1. BookInv /\ VolumeExact /\ RestingOpen /\ QuantitiesFit => ZeroMeansEmpty
  BY ZeroIsEmpty, Zenon DEF ZeroMeansEmpty
<1> QED BY <1>1, PTL

\* While all orders together ask for less than the integer width, every
\* resting order is listed under its own side and price, and no level without
\* orders stays listed: matchOrder and Cancel drop a level exactly with its
\* last order (orderbook.go:76-83, 151-153).
THEOREM AlwaysListed == TotalsFit => (Spec => []ListingInv)
<1> SUFFICES ASSUME TotalsFit PROVE Spec => []ListingInv
  BY Zenon
<1>1. Init => ListingInv
  <2> SUFFICES ASSUME Init PROVE ListingInv
    BY Zenon
  <2>1. QuantitiesFit
    BY LimitAssumption DEF Init, NoOrder, QuantitiesFit
  <2>2. \A o \in Ref : Listed(o)
    BY Zenon DEF Init, LimitInit, Listed
  <2>3. \A b \in Book : Elements(levels[b]) = {}
    BY DEF Init, Elements
  <2> QED BY <2>1, <2>2, <2>3, ListingParts, Zenon
<1>2. BookInv /\ BookInv' /\ VolumeExact /\ VolumeExact' /\ RestingOpen /\ RestingOpen'
        /\ ListingInv /\ [Next]_vars => ListingInv'
  <2> SUFFICES ASSUME BookInv, BookInv', VolumeExact, VolumeExact', RestingOpen, RestingOpen',
                      ListingInv, [Next]_vars
               PROVE  ListingInv'
    BY Zenon
  <2>1. CASE \E i \in Ids, r \in Requests : Process(i, r)
    BY <2>1, ListingProcess, Zenon
  <2>2. CASE EnterLevel
    BY <2>2, ListingEnter, Zenon
  <2>3. CASE FillHead
    BY <2>3, ListingFill, Zenon
  <2>4. CASE LeaveLevel
    BY <2>4, ListingParts, ZeroIsEmptyAlways, ListingLeave, Zenon
  <2>5. CASE FinishProcess
    BY <2>5, ListingFinish, Zenon
  <2>6. CASE \E i \in Ids : Cancel(i)
    BY <2>6, ZeroIsEmptyAlways, ListingCancel, Zenon
  <2>7. CASE UNCHANGED vars
    <3>1. UNCHANGED <<levels, limitOf, order, pc, taker>>
      BY <2>7, Zenon DEF vars, limitVars
    <3> QED BY <3>1, Zenon DEF ListingInv, ListedLevels, Members, LevelPrice, OwnBook, Best, MakerBook
  <2> QED BY <2>1, <2>2, <2>3, <2>4, <2>5, <2>6, <2>7, Zenon DEF Next, Matching
<1> QED BY <1>1, <1>2, BookInvariant, VolumeAlwaysExact, AlwaysOpen, PTL DEF Spec

-----------------------------------------------------------------------------
\* As long as the quantity at a level cannot overflow, the linked levels, the
\* sorted slices, the index and the loops of matchOrder implement strict
\* price-time priority (orderbook.go:21): a request that enters, each match, the
\* end of Process and a cancellation are steps of the book that keeps only a
\* set of resting orders, and entering or leaving a level changes nothing there.
THEOREM BookIsPriceTime == TotalsFit => (Spec => ImplementsPriceTime)
<1> SUFFICES ASSUME TotalsFit PROVE Spec => ImplementsPriceTime
  BY Zenon
<1>1. Init => Abstract!Init
  <2> SUFFICES ASSUME Init PROVE Abstract!Init
    BY Zenon
  <2>1. /\ count = 0 /\ order = [o \in Ref |-> NoOrder] /\ trades = <<>> /\ pc = "idle"
        /\ \A b \in Book : levels[b] = <<>>
        /\ \A o \in Ref : Remaining(o) = 0
    BY DEF Init, NoOrder, Remaining
  <2>2. ListedLevels = {}
    <3>1. levels["bids"] = <<>> /\ levels["asks"] = <<>>
      BY <2>1, Zenon DEF Book
    <3> QED BY <3>1 DEF ListedLevels, Elements
  <2>3. Unfilled = [o \in Ref |-> 0]
    BY <2>1, Zenon DEF Unfilled
  <2> QED BY <2>1, <2>2, <2>3, Zenon DEF Abstract!Init, Abstract!Ref, Abstract!NoOrder, Abstract!Nil,
                                  Abstract!Buy, Abstract!LimitOrder, Ref, NoOrder, Nil, Buy, LimitOrder
<1>2. BookInv /\ BookInv' /\ ListingInv /\ ListingInv' /\ TradeInv /\ RestingOpen /\ [Next]_vars
        => [Abstract!Next]_(Abstract!vars)
  <2> SUFFICES ASSUME BookInv, BookInv', ListingInv, ListingInv', TradeInv, RestingOpen, [Next]_vars
               PROVE  Abstract!Next \/ UNCHANGED Abstract!vars
    BY Zenon
  <2>1. CASE \E i \in Ids, r \in Requests : Process(i, r)
    BY <2>1, SubmitStep, Zenon DEF Abstract!Next
  <2>2. CASE EnterLevel \/ LeaveLevel
    BY <2>2, LoopStep, Zenon
  <2>3. CASE FillHead
    BY <2>3, ExecuteStep, Zenon DEF Abstract!Next
  <2>4. CASE FinishProcess
    BY <2>4, CloseStep, Zenon DEF Abstract!Next
  <2>5. CASE \E i \in Ids : Cancel(i)
    BY <2>5, WithdrawStep, Zenon DEF Abstract!Next
  <2>6. CASE UNCHANGED vars
    <3>1. UNCHANGED <<count, order, filled, levels, limitOf, pc, taker, trades>>
      BY <2>6, Zenon DEF vars, limitVars
    <3> QED BY <3>1, Zenon DEF Abstract!vars, Unfilled, Remaining, ListedLevels
  <2> QED BY <2>1, <2>2, <2>3, <2>4, <2>5, <2>6, Zenon DEF Next, Matching
<1> QED BY <1>1, <1>2, BookInvariant, AlwaysListed, AlwaysCrosses, AlwaysOpen, PTL
        DEF Spec, ImplementsPriceTime, Abstract!Spec

-----------------------------------------------------------------------------
\* The first n values of an injective sequence are n values.
LEMMA DistinctValues ==
    ASSUME NEW n \in Nat, NEW f, \A j, k \in 1 .. n : f[j] = f[k] => j = k
    PROVE  Cardinality({f[k] : k \in 1 .. n}) = n
<1> DEFINE T == {f[k] : k \in 1 .. n}
           g == [k \in 1 .. n |-> f[k]]
<1>1. g \in [1 .. n -> T] /\ \A k \in 1 .. n : g[k] = f[k]
  BY Zenon
<1>2. g \in Injection(1 .. n, T)
  BY <1>1, Zenon DEF Injection, IsInjective
<1>3. g \in Surjection(1 .. n, T)
  BY <1>1, Zenon DEF Surjection
<1>4. ExistsBijection(1 .. n, T)
  BY <1>2, <1>3, Zenon DEF ExistsBijection, Bijection
<1>5. IsFiniteSet(1 .. n) /\ Cardinality(1 .. n) = n
  BY FS_Interval
<1> QED BY <1>4, <1>5, FS_Bijection, Zenon

\* As long as the quantity at a level cannot overflow, what GetDepth
\* (orderbook.go:226-253) publishes is what the resting orders say.
THEOREM DepthAlwaysExact == TotalsFit => (Spec => []DepthExact)
<1> SUFFICES ASSUME TotalsFit PROVE Spec => []DepthExact
  BY Zenon
<1>1. BookInv /\ ListingInv /\ VolumeExact /\ RestingOpen => DepthExact
  <2> SUFFICES ASSUME BookInv, ListingInv, VolumeExact, RestingOpen, pc = "idle",
                      NEW b \in Book, NEW depth \in 0 .. MaxOrders
               PROVE
            LET resting == {o \in Ref : limitOf[o] # Nil /\ OwnBook(o) = b}
                prices == {order[o].price : o \in resting}
                better(p) == {q \in prices : IF b = "bids" THEN q > p ELSE q < p}
                best == {p \in prices : Cardinality(better(p)) < depth}
                shown == GetDepth(b, depth)
            IN  /\ Len(shown) = Cardinality(best)
                /\ \A p \in best :
                    shown[Cardinality(better(p)) + 1] =
                        [price |-> p,
                         volume |-> SumFunctionOnSet(Unfilled,
                                        {o \in resting : order[o].price = p})]
    BY Zenon DEF DepthExact
  <2> DEFINE resting == {o \in Ref : limitOf[o] # Nil /\ OwnBook(o) = b}
             prices == {order[o].price : o \in resting}
             better(p) == {q \in prices : IF b = "bids" THEN q > p ELSE q < p}
             best == {p \in prices : Cardinality(better(p)) < depth}
             shown == GetDepth(b, depth)
             n == Len(levels[b])
             f == [k \in 1 .. n |-> LevelPrice(levels[b][k])]
             m == SmallerOf(n, depth)
  <2>1. n \in Nat /\ \A k \in 1 .. n : levels[b][k] \in Ref
    BY LenProperties, ElementOfSeq, Zenon DEF BookInv, TypeOK
  <2>2. depth \in Nat /\ m \in Nat /\ m <= n /\ 1 .. m = {k \in 1 .. n : k <= depth}
    BY <2>1, LimitAssumption DEF SmallerOf
  <2>3. \A k \in 1 .. n : f[k] \in Nat /\ f[k] = LevelPrice(levels[b][k])
    BY <2>1, Zenon DEF BookInv, TypeOK, OrderRec, LevelPrice
  <2>4. \A j, k \in 1 .. n : j < k => IF b = "bids" THEN f[j] > f[k] ELSE f[j] < f[k]
    BY <2>3, Zenon DEF BookInv, LevelsSorted, Ahead
  <2>5. prices = {f[k] : k \in 1 .. n}
    <3>1. prices = {LevelPrice(levels[b][k]) : k \in 1 .. n}
      BY LevelsArePrices, Zenon
    <3>2. {LevelPrice(levels[b][k]) : k \in 1 .. n} = {f[k] : k \in 1 .. n}
      BY <2>3, Zenon
    <3> QED BY <3>1, <3>2, Zenon
  <2>6. \A k \in 1 .. n : {o \in resting : order[o].price = f[k]} = Members(levels[b][k])
    BY LevelsArePrices, Zenon
  <2>7. shown = [k \in 1 .. m |-> [price |-> f[k], volume |-> volume[levels[b][k]]]]
    BY <2>2, <2>3, Zenon DEF GetDepth
  <2>8. \A k \in 1 .. n : volume[levels[b][k]] = SumFunctionOnSet(Unfilled, Members(levels[b][k]))
    BY <2>1, ListingParts, ZeroIsEmpty, Zenon DEF Total
  <2> HIDE DEF n, f, m, prices, shown
  <2>9. \A j, k \in 1 .. n : f[j] = f[k] => j = k
    BY <2>1, <2>3, <2>4
  <2>10. ASSUME NEW k \in 1 .. n PROVE Cardinality(better(f[k])) = k - 1
    <3>1. better(f[k]) = {f[j] : j \in 1 .. (k - 1)}
      <4>1. ASSUME NEW j \in 1 .. n
            PROVE  (IF b = "bids" THEN f[j] > f[k] ELSE f[j] < f[k]) <=> j < k
        BY <2>1, <2>3, <2>4
      <4>2. better(f[k]) = {f[j] : j \in {x \in 1 .. n : x < k}}
        BY <2>5, <4>1, Zenon
      <4>3. {x \in 1 .. n : x < k} = 1 .. (k - 1)
        BY <2>1
      <4> QED BY <4>2, <4>3, Zenon
    <3>2. k - 1 \in Nat /\ \A i, j \in 1 .. (k - 1) : f[i] = f[j] => i = j
      BY <2>1, <2>9
    <3>3. Cardinality({f[j] : j \in 1 .. (k - 1)}) = k - 1
      BY <3>2, DistinctValues
    <3> QED BY <3>1, <3>3, Zenon
  <2> HIDE DEF better
  <2>11. best = {f[k] : k \in 1 .. m}
    <3>1. \A k \in 1 .. n : Cardinality(better(f[k])) < depth <=> k <= depth
      BY <2>1, <2>2, <2>10
    <3> QED BY <2>2, <2>5, <3>1, Zenon
  <2> HIDE DEF best
  <2>12. Len(shown) = Cardinality(best)
    <3>1. Cardinality(best) = m
      BY <2>2, <2>9, <2>11, DistinctValues
    <3>2. Len(shown) = m
      BY <2>2, <2>7, SegmentLength, Zenon
    <3> QED BY <3>1, <3>2, Zenon
  <2>13. ASSUME NEW p \in best
         PROVE  shown[Cardinality(better(p)) + 1] =
                    [price |-> p, volume |-> SumFunctionOnSet(Unfilled, {o \in resting : order[o].price = p})]
    <3>1. PICK k \in 1 .. m : p = f[k]
      BY <2>11, Zenon
    <3>2. k \in 1 .. n /\ Cardinality(better(p)) + 1 = k
      BY <2>1, <2>2, <2>10, <3>1
    <3> HIDE DEF resting
    <3> QED BY <2>6, <2>7, <2>8, <3>1, <3>2, Zenon
  <2> QED BY <2>12, <2>13, Zenon DEF best, better, prices, shown
<1> QED BY <1>1, BookInvariant, AlwaysListed, VolumeAlwaysExact, AlwaysOpen, PTL
=============================================================================
