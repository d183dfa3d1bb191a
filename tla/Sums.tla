-------------------------------- MODULE Sums --------------------------------
(* Sums and other folds over finite sets: what SumFunctionOnSet, a fold that   *)
(* takes elements in an order of its own choosing, comes to when a term        *)
(* changes or is added, and that a fold in a given order exists.               *)
(* Induction is over the members of a set, not over a predicate: the least     *)
(* number that is not a member.                                                *)
EXTENDS Integers, SequencesExt, SequenceTheorems, FiniteSetTheorems, WellFoundedInduction, TLAPS

LEMMA LeastNumber ==
  ASSUME NEW T, T \subseteq Nat, T # {}
  PROVE  \E n \in T : \A m \in T : n <= m
<1>1. PICK n \in T : \A m \in T : <<m, n>> \notin OpToRel(<, Nat)
  BY WFMin, NatLessThanWellFounded
<1>2. \A m \in T : ~ (m < n)
  BY <1>1 DEF OpToRel
<1>3. QED
  BY <1>2

\* Induction over the natural numbers.
LEMMA NumberInduction ==
  ASSUME NEW T, 0 \in T, \A n \in Nat : n \in T => n + 1 \in T
  PROVE  Nat \subseteq T
<1>1. SUFFICES ASSUME Nat \ T # {} PROVE FALSE
  OBVIOUS
<1>2. PICK n \in Nat \ T : \A m \in Nat \ T : n <= m
  BY <1>1, LeastNumber
<1>3. n # 0 /\ n - 1 \in Nat /\ n - 1 \in T
  BY <1>2
<1>4. QED
  BY <1>2, <1>3

\* What is left of a finite set without one of its elements.
LEMMA OneLess ==
  ASSUME NEW S, IsFiniteSet(S), NEW x \in S
  PROVE  /\ IsFiniteSet(S \ {x}) /\ Cardinality(S) \in Nat \ {0}
         /\ Cardinality(S \ {x}) = Cardinality(S) - 1
BY FS_RemoveElement, FS_CardinalityType, FS_EmptySet

\* Induction over a finite set: a family that has every subset of S of which it
\* has all the subsets with one element less, has S.
LEMMA SubsetInduction ==
  ASSUME NEW S, IsFiniteSet(S), NEW T,
         \A s \in SUBSET S : (\A x \in s : s \ {x} \in T) => s \in T
  PROVE  S \in T
<1> DEFINE N == {n \in Nat : \A s \in SUBSET S : Cardinality(s) = n => s \in T}
<1>1. 0 \in N
  <2>1. ASSUME NEW s \in SUBSET S, Cardinality(s) = 0 PROVE s \in T
    <3>1. s = {}
      BY <2>1, FS_Subset, FS_EmptySet
    <3>2. QED
      BY <3>1
  <2>2. QED
    BY <2>1
<1>2. ASSUME NEW n \in Nat, n \in N PROVE n + 1 \in N
  <2>1. ASSUME NEW s \in SUBSET S, Cardinality(s) = n + 1 PROVE s \in T
    <3>1. ASSUME NEW x \in s PROVE s \ {x} \in T
      <4>1. Cardinality(s \ {x}) = n /\ s \ {x} \in SUBSET S
        BY <2>1, FS_Subset, OneLess
      <4>2. QED
        BY <1>2, <4>1
    <3>2. QED
      BY <3>1
  <2>2. QED
    BY <2>1
<1> HIDE DEF N
<1>3. Nat \subseteq N
  BY <1>1, <1>2, NumberInduction
<1>4. Cardinality(S) \in Nat
  BY FS_CardinalityType
<1>5. QED
  BY <1>3, <1>4 DEF N

-----------------------------------------------------------------------------
\* One step of the fold, from the sums over smaller sets.
Step(f, g, s) ==
  IF s = {} THEN 0 ELSE f[CHOOSE x \in s : TRUE] + g[s \ {CHOOSE x \in s : TRUE}]

\* g has the sum over every subset of S.
IsTable(f, g, S) == g = [s \in SUBSET S |-> Step(f, g, s)]

LEMMA SumUnfolds ==
  ASSUME NEW f, NEW S
  PROVE  SumFunctionOnSet(f, S) = (CHOOSE g : IsTable(f, g, S))[S]
BY Zenon DEF SumFunctionOnSet, FoldFunctionOnSet, MapThenFoldSet, IsTable, Step

\* Such a function exists.
LEMMA TableExists ==
  ASSUME NEW f, NEW S, IsFiniteSet(S)
  PROVE  \E g : IsTable(f, g, S)
<1> DEFINE Upto(g, n) == \A s \in SUBSET S : Cardinality(s) <= n => g[s] = Step(f, g, s)
           N == {n \in Nat : \E g : Upto(g, n)}
<1>1. \A s \in SUBSET S : IsFiniteSet(s) /\ Cardinality(s) \in Nat
  BY FS_Subset, FS_CardinalityType
<1>2. ASSUME NEW s \in SUBSET S, s # {}
      PROVE  LET x == CHOOSE y \in s : TRUE
             IN  x \in s /\ s \ {x} \in SUBSET S /\ Cardinality(s \ {x}) = Cardinality(s) - 1
  <2>1. PICK y : y \in s
    BY <1>2
  <2>2. (CHOOSE z \in s : TRUE) \in s
    BY <2>1
  <2>3. QED
    BY <1>1, <2>2, OneLess
<1>3. 0 \in N
  <2> DEFINE g == [s \in SUBSET S |-> 0]
  <2>1. ASSUME NEW s \in SUBSET S, Cardinality(s) <= 0 PROVE g[s] = Step(f, g, s)
    <3>1. s = {}
      BY <1>1, <2>1, FS_EmptySet
    <3>2. QED
      BY <3>1 DEF Step
  <2>2. QED
    BY <2>1
<1>4. ASSUME NEW n \in Nat, n \in N PROVE n + 1 \in N
  <2>1. PICK g : Upto(g, n)
    BY <1>4
  <2> DEFINE h == [s \in SUBSET S |-> IF Cardinality(s) <= n THEN g[s] ELSE Step(f, g, s)]
  <2>2. ASSUME NEW s \in SUBSET S, Cardinality(s) <= n + 1 PROVE h[s] = Step(f, h, s)
    <3>1. h[s] = Step(f, g, s)
      BY <2>1, <2>2
    <3>2. CASE s = {}
      BY <3>1, <3>2 DEF Step
    <3>3. CASE s # {}
      <4> DEFINE x == CHOOSE y \in s : TRUE
      <4>1. s \ {x} \in SUBSET S /\ Cardinality(s \ {x}) <= n
        BY <1>1, <1>2, <2>2, <3>3
      <4>2. h[s \ {x}] = g[s \ {x}]
        BY <4>1
      <4>3. QED
        BY <3>1, <3>3, <4>2 DEF Step
    <3>4. QED
      BY <3>2, <3>3
  <2> HIDE DEF h
  <2>3. QED
    BY <2>2
<1>5. Cardinality(S) \in N
  <2> HIDE DEF N
  <2>1. QED
    BY <1>1, <1>3, <1>4, NumberInduction
<1>6. PICK g : Upto(g, Cardinality(S))
  BY <1>5
<1> DEFINE h == [s \in SUBSET S |-> g[s]]
<1>7. ASSUME NEW s \in SUBSET S PROVE g[s] = Step(f, h, s)
  <2>1. g[s] = Step(f, g, s)
    BY <1>1, <1>6, FS_Subset
  <2>2. s # {} => h[s \ {CHOOSE x \in s : TRUE}] = g[s \ {CHOOSE x \in s : TRUE}]
    OBVIOUS
  <2>3. QED
    BY <2>1, <2>2 DEF Step
<1>8. h = [s \in SUBSET S |-> Step(f, h, s)]
  BY <1>7
<1>9. QED
  BY <1>8 DEF IsTable

\* The table of a set has the sums over all its subsets.
LEMMA SumInTable ==
  ASSUME NEW f, NEW S, IsFiniteSet(S), NEW g, IsTable(f, g, S)
  PROVE  \A s \in SUBSET S : SumFunctionOnSet(f, s) = g[s]
<1>1. TAKE s \in SUBSET S
<1> DEFINE h == CHOOSE h : IsTable(f, h, s)
           T == {t \in SUBSET s : g[t] = h[t]}
<1>2. IsFiniteSet(s)
  BY FS_Subset
<1>3. IsTable(f, h, s)
  BY <1>2, TableExists
<1> HIDE DEF h
<1>4. ASSUME NEW t \in SUBSET s, \A x \in t : t \ {x} \in T PROVE t \in T
  <2>1. g[t] = Step(f, g, t) /\ h[t] = Step(f, h, t)
    BY <1>3 DEF IsTable
  <2>2. CASE t = {}
    BY <2>1, <2>2 DEF Step
  <2>3. CASE t # {}
    <3>1. (CHOOSE x \in t : TRUE) \in t
      BY <2>3
    <3>2. QED
      BY <1>4, <2>1, <2>3, <3>1 DEF Step
  <2>4. QED
    BY <2>2, <2>3
<1> HIDE DEF T
<1>5. s \in T
  BY <1>2, <1>4, SubsetInduction
<1>6. QED
  BY <1>5, SumUnfolds DEF T, h

LEMMA SumOfNothing == ASSUME NEW f PROVE SumFunctionOnSet(f, {}) = 0
<1>1. PICK g : IsTable(f, g, {})
  BY TableExists, FS_EmptySet
<1>2. g[{}] = 0
  BY <1>1 DEF IsTable, Step
<1>3. QED
  BY <1>1, <1>2, SumInTable, FS_EmptySet

LEMMA SumByChoice ==
  ASSUME NEW f, NEW S, IsFiniteSet(S), S # {}
  PROVE  \E x \in S : SumFunctionOnSet(f, S) = f[x] + SumFunctionOnSet(f, S \ {x})
<1>1. PICK g : IsTable(f, g, S)
  BY TableExists
<1> DEFINE x == CHOOSE y \in S : TRUE
<1>2. x \in S
  OBVIOUS
<1>3. g[S] = f[x] + g[S \ {x}]
  BY <1>1 DEF IsTable, Step
<1>4. SumFunctionOnSet(f, S) = g[S] /\ SumFunctionOnSet(f, S \ {x}) = g[S \ {x}]
  BY <1>1, SumInTable
<1> HIDE DEF x
<1>5. QED
  BY <1>2, <1>3, <1>4

\* A sum of integers is one.
LEMMA SumType ==
  ASSUME NEW f, NEW S, IsFiniteSet(S), \A x \in S : f[x] \in Int
  PROVE  SumFunctionOnSet(f, S) \in Int
<1> DEFINE T == {s \in SUBSET S : SumFunctionOnSet(f, s) \in Int}
<1>1. ASSUME NEW s \in SUBSET S, \A x \in s : s \ {x} \in T PROVE s \in T
  <2>1. CASE s = {}
    BY <2>1, SumOfNothing
  <2>2. CASE s # {}
    <3>1. PICK x \in s : SumFunctionOnSet(f, s) = f[x] + SumFunctionOnSet(f, s \ {x})
      BY <2>2, SumByChoice, FS_Subset
    <3>2. QED
      BY <1>1, <3>1
  <2>3. QED
    BY <2>1, <2>2
<1> HIDE DEF T
<1>2. S \in T
  BY <1>1, SubsetInduction
<1>3. QED
  BY <1>2 DEF T

\* Whatever element is taken first, the sum is the same.
LEMMA SumTakes ==
  ASSUME NEW f, NEW S, IsFiniteSet(S), \A x \in S : f[x] \in Int, NEW x \in S
  PROVE  SumFunctionOnSet(f, S) = f[x] + SumFunctionOnSet(f, S \ {x})
<1> DEFINE Sum(s) == SumFunctionOnSet(f, s)
           T == {s \in SUBSET S : \A y \in s : Sum(s) = f[y] + Sum(s \ {y})}
<1>1. ASSUME NEW s \in SUBSET S, \A y \in s : s \ {y} \in T PROVE s \in T
  <2>1. SUFFICES ASSUME NEW y \in s PROVE Sum(s) = f[y] + Sum(s \ {y})
    OBVIOUS
  <2>2. PICK z \in s : Sum(s) = f[z] + Sum(s \ {z})
    BY SumByChoice, FS_Subset
  <2>3. CASE y = z
    BY <2>2, <2>3
  <2>4. CASE y # z
    <3>1. (s \ {z}) \ {y} = (s \ {y}) \ {z}
      OBVIOUS
    <3>2. Sum(s \ {z}) = f[y] + Sum((s \ {z}) \ {y})
      BY <1>1, <2>4
    <3>3. Sum(s \ {y}) = f[z] + Sum((s \ {z}) \ {y})
      BY <1>1, <2>4, <3>1
    <3>4. Sum((s \ {z}) \ {y}) \in Int
      <4>1. IsFiniteSet((s \ {z}) \ {y})
        BY FS_Subset
      <4>2. QED
        BY <4>1, SumType
    <3> HIDE DEF Sum
    <3>5. f[y] \in Int /\ f[z] \in Int
      OBVIOUS
    <3>6. QED
      BY <2>2, <3>2, <3>3, <3>4, <3>5
  <2>5. QED
    BY <2>3, <2>4
<1> HIDE DEF T
<1>2. S \in T
  BY <1>1, SubsetInduction
<1>3. QED
  BY <1>2 DEF T

-----------------------------------------------------------------------------
\* Functions that agree on a set have the same sum over it.
LEMMA SumSame ==
  ASSUME NEW f, NEW g, NEW S, IsFiniteSet(S), \A x \in S : f[x] = g[x]
  PROVE  SumFunctionOnSet(f, S) = SumFunctionOnSet(g, S)
<1>1. PICK h : IsTable(f, h, S)
  BY TableExists
<1>2. ASSUME NEW s \in SUBSET S PROVE Step(f, h, s) = Step(g, h, s)
  <2>1. CASE s = {}
    BY <2>1 DEF Step
  <2>2. CASE s # {}
    <3>1. (CHOOSE x \in s : TRUE) \in S
      BY <2>2
    <3>2. QED
      BY <2>2, <3>1 DEF Step
  <2>3. QED
    BY <2>1, <2>2
<1>3. IsTable(g, h, S)
  BY <1>1, <1>2 DEF IsTable
<1>4. QED
  BY <1>1, <1>3, SumInTable

\* A sum of sums, term by term.
LEMMA SumOfSums ==
  ASSUME NEW f, NEW g, NEW h, NEW S, IsFiniteSet(S),
         \A x \in S : f[x] \in Int /\ g[x] \in Int /\ h[x] = f[x] + g[x]
  PROVE  SumFunctionOnSet(h, S) = SumFunctionOnSet(f, S) + SumFunctionOnSet(g, S)
<1> DEFINE Adds(s) == SumFunctionOnSet(h, s) = SumFunctionOnSet(f, s) + SumFunctionOnSet(g, s)
           T == {s \in SUBSET S : Adds(s)}
<1>1. ASSUME NEW s \in SUBSET S, \A x \in s : s \ {x} \in T PROVE s \in T
  <2>1. CASE s = {}
    BY <2>1, SumOfNothing
  <2>2. CASE s # {}
    <3>1. PICK x \in s : TRUE
      BY <2>2
    <3>2. IsFiniteSet(s) /\ IsFiniteSet(s \ {x}) /\ s \ {x} \in SUBSET S
      BY FS_Subset
    <3>3. /\ SumFunctionOnSet(f, s) = f[x] + SumFunctionOnSet(f, s \ {x})
          /\ SumFunctionOnSet(g, s) = g[x] + SumFunctionOnSet(g, s \ {x})
          /\ SumFunctionOnSet(h, s) = h[x] + SumFunctionOnSet(h, s \ {x})
      BY <3>2, SumTakes
    <3>4. SumFunctionOnSet(f, s \ {x}) \in Int /\ SumFunctionOnSet(g, s \ {x}) \in Int
      BY <3>2, SumType
    <3>5. Adds(s \ {x})
      BY <1>1
    <3>6. QED
      BY <3>3, <3>4, <3>5
  <2>3. QED
    BY <2>1, <2>2
<1> HIDE DEF T
<1>2. S \in T
  BY <1>1, SubsetInduction
<1>3. QED
  BY <1>2 DEF T

\* One term changes.
LEMMA SumChanges ==
  ASSUME NEW f, NEW g, NEW S, IsFiniteSet(S), NEW x \in S,
         \A y \in S : f[y] \in Int /\ g[y] \in Int, \A y \in S : y # x => g[y] = f[y]
  PROVE  SumFunctionOnSet(g, S) = SumFunctionOnSet(f, S) + (g[x] - f[x])
<1>1. IsFiniteSet(S \ {x})
  BY FS_Subset
<1>2. /\ SumFunctionOnSet(f, S) = f[x] + SumFunctionOnSet(f, S \ {x})
      /\ SumFunctionOnSet(g, S) = g[x] + SumFunctionOnSet(g, S \ {x})
  BY SumTakes
<1>3. SumFunctionOnSet(f, S \ {x}) = SumFunctionOnSet(g, S \ {x})
  BY <1>1, SumSame
<1>4. SumFunctionOnSet(f, S \ {x}) \in Int
  BY <1>1, SumType
<1>5. QED
  BY <1>2, <1>3, <1>4

\* A sum of natural numbers is one, and none of them is more than it.
LEMMA SumOfNaturals ==
  ASSUME NEW f, NEW S, IsFiniteSet(S), \A x \in S : f[x] \in Nat
  PROVE  /\ SumFunctionOnSet(f, S) \in Nat
         /\ \A x \in S : f[x] <= SumFunctionOnSet(f, S)
<1> DEFINE T == {s \in SUBSET S : SumFunctionOnSet(f, s) \in Nat}
<1>1. ASSUME NEW s \in SUBSET S, \A x \in s : s \ {x} \in T PROVE s \in T
  <2>1. CASE s = {}
    BY <2>1, SumOfNothing
  <2>2. CASE s # {}
    <3>1. PICK x \in s : SumFunctionOnSet(f, s) = f[x] + SumFunctionOnSet(f, s \ {x})
      BY <2>2, SumByChoice, FS_Subset
    <3>2. QED
      BY <1>1, <3>1
  <2>3. QED
    BY <2>1, <2>2
<1>2. ASSUME NEW s \in SUBSET S PROVE s \in T
  <2>1. ASSUME NEW t \in SUBSET s, \A x \in t : t \ {x} \in T PROVE t \in T
    BY <1>1, <2>1
  <2> HIDE DEF T
  <2>2. IsFiniteSet(s)
    BY FS_Subset
  <2>3. QED
    BY <2>1, <2>2, SubsetInduction
<1>3. ASSUME NEW x \in S PROVE f[x] <= SumFunctionOnSet(f, S)
  <2>1. SumFunctionOnSet(f, S) = f[x] + SumFunctionOnSet(f, S \ {x})
    BY SumTakes
  <2>2. SumFunctionOnSet(f, S \ {x}) \in Nat
    BY <1>2
  <2>3. QED
    BY <2>1, <2>2
<1>4. QED
  BY <1>2, <1>3

LEMMA SumOfZeros ==
  ASSUME NEW f, NEW S, IsFiniteSet(S), \A x \in S : f[x] = 0
  PROVE  SumFunctionOnSet(f, S) = 0
<1> DEFINE sum == SumFunctionOnSet(f, S)
<1>1. sum = sum + sum
  BY SumOfSums
<1>2. sum \in Int
  BY SumType
<1> HIDE DEF sum
<1>3. sum = 0
  BY <1>1, <1>2
<1>4. QED
  BY <1>3 DEF sum

-----------------------------------------------------------------------------
LEMMA SequenceSumType ==
  ASSUME NEW s \in Seq(Int)
  PROVE  SumFunction(s) \in Int
<1>1. DOMAIN s = 1 .. Len(s) /\ Len(s) \in Nat /\ \A i \in 1 .. Len(s) : s[i] \in Int
  OBVIOUS
<1>2. IsFiniteSet(1 .. Len(s))
  BY <1>1, FS_Interval
<1>3. QED
  BY <1>1, <1>2, SumType DEF SumFunction

\* What is left of a sequence when its k-th element is taken out.
LEMMA RemovedIs ==
  ASSUME NEW s \in Seq(Int), NEW k \in 1 .. Len(s)
  PROVE  /\ RemoveAt(s, k) \in Seq(Int) /\ Len(RemoveAt(s, k)) = Len(s) - 1
         /\ \A i \in 1 .. Len(s) - 1 : RemoveAt(s, k)[i] = IF i < k THEN s[i] ELSE s[i + 1]
<1> DEFINE a == SubSeq(s, 1, k - 1)  b == SubSeq(s, k + 1, Len(s))  n == Len(s)
<1>1. a \in Seq(Int) /\ Len(a) = k - 1 /\ \A i \in 1 .. k - 1 : a[i] = s[i]
  OBVIOUS
<1>2. b \in Seq(Int) /\ Len(b) = n - k /\ \A i \in 1 .. n - k : b[i] = s[k + i]
  OBVIOUS
<1>3. RemoveAt(s, k) = a \o b /\ n \in Nat /\ k \in 1 .. n
  BY DEF RemoveAt
<1> DEFINE r == a \o b
<1>4. /\ r \in Seq(Int) /\ Len(r) = Len(a) + Len(b)
      /\ \A i \in 1 .. Len(a) + Len(b) : r[i] = IF i <= Len(a) THEN a[i] ELSE b[i - Len(a)]
  <2> HIDE DEF a, b
  <2>1. QED
    BY Zenon, <1>1, <1>2, ConcatProperties
<1> HIDE DEF a, b, n, r
<1>5. r \in Seq(Int) /\ Len(r) = n - 1
  <2>1. Len(r) = (k - 1) + (n - k) /\ r \in Seq(Int)
    BY Zenon, <1>1, <1>2, <1>4 DEF n
  <2>2. QED
    BY <1>3, <2>1
<1>6. ASSUME NEW i \in 1 .. n - 1 PROVE r[i] = IF i < k THEN s[i] ELSE s[i + 1]
  <2>1. r[i] = IF i <= k - 1 THEN a[i] ELSE b[i - (k - 1)]
    BY <1>1, <1>2, <1>3, <1>4
  <2>2. CASE i < k
    <3>1. i \in 1 .. k - 1 /\ i <= k - 1
      BY <1>3, <2>2
    <3>2. QED
      BY Zenon, <1>1, <2>1, <2>2, <3>1
  <2>3. CASE ~(i < k)
    <3>1. i - (k - 1) \in 1 .. n - k /\ k + (i - (k - 1)) = i + 1 /\ ~(i <= k - 1)
      BY <1>3, <2>3
    <3>2. b[i - (k - 1)] = s[k + (i - (k - 1))]
      BY Zenon, <1>2, <3>1
    <3>3. QED
      BY Zenon, <2>1, <2>3, <3>1, <3>2
  <2>4. QED
    BY Zenon, <2>2, <2>3
<1>7. QED
  BY Zenon, <1>3, <1>5, <1>6 DEF n, r

\* The sum of a sequence grows by what is appended ...
LEMMA SumAppends ==
  ASSUME NEW s \in Seq(Int), NEW x \in Int
  PROVE  SumFunction(Append(s, x)) = SumFunction(s) + x
<1> DEFINE n == Len(s)  t == Append(s, x)
<1>1. /\ DOMAIN s = 1 .. n /\ DOMAIN t = 1 .. n + 1 /\ n \in Nat /\ t[n + 1] = x
      /\ \A i \in 1 .. n : s[i] \in Int /\ t[i] = s[i]
  OBVIOUS
<1>2. IsFiniteSet(1 .. n) /\ IsFiniteSet(1 .. n + 1)
  BY <1>1, FS_Interval
<1>3. (1 .. n + 1) \ {n + 1} = 1 .. n
  BY <1>1
<1> HIDE DEF n, t
<1>4. \A i \in 1 .. n + 1 : t[i] \in Int
  BY <1>1
<1>5. SumFunctionOnSet(t, 1 .. n + 1) = x + SumFunctionOnSet(t, 1 .. n)
  BY <1>1, <1>2, <1>3, <1>4, SumTakes
<1>6. SumFunctionOnSet(t, 1 .. n) = SumFunctionOnSet(s, 1 .. n)
  BY <1>1, <1>2, SumSame
<1>7. SumFunctionOnSet(s, 1 .. n) \in Int
  BY <1>1, <1>2, SumType
<1>8. QED
  BY <1>1, <1>5, <1>6, <1>7 DEF SumFunction, n, t

\* ... and shrinks by what is removed, wherever it was.
LEMMA SumRemoves ==
  ASSUME NEW s \in Seq(Int), NEW k \in 1 .. Len(s)
  PROVE  SumFunction(RemoveAt(s, k)) = SumFunction(s) - s[k]
<1> DEFINE Shrinks(u, j) == SumFunction(RemoveAt(u, j)) = SumFunction(u) - u[j]
           N == {n \in Nat : \A u \in Seq(Int) : Len(u) = n => \A j \in 1 .. n : Shrinks(u, j)}
<1>1. 0 \in N
  OBVIOUS
<1>2. ASSUME NEW n \in Nat, n \in N PROVE n + 1 \in N
  <2>1. SUFFICES ASSUME NEW u \in Seq(Int), Len(u) = n + 1, NEW j \in 1 .. n + 1 PROVE Shrinks(u, j)
    OBVIOUS
  <2> DEFINE v == SubSeq(u, 1, n)  x == u[n + 1]
  <2>2. v \in Seq(Int) /\ Len(v) = n /\ x \in Int /\ \A i \in 1 .. n : v[i] = u[i]
    BY <2>1
  <2>3. u = Append(v, x)
    <3> DEFINE w == Append(v, x)
    <3>1. /\ w \in Seq(Int) /\ Len(w) = n + 1 /\ w[n + 1] = x
          /\ \A i \in 1 .. n : w[i] = v[i]
      BY <2>2, AppendProperties
    <3> HIDE DEF v, w
    <3>2. \A i \in 1 .. Len(u) : u[i] = w[i]
      BY <2>1, <2>2, <3>1
    <3>3. u = w
      BY <2>1, <3>1, <3>2, SeqEqual
    <3>4. QED
      BY <3>3 DEF w
  <2>4. SumFunction(u) = SumFunction(v) + x
    BY <2>2, <2>3, SumAppends
  <2>5. SumFunction(v) \in Int
    <3> HIDE DEF v
    <3>1. DOMAIN v = 1 .. n /\ \A i \in 1 .. n : v[i] \in Int
      BY <2>2
    <3>2. IsFiniteSet(1 .. n)
      BY FS_Interval
    <3>3. QED
      BY <3>1, <3>2, SumType DEF SumFunction
  <2>6. CASE j = n + 1
    <3>1. RemoveAt(u, j) = v
      <4>1. SubSeq(u, 1, j - 1) = v
        BY <2>6
      <4>2. SubSeq(u, j + 1, Len(u)) = << >>
        BY <2>1, <2>6, SubSeqEmpty
      <4>3. v \o << >> = v
        BY <2>2, ConcatEmptySeq
      <4>4. QED
        BY <4>1, <4>2, <4>3 DEF RemoveAt
    <3> HIDE DEF v
    <3>2. QED
      BY <2>2, <2>4, <2>5, <2>6, <3>1
  <2>7. CASE j \in 1 .. n
    <3> DEFINE w == RemoveAt(v, j)
    <3>1. Len(v) = n /\ j \in 1 .. Len(v) /\ j \in 1 .. Len(u)
      BY <2>1, <2>2, <2>7
    <3>2. w \in Seq(Int) /\ RemoveAt(u, j) = Append(w, x)
      <4>1. /\ w \in Seq(Int) /\ Len(w) = Len(v) - 1
            /\ \A i \in 1 .. Len(v) - 1 : w[i] = IF i < j THEN v[i] ELSE v[i + 1]
        BY Zenon, <2>2, <3>1, RemovedIs
      <4>2. /\ RemoveAt(u, j) \in Seq(Int) /\ Len(RemoveAt(u, j)) = Len(u) - 1
            /\ \A i \in 1 .. Len(u) - 1 : RemoveAt(u, j)[i] = IF i < j THEN u[i] ELSE u[i + 1]
        BY Zenon, <3>1, RemovedIs
      <4> DEFINE r == RemoveAt(u, j)
      <4>3. Len(u) - 1 = n /\ Len(v) - 1 = n - 1
        BY <2>1, <2>2
      <4> HIDE DEF v, w, r
      <4>4. Append(w, x) \in Seq(Int) /\ Len(Append(w, x)) = n /\ r \in Seq(Int) /\ Len(r) = n
        BY <2>2, <4>1, <4>2, <4>3 DEF r
      <4>5. ASSUME NEW i \in 1 .. n PROVE r[i] = Append(w, x)[i]
        <5>1. r[i] = IF i < j THEN u[i] ELSE u[i + 1]
          BY Zenon, <4>2, <4>3 DEF r
        <5>2. CASE i \in 1 .. n - 1
          <6>1. Append(w, x)[i] = w[i]
            BY <2>2, <4>1, <4>3, <5>2, AppendProperties
          <6>2. w[i] = IF i < j THEN v[i] ELSE v[i + 1]
            BY Zenon, <4>1, <4>3, <5>2
          <6>3. v[i] = u[i] /\ v[i + 1] = u[i + 1]
            <7>1. i \in 1 .. n /\ i + 1 \in 1 .. n
              BY <5>2
            <7>2. QED
              BY Zenon, <2>2, <7>1
          <6>4. QED
            BY Zenon, <5>1, <6>1, <6>2, <6>3
        <5>3. CASE i = n
          <6>1. Append(w, x)[n] = x
            BY <2>2, <4>1, <4>3, AppendProperties
          <6>2. ~(n < j) /\ x = u[n + 1]
            BY <2>7
          <6>3. QED
            BY Zenon, <5>1, <5>3, <6>1, <6>2
        <5>4. i \in 1 .. n - 1 \/ i = n
          OBVIOUS
        <5>5. QED
          BY Zenon, <5>2, <5>3, <5>4
      <4>6. r = Append(w, x)
        BY Zenon, <4>4, <4>5, SeqEqual
      <4>7. QED
        BY Zenon, <4>1, <4>6 DEF r
    <3> HIDE DEF w
    <3>3. SumFunction(RemoveAt(u, j)) = SumFunction(w) + x
      BY <2>2, <3>2, SumAppends
    <3>4. SumFunction(w) = SumFunction(v) - v[j]
      BY <1>2, <2>2, <2>7 DEF w
    <3>5. v[j] = u[j] /\ v[j] \in Int
      BY <2>2, <2>7
    <3> HIDE DEF v, x
    <3> DEFINE less == SumFunction(RemoveAt(u, j))  rest == SumFunction(w)
               whole == SumFunction(u)  first == SumFunction(v)  out == v[j]
    <3>6. less = rest + x /\ rest = first - out /\ whole = first + x
      BY <2>4, <3>3, <3>4
    <3>7. first \in Int /\ x \in Int /\ out \in Int
      BY <2>2, <2>5, <3>5
    <3> HIDE DEF less, rest, whole, first, out
    <3>8. less = whole - out
      BY <3>6, <3>7
    <3>9. QED
      BY <3>5, <3>8 DEF less, whole, out
  <2>8. QED
    BY <2>6, <2>7
<1> HIDE DEF N
<1>3. Nat \subseteq N
  BY <1>1, <1>2, NumberInduction
<1>4. QED
  BY <1>3 DEF N

-----------------------------------------------------------------------------
\* The sum over two sets that have nothing in common.
LEMMA SumOfUnion ==
  ASSUME NEW f, NEW S, NEW R, IsFiniteSet(S), IsFiniteSet(R), S \cap R = {},
         \A x \in S \cup R : f[x] \in Int
  PROVE  SumFunctionOnSet(f, S \cup R) = SumFunctionOnSet(f, S) + SumFunctionOnSet(f, R)
<1> DEFINE Sum(s) == SumFunctionOnSet(f, s)
           T == {s \in SUBSET R : Sum(S \cup s) = Sum(S) + Sum(s)}
<1>1. Sum(S) \in Int
  BY SumType
<1>2. ASSUME NEW s \in SUBSET R, \A x \in s : s \ {x} \in T PROVE s \in T
  <2>1. CASE s = {}
    BY <1>1, <2>1, SumOfNothing
  <2>2. CASE s # {}
    <3>1. PICK x \in s : TRUE
      BY <2>2
    <3>2. IsFiniteSet(s) /\ IsFiniteSet(s \ {x}) /\ IsFiniteSet(S \cup s) /\ x \in S \cup s
      BY FS_Subset, FS_Union
    <3>3. (S \cup s) \ {x} = S \cup (s \ {x})
      BY <3>1
    <3>4. Sum(S \cup s) = f[x] + Sum(S \cup (s \ {x})) /\ Sum(s) = f[x] + Sum(s \ {x})
      <4>1. Sum(s) = f[x] + Sum(s \ {x})
        BY <3>1, <3>2, SumTakes
      <4>2. \A y \in S \cup s : f[y] \in Int
        OBVIOUS
      <4>3. SumFunctionOnSet(f, S \cup s) = f[x] + SumFunctionOnSet(f, (S \cup s) \ {x})
        BY <3>2, <4>2, SumTakes
      <4>4. QED
        BY <3>3, <4>1, <4>3
    <3>5. Sum(S \cup (s \ {x})) = Sum(S) + Sum(s \ {x}) /\ f[x] \in Int
      BY <1>2, <3>1
    <3>6. Sum(s \ {x}) \in Int
      BY <3>2, SumType
    <3>7. QED
      BY <1>1, <3>4, <3>5, <3>6
  <2>3. QED
    BY <2>1, <2>2
<1> HIDE DEF T
<1>3. R \in T
  BY <1>2, SubsetInduction
<1>4. QED
  BY <1>3 DEF T

\* The sum over more is more.
LEMMA SumOfMore ==
  ASSUME NEW f, NEW S, NEW R \in SUBSET S, IsFiniteSet(S), \A x \in S : f[x] \in Nat
  PROVE  SumFunctionOnSet(f, R) <= SumFunctionOnSet(f, S)
<1>1. IsFiniteSet(R) /\ IsFiniteSet(S \ R) /\ R \cup (S \ R) = S /\ R \cap (S \ R) = {}
  BY FS_Subset
<1>2. SumFunctionOnSet(f, R \cup (S \ R)) = SumFunctionOnSet(f, R) + SumFunctionOnSet(f, S \ R)
  <2>1. \A x \in R \cup (S \ R) : f[x] \in Int
    OBVIOUS
  <2>2. QED
    BY <1>1, <2>1, SumOfUnion
<1>3. SumFunctionOnSet(f, R) \in Nat /\ SumFunctionOnSet(f, S \ R) \in Nat
  BY <1>1, SumOfNaturals
<1>4. SumFunctionOnSet(f, S) = SumFunctionOnSet(f, R) + SumFunctionOnSet(f, S \ R)
  BY <1>1, <1>2, Zenon
<1>5. QED
  BY <1>3, <1>4

-----------------------------------------------------------------------------
\* Among finitely many there is one of highest rank.
LEMMA HighestRank ==
  ASSUME NEW S, IsFiniteSet(S), S # {}, NEW rank, \A x \in S : rank[x] \in Int
  PROVE  \E x \in S : \A y \in S : rank[y] <= rank[x]
<1> DEFINE T == {s \in SUBSET S : s # {} => \E x \in s : \A y \in s : rank[y] <= rank[x]}
<1>1. ASSUME NEW s \in SUBSET S, \A x \in s : s \ {x} \in T, s # {}
      PROVE  \E x \in s : \A y \in s : rank[y] <= rank[x]
  <2>1. PICK z \in s : TRUE
    BY <1>1
  <2>2. CASE s \ {z} = {}
    <3>1. \A y \in s : y = z
      BY <2>2
    <3>2. QED
      BY <2>1, <3>1
  <2>3. CASE s \ {z} # {}
    <3>1. PICK x \in s \ {z} : \A y \in s \ {z} : rank[y] <= rank[x]
      BY <1>1, <2>1, <2>3
    <3>2. rank[x] \in Int /\ rank[z] \in Int /\ \A y \in s : rank[y] \in Int
      BY <2>1, <3>1
    <3>3. CASE rank[x] <= rank[z]
      <4>1. \A y \in s : rank[y] <= rank[z]
        BY <3>1, <3>2, <3>3
      <4>2. QED
        BY <2>1, <4>1
    <3>4. CASE ~(rank[x] <= rank[z])
      <4>1. \A y \in s : rank[y] <= rank[x]
        BY <3>1, <3>2, <3>4
      <4>2. QED
        BY <3>1, <4>1
    <3>5. QED
      BY <3>3, <3>4
  <2>4. QED
    BY <2>2, <2>3
<1>2. \A s \in SUBSET S : (\A x \in s : s \ {x} \in T) => s \in T
  BY <1>1
<1> HIDE DEF T
<1>3. S \in T
  BY <1>2, SubsetInduction
<1>4. QED
  BY <1>3 DEF T

\* A fold that takes the element "last" names at last: there is a function that
\* has the outcome for every subset.
IsFold(h, S, last, base, act) ==
  \A s \in SUBSET S : h[s] = IF s = {} THEN base ELSE act[<<last[s], h[s \ {last[s]}]>>]

LEMMA FoldExists ==
  ASSUME NEW S, IsFiniteSet(S), NEW last, \A s \in SUBSET S : s # {} => last[s] \in s,
         NEW St, NEW base \in St, NEW act \in [S \X St -> St]
  PROVE  \E h \in [SUBSET S -> St] : IsFold(h, S, last, base, act)
<1> DEFINE Next(g, s) == IF s = {} THEN base ELSE act[<<last[s], g[s \ {last[s]}]>>]
           Upto(g, n) == \A s \in SUBSET S : Cardinality(s) <= n => g[s] = Next(g, s)
           N == {n \in Nat : \E g \in [SUBSET S -> St] : Upto(g, n)}
<1>1. \A s \in SUBSET S : IsFiniteSet(s) /\ Cardinality(s) \in Nat
  BY FS_Subset, FS_CardinalityType
<1>2. ASSUME NEW s \in SUBSET S, s # {}
      PROVE  last[s] \in S /\ s \ {last[s]} \in SUBSET S /\ Cardinality(s \ {last[s]}) = Cardinality(s) - 1
  <2>1. last[s] \in s
    BY <1>2
  <2>2. QED
    BY <1>1, <2>1, OneLess
<1>3. ASSUME NEW g \in [SUBSET S -> St], NEW s \in SUBSET S PROVE Next(g, s) \in St
  <2>1. CASE s = {}
    BY <2>1
  <2>2. CASE s # {}
    <3>1. g[s \ {last[s]}] \in St /\ last[s] \in S
      BY <1>2, <2>2
    <3>2. QED
      BY <2>2, <3>1
  <2>3. QED
    BY <2>1, <2>2
<1>4. 0 \in N
  <2> DEFINE g == [s \in SUBSET S |-> base]
  <2>1. ASSUME NEW s \in SUBSET S, Cardinality(s) <= 0 PROVE g[s] = Next(g, s)
    <3>1. s = {}
      BY <1>1, <2>1, FS_EmptySet
    <3>2. QED
      BY <3>1
  <2>2. g \in [SUBSET S -> St]
    OBVIOUS
  <2> HIDE DEF g
  <2>3. QED
    BY <2>1, <2>2
<1>5. ASSUME NEW n \in Nat, n \in N PROVE n + 1 \in N
  <2>1. PICK g \in [SUBSET S -> St] : Upto(g, n)
    BY <1>5
  <2> DEFINE h == [s \in SUBSET S |-> IF Cardinality(s) <= n THEN g[s] ELSE Next(g, s)]
  <2>2. h \in [SUBSET S -> St]
    <3> HIDE DEF Next
    <3>1. QED
      BY <1>3
  <2>3. ASSUME NEW s \in SUBSET S, Cardinality(s) <= n + 1 PROVE h[s] = Next(h, s)
    <3>1. h[s] = Next(g, s)
      BY <2>1, <2>3
    <3>2. CASE s = {}
      BY <3>1, <3>2
    <3>3. CASE s # {}
      <4>1. s \ {last[s]} \in SUBSET S /\ Cardinality(s \ {last[s]}) <= n
        BY <1>1, <1>2, <2>3, <3>3
      <4>2. h[s \ {last[s]}] = g[s \ {last[s]}]
        BY <4>1
      <4> HIDE DEF h
      <4>3. QED
        BY <3>1, <3>3, <4>2
    <3>4. QED
      BY <3>2, <3>3
  <2> HIDE DEF h, Next
  <2>4. QED
    BY <2>2, <2>3
<1>6. Cardinality(S) \in N
  <2> HIDE DEF N
  <2>1. QED
    BY <1>1, <1>4, <1>5, NumberInduction
<1>7. PICK g \in [SUBSET S -> St] : Upto(g, Cardinality(S))
  BY <1>6
<1>8. ASSUME NEW s \in SUBSET S PROVE g[s] = Next(g, s)
  <2>1. Cardinality(s) <= Cardinality(S)
    BY FS_Subset
  <2>2. QED
    BY <1>7, <2>1
<1>9. QED
  BY <1>8 DEF IsFold
=============================================================================
