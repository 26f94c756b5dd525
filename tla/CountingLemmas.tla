--------------------------- MODULE CountingLemmas ---------------------------
(* What the proofs about several modules need of numbers and of sums: that  *)
(* there is a least number, that one may count up to any, and what the sum  *)
(* over a finite set is, which the library takes by a recursive function.   *)
EXTENDS Integers, FiniteSetsExt, Functions, FiniteSetTheorems, WellFoundedInduction, TLAPS

-----------------------------------------------------------------------------
(* Numbers *)

(* A set of numbers with a member has a least one ...                       *)
LEMMA Least ==
    ASSUME NEW S \in SUBSET Nat, NEW k \in S
    PROVE  \E n \in S : \A m \in S : n <= m
<1> DEFINE R == OpToRel(<, Nat)
<1>1. IsWellFoundedOn(R, Nat)
  BY NatLessThanWellFounded
<1>2. \A m, n \in Nat : <<m, n>> \in R <=> m < n
  BY DEF OpToRel
<1> HIDE DEF R
<1>3. PICK x \in S : \A y \in S : ~ (<<y, x>> \in R)
  BY <1>1, WFMin
<1>4. \A y \in S : ~ (y < x)
  BY <1>2, <1>3
<1> QED
  BY <1>3, <1>4

(* ... and one with a bound has a greatest ...                              *)
LEMMA Greatest ==
    ASSUME NEW n \in Nat, NEW S \in SUBSET (0..n), NEW k \in S
    PROVE  \E m \in S : \A j \in S : j <= m
<1> DEFINE T == {n - j : j \in S}
<1>1. T \in SUBSET Nat /\ n - k \in T
  OBVIOUS
<1>2. PICK t \in T : \A u \in T : t <= u
  <2> HIDE DEF T
  <2> QED
    BY <1>1, Least
<1>3. PICK m \in S : t = n - m
  BY <1>2
<1>4. ASSUME NEW j \in S PROVE j <= m
  <2>1. n - j \in T
    OBVIOUS
  <2>2. n - m <= n - j
    BY <1>2, <1>3, <2>1
  <2> QED
    BY <2>2
<1> QED
  BY <1>3, <1>4

(* ... so one that has zero and, with a number, the next, has them all.     *)
LEMMA ReachedAll ==
    ASSUME NEW n \in Nat, NEW T, 0 \in T, \A i \in 1..n : i - 1 \in T => i \in T
    PROVE  n \in T
<1> DEFINE S == {i \in 0..n : i \notin T}
<1>1. ASSUME NEW k \in S PROVE FALSE
  <2>1. PICK i \in S : \A m \in S : i <= m
    <3>1. S \in SUBSET Nat
      OBVIOUS
    <3> QED
      BY <3>1, Least
  <2>2. i # 0 /\ i \in 1..n /\ i - 1 \in 0..n
    BY <2>1
  <2>3. i - 1 \notin S
    BY <2>1, <2>2
  <2> QED
    BY <2>1, <2>2, <2>3
<1> QED
  BY <1>1

(* Products and quotients keep the order. *)
LEMMA TimesMore ==
    ASSUME NEW x \in Nat, NEW y \in Nat, NEW w \in Nat, x <= y
    PROVE  x * w <= y * w
OBVIOUS

LEMMA FactorMore ==
    ASSUME NEW x \in Nat, NEW y \in Nat, NEW w \in Nat \ {0}, x * w < y * w + w
    PROVE  x <= y
OBVIOUS

LEMMA Quotient ==
    ASSUME NEW a \in Nat, NEW d \in Nat \ {0}
    PROVE  a \div d \in Nat /\ (a \div d) * d <= a /\ a < (a \div d) * d + d
OBVIOUS

LEMMA QuotientMore ==
    ASSUME NEW a \in Nat, NEW b \in Nat, NEW d \in Nat \ {0}, a <= b
    PROVE  a \div d <= b \div d
<1> DEFINE p == a \div d
           q == b \div d
<1>1. p \in Nat /\ p * d <= a
  BY Quotient
<1>2. q \in Nat /\ b < q * d + d
  BY Quotient
<1> HIDE DEF p, q
<1>3. p * d \in Nat /\ q * d \in Nat
  BY <1>1, <1>2
<1>4. p * d < q * d + d
  BY <1>1, <1>2, <1>3
<1>5. p <= q
  BY <1>1, <1>2, <1>4, FactorMore
<1> QED
  BY <1>5 DEF p, q

-----------------------------------------------------------------------------
(* Sums.  The function of the library takes the chosen element first; it    *)
(* exists for every finite set.                                             *)

AnyOf(s) == CHOOSE x \in s : TRUE
OneStep(b, f, s) == IF s = {} THEN 0 ELSE b[AnyOf(s)] + f[s \ {AnyOf(s)}]
SumOver(S, b) == MapThenSumSet(LAMBDA l : b[l], S)

IsSumming(S, b, f, n) ==
    /\ f \in [SUBSET S -> Nat]
    /\ \A s \in SUBSET S : Cardinality(s) <= n => f[s] = OneStep(b, f, s)

LEMMA PartSize ==
    ASSUME NEW S, IsFiniteSet(S), NEW s \in SUBSET S
    PROVE  /\ IsFiniteSet(s) /\ Cardinality(s) \in Nat /\ Cardinality(S) \in Nat
           /\ Cardinality(s) <= Cardinality(S)
           /\ Cardinality(s) = 0 <=> s = {}
<1>1. /\ IsFiniteSet(s) /\ Cardinality(s) \in Nat /\ Cardinality(S) \in Nat
      /\ Cardinality(s) <= Cardinality(S)
  BY FS_Subset, FS_CardinalityType
<1> QED
  BY <1>1, FS_EmptySet

LEMMA PartLess ==
    ASSUME NEW S, IsFiniteSet(S), NEW s \in SUBSET S, s # {}
    PROVE  /\ AnyOf(s) \in s /\ AnyOf(s) \in S
           /\ s \ {AnyOf(s)} \in SUBSET S
           /\ Cardinality(s \ {AnyOf(s)}) = Cardinality(s) - 1
<1>1. AnyOf(s) \in s
  BY DEF AnyOf
<1>2. Cardinality(s \ {AnyOf(s)}) = Cardinality(s) - 1
  BY <1>1, PartSize, FS_RemoveElement
<1> QED
  BY <1>1, <1>2

LEMMA SummingExists ==
    ASSUME NEW S, IsFiniteSet(S), NEW b \in [S -> Nat]
    PROVE  \E f : IsSumming(S, b, f, Cardinality(S))
<1> DEFINE T == {n \in Nat : \E f : IsSumming(S, b, f, n)}
<1>1. 0 \in T
  <2>1. IsSumming(S, b, [s \in SUBSET S |-> 0], 0)
    <3>1. ASSUME NEW s \in SUBSET S, Cardinality(s) <= 0 PROVE s = {}
      BY <3>1, PartSize
    <3>2. ASSUME NEW s \in SUBSET S, Cardinality(s) <= 0
          PROVE  0 = OneStep(b, [x \in SUBSET S |-> 0], s)
      BY <3>1, <3>2 DEF OneStep
    <3> QED
      BY <3>2 DEF IsSumming
  <2> QED
    BY <2>1
<1>2. ASSUME NEW n \in 1..Cardinality(S), n - 1 \in T PROVE n \in T
  <2>1. PICK f : IsSumming(S, b, f, n - 1)
    BY <1>2
  <2> DEFINE g == [s \in SUBSET S |-> IF Cardinality(s) = n THEN OneStep(b, f, s) ELSE f[s]]
  <2>2. f \in [SUBSET S -> Nat]
    BY <2>1 DEF IsSumming
  <2>3. ASSUME NEW s \in SUBSET S PROVE OneStep(b, f, s) \in Nat
    <3>1. CASE s = {}
      BY <3>1 DEF OneStep
    <3>2. CASE s # {}
      <4>1. AnyOf(s) \in S /\ s \ {AnyOf(s)} \in SUBSET S
        BY <3>2, PartLess
      <4>2. b[AnyOf(s)] \in Nat /\ f[s \ {AnyOf(s)}] \in Nat
        BY <2>2, <4>1
      <4> QED
        BY <3>2, <4>2 DEF OneStep
    <3> QED
      BY <3>1, <3>2
  <2>4. g \in [SUBSET S -> Nat]
    BY <2>2, <2>3
  <2>5. ASSUME NEW s \in SUBSET S, Cardinality(s) <= n PROVE g[s] = OneStep(b, g, s)
    <3>1. CASE s = {}
      <4>1. Cardinality(s) = 0 /\ n # 0
        BY <3>1, PartSize
      <4>2. g[s] = f[s]
        BY <4>1
      <4>3. f[s] = OneStep(b, f, s)
        BY <2>1, <4>1 DEF IsSumming
      <4> QED
        BY <3>1, <4>2, <4>3 DEF OneStep
    <3>2. CASE s # {}
      <4> DEFINE u == s \ {AnyOf(s)}
      <4>1. u \in SUBSET S /\ Cardinality(u) = Cardinality(s) - 1 /\ Cardinality(s) \in Nat
        BY <3>2, PartLess, PartSize
      <4>2. g[u] = f[u]
        BY <2>5, <4>1
      <4>3. OneStep(b, g, s) = OneStep(b, f, s)
        BY <3>2, <4>2 DEF OneStep
      <4>4. CASE Cardinality(s) = n
        BY <4>3, <4>4
      <4>5. CASE Cardinality(s) # n
        BY <2>1, <2>5, <4>1, <4>3, <4>5 DEF IsSumming
      <4> QED
        BY <4>4, <4>5
    <3> QED
      BY <3>1, <3>2
  <2>6. IsSumming(S, b, g, n)
    BY <2>4, <2>5 DEF IsSumming
  <2> QED
    BY <2>6
<1> HIDE DEF T
<1>3. Cardinality(S) \in Nat
  BY FS_CardinalityType
<1>4. Cardinality(S) \in T
  BY <1>1, <1>2, <1>3, ReachedAll
<1> QED
  BY <1>4 DEF T

(* What the library's function has at a set, at last.                       *)
LEMMA SumIsSumming ==
    ASSUME NEW S, IsFiniteSet(S), NEW b \in [S -> Nat]
    PROVE  \E f : IsSumming(S, b, f, Cardinality(S)) /\ SumOver(S, b) = f[S]
<1> DEFINE Rule(f) == [s \in SUBSET S |-> OneStep(b, f, s)]
           iter == CHOOSE f : f = Rule(f)
<1>1. PICK f : IsSumming(S, b, f, Cardinality(S))
  BY SummingExists
<1>2. f = Rule(f)
  <2>1. f \in [SUBSET S -> Nat]
    BY <1>1 DEF IsSumming
  <2>2. \A s \in SUBSET S : f[s] = OneStep(b, f, s)
    BY <1>1, PartSize DEF IsSumming
  <2> QED
    BY <2>1, <2>2
<1>3. iter = Rule(iter)
  BY <1>2
<1>4. SumOver(S, b) = iter[S]
  BY DEF SumOver, MapThenSumSet, MapThenFoldSet, OneStep, AnyOf
<1> HIDE DEF iter
<1>5. \A s \in SUBSET S : iter[s] = OneStep(b, iter, s)
  BY <1>3
<1> DEFINE T == {n \in 0..Cardinality(S) :
                    \A s \in SUBSET S : Cardinality(s) = n => iter[s] = f[s]}
<1>6. 0 \in T
  <2>1. ASSUME NEW s \in SUBSET S, Cardinality(s) = 0 PROVE iter[s] = f[s]
    <3>1. s = {}
      BY <2>1, PartSize
    <3> QED
      BY <1>2, <1>5, <3>1 DEF OneStep
  <2>2. Cardinality(S) \in Nat
    BY FS_CardinalityType
  <2> QED
    BY <2>1, <2>2
<1>7. ASSUME NEW n \in 1..Cardinality(S), n - 1 \in T PROVE n \in T
  <2>1. ASSUME NEW s \in SUBSET S, Cardinality(s) = n PROVE iter[s] = f[s]
    <3>0. s # {}
      BY <2>1, PartSize
    <3>1. s \ {AnyOf(s)} \in SUBSET S /\ Cardinality(s \ {AnyOf(s)}) = n - 1
      BY <2>1, <3>0, PartLess
    <3>2. iter[s \ {AnyOf(s)}] = f[s \ {AnyOf(s)}]
      BY <1>7, <3>1
    <3> QED
      BY <1>2, <1>5, <3>2 DEF OneStep
  <2> QED
    BY <2>1
<1> HIDE DEF T
<1>8. Cardinality(S) \in Nat
  BY FS_CardinalityType
<1>9. Cardinality(S) \in T
  BY <1>6, <1>7, <1>8, ReachedAll
<1> QED
  BY <1>1, <1>4, <1>9 DEF T

(* A lot that had no budget adds its own.                                   *)
LEMMA SumMore ==
    ASSUME NEW S, IsFiniteSet(S), NEW b \in [S -> Nat], NEW l \in S, b[l] = 0, NEW a \in Nat
    PROVE  SumOver(S, b) \in Nat /\ SumOver(S, [b EXCEPT ![l] = a]) = SumOver(S, b) + a
<1> DEFINE c == [b EXCEPT ![l] = a]
           N == Cardinality(S)
<1>0. N \in Nat /\ S \in SUBSET S /\ c \in [S -> Nat]
  BY FS_CardinalityType
<1>1. PICK f : IsSumming(S, b, f, N) /\ SumOver(S, b) = f[S]
  BY SumIsSumming
<1>2. PICK g : IsSumming(S, c, g, N) /\ SumOver(S, c) = g[S]
  BY <1>0, SumIsSumming
<1>3. /\ f \in [SUBSET S -> Nat] /\ g \in [SUBSET S -> Nat]
      /\ \A s \in SUBSET S : f[s] = OneStep(b, f, s) /\ g[s] = OneStep(c, g, s)
  BY <1>1, <1>2, PartSize DEF IsSumming
<1> DEFINE More(s) == IF l \in s THEN a ELSE 0
           T == {n \in 0..N : \A s \in SUBSET S :
                    Cardinality(s) = n => g[s] = f[s] + More(s)}
<1>4. 0 \in T
  <2>1. ASSUME NEW s \in SUBSET S, Cardinality(s) = 0 PROVE g[s] = f[s] + More(s)
    <3>1. s = {}
      BY <2>1, PartSize
    <3>2. g[s] = 0 /\ f[s] = 0
      BY <1>3, <3>1 DEF OneStep
    <3> QED
      BY <3>1, <3>2
  <2> QED
    BY <1>0, <2>1
<1>5. ASSUME NEW n \in 1..N, n - 1 \in T PROVE n \in T
  <2>1. ASSUME NEW s \in SUBSET S, Cardinality(s) = n PROVE g[s] = f[s] + More(s)
    <3> DEFINE x == AnyOf(s)
               u == s \ {x}
    <3>0. s # {}
      BY <2>1, PartSize
    <3>1. x \in s /\ x \in S /\ u \in SUBSET S /\ Cardinality(u) = n - 1
      BY <2>1, <3>0, PartLess
    <3>2. g[u] = f[u] + More(u)
      BY <1>5, <3>1
    <3>3. f[s] = b[x] + f[u] /\ g[s] = c[x] + g[u]
      BY <1>3, <3>0 DEF OneStep
    <3>4. b[x] \in Nat /\ f[u] \in Nat
      BY <1>3, <3>1
    <3> HIDE DEF x
    <3>5. CASE x = l
      BY <3>1, <3>2, <3>3, <3>4, <3>5
    <3>6. CASE x # l
      BY <3>1, <3>2, <3>3, <3>4, <3>6
    <3> QED
      BY <3>5, <3>6
  <2> QED
    BY <2>1
<1> HIDE DEF T, c
<1>6. N \in T
  BY <1>0, <1>4, <1>5, ReachedAll
<1>7. g[S] = f[S] + a
  BY <1>0, <1>6 DEF T
<1> QED
  BY <1>1, <1>2, <1>3, <1>7 DEF c

LEMMA SumNothing ==
    ASSUME NEW S, IsFiniteSet(S)
    PROVE  SumOver(S, [l \in S |-> 0]) = 0
<1> DEFINE b == [l \in S |-> 0]
           N == Cardinality(S)
<1>0. N \in Nat /\ S \in SUBSET S /\ b \in [S -> Nat]
  BY FS_CardinalityType
<1>1. PICK f : IsSumming(S, b, f, N) /\ SumOver(S, b) = f[S]
  BY <1>0, SumIsSumming
<1>2. \A s \in SUBSET S : f[s] = OneStep(b, f, s)
  BY <1>1, PartSize DEF IsSumming
<1> DEFINE T == {n \in 0..N : \A s \in SUBSET S : Cardinality(s) = n => f[s] = 0}
<1>3. 0 \in T
  <2>1. ASSUME NEW s \in SUBSET S, Cardinality(s) = 0 PROVE f[s] = 0
    <3>1. s = {}
      BY <2>1, PartSize
    <3> QED
      BY <1>2, <3>1 DEF OneStep
  <2> QED
    BY <1>0, <2>1
<1>4. ASSUME NEW n \in 1..N, n - 1 \in T PROVE n \in T
  <2>1. ASSUME NEW s \in SUBSET S, Cardinality(s) = n PROVE f[s] = 0
    <3>0. s # {}
      BY <2>1, PartSize
    <3>1. AnyOf(s) \in S /\ s \ {AnyOf(s)} \in SUBSET S
          /\ Cardinality(s \ {AnyOf(s)}) = n - 1
      BY <2>1, <3>0, PartLess
    <3>2. f[s \ {AnyOf(s)}] = 0
      BY <1>4, <3>1
    <3>3. b[AnyOf(s)] = 0
      BY <3>1
    <3>4. f[s] = b[AnyOf(s)] + f[s \ {AnyOf(s)}]
      BY <1>2, <3>0 DEF OneStep
    <3> QED
      BY <3>2, <3>3, <3>4
  <2> QED
    BY <2>1
<1> HIDE DEF T, b
<1>5. N \in T
  BY <1>0, <1>3, <1>4, ReachedAll
<1> QED
  BY <1>0, <1>1, <1>5 DEF T, b

(* Where two functions differ in one summand, so do their sums.             *)
LEMMA SumDiffers ==
    ASSUME NEW S, IsFiniteSet(S), NEW b \in [S -> Nat], NEW c \in [S -> Nat], NEW l \in S,
           \A x \in S : x # l => c[x] = b[x]
    PROVE  \E t \in Nat : SumOver(S, b) = t + b[l] /\ SumOver(S, c) = t + c[l]
<1> DEFINE z == [b EXCEPT ![l] = 0]
<1>1. z \in [S -> Nat] /\ z[l] = 0 /\ b[l] \in Nat /\ c[l] \in Nat
  OBVIOUS
<1>2. [z EXCEPT ![l] = b[l]] = b /\ [z EXCEPT ![l] = c[l]] = c
  OBVIOUS
<1> HIDE DEF z
<1>3. \A x \in Nat : SumOver(S, z) \in Nat /\ SumOver(S, [z EXCEPT ![l] = x]) = SumOver(S, z) + x
  BY <1>1, SumMore
<1> QED
  BY <1>1, <1>2, <1>3

LEMMA SumIsNat ==
    ASSUME NEW S, IsFiniteSet(S), NEW b \in [S -> Nat]
    PROVE  SumOver(S, b) \in Nat
<1>1. PICK f : IsSumming(S, b, f, Cardinality(S)) /\ SumOver(S, b) = f[S]
  BY SumIsSumming
<1> QED
  BY <1>1 DEF IsSumming

(* The sum of a function is that over its domain.                           *)
LEMMA SumOfFunction ==
    ASSUME NEW S, NEW b \in [S -> Nat]
    PROVE  SumFunction(b) = SumOver(S, b)
<1>1. SumFunction(b) = SumOver(DOMAIN b, b)
  BY DEF SumFunction, SumFunctionOnSet, FoldFunctionOnSet, SumOver, MapThenSumSet, MapThenFoldSet
<1> QED
  BY <1>1

(* More to add makes no smaller sum ...                                     *)
LEMMA SumMonotone ==
    ASSUME NEW S, IsFiniteSet(S), NEW b \in [S -> Nat], NEW c \in [S -> Nat],
           \A x \in S : b[x] <= c[x]
    PROVE  SumOver(S, b) <= SumOver(S, c)
<1> DEFINE N == Cardinality(S)
<1>0. N \in Nat /\ S \in SUBSET S
  BY FS_CardinalityType
<1>1. PICK f : IsSumming(S, b, f, N) /\ SumOver(S, b) = f[S]
  BY SumIsSumming
<1>2. PICK g : IsSumming(S, c, g, N) /\ SumOver(S, c) = g[S]
  BY SumIsSumming
<1>3. /\ f \in [SUBSET S -> Nat] /\ g \in [SUBSET S -> Nat]
      /\ \A s \in SUBSET S : f[s] = OneStep(b, f, s) /\ g[s] = OneStep(c, g, s)
  BY <1>1, <1>2, PartSize DEF IsSumming
<1> DEFINE T == {n \in 0..N : \A s \in SUBSET S : Cardinality(s) = n => f[s] <= g[s]}
<1>4. 0 \in T
  <2>1. ASSUME NEW s \in SUBSET S, Cardinality(s) = 0 PROVE f[s] <= g[s]
    <3>1. s = {}
      BY <2>1, PartSize
    <3>2. g[s] = 0 /\ f[s] = 0
      BY <1>3, <3>1 DEF OneStep
    <3> QED
      BY <3>2
  <2> QED
    BY <1>0, <2>1
<1>5. ASSUME NEW n \in 1..N, n - 1 \in T PROVE n \in T
  <2>1. ASSUME NEW s \in SUBSET S, Cardinality(s) = n PROVE f[s] <= g[s]
    <3> DEFINE x == AnyOf(s)
               u == s \ {x}
    <3>0. s # {}
      BY <2>1, PartSize
    <3>1. x \in S /\ u \in SUBSET S /\ Cardinality(u) = n - 1
      BY <2>1, <3>0, PartLess
    <3>2. f[u] <= g[u] /\ b[x] <= c[x]
      BY <1>5, <3>1
    <3>3. f[s] = b[x] + f[u] /\ g[s] = c[x] + g[u]
      BY <1>3, <3>0 DEF OneStep
    <3>4. b[x] \in Nat /\ f[u] \in Nat /\ c[x] \in Nat /\ g[u] \in Nat
      BY <1>3, <3>1
    <3> HIDE DEF x, u
    <3> QED
      BY <3>2, <3>3, <3>4
  <2> QED
    BY <2>1
<1> HIDE DEF T
<1>6. N \in T
  BY <1>0, <1>4, <1>5, ReachedAll
<1> QED
  BY <1>0, <1>1, <1>2, <1>6 DEF T

(* ... and the same summand everywhere is taken as often as there are.      *)
LEMMA SumConstant ==
    ASSUME NEW S, IsFiniteSet(S), NEW k \in Nat
    PROVE  SumOver(S, [x \in S |-> k]) = k * Cardinality(S)
<1> DEFINE b == [x \in S |-> k]
           N == Cardinality(S)
<1>0. N \in Nat /\ S \in SUBSET S /\ b \in [S -> Nat]
  BY FS_CardinalityType
<1>1. PICK f : IsSumming(S, b, f, N) /\ SumOver(S, b) = f[S]
  BY <1>0, SumIsSumming
<1>2. \A s \in SUBSET S : f[s] = OneStep(b, f, s)
  BY <1>1, PartSize DEF IsSumming
<1> DEFINE T == {n \in 0..N : \A s \in SUBSET S : Cardinality(s) = n => f[s] = k * n}
<1>3. 0 \in T
  <2>1. ASSUME NEW s \in SUBSET S, Cardinality(s) = 0 PROVE f[s] = k * 0
    <3>1. s = {}
      BY <2>1, PartSize
    <3>2. f[s] = 0
      BY <1>2, <3>1 DEF OneStep
    <3> QED
      BY <3>2
  <2> QED
    BY <1>0, <2>1
<1>4. ASSUME NEW n \in 1..N, n - 1 \in T PROVE n \in T
  <2>1. ASSUME NEW s \in SUBSET S, Cardinality(s) = n PROVE f[s] = k * n
    <3>0. s # {}
      BY <2>1, PartSize
    <3>1. /\ AnyOf(s) \in S /\ s \ {AnyOf(s)} \in SUBSET S
          /\ Cardinality(s \ {AnyOf(s)}) = n - 1
      BY <2>1, <3>0, PartLess
    <3>2. f[s \ {AnyOf(s)}] = k * (n - 1)
      BY <1>4, <3>1
    <3>3. f[s] = k + f[s \ {AnyOf(s)}]
      BY <1>2, <3>0, <3>1 DEF OneStep
    <3> QED
      BY <1>0, <3>2, <3>3
  <2> QED
    BY <2>1
<1> HIDE DEF T, b
<1>5. N \in T
  BY <1>0, <1>3, <1>4, ReachedAll
<1> QED
  BY <1>0, <1>1, <1>5 DEF T, b
=============================================================================
