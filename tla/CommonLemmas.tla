---------------------------- MODULE CommonLemmas ----------------------------
(* Facts about counters that wrap, about sets of naturals and about sums     *)
(* that the proofs about several components use.                             *)
EXTENDS Integers, FiniteSets, FiniteSetTheorems, WellFoundedInduction,
        NaturalsInduction, TLAPS

-----------------------------------------------------------------------------
(* Arithmetic of counters that wrap. *)

\* A quotient and a remainder are the only ones.
LEMMA ModUnique ==
  ASSUME NEW m \in Nat, m > 0, NEW a \in Int, NEW q \in Int, NEW r \in 0 .. m - 1,
         a = q * m + r
  PROVE  a % m = r /\ a \div m = q
  OBVIOUS

\* What is left after whole turns of the counter.
LEMMA ModTurns ==
  ASSUME NEW m \in Nat, m > 0, NEW a \in Int
  PROVE  a % m \in 0 .. m - 1 /\ a \div m \in Int /\ a = (a \div m) * m + (a % m)
  OBVIOUS

\* Whole turns do not matter.
LEMMA ModShift ==
  ASSUME NEW m \in Nat, m > 0, NEW a \in Int, NEW q \in Int
  PROVE  (a + q * m) % m = a % m
<1>1. /\ a % m \in 0 .. m - 1 /\ a \div m \in Int
      /\ a = (a \div m) * m + (a % m)
  BY ModTurns
<1> DEFINE d == a \div m
           r == a % m
<1> HIDE DEF d, r
<1>2. a + q * m \in Int /\ d + q \in Int /\ (d + q) * m = d * m + q * m
  BY <1>1 DEF d
<1>3. a + q * m = (d + q) * m + r BY <1>1, <1>2 DEF d, r
<1>4. (a + q * m) % m = r BY <1>1, <1>2, <1>3, ModUnique DEF r
<1> QED BY <1>4 DEF r

\* A sum of two readings of a counter wraps at most once.
LEMMA ModSum ==
  ASSUME NEW m \in Nat, m > 0, NEW a \in 0 .. m - 1, NEW b \in 0 .. m - 1
  PROVE  (a + b) % m = IF a + b < m THEN a + b ELSE a + b - m
  OBVIOUS

\* The difference of two readings of a counter that wraps.
LEMMA ModDifference ==
  ASSUME NEW m \in Nat, m > 0, NEW a \in 0 .. m - 1, NEW b \in 0 .. m - 1
  PROVE  (a - b) % m = IF b <= a THEN a - b ELSE a - b + m
  OBVIOUS

\* A counter may be reduced before something is added to it.
LEMMA ModReduced ==
  ASSUME NEW m \in Nat, m > 0, NEW a \in Int, NEW b \in Int
  PROVE  ((a % m) + b) % m = (a + b) % m
<1> DEFINE d == a \div m
           r == a % m
<1>1. r \in Int /\ d \in Int /\ a = d * m + r BY ModTurns
<1> HIDE DEF d, r
<1>2. a + b = (r + b) + d * m BY <1>1
<1>3. r + b \in Int BY <1>1
<1>4. ((r + b) + d * m) % m = (r + b) % m BY <1>1, <1>3, ModShift
<1> QED BY <1>2, <1>4 DEF r

-----------------------------------------------------------------------------
(* Sets of naturals. *)

\* A set of naturals has a least element.
LEMMA LeastElement ==
  ASSUME NEW T \in SUBSET Nat, T # {}
  PROVE  \E z \in T : \A y \in T : z <= y
<1> DEFINE R == OpToRel(<, Nat)
<1>1. IsWellFoundedOn(R, Nat) BY NatLessThanWellFounded
<1>2. \A x, y \in Nat : <<y, x>> \in R <=> y < x BY DEF OpToRel
<1> HIDE DEF R
<1>3. PICK x \in T : \A y \in T : ~(<<y, x>> \in R) BY <1>1, WFMin
<1>4. \A y \in T : ~(y < x) BY <1>2, <1>3
<1> QED BY <1>4

\* A bounded set of naturals has a greatest element.
LEMMA GreatestElement ==
  ASSUME NEW n \in Nat, NEW T \in SUBSET (0 .. n), T # {}
  PROVE  \E z \in T : \A y \in T : y <= z
<1> DEFINE U == {n - y : y \in T}
<1>1. U \in SUBSET Nat /\ U # {}
  <2>1. \A y \in T : n - y \in Nat OBVIOUS
  <2> QED BY <2>1
<1>2. PICK u \in U : \A v \in U : u <= v BY <1>1, LeastElement
<1>3. PICK z \in T : u = n - z BY <1>2
<1>4. ASSUME NEW y \in T PROVE y <= z
  <2>1. n - z <= n - y BY <1>2, <1>3
  <2> QED BY <2>1
<1> QED BY <1>3, <1>4

\* Induction, on a set of naturals.
LEMMA NaturalsBySteps ==
  ASSUME NEW S \in SUBSET Nat, 0 \in S, \A n \in S : n + 1 \in S
  PROVE  Nat \subseteq S
<1> DEFINE T == Nat \ S
<1> SUFFICES ASSUME T # {} PROVE FALSE
  OBVIOUS
<1>1. T \in SUBSET Nat OBVIOUS
<1> HIDE DEF T
<1>3. PICK x \in T : \A y \in T : x <= y BY <1>1, LeastElement
<1>4. x \in Nat /\ x \notin S BY <1>3 DEF T
<1>5. x - 1 \in Nat BY <1>4
<1>6. x - 1 \notin T BY <1>3, <1>4, <1>5
<1>7. x - 1 \in S BY <1>5, <1>6 DEF T
<1>8. x - 1 + 1 \in S BY <1>7
<1> QED BY <1>4, <1>8

-----------------------------------------------------------------------------
(* Sums over a finite set. *)

\* The sum of a function's values, as MapThenSumSet of the community modules
\* takes it: one element after another.
SumOf(S, f) ==
  (CHOOSE g : g = [s \in SUBSET S |->
                     IF s = {} THEN 0
                     ELSE LET x == CHOOSE x \in s : TRUE IN f[x] + g[s \ {x}]])[S]

\* g holds the sums over the members of T, a set of sets.
SumsOver(T, f, g) ==
  g = [s \in T |-> IF s = {} THEN 0
                   ELSE LET x == CHOOSE x \in s : TRUE IN f[x] + g[s \ {x}]]

\* The subsets with at most n elements.
SmallSubsets(S, n) == {s \in SUBSET S : Cardinality(s) <= n}

\* Taking the chosen element away leaves one element less.
LEMMA OneLess ==
  ASSUME NEW S, IsFiniteSet(S), NEW s \in SUBSET S, s # {}, NEW x, x = CHOOSE y \in s : TRUE
  PROVE  /\ x \in s /\ s \ {x} \in SUBSET S
         /\ Cardinality(s) \in Nat /\ Cardinality(s \ {x}) = Cardinality(s) - 1
<1>1. IsFiniteSet(s) BY FS_Subset
<1>2. x \in s OBVIOUS
<1> QED BY <1>1, <1>2, FS_RemoveElement, FS_CardinalityType

\* The subsets without elements and with n + 1 elements.
LEMMA SubsetsCounted ==
  ASSUME NEW S, IsFiniteSet(S), NEW s \in SUBSET S
  PROVE  /\ IsFiniteSet(s) /\ Cardinality(s) \in Nat
         /\ Cardinality(s) = 0 <=> s = {}
<1>1. IsFiniteSet(s) BY FS_Subset
<1> QED BY <1>1, FS_EmptySet, FS_CardinalityType

\* The sums over the small subsets exist.
LEMMA SumsExist ==
  ASSUME NEW S, IsFiniteSet(S), NEW f
  PROVE  \A n \in Nat : \E g : SumsOver(SmallSubsets(S, n), f, g)
<1> DEFINE N == {n \in Nat : \E g : SumsOver(SmallSubsets(S, n), f, g)}
<1>1. 0 \in N
  <2>1. SmallSubsets(S, 0) = {{}}
    <3>1. \A s \in SUBSET S : Cardinality(s) <= 0 <=> s = {}
      BY SubsetsCounted
    <3> QED BY <3>1 DEF SmallSubsets
  <2>2. SumsOver({{}}, f, [s \in {{}} |-> 0]) BY DEF SumsOver
  <2> QED BY <2>1, <2>2
<1>2. ASSUME NEW n \in N PROVE n + 1 \in N
  <2>1. PICK g : SumsOver(SmallSubsets(S, n), f, g) OBVIOUS
  <2> DEFINE T == SmallSubsets(S, n)
             U == SmallSubsets(S, n + 1)
             Step(k, s) == IF s = {} THEN 0
                           ELSE LET x == CHOOSE x \in s : TRUE IN f[x] + k[s \ {x}]
             h == [s \in U |-> Step(g, s)]
  <2>2. ASSUME NEW s \in U, s # {} PROVE s \ {CHOOSE x \in s : TRUE} \in T
    <3>1. PICK x : x = CHOOSE y \in s : TRUE OBVIOUS
    <3>2. s \in SUBSET S /\ Cardinality(s) <= n + 1 BY DEF SmallSubsets
    <3>3. /\ s \ {x} \in SUBSET S /\ Cardinality(s) \in Nat
          /\ Cardinality(s \ {x}) = Cardinality(s) - 1
      BY <2>2, <3>1, <3>2, OneLess
    <3>4. Cardinality(s \ {x}) <= n BY <3>2, <3>3
    <3>5. s \ {x} \in T BY <3>3, <3>4 DEF SmallSubsets
    <3> QED BY <3>1, <3>5
  <2>3. T \subseteq U
    <3>1. \A s \in SUBSET S : Cardinality(s) \in Nat BY SubsetsCounted
    <3> QED BY <3>1 DEF SmallSubsets
  <2>4. \A s \in T : g[s] = Step(g, s) BY <2>1 DEF SumsOver
  <2>5. \A s \in T : h[s] = g[s] BY <2>3, <2>4
  <2>6. ASSUME NEW s \in U PROVE Step(g, s) = Step(h, s)
    <3>1. CASE s = {} BY <3>1
    <3>2. CASE s # {}
      <4>1. PICK x : x = CHOOSE y \in s : TRUE OBVIOUS
      <4>2. s \ {x} \in T BY <2>2, <3>2, <4>1
      <4>3. h[s \ {x}] = g[s \ {x}] BY <2>5, <4>2
      <4> HIDE DEF h
      <4> QED BY <3>2, <4>1, <4>3
    <3> QED BY <3>1, <3>2
  <2>7. h = [s \in U |-> Step(h, s)] BY <2>6
  <2> HIDE DEF h
  <2>8. SumsOver(U, f, h) BY <2>7 DEF SumsOver
  <2> QED BY <2>8
<1> HIDE DEF N
<1>3. Nat \subseteq N BY <1>1, <1>2, NaturalsBySteps DEF N
<1> QED BY <1>3 DEF N

\* SumOf is the sum over the whole set by such a function.
LEMMA SumIsTaken ==
  ASSUME NEW S, IsFiniteSet(S), NEW f
  PROVE  \E g : SumsOver(SUBSET S, f, g) /\ SumOf(S, f) = g[S]
<1>1. PICK n : n = Cardinality(S) OBVIOUS
<1>2. n \in Nat BY <1>1, FS_CardinalityType
<1>3. SmallSubsets(S, n) = SUBSET S BY <1>1, FS_Subset DEF SmallSubsets
<1>4. \E g : SumsOver(SUBSET S, f, g)
  <2>1. \A m \in Nat : \E g : SumsOver(SmallSubsets(S, m), f, g) BY SumsExist
  <2>2. \E g : SumsOver(SmallSubsets(S, n), f, g) BY <1>2, <2>1
  <2> QED BY <1>3, <2>2
<1>5. PICK g : g = CHOOSE k : SumsOver(SUBSET S, f, k) OBVIOUS
<1>6. SumsOver(SUBSET S, f, g) BY <1>4, <1>5
<1>7. SumOf(S, f) = g[S] BY <1>5 DEF SumOf, SumsOver
<1> QED BY <1>6, <1>7

\* The sum of the values of a function that is zero everywhere is zero.
LEMMA SumOfZeros ==
  ASSUME NEW S, IsFiniteSet(S), NEW f, \A x \in S : f[x] = 0
  PROVE  SumOf(S, f) = 0
<1>1. PICK g : SumsOver(SUBSET S, f, g) /\ SumOf(S, f) = g[S] BY SumIsTaken
<1> DEFINE N == {n \in Nat : \A s \in SUBSET S : Cardinality(s) = n => g[s] = 0}
<1>2. 0 \in N
  <2>1. \A s \in SUBSET S : Cardinality(s) = 0 => s = {}
    BY SubsetsCounted
  <2>2. g[{}] = 0 BY <1>1 DEF SumsOver
  <2> QED BY <2>1, <2>2
<1>3. ASSUME NEW n \in N PROVE n + 1 \in N
  <2>1. ASSUME NEW s \in SUBSET S, Cardinality(s) = n + 1 PROVE g[s] = 0
    <3>1. PICK x : x = CHOOSE y \in s : TRUE OBVIOUS
    <3>2. s # {} BY <2>1, FS_EmptySet
    <3>3. /\ x \in s /\ s \ {x} \in SUBSET S
          /\ Cardinality(s \ {x}) = Cardinality(s) - 1
      BY <3>1, <3>2, OneLess
    <3>4. Cardinality(s \ {x}) = n BY <2>1, <3>3
    <3>5. g[s] = f[x] + g[s \ {x}] BY <1>1, <3>1, <3>2 DEF SumsOver
    <3>6. f[x] = 0 /\ g[s \ {x}] = 0 BY <3>3, <3>4
    <3> QED BY <3>5, <3>6
  <2> QED BY <2>1
<1> HIDE DEF N
<1>4. Nat \subseteq N BY <1>2, <1>3, NaturalsBySteps DEF N
<1>5. Cardinality(S) \in N BY <1>4, FS_CardinalityType
<1>6. g[S] = 0 BY <1>5 DEF N
<1> QED BY <1>1, <1>6

\* k is f with d added to the value of a.
AddedAt(S, f, k, a, d) ==
  \A x \in S : f[x] \in Int /\ k[x] = IF x = a THEN f[x] + d ELSE f[x]

\* A change of one value changes the sum by as much.
LEMMA SumChanges ==
  ASSUME NEW S, IsFiniteSet(S), NEW f, NEW k, NEW a \in S, NEW d \in Int,
         AddedAt(S, f, k, a, d)
  PROVE  /\ SumOf(S, f) \in Int
         /\ SumOf(S, k) = SumOf(S, f) + d
<1>1. PICK g : SumsOver(SUBSET S, f, g) /\ SumOf(S, f) = g[S] BY SumIsTaken
<1>2. PICK h : SumsOver(SUBSET S, k, h) /\ SumOf(S, k) = h[S] BY SumIsTaken
<1> DEFINE Good(s) == g[s] \in Int /\ h[s] = IF a \in s THEN g[s] + d ELSE g[s]
           N == {n \in Nat : \A s \in SUBSET S : Cardinality(s) = n => Good(s)}
<1>3. 0 \in N
  <2>1. \A s \in SUBSET S : Cardinality(s) = 0 => s = {}
    BY SubsetsCounted
  <2>2. g[{}] = 0 /\ h[{}] = 0 BY <1>1, <1>2 DEF SumsOver
  <2>3. Good({}) BY <2>2
  <2> HIDE DEF Good
  <2> QED BY <2>1, <2>3
<1>4. ASSUME NEW n \in N PROVE n + 1 \in N
  <2>1. ASSUME NEW s \in SUBSET S, Cardinality(s) = n + 1 PROVE Good(s)
    <3>1. PICK x : x = CHOOSE y \in s : TRUE OBVIOUS
    <3>2. s # {}
      <4> HIDE DEF Good
      <4>1. n \in Nat OBVIOUS
      <4>2. Cardinality(s) # 0 BY <2>1, <4>1
      <4> QED BY <4>2, SubsetsCounted
    <3>3. /\ x \in s /\ s \ {x} \in SUBSET S
          /\ Cardinality(s \ {x}) = Cardinality(s) - 1
      BY <3>1, <3>2, OneLess
    <3>4. Cardinality(s \ {x}) = n BY <2>1, <3>3
    <3>5. g[s] = f[x] + g[s \ {x}] BY <1>1, <3>1, <3>2 DEF SumsOver
    <3>6. h[s] = k[x] + h[s \ {x}] BY <1>2, <3>1, <3>2 DEF SumsOver
    <3>7. f[x] \in Int /\ k[x] = IF x = a THEN f[x] + d ELSE f[x] BY <3>3 DEF AddedAt
    <3>8. Good(s \ {x}) BY <3>3, <3>4
    <3> QED BY <3>3, <3>5, <3>6, <3>7, <3>8
  <2> QED BY <2>1
<1> HIDE DEF N
<1>5. Nat \subseteq N BY <1>3, <1>4, NaturalsBySteps DEF N
<1>6. Cardinality(S) \in N BY <1>5, FS_CardinalityType
<1>7. Good(S) BY <1>6 DEF N
<1> QED BY <1>1, <1>2, <1>7

\* A sum does not depend on the set that it is a part of.
LEMMA SumsAgree ==
  ASSUME NEW S, IsFiniteSet(S), NEW T \in SUBSET S, NEW f, NEW g, NEW h,
         SumsOver(SUBSET S, f, g), SumsOver(SUBSET T, f, h)
  PROVE  h[T] = g[T]
<1> DEFINE N == {n \in Nat : \A s \in SUBSET T : Cardinality(s) = n => h[s] = g[s]}
<1>1. IsFiniteSet(T) BY FS_Subset
<1>2. 0 \in N
  <2>1. \A s \in SUBSET T : Cardinality(s) = 0 => s = {} BY <1>1, SubsetsCounted
  <2>2. g[{}] = 0 /\ h[{}] = 0 BY DEF SumsOver
  <2> QED BY <2>1, <2>2
<1>3. ASSUME NEW n \in N PROVE n + 1 \in N
  <2>1. ASSUME NEW s \in SUBSET T, Cardinality(s) = n + 1 PROVE h[s] = g[s]
    <3>1. PICK x : x = CHOOSE y \in s : TRUE OBVIOUS
    <3>2. s # {}
      <4>1. n \in Nat OBVIOUS
      <4>2. Cardinality(s) # 0 BY <2>1, <4>1
      <4> QED BY <1>1, <4>2, SubsetsCounted
    <3>3. /\ x \in s /\ s \ {x} \in SUBSET T
          /\ Cardinality(s \ {x}) = Cardinality(s) - 1
      BY <1>1, <3>1, <3>2, OneLess
    <3>4. Cardinality(s \ {x}) = n BY <2>1, <3>3
    <3>5. g[s] = f[x] + g[s \ {x}] BY <3>1, <3>2 DEF SumsOver
    <3>6. h[s] = f[x] + h[s \ {x}] BY <3>1, <3>2 DEF SumsOver
    <3>7. h[s \ {x}] = g[s \ {x}] BY <3>3, <3>4
    <3> QED BY <3>5, <3>6, <3>7
  <2> QED BY <2>1
<1> HIDE DEF N
<1>4. Nat \subseteq N BY <1>2, <1>3, NaturalsBySteps DEF N
<1>5. Cardinality(T) \in N BY <1>1, <1>4, FS_CardinalityType
<1> QED BY <1>5 DEF N

\* Sums of naturals are naturals.
LEMMA SumsAreNat ==
  ASSUME NEW S, IsFiniteSet(S), NEW f, \A x \in S : f[x] \in Nat,
         NEW g, SumsOver(SUBSET S, f, g)
  PROVE  \A s \in SUBSET S : g[s] \in Nat
<1> DEFINE N == {n \in Nat : \A s \in SUBSET S : Cardinality(s) = n => g[s] \in Nat}
<1>1. 0 \in N
  <2>1. \A s \in SUBSET S : Cardinality(s) = 0 => s = {} BY SubsetsCounted
  <2>2. g[{}] = 0 BY DEF SumsOver
  <2>3. g[{}] \in Nat BY <2>2
  <2>4. \A s \in SUBSET S : Cardinality(s) = 0 => g[s] \in Nat BY <2>1, <2>3
  <2> QED BY <2>4
<1>2. ASSUME NEW n \in N PROVE n + 1 \in N
  <2>1. ASSUME NEW s \in SUBSET S, Cardinality(s) = n + 1 PROVE g[s] \in Nat
    <3>1. PICK x : x = CHOOSE y \in s : TRUE OBVIOUS
    <3>2. s # {}
      <4>1. n \in Nat OBVIOUS
      <4>2. Cardinality(s) # 0 BY <2>1, <4>1
      <4> QED BY <4>2, SubsetsCounted
    <3>3. /\ x \in s /\ s \ {x} \in SUBSET S
          /\ Cardinality(s \ {x}) = Cardinality(s) - 1
      BY <3>1, <3>2, OneLess
    <3>4. Cardinality(s \ {x}) = n BY <2>1, <3>3
    <3>5. g[s] = f[x] + g[s \ {x}] BY <3>1, <3>2 DEF SumsOver
    <3>6. f[x] \in Nat /\ g[s \ {x}] \in Nat BY <3>3, <3>4
    <3> QED BY <3>5, <3>6
  <2> QED BY <2>1
<1> HIDE DEF N
<1>3. Nat \subseteq N BY <1>1, <1>2, NaturalsBySteps DEF N
<1>4. ASSUME NEW s \in SUBSET S PROVE g[s] \in Nat
  <2>1. Cardinality(s) \in N BY <1>3, SubsetsCounted
  <2> QED BY <2>1 DEF N
<1> QED BY <1>4

\* It does not matter which element is added last.
LEMMA SumsInAnyOrder ==
  ASSUME NEW S, IsFiniteSet(S), NEW f, \A x \in S : f[x] \in Nat,
         NEW g, SumsOver(SUBSET S, f, g)
  PROVE  \A s \in SUBSET S : \A a \in s : g[s] = f[a] + g[s \ {a}]
<1> DEFINE Good(s) == \A a \in s : g[s] = f[a] + g[s \ {a}]
           N == {n \in Nat : \A s \in SUBSET S : Cardinality(s) = n => Good(s)}
<1>0. \A s \in SUBSET S : g[s] \in Nat BY SumsAreNat
<1>1. 0 \in N
  <2>1. \A s \in SUBSET S : Cardinality(s) = 0 => s = {} BY SubsetsCounted
  <2>2. g[{}] = 0 BY DEF SumsOver
  <2>3. Good({}) BY <2>2
  <2> HIDE DEF Good
  <2> QED BY <2>1, <2>3
<1>2. ASSUME NEW n \in N PROVE n + 1 \in N
  <2>1. ASSUME NEW s \in SUBSET S, Cardinality(s) = n + 1 PROVE Good(s)
    <3>1. PICK x : x = CHOOSE y \in s : TRUE OBVIOUS
    <3>2. s # {}
      <4> HIDE DEF Good
      <4>1. n \in Nat OBVIOUS
      <4>2. Cardinality(s) # 0 BY <2>1, <4>1
      <4> QED BY <4>2, SubsetsCounted
    <3>3. /\ x \in s /\ s \ {x} \in SUBSET S
          /\ Cardinality(s \ {x}) = Cardinality(s) - 1
      BY <3>1, <3>2, OneLess
    <3>4. Cardinality(s \ {x}) = n BY <2>1, <3>3
    <3>5. g[s] = f[x] + g[s \ {x}] BY <3>1, <3>2 DEF SumsOver
    <3>6. Good(s \ {x}) BY <3>3, <3>4
    <3>7. f[x] \in Nat BY <3>3
    <3>8. ASSUME NEW a \in s, a # x PROVE g[s] = f[a] + g[s \ {a}]
      <4>1. PICK r : r = (s \ {x}) \ {a} OBVIOUS
      <4>2. g[s \ {x}] = f[a] + g[r] BY <3>6, <3>8, <4>1
      <4>3. s \ {a} \in SUBSET S /\ x \in s \ {a} /\ r = (s \ {a}) \ {x}
        BY <3>3, <3>8, <4>1
      <4>4. Cardinality(s \ {a}) = n
        <5>1. IsFiniteSet(s) BY FS_Subset
        <5>2. Cardinality(s \ {a}) = Cardinality(s) - 1 BY <5>1, FS_RemoveElement
        <5> QED BY <2>1, <5>2
      <4>5. Good(s \ {a}) BY <4>3, <4>4
      <4>6. g[s \ {a}] = f[x] + g[r] BY <4>3, <4>5
      <4>7. r \in SUBSET S /\ f[a] \in Nat BY <3>8, <4>1
      <4>8. g[r] \in Nat BY <1>0, <4>7
      <4> QED BY <3>5, <3>7, <4>2, <4>6, <4>7, <4>8
    <3> QED BY <3>5, <3>7, <3>8
  <2> QED BY <2>1
<1> HIDE DEF N
<1>3. Nat \subseteq N BY <1>1, <1>2, NaturalsBySteps DEF N
<1>4. ASSUME NEW s \in SUBSET S PROVE Good(s)
  <2> HIDE DEF Good
  <2>1. Cardinality(s) \in N BY <1>3, SubsetsCounted
  <2> QED BY <2>1 DEF N
<1> QED BY <1>4

\* The sum and one of its terms.
LEMMA SumOfRest ==
  ASSUME NEW S, IsFiniteSet(S), NEW f, \A x \in S : f[x] \in Nat
  PROVE  /\ SumOf(S, f) \in Nat
         /\ \A a \in S : SumOf(S, f) = f[a] + SumOf(S \ {a}, f)
<1>1. PICK g : SumsOver(SUBSET S, f, g) /\ SumOf(S, f) = g[S] BY SumIsTaken
<1>2. \A s \in SUBSET S : g[s] \in Nat BY <1>1, SumsAreNat
<1>3. ASSUME NEW a \in S PROVE SumOf(S, f) = f[a] + SumOf(S \ {a}, f)
  <2>1. PICK T : T = S \ {a} OBVIOUS
  <2>2. T \in SUBSET S /\ IsFiniteSet(T) BY <2>1, FS_Subset
  <2>3. PICK h : SumsOver(SUBSET T, f, h) /\ SumOf(T, f) = h[T] BY <2>2, SumIsTaken
  <2>4. h[T] = g[T] BY <1>1, <2>2, <2>3, SumsAgree
  <2>5. g[S] = f[a] + g[S \ {a}] BY <1>1, SumsInAnyOrder
  <2> QED BY <1>1, <2>1, <2>3, <2>4, <2>5
<1> QED BY <1>1, <1>2, <1>3

\* A sum over fewer elements is no larger.
LEMMA SumOfPart ==
  ASSUME NEW S, IsFiniteSet(S), NEW f, \A x \in S : f[x] \in Nat, NEW T \in SUBSET S
  PROVE  SumOf(T, f) <= SumOf(S, f)
<1> DEFINE N == {n \in Nat : \A s \in SUBSET S :
                   T \subseteq s /\ Cardinality(s) = n => SumOf(T, f) <= SumOf(s, f)}
<1>1. \A s \in SUBSET S : SumOf(s, f) \in Nat
  <2>1. ASSUME NEW s \in SUBSET S PROVE SumOf(s, f) \in Nat
    <3>1. IsFiniteSet(s) /\ \A x \in s : f[x] \in Nat BY SubsetsCounted
    <3> QED BY <3>1, SumOfRest
  <2> QED BY <2>1
<1>2. 0 \in N
  <2>1. \A s \in SUBSET S : T \subseteq s /\ Cardinality(s) = 0 => s = T
    BY SubsetsCounted
  <2> QED BY <1>1, <2>1
<1>3. ASSUME NEW n \in N PROVE n + 1 \in N
  <2>1. ASSUME NEW s \in SUBSET S, T \subseteq s, Cardinality(s) = n + 1
        PROVE  SumOf(T, f) <= SumOf(s, f)
    <3>1. CASE s = T BY <1>1, <3>1
    <3>2. CASE s # T
      <4>1. PICK x \in s : x \notin T BY <2>1, <3>2
      <4>2. PICK r : r = s \ {x} OBVIOUS
      <4>3. IsFiniteSet(s) /\ \A y \in s : f[y] \in Nat BY SubsetsCounted
      <4>4. SumOf(s, f) = f[x] + SumOf(r, f) BY <4>2, <4>3, SumOfRest
      <4>5. r \in SUBSET S /\ T \subseteq r BY <2>1, <4>1, <4>2
      <4>6. Cardinality(r) = Cardinality(s) - 1 BY <4>2, <4>3, FS_RemoveElement
      <4>7. n \in Nat OBVIOUS
      <4>8. Cardinality(r) = n BY <2>1, <4>6, <4>7
      <4>9. SumOf(T, f) <= SumOf(r, f) BY <4>5, <4>8
      <4>10. SumOf(r, f) \in Nat /\ SumOf(T, f) \in Nat /\ f[x] \in Nat BY <1>1, <4>5
      <4> QED BY <4>4, <4>9, <4>10
    <3> QED BY <3>1, <3>2
  <2> QED BY <2>1
<1> HIDE DEF N
<1>4. Nat \subseteq N BY <1>2, <1>3, NaturalsBySteps DEF N
<1>5. Cardinality(S) \in N BY <1>4, FS_CardinalityType
<1> QED BY <1>5 DEF N

\* A sum that is positive has a positive term, and conversely.
LEMMA SumPositive ==
  ASSUME NEW S, IsFiniteSet(S), NEW f, \A x \in S : f[x] \in Nat
  PROVE  SumOf(S, f) > 0 <=> \E a \in S : f[a] > 0
<1>1. ASSUME SumOf(S, f) > 0 PROVE \E a \in S : f[a] > 0
  <2>1. SUFFICES ASSUME ~ \E a \in S : f[a] > 0 PROVE FALSE OBVIOUS
  <2>2. \A x \in S : f[x] = 0 BY <2>1
  <2>3. SumOf(S, f) = 0 BY <2>2, SumOfZeros
  <2> QED BY <1>1, <2>3
<1>2. ASSUME NEW a \in S, f[a] > 0 PROVE SumOf(S, f) > 0
  <2>1. SumOf(S, f) = f[a] + SumOf(S \ {a}, f) BY SumOfRest
  <2>2. PICK r : r = S \ {a} OBVIOUS
  <2>3. r \in SUBSET S /\ IsFiniteSet(r) /\ \A x \in r : f[x] \in Nat BY <2>2, FS_Subset
  <2>4. SumOf(r, f) \in Nat BY <2>3, SumOfRest
  <2> QED BY <1>2, <2>1, <2>2, <2>4
<1> QED BY <1>1, <1>2

-----------------------------------------------------------------------------
(* Loops over integers. *)

\* f holds what a loop over i computes, from 0 at i = m, where F[i] is the
\* loop's body.
LoopSteps(f, m, n, F) == f = [i \in m .. n |-> IF i = m THEN 0 ELSE F[i][f[i - 1]]]

\* A loop over integers computes integers, if its body does.
LEMMA LoopExists ==
  ASSUME NEW m \in Nat, NEW F \in [Nat -> [Int -> Int]], NEW n \in Nat, m <= n
  PROVE  \E f \in [m .. n -> Int] : LoopSteps(f, m, n, F)
<1> DEFINE S == {k \in Nat : \E f \in [m .. m + k -> Int] : LoopSteps(f, m, m + k, F)}
<1>1. 0 \in S
  <2>1. PICK f : f = [i \in m .. m + 0 |-> 0] OBVIOUS
  <2>2. \A i \in m .. m + 0 : i = m OBVIOUS
  <2>3. f \in [m .. m + 0 -> Int] /\ LoopSteps(f, m, m + 0, F)
    BY <2>1, <2>2 DEF LoopSteps
  <2> QED BY <2>3
<1>2. ASSUME NEW k \in S PROVE k + 1 \in S
  <2>1. k \in Nat OBVIOUS
  <2>2. PICK f \in [m .. m + k -> Int] : LoopSteps(f, m, m + k, F) OBVIOUS
  <2>3. PICK p : p = m + k + 1 OBVIOUS
  <2>4. p \in Nat /\ p - 1 = m + k /\ p - 1 \in m .. m + k /\ p > m BY <2>1, <2>3
  <2> DEFINE h == [i \in m .. p |-> IF i = p THEN F[p][f[p - 1]] ELSE f[i]]
  <2>5. \A i \in m .. p : i = p \/ i \in m .. m + k BY <2>1, <2>3
  <2>6. \A i \in m .. m + k : i \in m .. p /\ i # p BY <2>1, <2>3
  <2>7. f[p - 1] \in Int /\ F[p][f[p - 1]] \in Int BY <2>4
  <2>8. \A i \in m .. m + k : h[i] = f[i] BY <2>6
  <2>9. h[p] = F[p][f[p - 1]] BY <2>4
  <2>10. h = [i \in m .. p |-> h[i]] OBVIOUS
  <2> HIDE DEF h
  <2>11. \A i \in m .. p : h[i] \in Int BY <2>5, <2>7, <2>8, <2>9
  <2>12. h \in [m .. p -> Int] BY <2>10, <2>11
  <2>13. ASSUME NEW i \in m .. p PROVE h[i] = IF i = m THEN 0 ELSE F[i][h[i - 1]]
    <3>1. CASE i = p
      <4>1. PICK q \in m .. m + k : q = p - 1 BY <2>4
      <4>2. h[q] = f[q] BY <2>8
      <4>3. h[p] = F[p][h[q]] BY <2>9, <4>1, <4>2
      <4>4. p # m BY <2>4
      <4> QED BY <3>1, <4>1, <4>3, <4>4
    <3>2. CASE i \in m .. m + k
      <4>1. f[i] = IF i = m THEN 0 ELSE F[i][f[i - 1]] BY <2>2, <3>2 DEF LoopSteps
      <4>2. i # m => i - 1 \in m .. m + k BY <2>1, <3>2
      <4> QED BY <2>8, <3>2, <4>1, <4>2
    <3> QED BY <2>5, <3>1, <3>2
  <2>14. LoopSteps(h, m, p, F) BY <2>10, <2>13 DEF LoopSteps
  <2>15. m + (k + 1) = p BY <2>1, <2>3
  <2>16. h \in [m .. m + (k + 1) -> Int] BY <2>12, <2>15
  <2>17. LoopSteps(h, m, m + (k + 1), F) BY <2>14, <2>15
  <2>18. k + 1 \in Nat BY <2>1
  <2> QED BY <2>16, <2>17, <2>18
<1>3. S \in SUBSET Nat OBVIOUS
<1> HIDE DEF S
<1>4. Nat \subseteq S BY <1>1, <1>2, <1>3, NaturalsBySteps
<1>5. n - m \in S /\ m + (n - m) = n BY <1>4
<1> QED BY <1>5 DEF S

\* A function that takes the loop's steps wherever it has come to an integer.
LoopTaken(g, m, n, F) ==
  /\ g[m] = 0
  /\ \A i \in m .. n : i # m /\ g[i - 1] \in Int => g[i] = F[i][g[i - 1]]

\* It takes all of them.
LEMMA LoopTyped ==
  ASSUME NEW m \in Nat, NEW F \in [Nat -> [Int -> Int]], NEW n \in Nat, m <= n,
         NEW g, LoopTaken(g, m, n, F)
  PROVE  \A i \in m .. n : /\ g[i] \in Int
                           /\ i # m => g[i - 1] \in Int /\ g[i] = F[i][g[i - 1]]
<1> DEFINE S == {k \in Nat : m + k <= n => g[m + k] \in Int}
<1>1. 0 \in S BY DEF LoopTaken
<1>2. ASSUME NEW k \in S PROVE k + 1 \in S
  <2>1. SUFFICES ASSUME m + (k + 1) <= n PROVE g[m + (k + 1)] \in Int OBVIOUS
  <2>2. PICK i : i = m + (k + 1) OBVIOUS
  <2>3. i \in m .. n /\ i \in Nat /\ i # m /\ i - 1 = m + k /\ m + k <= n BY <2>1, <2>2
  <2>4. g[i - 1] \in Int BY <2>3
  <2>5. g[i] = F[i][g[i - 1]] BY <2>3, <2>4 DEF LoopTaken
  <2> QED BY <2>2, <2>3, <2>4, <2>5
<1>3. S \in SUBSET Nat OBVIOUS
<1> HIDE DEF S
<1>4. Nat \subseteq S BY <1>1, <1>2, <1>3, NaturalsBySteps
<1>5. \A i \in m .. n : g[i] \in Int
  <2>1. SUFFICES ASSUME NEW i \in m .. n PROVE g[i] \in Int OBVIOUS
  <2>2. i - m \in S /\ m + (i - m) = i /\ i <= n BY <1>4
  <2> QED BY <2>2 DEF S
<1>6. \A i \in m .. n : i # m => i - 1 \in m .. n OBVIOUS
<1> QED BY <1>5, <1>6 DEF LoopTaken

=============================================================================
