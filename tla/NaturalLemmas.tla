--------------------------- MODULE NaturalLemmas ---------------------------
(***************************************************************************)
(* Facts about natural numbers and finite sets that several proofs need    *)
(* and the library does not state, or only with an operator parameter.     *)
(***************************************************************************)
EXTENDS Integers, FiniteSets, FiniteSetTheorems, FunctionTheorems, TLAPS

\* A set of naturals has a least element: the initial segments its elements
\* span are finite, and proper inclusion is well founded on those.
LEMMA LeastExists ==
    ASSUME NEW S, S \subseteq Nat, S # {}
    PROVE  \E i \in S : \A j \in S : i <= j
<1> DEFINE T == {1 .. j : j \in S}
<1>1. T \subseteq FiniteSubsetsOf(Nat) /\ T # {}
  <2>1. ASSUME NEW j \in S PROVE 1 .. j \in FiniteSubsetsOf(Nat)
    <3>1. j \in Int /\ 1 \in Int /\ 1 .. j \subseteq Nat
      OBVIOUS
    <3> QED
      BY <3>1, FS_Interval DEF FiniteSubsetsOf
  <2> QED
    BY <2>1
<1>2. PICK x \in T : \A y \in T : ~(<<y, x>> \in StrictSubsetOrdering(Nat))
  BY <1>1, FS_StrictSubsetOrderingWellFounded, WFMin
<1>3. PICK i \in S : x = 1 .. i
  OBVIOUS
<1>4. ASSUME NEW j \in S PROVE i <= j
  <2>1. SUFFICES ASSUME j < i PROVE FALSE
    OBVIOUS
  <2>2. 1 .. j \subseteq 1 .. i /\ i \in 1 .. i /\ i \notin 1 .. j
    BY <2>1
  <2>3. <<1 .. j, 1 .. i>> \in StrictSubsetOrdering(Nat)
    BY <2>2 DEF StrictSubsetOrdering
  <2> QED
    BY <1>2, <1>3, <2>3
<1> QED
  BY <1>4

\* Quotient and remainder.
LEMMA Division ==
    ASSUME NEW a \in Nat, NEW p \in Nat \ {0}
    PROVE  /\ a \div p \in Int /\ a % p \in Int /\ 0 <= a % p /\ a % p < p
           /\ a = p * (a \div p) + (a % p)
OBVIOUS

\* What fits q times into a is no more than the quotient.
LEMMA QuotientBound ==
    ASSUME NEW a \in Nat, NEW p \in Nat \ {0}, NEW q \in Int, q * p <= a
    PROVE  q <= a \div p
<1> DEFINE d == a \div p
           m == a % p
<1>1. d \in Int /\ m \in Int /\ 0 <= m /\ m < p /\ a = p * d + m
  BY Division
<1> HIDE DEF d, m
<1>2. SUFFICES ASSUME q >= d + 1 PROVE FALSE
  BY <1>1 DEF d
<1>3. PICK e \in Nat : q = d + 1 + e
  <2>1. q - (d + 1) \in Nat /\ q = d + 1 + (q - (d + 1))
    BY <1>1, <1>2
  <2> QED
    BY <2>1
<1>4. q * p = p * d + p + e * p /\ e * p >= 0
  BY <1>1, <1>3
<1> QED
  BY <1>1, <1>4

----------------------------------------------------------------------------
(* Counting.                                                               *)

\* What is in classes of at most n each, is at most n for each class: number
\* the elements within their classes, and a class with a number names one.
LEMMA CountByClass ==
    ASSUME NEW D, IsFiniteSet(D), NEW T, IsFiniteSet(T), NEW n \in Nat,
           NEW class \in [D -> T],
           \A x \in T : Cardinality({d \in D : class[d] = x}) <= n
    PROVE  Cardinality(D) \in Nat /\ Cardinality(T) \in Nat
           /\ Cardinality(D) <= Cardinality(T) * n
<1> DEFINE Class(x) == {d \in D : class[d] = x}
<1>1. ASSUME NEW x \in T PROVE Injection(Class(x), 1 .. n) # {}
  <2>1. IsFiniteSet(Class(x))
    BY FS_Subset
  <2>2. PICK m \in Nat : m = Cardinality(Class(x)) /\ m <= n
    BY <2>1, FS_CardinalityType
  <2>3. PICK f : f \in Bijection(1 .. m, Class(x))
    BY <2>1, <2>2, FS_CardinalityType DEF ExistsBijection
  <2>4. Inverse(f, 1 .. m, Class(x)) \in Bijection(Class(x), 1 .. m)
    BY <2>3, Fun_BijInverse
  <2>5. PICK g : g \in Bijection(Class(x), 1 .. m)
    BY <2>4
  <2>6. /\ g \in [Class(x) -> 1 .. m]
        /\ \A a, b \in Class(x) : g[a] = g[b] => a = b
    BY <2>5, Fun_BijectionProperties
  <2>7. 1 .. m \subseteq 1 .. n
    BY <2>2
  <2> HIDE DEF Class
  <2>8. g \in [Class(x) -> 1 .. n]
    BY <2>6, <2>7
  <2> QED
    BY <2>6, <2>8, Fun_IsInj
<1> DEFINE number == [x \in T |-> CHOOSE g : g \in Injection(Class(x), 1 .. n)]
           name == [d \in D |-> <<class[d], number[class[d]][d]>>]
<1>2. ASSUME NEW x \in T
      PROVE  number[x] \in Injection(Class(x), 1 .. n)
  BY <1>1
<1> HIDE DEF number
<1>3. ASSUME NEW x \in T
      PROVE  /\ number[x] \in [Class(x) -> 1 .. n]
             /\ \A a, b \in Class(x) : number[x][a] = number[x][b] => a = b
  <2> HIDE DEF Class
  <2> QED
    BY <1>2, Fun_InjectionProperties
<1>4. name \in [D -> T \X (1 .. n)]
  <2>1. ASSUME NEW d \in D PROVE number[class[d]][d] \in 1 .. n /\ class[d] \in T
    <3>1. class[d] \in T /\ d \in Class(class[d])
      OBVIOUS
    <3> QED
      BY <1>3, <3>1
  <2> QED
    BY <2>1
<1>5. ASSUME NEW a \in D, NEW b \in D, name[a] = name[b] PROVE a = b
  <2>1. class[a] = class[b] /\ number[class[a]][a] = number[class[b]][b]
    BY <1>5
  <2>2. a \in Class(class[a]) /\ b \in Class(class[a])
    BY <2>1
  <2> QED
    BY <1>3, <2>1, <2>2
<1> HIDE DEF name
<1>6. name \in Injection(D, T \X (1 .. n))
  BY <1>4, <1>5, Fun_IsInj
<1>7. IsFiniteSet(1 .. n) /\ Cardinality(1 .. n) = n
  <2>1. IsFiniteSet(1 .. n) /\ Cardinality(1 .. n) = IF 1 > n THEN 0 ELSE n - 1 + 1
    BY FS_Interval
  <2> QED
    BY <2>1
<1>8. /\ IsFiniteSet(T \X (1 .. n))
      /\ Cardinality(T \X (1 .. n)) = Cardinality(T) * n
  BY <1>7, FS_Product
<1>9. Cardinality(D) <= Cardinality(T \X (1 .. n))
  BY <1>6, <1>8, FS_Injection
<1> QED
  BY <1>8, <1>9, FS_CardinalityType

\* The first n numbers are n.
LEMMA InitialSegment ==
    ASSUME NEW n \in Nat
    PROVE  IsFiniteSet(1 .. n) /\ Cardinality(1 .. n) = n
<1>1. /\ IsFiniteSet(1 .. n)
      /\ Cardinality(1 .. n) = IF 1 > n THEN 0 ELSE n - 1 + 1
  BY FS_Interval
<1> QED
  BY <1>1

\* Fewer times as much is no more.
LEMMA FewerTimes ==
    ASSUME NEW a \in Nat, NEW b \in Nat, NEW x \in Nat, NEW y \in Nat, a <= b
    PROVE  (a * x) * y <= y * b * x
<1>1. PICK d \in Nat : b = a + d
  <2>1. b - a \in Nat /\ b = a + (b - a)
    OBVIOUS
  <2> QED
    BY <2>1
<1>2. d * x \in Nat /\ y * (d * x) \in Nat
  OBVIOUS
<1>3. y * (a + d) * x = (a * x) * y + y * (d * x)
  OBVIOUS
<1>4. (a * x) * y \in Nat
  OBVIOUS
<1> QED
  BY <1>1, <1>2, <1>3, <1>4

\* No more than a times g, x times over.
LEMMA NoMoreTimes ==
    ASSUME NEW n \in Nat, NEW a \in Nat, NEW g \in Nat, NEW x \in Nat, n <= a * g
    PROVE  n * x <= g * a * x
<1>1. PICK b \in Nat : b = a * g /\ b = g * a
  OBVIOUS
<1>2. PICK d \in Nat : b = n + d
  <2>1. b - n \in Nat /\ b = n + (b - n)
    BY <1>1
  <2> QED
    BY <2>1
<1>3. (n + d) * x = n * x + d * x /\ d * x \in Nat /\ n * x \in Nat
  OBVIOUS
<1> QED
  BY <1>1, <1>2, <1>3
=============================================================================
