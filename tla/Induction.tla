------------------------------ MODULE Induction ------------------------------
(***************************************************************************)
(* Induction over the natural numbers, stated for sets: a formula to be    *)
(* proved of every number becomes the set of the numbers it holds for.     *)
(* What follows by it of powers, of functions defined by recursion, of the *)
(* sizes of finite sets and of sums over them.                             *)
(***************************************************************************)
EXTENDS Integers, FiniteSets, Functions, FiniteSetTheorems, TLAPS, WellFoundedInduction

\* A set of natural numbers has a least element.
LEMMA LeastElement ==
  ASSUME NEW T, T \subseteq Nat, T # {}
  PROVE  \E x \in T : \A y \in T : x <= y
<1> DEFINE R == OpToRel(<, Nat)
<1>1. \A x, y \in Nat : <<y, x>> \in R <=> y < x
  BY DEF OpToRel
<1>2. IsWellFoundedOn(R, Nat)
  BY NatLessThanWellFounded
<1> HIDE DEF R
<1>3. PICK x \in T : \A y \in T : ~ (<<y, x>> \in R)
  BY <1>2, WFMin
<1>4. \A y \in T : ~ (y < x)
  BY <1>1, <1>3
<1>5. QED
  BY <1>4

\* A set of numbers up to a bound has a greatest element.
LEMMA GreatestElement ==
  ASSUME NEW bound \in Int, NEW T, T \subseteq Int, T # {},
         \A x \in T : x <= bound
  PROVE  \E x \in T : \A y \in T : y <= x
<1> DEFINE U == {k \in Nat : bound - k \in T}
<1>1. U # {}
  <2>1. PICK x \in T : TRUE
    OBVIOUS
  <2>2. bound - x \in Nat /\ bound - (bound - x) = x
    BY <2>1
  <2>3. QED
    BY <2>1, <2>2
<1>2. PICK k \in U : \A l \in U : k <= l
  BY <1>1, LeastElement
<1>3. ASSUME NEW y \in T
      PROVE  y <= bound - k
  <2>1. bound - y \in U
    <3>1. bound - y \in Nat /\ bound - (bound - y) = y
      OBVIOUS
    <3>2. QED
      BY <3>1
  <2>2. QED
    BY <1>2, <2>1
<1>4. QED
  BY <1>2, <1>3

\* Induction from each number to the next.
LEMMA Induct ==
  ASSUME NEW S, 0 \in S, \A n \in Nat : n \in S => n + 1 \in S
  PROVE  \A n \in Nat : n \in S
<1> SUFFICES ASSUME NEW m \in Nat, m \notin S
             PROVE  FALSE
  OBVIOUS
<1> DEFINE T == {n \in Nat : n \notin S}
<1>1. PICK x \in T : \A y \in T : x <= y
  <2>1. m \in T
    OBVIOUS
  <2>2. QED
    BY <2>1, LeastElement
<1>2. x # 0 /\ x - 1 \in Nat
  BY <1>1
<1>3. x - 1 \in S
  BY <1>1, <1>2
<1>4. x - 1 + 1 = x
  BY <1>2
<1>5. QED
  BY <1>1, <1>2, <1>3, <1>4

\* Induction from all smaller numbers to a number.
LEMMA InductFromSmaller ==
  ASSUME NEW S, \A n \in Nat : (\A m \in 0 .. n - 1 : m \in S) => n \in S
  PROVE  \A n \in Nat : n \in S
<1> SUFFICES ASSUME NEW m \in Nat, m \notin S
             PROVE  FALSE
  OBVIOUS
<1> DEFINE T == {n \in Nat : n \notin S}
<1>1. PICK x \in T : \A y \in T : x <= y
  <2>1. m \in T
    OBVIOUS
  <2>2. QED
    BY <2>1, LeastElement
<1>2. \A y \in 0 .. x - 1 : y \in S
  BY <1>1
<1>3. QED
  BY <1>1, <1>2

-----------------------------------------------------------------------------
(***************************************************************************)
(* Quotients and powers.  Of ^ the provers know nothing but that a set of  *)
(* n elements has 2 ^ n subsets, from which the rest follows.              *)
(***************************************************************************)
LEMMA PowerSuccessor ==
  ASSUME NEW n \in Nat
  PROVE  2 ^ n \in Nat \ {0} /\ 2 ^ (n + 1) = 2 * 2 ^ n
<1> DEFINE S == 1 .. n
           T == 1 .. n + 1
           Joined == {X \cup {n + 1} : X \in SUBSET S}
           join == [X \in SUBSET S |-> X \cup {n + 1}]
<1>1. IsFiniteSet(S) /\ Cardinality(S) = n
  BY FS_Interval
<1>2. IsFiniteSet(T) /\ Cardinality(T) = n + 1
  <2>1. 1 \in Int /\ n + 1 \in Int /\ ~(1 > n + 1) /\ n + 1 - 1 + 1 = n + 1
    OBVIOUS
  <2>2. QED
    BY <2>1, FS_Interval
<1>3. /\ IsFiniteSet(SUBSET S) /\ Cardinality(SUBSET S) = 2 ^ n
      /\ IsFiniteSet(SUBSET T) /\ Cardinality(SUBSET T) = 2 ^ (n + 1)
  BY <1>1, <1>2, FS_SUBSET
<1>4. \A X \in SUBSET S : n + 1 \notin X
  OBVIOUS
<1>5. T = S \cup {n + 1}
  OBVIOUS
<1>6. join \in Bijection(SUBSET S, Joined)
  <2>1. join \in [SUBSET S -> Joined]
    OBVIOUS
  <2>2. ASSUME NEW X \in SUBSET S, NEW Y \in SUBSET S, join[X] = join[Y]
        PROVE  X = Y
    <3>1. X = join[X] \ {n + 1} /\ Y = join[Y] \ {n + 1}
      BY <1>4
    <3>2. QED
      BY <2>2, <3>1
  <2>3. ASSUME NEW Z \in Joined
        PROVE  \E X \in SUBSET S : join[X] = Z
    OBVIOUS
  <2>4. QED
    BY <2>1, <2>2, <2>3 DEF Bijection, Injection, Surjection, IsInjective
<1>7. IsFiniteSet(Joined) /\ Cardinality(Joined) = 2 ^ n
  <2>1. ExistsBijection(SUBSET S, Joined)
    BY <1>6 DEF ExistsBijection
  <2>2. QED
    BY <1>3, <2>1, FS_Bijection
<1>8. SUBSET T = (SUBSET S) \cup Joined
  <2>1. ASSUME NEW Z \in SUBSET T
        PROVE  Z \in (SUBSET S) \cup Joined
    <3>1. CASE n + 1 \notin Z
      BY <1>5, <3>1
    <3>2. CASE n + 1 \in Z
      <4>1. Z \ {n + 1} \in SUBSET S /\ Z = (Z \ {n + 1}) \cup {n + 1}
        BY <1>5, <3>2
      <4>2. QED
        BY <4>1
    <3>3. QED
      BY <3>1, <3>2
  <2>2. Joined \subseteq SUBSET T /\ SUBSET S \subseteq SUBSET T
    BY <1>5
  <2>3. QED
    BY <2>1, <2>2
<1>9. (SUBSET S) \cap Joined = {}
  BY <1>4
<1>10. 2 ^ n \in Nat
  BY <1>3, FS_CardinalityType
<1>11. 2 ^ n # 0
  <2>1. {} \in SUBSET S
    OBVIOUS
  <2>2. QED
    BY <1>3, <2>1, FS_EmptySet
<1>12. 2 ^ (n + 1) = 2 ^ n + 2 ^ n
  <2>1. Cardinality((SUBSET S) \cap Joined) = 0
    BY <1>9, FS_EmptySet
  <2> DEFINE A == SUBSET S
             B == SUBSET T
  <2>2. /\ IsFiniteSet(A) /\ Cardinality(A) = 2 ^ n
        /\ Cardinality(B) = 2 ^ (n + 1) /\ B = A \cup Joined
        /\ Cardinality(A \cap Joined) = 0
    BY <1>3, <1>8, <2>1
  <2> HIDE DEF S, T, A, B, Joined
  <2>3. Cardinality(A \cup Joined) =
          Cardinality(A) + Cardinality(Joined) - Cardinality(A \cap Joined)
    BY <1>7, <2>2, FS_Union
  <2>4. QED
    BY <1>7, <1>10, <2>2, <2>3
<1>13. QED
  BY <1>10, <1>11, <1>12

LEMMA PowerPositive ==
  ASSUME NEW n \in Nat
  PROVE  2 ^ n \in Nat \ {0} /\ 2 ^ n >= 1
<1>1. 2 ^ n \in Nat \ {0}
  BY PowerSuccessor
<1>2. QED
  BY <1>1

\* 2 ^ (m + n) = 2 ^ m * 2 ^ n.
LEMMA PowerOfSum ==
  ASSUME NEW m \in Nat, NEW n \in Nat
  PROVE  2 ^ (m + n) = 2 ^ m * 2 ^ n
<1> DEFINE S == {k \in Nat : 2 ^ (m + k) = 2 ^ m * 2 ^ k}
<1>1. 0 \in S
  <2>1. 2 ^ 0 = 1 /\ m + 0 = m /\ 2 ^ m \in Nat
    BY PowerSuccessor
  <2>2. QED
    BY <2>1
<1>2. ASSUME NEW k \in Nat, k \in S
      PROVE  k + 1 \in S
  <2> DEFINE a == 2 ^ m
             b == 2 ^ k
             c == 2 ^ (m + k)
  <2>1. a \in Nat /\ b \in Nat /\ 2 ^ (k + 1) = 2 * b
    BY PowerSuccessor
  <2>2. 2 ^ (m + k + 1) = 2 * c /\ m + k + 1 = m + (k + 1)
    <3>1. m + k \in Nat
      OBVIOUS
    <3>2. QED
      BY <3>1, PowerSuccessor
  <2>3. c = a * b
    BY <1>2
  <2> HIDE DEF a, b, c
  <2>4. 2 * (a * b) = a * (2 * b)
    BY <2>1
  <2>5. 2 ^ (m + (k + 1)) = a * 2 ^ (k + 1)
    BY <2>1, <2>2, <2>3, <2>4
  <2>6. QED
    BY <2>5 DEF a
<1> HIDE DEF S
<1>3. \A k \in Nat : k \in S
  BY <1>1, <1>2, Induct
<1>4. QED
  BY <1>3 DEF S

\* A greater exponent gives a greater power.
LEMMA PowerMonotone ==
  ASSUME NEW m \in Nat, NEW n \in Nat, m <= n
  PROVE  2 ^ m <= 2 ^ n
<1> DEFINE a == 2 ^ m
           b == 2 ^ (n - m)
<1>1. n - m \in Nat /\ m + (n - m) = n
  OBVIOUS
<1>2. 2 ^ n = a * b
  BY <1>1, PowerOfSum
<1>3. a \in Nat /\ b \in Nat \ {0}
  BY <1>1, PowerSuccessor
<1> HIDE DEF a, b
<1>4. PICK c \in Nat : b = c + 1
  <2>1. b - 1 \in Nat /\ b = b - 1 + 1
    BY <1>3
  <2>2. QED
    BY <2>1
<1>5. a * b = a * c + a /\ a * c \in Nat
  BY <1>3, <1>4
<1>6. a <= a * b
  BY <1>3, <1>5
<1>7. QED
  BY <1>2, <1>6 DEF a

\* A factor keeps the order of numbers.
LEMMA FactorMonotone ==
  ASSUME NEW n \in Nat, NEW p \in Int, NEW q \in Int, p <= q
  PROVE  p * n \in Int /\ q * n \in Int /\ p * n <= q * n
<1>1. PICK k \in Nat : q = p + k
  <2>1. q - p \in Nat /\ q = p + (q - p)
    OBVIOUS
  <2>2. QED
    BY <2>1
<1>2. q * n = p * n + k * n /\ k * n \in Nat /\ p * n \in Int
  BY <1>1
<1>3. QED
  BY <1>2

LEMMA FactorCancels ==
  ASSUME NEW n \in Nat \ {0}, NEW p \in Int, NEW q \in Int
  PROVE  /\ p * n <= q * n => p <= q
         /\ p * n < q * n => p < q
<1>1. ASSUME q < p
      PROVE  q * n < p * n
  <2>1. (q + 1) * n <= p * n /\ p * n \in Int
    BY <1>1, FactorMonotone
  <2>2. (q + 1) * n = q * n + n /\ q * n \in Int
    OBVIOUS
  <2>3. QED
    BY <2>1, <2>2
<1>2. ASSUME q <= p
      PROVE  q * n <= p * n
  BY <1>2, FactorMonotone
<1>3. p * n \in Int /\ q * n \in Int
  OBVIOUS
<1>4. QED
  BY <1>1, <1>2, <1>3

\* A number is so many times another, and the rest.
LEMMA Quotient ==
  ASSUME NEW n \in Nat \ {0}, NEW p \in Int
  PROVE  /\ p \div n \in Int
         /\ p \in Nat => p \div n \in Nat
         /\ p % n \in 0 .. n - 1
         /\ p = (p \div n) * n + (p % n)
BY SMT

\* Quotient and rest are determined by what they add up to.
LEMMA QuotientIs ==
  ASSUME NEW n \in Nat \ {0}, NEW q \in Int, NEW r \in 0 .. n - 1
  PROVE  (q * n + r) \div n = q /\ (q * n + r) % n = r
<1> DEFINE p == q * n + r
           d == p \div n
           e == p % n
<1>1. p \in Int /\ q * n \in Int
  OBVIOUS
<1>2. d \in Int /\ e \in 0 .. n - 1 /\ p = d * n + e /\ d * n \in Int
  <2>1. d \in Int /\ e \in 0 .. n - 1 /\ p = d * n + e
    BY <1>1, Quotient
  <2> HIDE DEF d
  <2>2. QED
    BY <2>1
<1>3. p = q * n + r
  OBVIOUS
<1> HIDE DEF p, d, e
<1>4. ~ (d < q)
  <2>1. SUFFICES ASSUME d < q
                 PROVE  FALSE
    OBVIOUS
  <2>2. (d + 1) * n <= q * n
    BY <1>2, <2>1, FactorMonotone
  <2>3. (d + 1) * n = d * n + n
    BY <1>2
  <2>4. QED
    BY <1>1, <1>2, <1>3, <2>2, <2>3
<1>5. ~ (q < d)
  <2>1. SUFFICES ASSUME q < d
                 PROVE  FALSE
    OBVIOUS
  <2>2. (q + 1) * n <= d * n
    BY <1>2, <2>1, FactorMonotone
  <2>3. (q + 1) * n = q * n + n
    BY <1>2
  <2>4. QED
    BY <1>1, <1>2, <1>3, <2>2, <2>3
<1>6. d = q
  BY <1>2, <1>4, <1>5
<1>7. e = r
  BY <1>1, <1>2, <1>3, <1>6
<1>8. QED
  BY <1>6, <1>7 DEF p, d, e

\* A multiple more leaves the same rest.
LEMMA SameRest ==
  ASSUME NEW n \in Nat \ {0}, NEW k \in Int, NEW p \in Int
  PROVE  (k * n + p) % n = p % n
<1> DEFINE d == p \div n
           e == p % n
<1>1. d \in Int /\ e \in 0 .. n - 1 /\ p = d * n + e
  BY Quotient
<1> HIDE DEF d, e
<1>2. k * n + p = (k + d) * n + e /\ k + d \in Int
  BY <1>1
<1>3. ((k + d) * n + e) % n = e
  BY <1>1, <1>2, QuotientIs
<1>4. QED
  BY <1>2, <1>3 DEF e

\* What a number that wraps around at n is in the end.
LEMMA RestOfRest ==
  ASSUME NEW n \in Nat \ {0}, NEW p \in Int, NEW c \in Int
  PROVE  /\ ((p % n) + c) % n = (p + c) % n
         /\ ((p % n) * c) % n = (p * c) % n
<1> DEFINE d == p \div n
           e == p % n
<1>1. d \in Int /\ e \in 0 .. n - 1 /\ p = d * n + e
  BY Quotient
<1> HIDE DEF d, e
<1>2. p + c = d * n + (e + c) /\ e + c \in Int
  BY <1>1
<1>3. (p + c) % n = (e + c) % n
  BY <1>1, <1>2, SameRest
<1>4. p * c = (d * c) * n + (e * c) /\ d * c \in Int /\ e * c \in Int
  BY <1>1
<1>5. (p * c) % n = (e * c) % n
  <2> DEFINE k == d * c
             r == e * c
  <2>1. k \in Int /\ r \in Int /\ p * c = k * n + r
    BY <1>4
  <2> HIDE DEF k, r
  <2>2. (k * n + r) % n = r % n
    BY <2>1, SameRest
  <2>3. QED
    BY <2>1, <2>2 DEF r
<1>6. QED
  BY <1>3, <1>5 DEF e

\* Dividing twice.
LEMMA QuotientTwice ==
  ASSUME NEW m \in Nat \ {0}, NEW n \in Nat \ {0}, NEW p \in Nat
  PROVE  p \div (m * n) = (p \div m) \div n
<1> DEFINE a == p \div m
           r == p % m
           b == a \div n
           s == a % n
           mn == m * n
           rest == s * m + r
<1>1. a \in Nat /\ r \in 0 .. m - 1 /\ p = a * m + r
  <2>1. p \in Int
    OBVIOUS
  <2>2. QED
    BY <2>1, Quotient
<1>2. b \in Nat /\ s \in 0 .. n - 1 /\ a = b * n + s
  <2> HIDE DEF a
  <2>1. a \in Nat
    BY <1>1 DEF a
  <2>2. QED
    BY <2>1, Quotient
<1> HIDE DEF a, r, b, s
<1>3. mn \in Nat \ {0}
  <2>1. 1 * n <= m * n
    BY FactorMonotone
  <2>2. QED
    BY <2>1
<1>4. rest \in 0 .. mn - 1
  <2>1. s <= n - 1 /\ s \in Int /\ n - 1 \in Int
    BY <1>2
  <2>2. s * m <= (n - 1) * m
    BY <2>1, FactorMonotone
  <2>3. (n - 1) * m = mn - m /\ s * m \in Nat
    BY <1>2
  <2> HIDE DEF mn
  <2>4. QED
    BY <1>1, <1>3, <2>2, <2>3
<1>5. p = b * mn + rest
  BY <1>1, <1>2
<1> HIDE DEF mn, rest
<1>6. p \div mn = b
  <2>1. (b * mn + rest) \div mn = b
    BY <1>2, <1>3, <1>4, QuotientIs
  <2>2. QED
    BY <1>5, <2>1
<1>7. QED
  BY <1>6 DEF a, b, mn

-----------------------------------------------------------------------------
(***************************************************************************)
(* Recursion and sums.                                                     *)
(***************************************************************************)
\* A function may be defined by its first value and by a step from each value
\* to the next.
Recurs(f, m, base, step) ==
  f[0] = base /\ \A n \in 1 .. m : f[n] = step[n][f[n - 1]]

LEMMA Recursion ==
  ASSUME NEW m \in Nat, NEW V, NEW base \in V, NEW step \in [1 .. m -> [V -> V]]
  PROVE  \E f \in [0 .. m -> V] : Recurs(f, m, base, step)
<1> DEFINE Steps(f, k) == \A n \in 1 .. k : f[n] = step[n][f[n - 1]]
           S == {k \in Nat : k <= m =>
                   \E f \in [0 .. k -> V] : f[0] = base /\ Steps(f, k)}
<1>1. 0 \in S
  <2> DEFINE f == [n \in 0 .. 0 |-> base]
  <2>1. f \in [0 .. 0 -> V] /\ f[0] = base
    OBVIOUS
  <2>2. Steps(f, 0)
    OBVIOUS
  <2> HIDE DEF f, Steps
  <2>3. QED
    BY <2>1, <2>2
<1>2. ASSUME NEW k \in Nat, k \in S
      PROVE  k + 1 \in S
  <2>1. SUFFICES ASSUME k + 1 <= m
                 PROVE  \E f \in [0 .. k + 1 -> V] : f[0] = base /\ Steps(f, k + 1)
    OBVIOUS
  <2>2. PICK f \in [0 .. k -> V] : f[0] = base /\ Steps(f, k)
    BY <1>2, <2>1
  <2> DEFINE longer == [n \in 0 .. k + 1 |-> IF n <= k THEN f[n]
                                             ELSE step[k + 1][f[k]]]
  <2>3. f[k] \in V /\ k + 1 \in 1 .. m
    BY <2>1, <2>2
  <2>4. step[k + 1][f[k]] \in V
    BY <2>3
  <2>5. longer \in [0 .. k + 1 -> V] /\ longer[0] = base
    BY <2>2, <2>4
  <2>6. /\ \A n \in 0 .. k : longer[n] = f[n]
        /\ longer[k + 1] = step[k + 1][f[k]]
    OBVIOUS
  <2> HIDE DEF longer
  <2>7. ASSUME NEW n \in 1 .. k + 1
        PROVE  longer[n] = step[n][longer[n - 1]]
    <3>1. CASE n \in 1 .. k
      <4>1. n \in 0 .. k /\ n - 1 \in 0 .. k
        BY <3>1
      <4>2. longer[n] = f[n] /\ longer[n - 1] = f[n - 1]
        BY <2>6, <4>1
      <4>3. f[n] = step[n][f[n - 1]]
        BY <2>2, <3>1
      <4>4. QED
        BY <4>2, <4>3
    <3>2. CASE n = k + 1
      <4>1. n - 1 = k /\ k \in 0 .. k
        BY <3>2
      <4>2. longer[n - 1] = f[k]
        BY <2>6, <4>1
      <4>3. QED
        BY <2>6, <3>2, <4>2
    <3>3. QED
      BY <3>1, <3>2
  <2>8. QED
    BY <2>5, <2>7
<1>3. m \in S
  <2> HIDE DEF S
  <2>1. QED
    BY <1>1, <1>2, Induct
<1>4. QED
  BY <1>3 DEF Recurs

\* What is known of the size of a set within a finite one.
LEMMA SizeOf ==
  ASSUME NEW S, IsFiniteSet(S), NEW T \in SUBSET S
  PROVE  /\ IsFiniteSet(T)
         /\ Cardinality(T) \in Nat
         /\ Cardinality(T) <= Cardinality(S)
         /\ Cardinality(T) = 0 <=> T = {}
         /\ \A x \in T : Cardinality(T \ {x}) = Cardinality(T) - 1
         /\ \A x \in S : x \notin T => Cardinality(T \cup {x}) = Cardinality(T) + 1
<1>1. IsFiniteSet(T) /\ Cardinality(T) <= Cardinality(S)
  BY FS_Subset
<1>2. Cardinality(T) \in Nat
  BY <1>1, FS_CardinalityType
<1>3. Cardinality(T) = 0 <=> T = {}
  BY <1>1, FS_EmptySet, Zenon
<1>4. \A x \in T : Cardinality(T \ {x}) = Cardinality(T) - 1
  BY <1>1, FS_RemoveElement
<1>5. \A x \in S : x \notin T => Cardinality(T \cup {x}) = Cardinality(T) + 1
  BY <1>1, FS_AddElement
<1>6. QED
  BY <1>1, <1>2, <1>3, <1>4, <1>5

\* Induction over the subsets of a finite set, one element more at a time.
LEMMA InductOnSet ==
  ASSUME NEW S, IsFiniteSet(S), NEW P, {} \in P,
         \A T \in SUBSET S, x \in S : T \in P /\ x \notin T => T \cup {x} \in P
  PROVE  \A T \in SUBSET S : T \in P
<1> DEFINE N == {n \in Nat : \A T \in SUBSET S : Cardinality(T) = n => T \in P}
<1>1. 0 \in N
  <2>1. ASSUME NEW T \in SUBSET S, Cardinality(T) = 0
        PROVE  T \in P
    <3>1. T = {}
      BY <2>1, SizeOf
    <3>2. QED
      BY <3>1
  <2>2. QED
    BY <2>1
<1>2. ASSUME NEW n \in Nat, n \in N
      PROVE  n + 1 \in N
  <2>1. ASSUME NEW T \in SUBSET S, Cardinality(T) = n + 1
        PROVE  T \in P
    <3>1. n + 1 # 0 /\ n + 1 - 1 = n
      OBVIOUS
    <3>2. T # {}
      BY <2>1, <3>1, SizeOf
    <3>3. PICK x \in T : TRUE
      BY <3>2
    <3>4. Cardinality(T \ {x}) = n
      BY <2>1, <3>1, <3>3, SizeOf
    <3>5. T \ {x} \in P
      BY <1>2, <3>4
    <3>6. (T \ {x}) \cup {x} = T /\ x \notin T \ {x} /\ x \in S
      BY <3>3
    <3>7. QED
      BY <3>5, <3>6
  <2>2. QED
    BY <2>1
<1> HIDE DEF N
<1>3. \A n \in Nat : n \in N
  BY <1>1, <1>2, Induct
<1>4. ASSUME NEW T \in SUBSET S
      PROVE  T \in P
  <2>1. Cardinality(T) \in Nat
    BY SizeOf
  <2>2. QED
    BY <1>3, <2>1 DEF N
<1>5. QED
  BY <1>4

Chosen(S) == CHOOSE x \in S : TRUE

\* What SumFunctionOnSet adds up, for the sets of D.
Adds(g, f, D) ==
  g = [s \in D |-> IF s = {} THEN 0 ELSE f[Chosen(s)] + g[s \ {Chosen(s)}]]

LEMMA ChosenIn ==
  ASSUME NEW S, S # {}
  PROVE  Chosen(S) \in S
BY DEF Chosen

LEMMA AddsExists ==
  ASSUME NEW f, NEW S, IsFiniteSet(S)
  PROVE  \E g : Adds(g, f, SUBSET S)
<1> DEFINE UpTo(n) == {s \in SUBSET S : Cardinality(s) <= n}
           N == {n \in Nat : \E g : Adds(g, f, UpTo(n))}
<1>1. ASSUME NEW s \in SUBSET S
      PROVE  /\ IsFiniteSet(s) /\ Cardinality(s) \in Nat
             /\ Cardinality(s) <= Cardinality(S)
             /\ s # {} => Cardinality(s \ {Chosen(s)}) = Cardinality(s) - 1
             /\ Cardinality(s) = 0 => s = {}
  BY SizeOf, ChosenIn
<1>2. 0 \in N
  <2>1. \A s \in UpTo(0) : s = {}
    <3>1. ASSUME NEW s \in UpTo(0)
          PROVE  s = {}
      <4>1. s \in SUBSET S /\ Cardinality(s) <= 0
        OBVIOUS
      <4>2. Cardinality(s) \in Nat
        BY <1>1, <4>1
      <4>3. Cardinality(s) = 0
        BY <4>1, <4>2
      <4>4. QED
        BY <1>1, <4>1, <4>3
    <3>2. QED
      BY <3>1
  <2> DEFINE g == [s \in UpTo(0) |-> 0]
  <2>2. Adds(g, f, UpTo(0))
    <3> HIDE DEF UpTo
    <3>1. QED
      BY <2>1 DEF Adds
  <2>3. QED
    BY <2>2
<1>3. ASSUME NEW n \in Nat, n \in N
      PROVE  n + 1 \in N
  <2>1. PICK g : Adds(g, f, UpTo(n))
    BY <1>3
  <2> DEFINE longer == [s \in UpTo(n + 1) |->
                          IF s = {} THEN 0 ELSE f[Chosen(s)] + g[s \ {Chosen(s)}]]
             again == [s \in UpTo(n + 1) |->
                          IF s = {} THEN 0
                          ELSE f[Chosen(s)] + longer[s \ {Chosen(s)}]]
  <2>2. \A s \in UpTo(n) : s \in UpTo(n + 1)
    <3>1. ASSUME NEW s \in SUBSET S, Cardinality(s) <= n
          PROVE  Cardinality(s) <= n + 1
      <4>1. Cardinality(s) \in Nat
        BY <1>1
      <4>2. QED
        BY <3>1, <4>1
    <3>2. QED
      BY <3>1
  <2>3. \A s \in UpTo(n + 1) : s # {} => s \ {Chosen(s)} \in UpTo(n)
    BY <1>1
  <2> HIDE DEF UpTo
  <2>4. \A s \in UpTo(n) : longer[s] = g[s]
    BY <2>1, <2>2, Zenon DEF Adds
  <2>5. \A s \in UpTo(n + 1) :
          s # {} => longer[s \ {Chosen(s)}] = g[s \ {Chosen(s)}]
    BY <2>3, <2>4, Zenon
  <2>6. \A s \in UpTo(n + 1) : longer[s] = again[s]
    BY <2>5
  <2>7. longer = again
    BY <2>6, Zenon
  <2>8. Adds(longer, f, UpTo(n + 1))
    BY <2>7, Zenon DEF Adds
  <2>9. n + 1 \in Nat
    OBVIOUS
  <2> HIDE DEF longer
  <2>10. QED
    BY <2>8, <2>9
<1>4. Cardinality(S) \in Nat /\ UpTo(Cardinality(S)) = SUBSET S
  BY <1>1
<1>5. Cardinality(S) \in N
  <2> HIDE DEF N
  <2>1. QED
    BY <1>2, <1>3, <1>4, Induct
<1>6. QED
  BY <1>4, <1>5

LEMMA SumAdds ==
  ASSUME NEW f, NEW S, IsFiniteSet(S)
  PROVE  \E g : Adds(g, f, SUBSET S) /\ SumFunctionOnSet(f, S) = g[S]
<1> DEFINE g == CHOOSE h : h = [s \in SUBSET S |->
                  IF s = {} THEN 0
                  ELSE f[CHOOSE x \in s : TRUE] + h[s \ {CHOOSE x \in s : TRUE}]]
<1>1. Adds(g, f, SUBSET S)
  <2>1. \E h : h = [s \in SUBSET S |->
                  IF s = {} THEN 0
                  ELSE f[CHOOSE x \in s : TRUE] + h[s \ {CHOOSE x \in s : TRUE}]]
    <3>1. PICK h : Adds(h, f, SUBSET S)
      BY AddsExists
    <3>2. QED
      BY <3>1, Zenon DEF Adds, Chosen
  <2>2. QED
    BY <2>1, Zenon DEF Adds, Chosen
<1>2. SumFunctionOnSet(f, S) = g[S]
  BY Zenon DEF SumFunctionOnSet, FoldFunctionOnSet, MapThenFoldSet
<1> HIDE DEF g
<1>3. QED
  BY <1>1, <1>2

LEMMA AddsSame ==
  ASSUME NEW f, NEW S, IsFiniteSet(S), NEW T \in SUBSET S, NEW g, NEW h,
         Adds(g, f, SUBSET S), Adds(h, f, SUBSET T)
  PROVE  \A s \in SUBSET T : g[s] = h[s]
<1> DEFINE N == {n \in Nat : \A s \in SUBSET T : Cardinality(s) = n => g[s] = h[s]}
<1>1. ASSUME NEW s \in SUBSET T
      PROVE  /\ s \in SUBSET S /\ Cardinality(s) \in Nat
             /\ s # {} => Cardinality(s \ {Chosen(s)}) = Cardinality(s) - 1
             /\ Cardinality(s) = 0 <=> s = {}
             /\ g[s] = IF s = {} THEN 0 ELSE f[Chosen(s)] + g[s \ {Chosen(s)}]
             /\ h[s] = IF s = {} THEN 0 ELSE f[Chosen(s)] + h[s \ {Chosen(s)}]
  <2>1. s \in SUBSET S /\ IsFiniteSet(s)
    BY FS_Subset
  <2>2. /\ Cardinality(s) \in Nat
        /\ s # {} => Cardinality(s \ {Chosen(s)}) = Cardinality(s) - 1
        /\ Cardinality(s) = 0 <=> s = {}
    BY <2>1, SizeOf, ChosenIn
  <2>3. g[s] = IF s = {} THEN 0 ELSE f[Chosen(s)] + g[s \ {Chosen(s)}]
    BY <2>1, Zenon DEF Adds
  <2>4. h[s] = IF s = {} THEN 0 ELSE f[Chosen(s)] + h[s \ {Chosen(s)}]
    BY Zenon DEF Adds
  <2>5. QED
    BY <2>1, <2>2, <2>3, <2>4
<1>2. 0 \in N
  BY <1>1
<1>3. ASSUME NEW n \in Nat, n \in N
      PROVE  n + 1 \in N
  <2>1. ASSUME NEW s \in SUBSET T, Cardinality(s) = n + 1
        PROVE  g[s] = h[s]
    <3> DEFINE r == s \ {Chosen(s)}
    <3>1. s # {} /\ r \in SUBSET T /\ Cardinality(r) = n
      BY <1>1, <2>1
    <3>2. g[r] = h[r]
      BY <1>3, <3>1
    <3>3. QED
      BY <1>1, <3>1, <3>2
  <2>2. QED
    BY <2>1
<1> HIDE DEF N
<1>4. \A n \in Nat : n \in N
  BY <1>2, <1>3, Induct
<1>5. QED
  BY <1>1, <1>4 DEF N

LEMMA SumEmpty ==
  ASSUME NEW f
  PROVE  SumFunctionOnSet(f, {}) = 0
<1>1. PICK g : Adds(g, f, SUBSET {}) /\ SumFunctionOnSet(f, {}) = g[{}]
  BY SumAdds, FS_EmptySet
<1>2. QED
  BY <1>1, Zenon DEF Adds

LEMMA SumChosen ==
  ASSUME NEW f, NEW S, IsFiniteSet(S), S # {}
  PROVE  SumFunctionOnSet(f, S) =
           f[Chosen(S)] + SumFunctionOnSet(f, S \ {Chosen(S)})
<1> DEFINE T == S \ {Chosen(S)}
<1>1. PICK g : Adds(g, f, SUBSET S) /\ SumFunctionOnSet(f, S) = g[S]
  BY SumAdds
<1>2. T \in SUBSET S /\ IsFiniteSet(T)
  BY SizeOf
<1>3. PICK h : Adds(h, f, SUBSET T) /\ SumFunctionOnSet(f, T) = h[T]
  BY <1>2, SumAdds
<1>4. g[T] = h[T]
  <2> HIDE DEF T
  <2>1. \A s \in SUBSET T : g[s] = h[s]
    <3>1. Adds(g, f, SUBSET S) /\ Adds(h, f, SUBSET T)
      BY <1>1, <1>3
    <3>2. IsFiniteSet(S) /\ T \in SUBSET S
      BY <1>2
    <3>3. QED
      BY <3>1, <3>2, AddsSame
  <2>2. QED
    BY <2>1
<1>5. g[S] = f[Chosen(S)] + g[T]
  BY <1>1, Zenon DEF Adds
<1>6. QED
  BY <1>1, <1>3, <1>4, <1>5

LEMMA SumNat ==
  ASSUME NEW f, NEW S, IsFiniteSet(S), \A x \in S : f[x] \in Nat
  PROVE  \A T \in SUBSET S : SumFunctionOnSet(f, T) \in Nat
<1> DEFINE N == {n \in Nat : \A T \in SUBSET S :
                   Cardinality(T) = n => SumFunctionOnSet(f, T) \in Nat}
<1>1. 0 \in N
  <2>1. ASSUME NEW T \in SUBSET S, Cardinality(T) = 0
        PROVE  SumFunctionOnSet(f, T) \in Nat
    <3>1. T = {}
      BY <2>1, SizeOf
    <3>2. QED
      BY <3>1, SumEmpty
  <2>2. QED
    BY <2>1
<1>2. ASSUME NEW n \in Nat, n \in N
      PROVE  n + 1 \in N
  <2>1. ASSUME NEW T \in SUBSET S, Cardinality(T) = n + 1
        PROVE  SumFunctionOnSet(f, T) \in Nat
    <3> DEFINE x == Chosen(T)
    <3>1. IsFiniteSet(T) /\ n + 1 # 0 /\ n + 1 - 1 = n
      BY SizeOf
    <3>2. T # {}
      BY <2>1, <3>1, SizeOf
    <3>3. x \in T
      BY <3>2, ChosenIn
    <3>4. Cardinality(T \ {x}) = n
      BY <2>1, <3>1, <3>3, SizeOf
    <3>5. SumFunctionOnSet(f, T \ {x}) \in Nat
      BY <1>2, <3>4
    <3>6. SumFunctionOnSet(f, T) = f[x] + SumFunctionOnSet(f, T \ {x})
      BY <3>1, <3>2, SumChosen
    <3>7. f[x] \in Nat
      BY <3>3
    <3>8. QED
      BY <3>5, <3>6, <3>7
  <2>2. QED
    BY <2>1
<1> HIDE DEF N
<1>3. \A n \in Nat : n \in N
  BY <1>1, <1>2, Induct
<1>4. \A T \in SUBSET S : Cardinality(T) \in Nat
  BY SizeOf
<1>5. QED
  BY <1>3, <1>4 DEF N

\* A sum does not depend on the order of its terms.
LEMMA SumRemove ==
  ASSUME NEW f, NEW S, IsFiniteSet(S), \A x \in S : f[x] \in Nat
  PROVE  \A y \in S : /\ f[y] \in Nat
                      /\ SumFunctionOnSet(f, S \ {y}) \in Nat
                      /\ SumFunctionOnSet(f, S) = f[y] + SumFunctionOnSet(f, S \ {y})
<1> DEFINE Any(T) == \A y \in T :
                       SumFunctionOnSet(f, T) = f[y] + SumFunctionOnSet(f, T \ {y})
           N == {n \in Nat : \A T \in SUBSET S : Cardinality(T) = n => Any(T)}
<1>1. 0 \in N
  <2>1. ASSUME NEW T \in SUBSET S, Cardinality(T) = 0
        PROVE  Any(T)
    <3>1. T = {}
      BY <2>1, SizeOf
    <3>2. QED
      BY <3>1
  <2>2. QED
    BY <2>1
<1>2. ASSUME NEW n \in Nat, n \in N
      PROVE  n + 1 \in N
  <2>1. ASSUME NEW T \in SUBSET S, Cardinality(T) = n + 1, NEW y \in T
        PROVE  SumFunctionOnSet(f, T) = f[y] + SumFunctionOnSet(f, T \ {y})
    <3> DEFINE x == Chosen(T)
               U == T \ {x}
               V == T \ {y}
               W == (T \ {x}) \ {y}
    <3>1. IsFiniteSet(T) /\ n + 1 # 0 /\ n + 1 - 1 = n /\ T # {}
      BY SizeOf
    <3>2. x \in T
      BY <3>1, ChosenIn
    <3>3. SumFunctionOnSet(f, T) = f[x] + SumFunctionOnSet(f, U)
      BY <3>1, SumChosen
    <3>4. CASE x = y
      BY <3>3, <3>4
    <3>5. CASE x # y
      <4> HIDE DEF x
      <4>1. U \in SUBSET S /\ V \in SUBSET S /\ y \in U /\ x \in V
        BY <3>2, <3>5
      <4>2. Cardinality(U) = n /\ Cardinality(V) = n
        BY <2>1, <3>1, <3>2, SizeOf
      <4>3. Any(U) /\ Any(V)
        <5> HIDE DEF U, V, Any
        <5>1. QED
          BY <1>2, <4>1, <4>2
      <4>4. U \ {y} = W /\ V \ {x} = W
        OBVIOUS
      <4>5. /\ SumFunctionOnSet(f, U) = f[y] + SumFunctionOnSet(f, W)
            /\ SumFunctionOnSet(f, V) = f[x] + SumFunctionOnSet(f, W)
        <5>1. /\ SumFunctionOnSet(f, U) = f[y] + SumFunctionOnSet(f, U \ {y})
              /\ SumFunctionOnSet(f, V) = f[x] + SumFunctionOnSet(f, V \ {x})
          <6> HIDE DEF U, V
          <6>1. QED
            BY <4>1, <4>3
        <5> HIDE DEF U, V, W
        <5>2. QED
          BY <4>4, <5>1
      <4>6. W \in SUBSET S /\ f[x] \in Nat /\ f[y] \in Nat
        BY <3>2
      <4>7. SumFunctionOnSet(f, W) \in Nat
        <5> HIDE DEF W
        <5>1. QED
          BY <4>6, SumNat
      <4> HIDE DEF U, V, W
      <4>8. SumFunctionOnSet(f, T) = f[y] + SumFunctionOnSet(f, V)
        BY <3>3, <4>5, <4>6, <4>7
      <4>9. QED
        BY <4>8 DEF V
    <3>6. QED
      BY <3>4, <3>5
  <2>2. QED
    BY <2>1
<1> HIDE DEF N
<1>3. \A n \in Nat : n \in N
  BY <1>1, <1>2, Induct
<1>4. Cardinality(S) \in Nat /\ S \in SUBSET S
  BY SizeOf
<1>5. Any(S)
  BY <1>3, <1>4 DEF N
<1>6. \A y \in S : SumFunctionOnSet(f, S \ {y}) \in Nat
  BY SumNat
<1>7. QED
  BY <1>5, <1>6

LEMMA SumAddElement ==
  ASSUME NEW f, NEW S, IsFiniteSet(S), \A x \in S : f[x] \in Nat,
         NEW T \in SUBSET S, NEW y \in S, y \notin T
  PROVE  /\ f[y] \in Nat /\ SumFunctionOnSet(f, T) \in Nat
         /\ SumFunctionOnSet(f, T \cup {y}) = f[y] + SumFunctionOnSet(f, T)
<1> DEFINE U == T \cup {y}
<1>1. U \in SUBSET S /\ y \in U /\ U \ {y} = T
  OBVIOUS
<1>2. IsFiniteSet(U) /\ \A x \in U : f[x] \in Nat
  BY <1>1, SizeOf
<1> HIDE DEF U
<1>3. /\ f[y] \in Nat /\ SumFunctionOnSet(f, U \ {y}) \in Nat
      /\ SumFunctionOnSet(f, U) = f[y] + SumFunctionOnSet(f, U \ {y})
  BY <1>1, <1>2, SumRemove
<1>4. QED
  BY <1>1, <1>3 DEF U

\* Finitely many numbers, one for each element of S.
Terms(f, S) == IsFiniteSet(S) /\ \A x \in S : f[x] \in Nat

Apart(A, B) == \A x \in A : x \notin B

\* The sum over two sets that have nothing in common.
LEMMA SumUnion ==
  ASSUME NEW f, NEW S, Terms(f, S), NEW A \in SUBSET S, NEW B \in SUBSET S,
         Apart(A, B)
  PROVE  SumFunctionOnSet(f, A \cup B) =
           SumFunctionOnSet(f, A) + SumFunctionOnSet(f, B)
<1> DEFINE P == {T \in SUBSET B : SumFunctionOnSet(f, A \cup T) =
                   SumFunctionOnSet(f, A) + SumFunctionOnSet(f, T)}
<1>1. IsFiniteSet(S) /\ \A x \in S : f[x] \in Nat
  BY DEF Terms
<1>2. IsFiniteSet(B) /\ SumFunctionOnSet(f, A) \in Nat
  BY <1>1, SizeOf, SumNat
<1>3. {} \in P
  <2>1. A \cup {} = A
    OBVIOUS
  <2>2. QED
    BY <1>2, <2>1, SumEmpty
<1>4. ASSUME NEW T \in SUBSET B, NEW x \in B, T \in P, x \notin T
      PROVE  T \cup {x} \in P
  <2> DEFINE U == A \cup T
  <2>1. /\ U \in SUBSET S /\ x \notin U /\ x \in S /\ T \in SUBSET S
        /\ A \cup (T \cup {x}) = U \cup {x}
    BY <1>4 DEF Apart
  <2>2. SumFunctionOnSet(f, U) = SumFunctionOnSet(f, A) + SumFunctionOnSet(f, T)
    BY <1>4
  <2> HIDE DEF U
  <2>3. SumFunctionOnSet(f, U \cup {x}) = f[x] + SumFunctionOnSet(f, U)
    BY <1>1, <2>1, SumAddElement
  <2>4. /\ f[x] \in Nat /\ SumFunctionOnSet(f, T) \in Nat
        /\ SumFunctionOnSet(f, T \cup {x}) = f[x] + SumFunctionOnSet(f, T)
    BY <1>1, <1>4, <2>1, SumAddElement
  <2>5. SumFunctionOnSet(f, A \cup (T \cup {x})) =
          SumFunctionOnSet(f, A) + SumFunctionOnSet(f, T \cup {x})
    <3>1. SumFunctionOnSet(f, A \cup (T \cup {x})) = SumFunctionOnSet(f, U \cup {x})
      BY <2>1, Zenon
    <3>2. QED
      BY <1>2, <2>2, <2>3, <2>4, <3>1
  <2>6. QED
    BY <2>5
<1> HIDE DEF P
<1>5. \A T \in SUBSET B : T \in P
  BY <1>2, <1>3, <1>4, InductOnSet
<1>6. B \in P
  BY <1>5
<1>7. QED
  BY <1>6 DEF P

\* A sum over fewer terms is not greater.
LEMMA SumSubset ==
  ASSUME NEW f, NEW S, Terms(f, S), NEW A \in SUBSET S
  PROVE  /\ SumFunctionOnSet(f, A) \in Nat /\ SumFunctionOnSet(f, S) \in Nat
         /\ SumFunctionOnSet(f, A) <= SumFunctionOnSet(f, S)
<1>1. PICK B \in SUBSET S : Apart(A, B) /\ A \cup B = S
  <2>1. S \ A \in SUBSET S /\ Apart(A, S \ A) /\ A \cup (S \ A) = S
    BY DEF Apart
  <2>2. QED
    BY <2>1
<1>2. /\ SumFunctionOnSet(f, A) \in Nat /\ SumFunctionOnSet(f, B) \in Nat
      /\ SumFunctionOnSet(f, S) \in Nat
  BY SumNat DEF Terms
<1>3. SumFunctionOnSet(f, A \cup B) =
        SumFunctionOnSet(f, A) + SumFunctionOnSet(f, B)
  BY <1>1, SumUnion
<1>4. SumFunctionOnSet(f, S) = SumFunctionOnSet(f, A \cup B)
  BY <1>1, Zenon
<1>5. QED
  BY <1>2, <1>3, <1>4

\* Equal terms.
LEMMA SumConstant ==
  ASSUME NEW f, NEW S, IsFiniteSet(S), NEW c \in Nat, \A x \in S : f[x] = c
  PROVE  SumFunctionOnSet(f, S) = c * Cardinality(S)
<1> DEFINE P == {T \in SUBSET S : SumFunctionOnSet(f, T) = c * Cardinality(T)}
<1>1. {} \in P
  <2>1. Cardinality({}) = 0 /\ SumFunctionOnSet(f, {}) = 0 /\ c * 0 = 0
    BY FS_EmptySet, SumEmpty
  <2>2. QED
    BY <2>1
<1>2. ASSUME NEW T \in SUBSET S, NEW x \in S, T \in P, x \notin T
      PROVE  T \cup {x} \in P
  <2>1. SumFunctionOnSet(f, T \cup {x}) = f[x] + SumFunctionOnSet(f, T)
    BY <1>2, SumAddElement
  <2>2. Cardinality(T) \in Nat /\ Cardinality(T \cup {x}) = Cardinality(T) + 1
    BY <1>2, SizeOf
  <2>3. SumFunctionOnSet(f, T \cup {x}) = c + c * Cardinality(T)
    BY <1>2, <2>1
  <2>4. c + c * Cardinality(T) = c * (Cardinality(T) + 1)
    BY <2>2
  <2>5. QED
    BY <2>2, <2>3, <2>4
<1> HIDE DEF P
<1>3. S \in P
  BY <1>1, <1>2, InductOnSet
<1>4. QED
  BY <1>3 DEF P

\* Two functions that agree on a set have one sum.
LEMMA SumSame ==
  ASSUME NEW f, NEW g, NEW S, IsFiniteSet(S),
         \A x \in S : f[x] \in Nat /\ f[x] = g[x]
  PROVE  SumFunctionOnSet(f, S) = SumFunctionOnSet(g, S)
<1> DEFINE P == {T \in SUBSET S : SumFunctionOnSet(f, T) = SumFunctionOnSet(g, T)}
<1>1. {} \in P
  BY SumEmpty
<1>2. ASSUME NEW T \in SUBSET S, NEW x \in S, T \in P, x \notin T
      PROVE  T \cup {x} \in P
  <2>1. \A y \in S : f[y] \in Nat /\ g[y] \in Nat
    OBVIOUS
  <2>2. /\ SumFunctionOnSet(f, T \cup {x}) = f[x] + SumFunctionOnSet(f, T)
        /\ SumFunctionOnSet(g, T \cup {x}) = g[x] + SumFunctionOnSet(g, T)
    BY <1>2, <2>1, SumAddElement
  <2>3. QED
    BY <1>2, <2>2
<1> HIDE DEF P
<1>3. S \in P
  BY <1>1, <1>2, InductOnSet
<1>4. QED
  BY <1>3 DEF P

\* As many things as f tells apart.
LEMMA Injected ==
  ASSUME NEW S, NEW T, IsFiniteSet(T), NEW f, \A x \in S : f[x] \in T,
         \A x, y \in S : f[x] = f[y] => x = y
  PROVE  /\ IsFiniteSet(S) /\ Cardinality(S) \in Nat /\ Cardinality(T) \in Nat
         /\ Cardinality(S) <= Cardinality(T)
         /\ (\A y \in T : \E x \in S : f[x] = y) => Cardinality(S) = Cardinality(T)
<1> DEFINE g == [x \in S |-> f[x]]
<1>1. g \in [S -> T] /\ \A x, y \in S : g[x] = g[y] => x = y
  OBVIOUS
<1>2. (\A y \in T : \E x \in S : f[x] = y) => \A y \in T : \E x \in S : g[x] = y
  OBVIOUS
<1> HIDE DEF g
<1>3. g \in Injection(S, T)
  BY <1>1 DEF Injection, IsInjective
<1>4. (\A y \in T : \E x \in S : g[x] = y) => g \in Surjection(S, T)
  BY <1>1 DEF Surjection
<1>5. /\ IsFiniteSet(S) /\ Cardinality(S) <= Cardinality(T)
      /\ Cardinality(S) = Cardinality(T) <=> g \in Surjection(S, T)
  BY <1>3, FS_Injection
<1>6. QED
  BY <1>2, <1>4, <1>5, FS_CardinalityType

\* Of several different numbers from 1 up one is at least how many there are.
LEMMA AtLeastAsMany ==
  ASSUME NEW S, NEW m \in Nat, NEW f, \A x \in S : f[x] \in 1 .. m,
         \A x, y \in S : f[x] = f[y] => x = y
  PROVE  /\ IsFiniteSet(S) /\ Cardinality(S) \in Nat /\ Cardinality(S) <= m
         /\ Cardinality(S) > 0 => \E x \in S : f[x] >= Cardinality(S)
<1> DEFINE c == Cardinality(S)
<1>1. \A b \in Nat : IsFiniteSet(1 .. b) /\ Cardinality(1 .. b) = b
  <2> SUFFICES ASSUME NEW b \in Nat
               PROVE  IsFiniteSet(1 .. b) /\ Cardinality(1 .. b) = b
    OBVIOUS
  <2>1. IsFiniteSet(1 .. b)
    BY FS_Interval
  <2>2. Cardinality(1 .. b) = IF 1 > b THEN 0 ELSE b - 1 + 1
    BY FS_Interval
  <2>3. QED
    BY <2>1, <2>2
<1>2. \A b \in Nat : (\A x \in S : f[x] \in 1 .. b)
                       => IsFiniteSet(S) /\ c \in Nat /\ c <= b
  <2> SUFFICES ASSUME NEW b \in Nat, \A x \in S : f[x] \in 1 .. b
               PROVE  IsFiniteSet(S) /\ c \in Nat /\ c <= b
    OBVIOUS
  <2>1. IsFiniteSet(S) /\ c \in Nat /\ c <= Cardinality(1 .. b)
    BY <1>1, Injected
  <2> HIDE DEF c
  <2>2. QED
    BY <1>1, <2>1
<1>3. IsFiniteSet(S) /\ c \in Nat /\ c <= m
  BY <1>2
<1> HIDE DEF c
<1>4. ASSUME c > 0, \A x \in S : ~ (f[x] >= c)
      PROVE  FALSE
  <2>1. \A x \in S : f[x] \in 1 .. c - 1
    BY <1>3, <1>4
  <2>2. c - 1 \in Nat
    BY <1>3, <1>4
  <2>3. c <= c - 1
    BY <1>2, <2>1, <2>2
  <2>4. QED
    BY <1>3, <2>3
<1>5. QED
  BY <1>3, <1>4 DEF c

-----------------------------------------------------------------------------
(***************************************************************************)
(* Sums compared, and what weighs least.                                   *)
(***************************************************************************)
\* Greater terms have a greater sum, and sums are added term by term.
LEMMA SumMonotone ==
  ASSUME NEW f, NEW g, NEW S, IsFiniteSet(S),
         \A x \in S : f[x] \in Nat /\ g[x] \in Nat /\ f[x] <= g[x]
  PROVE  SumFunctionOnSet(f, S) <= SumFunctionOnSet(g, S)
<1> DEFINE P == {T \in SUBSET S : SumFunctionOnSet(f, T) <= SumFunctionOnSet(g, T)}
<1>1. {} \in P
  BY SumEmpty
<1>2. ASSUME NEW T \in SUBSET S, NEW x \in S, T \in P, x \notin T
      PROVE  T \cup {x} \in P
  <2>1. \A y \in S : f[y] \in Nat /\ g[y] \in Nat
    OBVIOUS
  <2>2. /\ SumFunctionOnSet(f, T \cup {x}) = f[x] + SumFunctionOnSet(f, T)
        /\ SumFunctionOnSet(f, T) \in Nat
    BY <1>2, <2>1, SumAddElement
  <2>3. /\ SumFunctionOnSet(g, T \cup {x}) = g[x] + SumFunctionOnSet(g, T)
        /\ SumFunctionOnSet(g, T) \in Nat
    BY <1>2, <2>1, SumAddElement
  <2>4. f[x] \in Nat /\ g[x] \in Nat /\ f[x] <= g[x]
    OBVIOUS
  <2>5. QED
    BY <1>2, <2>2, <2>3, <2>4
<1> HIDE DEF P
<1>3. S \in P
  BY <1>1, <1>2, InductOnSet
<1>4. QED
  BY <1>3 DEF P

LEMMA SumPlus ==
  ASSUME NEW f, NEW g, NEW h, NEW S, IsFiniteSet(S),
         \A x \in S : f[x] \in Nat /\ g[x] \in Nat /\ h[x] = f[x] + g[x]
  PROVE  SumFunctionOnSet(h, S) = SumFunctionOnSet(f, S) + SumFunctionOnSet(g, S)
<1> DEFINE P == {T \in SUBSET S : SumFunctionOnSet(h, T) =
                   SumFunctionOnSet(f, T) + SumFunctionOnSet(g, T)}
<1>1. {} \in P
  BY SumEmpty
<1>2. ASSUME NEW T \in SUBSET S, NEW x \in S, T \in P, x \notin T
      PROVE  T \cup {x} \in P
  <2>1. \A y \in S : f[y] \in Nat /\ g[y] \in Nat /\ h[y] \in Nat
    OBVIOUS
  <2>2. /\ SumFunctionOnSet(f, T \cup {x}) = f[x] + SumFunctionOnSet(f, T)
        /\ SumFunctionOnSet(f, T) \in Nat
    BY <1>2, <2>1, SumAddElement
  <2>3. /\ SumFunctionOnSet(g, T \cup {x}) = g[x] + SumFunctionOnSet(g, T)
        /\ SumFunctionOnSet(g, T) \in Nat
    BY <1>2, <2>1, SumAddElement
  <2>4. SumFunctionOnSet(h, T \cup {x}) = h[x] + SumFunctionOnSet(h, T)
    BY <1>2, <2>1, SumAddElement
  <2>5. f[x] \in Nat /\ g[x] \in Nat /\ h[x] = f[x] + g[x]
    OBVIOUS
  <2>6. QED
    BY <1>2, <2>2, <2>3, <2>4, <2>5
<1> HIDE DEF P
<1>3. S \in P
  BY <1>1, <1>2, InductOnSet
<1>4. QED
  BY <1>3 DEF P

\* A sum of which only the terms over a subset are not 0.
LEMMA SumWithin ==
  ASSUME NEW f, NEW g, NEW S, IsFiniteSet(S), NEW A \in SUBSET S,
         \A x \in S : g[x] \in Nat /\ f[x] = IF x \in A THEN g[x] ELSE 0
  PROVE  SumFunctionOnSet(f, S) = SumFunctionOnSet(g, A)
<1> DEFINE B == S \ A
<1>1. /\ B \in SUBSET S /\ A \cup B = S /\ Apart(A, B)
      /\ IsFiniteSet(A) /\ IsFiniteSet(B)
      /\ \A x \in A : f[x] \in Nat /\ f[x] = g[x]
      /\ \A x \in B : f[x] = 0
  BY SizeOf DEF Apart
<1> HIDE DEF B
<1>2. Terms(f, S)
  BY DEF Terms
<1>3. SumFunctionOnSet(f, A \cup B) = SumFunctionOnSet(f, A) + SumFunctionOnSet(f, B)
  BY <1>1, <1>2, SumUnion
<1>4. SumFunctionOnSet(f, A) = SumFunctionOnSet(g, A)
  BY <1>1, SumSame
<1>5. SumFunctionOnSet(f, B) = 0
  <2>1. SumFunctionOnSet(f, B) = 0 * Cardinality(B)
    BY <1>1, SumConstant
  <2>2. Cardinality(B) \in Nat
    BY <1>1, FS_CardinalityType
  <2>3. QED
    BY <2>1, <2>2
<1>6. SumFunctionOnSet(f, A) \in Nat
  BY <1>1, <1>2, SumSubset
<1>7. SumFunctionOnSet(f, A \cup B) = SumFunctionOnSet(f, S)
  BY <1>1, Zenon
<1>8. QED
  BY <1>3, <1>4, <1>5, <1>6, <1>7

\* A sum over S taken over what an injection moves S to.
LEMMA SumMoved ==
  ASSUME NEW S, IsFiniteSet(S), NEW f, NEW move, NEW g,
         \A x \in S : f[x] \in Nat /\ g[move[x]] = f[x],
         \A x, y \in S : move[x] = move[y] => x = y,
         NEW T, T = {move[x] : x \in S}
  PROVE  /\ IsFiniteSet(T) /\ Cardinality(T) = Cardinality(S)
         /\ SumFunctionOnSet(g, T) = SumFunctionOnSet(f, S)
<1> DEFINE Image(A) == {move[x] : x \in A}
           P == {A \in SUBSET S : /\ IsFiniteSet(Image(A))
                                  /\ Cardinality(Image(A)) = Cardinality(A)
                                  /\ SumFunctionOnSet(g, Image(A)) = SumFunctionOnSet(f, A)}
<1>1. {} \in P
  <2>1. Image({}) = {}
    OBVIOUS
  <2> HIDE DEF Image
  <2>2. QED
    BY <2>1, SumEmpty, FS_EmptySet
<1>2. ASSUME NEW A \in SUBSET S, NEW x \in S, A \in P, x \notin A
      PROVE  A \cup {x} \in P
  <2> DEFINE I == Image(A)
             J == I \cup {move[x]}
  <2>1. Image(A \cup {x}) = J /\ move[x] \notin I
    BY <1>2
  <2>2. IsFiniteSet(I) /\ Cardinality(I) = Cardinality(A)
        /\ SumFunctionOnSet(g, I) = SumFunctionOnSet(f, A)
    BY <1>2
  <2>3. \A y \in J : g[y] \in Nat
    OBVIOUS
  <2>4. g[move[x]] = f[x] /\ f[x] \in Nat
    OBVIOUS
  <2> HIDE DEF Image, I
  <2>5. IsFiniteSet(J) /\ Cardinality(J) = Cardinality(I) + 1
    BY <2>1, <2>2, FS_AddElement
  <2>6. SumFunctionOnSet(g, J) = g[move[x]] + SumFunctionOnSet(g, I)
    <3>1. I \in SUBSET J /\ move[x] \in J
      OBVIOUS
    <3>2. QED
      BY <2>1, <2>3, <2>5, <3>1, SumAddElement
  <2>7. /\ SumFunctionOnSet(f, A \cup {x}) = f[x] + SumFunctionOnSet(f, A)
        /\ SumFunctionOnSet(f, A) \in Nat
    BY <1>2, SumAddElement
  <2>8. Cardinality(A \cup {x}) = Cardinality(A) + 1
    BY <1>2, SizeOf
  <2>9. SumFunctionOnSet(g, J) = SumFunctionOnSet(f, A \cup {x})
    BY <2>2, <2>4, <2>6, <2>7
  <2> HIDE DEF J
  <2>10. QED
    BY <2>1, <2>2, <2>5, <2>8, <2>9
<1> HIDE DEF P
<1>3. S \in P
  BY <1>1, <1>2, InductOnSet
<1>4. T = Image(S)
  OBVIOUS
<1> HIDE DEF Image
<1>5. QED
  BY <1>3, <1>4 DEF P

\* Nothing that f leaves out is lighter than what it holds.
LightestOf(g, S, f) ==
  /\ f \in SUBSET S
  /\ \A x \in f, y \in S : y \notin f => g[x] <= g[y]

\* What is lightest weighs no more than anything else that is as much.
LEMMA Lightest ==
  ASSUME NEW g, NEW S, Terms(g, S), NEW f, LightestOf(g, S, f),
         NEW A \in SUBSET S, Cardinality(f) <= Cardinality(A)
  PROVE  SumFunctionOnSet(g, f) <= SumFunctionOnSet(g, A)
<1> DEFINE both == f \cap A
           out == f \ A
           in == A \ f
<1>1. /\ IsFiniteSet(S) /\ f \in SUBSET S /\ \A x \in S : g[x] \in Nat
      /\ both \in SUBSET S /\ out \in SUBSET S /\ in \in SUBSET S
      /\ both \cup out = f /\ both \cup in = A
      /\ Apart(both, out) /\ Apart(both, in)
      /\ \A x \in out, y \in in : g[x] <= g[y]
  BY DEF Terms, LightestOf, Apart
<1> HIDE DEF both, out, in
<1>2. /\ IsFiniteSet(both) /\ IsFiniteSet(out) /\ IsFiniteSet(in)
      /\ Cardinality(both) \in Nat /\ Cardinality(out) \in Nat /\ Cardinality(in) \in Nat
      /\ Cardinality(out) = 0 <=> out = {}
  BY <1>1, SizeOf
<1>3. /\ Cardinality(f) = Cardinality(both) + Cardinality(out)
      /\ Cardinality(A) = Cardinality(both) + Cardinality(in)
  <2>1. both \cap out = {} /\ both \cap in = {}
    BY <1>1 DEF Apart
  <2>2. Cardinality(both \cup out) = Cardinality(both) + Cardinality(out)
    <3>1. Cardinality(both \cup out) =
            Cardinality(both) + Cardinality(out) - Cardinality(both \cap out)
      BY <1>2, FS_Union
    <3>2. Cardinality(both \cap out) = 0
      BY <2>1, FS_EmptySet
    <3>3. QED
      BY <1>2, <3>1, <3>2
  <2>3. Cardinality(both \cup in) = Cardinality(both) + Cardinality(in)
    <3>1. Cardinality(both \cup in) =
            Cardinality(both) + Cardinality(in) - Cardinality(both \cap in)
      BY <1>2, FS_Union
    <3>2. Cardinality(both \cap in) = 0
      BY <2>1, FS_EmptySet
    <3>3. QED
      BY <1>2, <3>1, <3>2
  <2>4. QED
    BY <1>1, <2>2, <2>3
<1>4. Cardinality(out) <= Cardinality(in)
  BY <1>2, <1>3
<1>5. /\ SumFunctionOnSet(g, f) = SumFunctionOnSet(g, both) + SumFunctionOnSet(g, out)
      /\ SumFunctionOnSet(g, A) = SumFunctionOnSet(g, both) + SumFunctionOnSet(g, in)
  <2>1. SumFunctionOnSet(g, both \cup out) =
          SumFunctionOnSet(g, both) + SumFunctionOnSet(g, out)
    BY <1>1, SumUnion
  <2>2. SumFunctionOnSet(g, both \cup in) =
          SumFunctionOnSet(g, both) + SumFunctionOnSet(g, in)
    BY <1>1, SumUnion
  <2>3. QED
    BY <1>1, <2>1, <2>2
<1>6. /\ SumFunctionOnSet(g, both) \in Nat /\ SumFunctionOnSet(g, out) \in Nat
      /\ SumFunctionOnSet(g, in) \in Nat
  BY <1>1, SumNat
<1>7. SumFunctionOnSet(g, out) <= SumFunctionOnSet(g, in)
  <2>1. CASE out = {}
    BY <1>6, <2>1, SumEmpty
  <2>2. CASE out # {}
    <3> DEFINE W == {g[x] : x \in out}
    <3>1. in # {}
      <4>1. Cardinality(in) > 0
        BY <1>2, <1>4, <2>2
      <4>2. Cardinality({}) = 0
        BY FS_EmptySet
      <4>3. QED
        BY <4>1, <4>2
    <3>2. PICK y \in in : TRUE
      BY <3>1
    <3>3. /\ W \subseteq Int /\ W # {} /\ g[y] \in Int
          /\ \A w \in W : w <= g[y]
      BY <1>1, <2>2
    <3>4. PICK c \in W : \A w \in W : w <= c
      <4> HIDE DEF W
      <4>1. QED
        BY <3>3, GreatestElement
    <3>5. /\ c \in Nat
          /\ \A x \in out : g[x] \in Nat /\ g[x] <= c
          /\ \A x \in in : g[x] \in Nat /\ c <= g[x]
      BY <1>1, <3>4
    <3> HIDE DEF W
    <3> DEFINE h == [x \in S |-> c]
    <3>6. /\ \A x \in out : h[x] = c
          /\ \A x \in in : h[x] = c
      BY <1>1
    <3> HIDE DEF h
    <3>7. SumFunctionOnSet(g, out) <= SumFunctionOnSet(h, out)
      <4>1. \A x \in out : g[x] \in Nat /\ h[x] \in Nat /\ g[x] <= h[x]
        BY <3>5, <3>6
      <4>2. QED
        BY <1>2, <4>1, SumMonotone
    <3>8. SumFunctionOnSet(h, in) <= SumFunctionOnSet(g, in)
      <4>1. \A x \in in : h[x] \in Nat /\ g[x] \in Nat /\ h[x] <= g[x]
        BY <3>5, <3>6
      <4>2. QED
        BY <1>2, <4>1, SumMonotone
    <3>9. /\ SumFunctionOnSet(h, out) = c * Cardinality(out)
          /\ SumFunctionOnSet(h, in) = c * Cardinality(in)
      BY <1>2, <3>5, <3>6, SumConstant
    <3> DEFINE a == Cardinality(out)
               b == Cardinality(in)
    <3>10. c * a \in Nat /\ c * b \in Nat /\ c * a <= c * b
      <4>1. a \in Nat /\ b \in Nat /\ a <= b
        BY <1>2, <1>4
      <4> HIDE DEF a, b
      <4>2. a * c \in Int /\ b * c \in Int /\ a * c <= b * c
        BY <3>5, <4>1, FactorMonotone
      <4>3. QED
        BY <3>5, <4>1, <4>2
    <3>11. QED
      BY <1>6, <3>7, <3>8, <3>9, <3>10
  <2>3. QED
    BY <2>1, <2>2
<1>8. QED
  BY <1>5, <1>6, <1>7

\* One term more.
LEMMA SumUpTo ==
  ASSUME NEW n \in Nat, NEW a, \A k \in 1 .. n : a[k] \in Nat
  PROVE  /\ \A k \in 0 .. n : SumFunctionOnSet(a, 1 .. k) \in Nat
         /\ \A k \in 0 .. n : k + 1 <= n =>
              SumFunctionOnSet(a, 1 .. k + 1) = SumFunctionOnSet(a, 1 .. k) + a[k + 1]
<1>1. IsFiniteSet(1 .. n)
  BY FS_Interval
<1>2. \A T \in SUBSET (1 .. n) : SumFunctionOnSet(a, T) \in Nat
  BY <1>1, SumNat
<1>3. ASSUME NEW k \in 0 .. n
      PROVE  SumFunctionOnSet(a, 1 .. k) \in Nat
  <2>1. 1 .. k \in SUBSET (1 .. n)
    OBVIOUS
  <2>2. QED
    BY <1>2, <2>1
<1>4. ASSUME NEW k \in 0 .. n, k + 1 <= n
      PROVE  SumFunctionOnSet(a, 1 .. k + 1) = SumFunctionOnSet(a, 1 .. k) + a[k + 1]
  <2> DEFINE D == 1 .. n
             T == 1 .. k
             y == k + 1
  <2>1. /\ T \in SUBSET D /\ y \in D /\ y \notin T /\ 1 .. k + 1 = T \cup {y}
        /\ IsFiniteSet(D) /\ \A x \in D : a[x] \in Nat
    BY <1>1, <1>4
  <2> HIDE DEF D, T, y
  <2>2. /\ a[y] \in Nat /\ SumFunctionOnSet(a, T) \in Nat
        /\ SumFunctionOnSet(a, T \cup {y}) = a[y] + SumFunctionOnSet(a, T)
    BY <2>1, SumAddElement
  <2>3. SumFunctionOnSet(a, 1 .. k + 1) = SumFunctionOnSet(a, T \cup {y})
    BY <2>1, Zenon
  <2>4. SumFunctionOnSet(a, 1 .. k + 1) = SumFunctionOnSet(a, T) + a[y]
    BY <2>2, <2>3
  <2>5. QED
    BY <2>4 DEF T, y
<1>5. QED
  BY <1>3, <1>4

\* u adds the first 2m of n terms two by two.
TwoByTwo(a, n, u, m) ==
  /\ \A k \in 1 .. n : a[k] \in Nat
  /\ 2 * m <= n
  /\ \A k \in 1 .. m : u[k] = a[2 * k - 1] + a[2 * k]

LEMMA SumTwoByTwo ==
  ASSUME NEW n \in Nat, NEW a, NEW m \in Nat, NEW u, TwoByTwo(a, n, u, m)
  PROVE  \A j \in 0 .. m : SumFunctionOnSet(u, 1 .. j) = SumFunctionOnSet(a, 1 .. 2 * j)
<1> DEFINE A(k) == SumFunctionOnSet(a, 1 .. k)
           U(k) == SumFunctionOnSet(u, 1 .. k)
           N == {j \in Nat : j <= m => U(j) = A(2 * j)}
<1>0. /\ \A k \in 1 .. n : a[k] \in Nat
      /\ 2 * m <= n
      /\ \A k \in 1 .. m : u[k] = a[2 * k - 1] + a[2 * k]
  BY DEF TwoByTwo
<1>1. \A k \in 1 .. m : u[k] \in Nat
  <2> SUFFICES ASSUME NEW k \in 1 .. m
               PROVE  u[k] \in Nat
    OBVIOUS
  <2>1. 2 * k - 1 \in 1 .. n /\ 2 * k \in 1 .. n
    BY <1>0
  <2>2. QED
    BY <1>0, <2>1
<1>2. /\ \A k \in 0 .. n : A(k) \in Nat
      /\ \A k \in 0 .. n : k + 1 <= n => A(k + 1) = A(k) + a[k + 1]
  BY <1>0, SumUpTo
<1>3. \A k \in 0 .. m : k + 1 <= m => U(k + 1) = U(k) + u[k + 1]
  BY <1>1, SumUpTo
<1>4. 0 \in N
  <2>1. 1 .. 0 = {} /\ 2 * 0 = 0
    OBVIOUS
  <2>2. U(0) = 0 /\ A(0) = 0
    BY <2>1, SumEmpty
  <2> HIDE DEF U, A
  <2>3. QED
    BY <2>1, <2>2
<1> HIDE DEF U, A
<1>5. ASSUME NEW j \in Nat, j \in N
      PROVE  j + 1 \in N
  <2> SUFFICES ASSUME j + 1 <= m
               PROVE  U(j + 1) = A(2 * (j + 1))
    OBVIOUS
  <2>1. U(j) = A(2 * j)
    BY <1>5
  <2>2. U(j + 1) = U(j) + u[j + 1]
    BY <1>3
  <2>3. u[j + 1] = a[2 * (j + 1) - 1] + a[2 * (j + 1)]
    BY <1>0, j + 1 \in 1 .. m
  <2> DEFINE k == 2 * j
  <2>4. k \in 0 .. n /\ k + 1 \in 0 .. n /\ k + 1 <= n /\ (k + 1) + 1 <= n
        /\ 2 * (j + 1) - 1 = k + 1 /\ 2 * (j + 1) = (k + 1) + 1
    BY <1>0
  <2> HIDE DEF k
  <2>5. A(k + 1) = A(k) + a[k + 1] /\ A((k + 1) + 1) = A(k + 1) + a[(k + 1) + 1]
    BY <1>2, <2>4
  <2>6. A(k) \in Nat /\ a[k + 1] \in Nat /\ a[(k + 1) + 1] \in Nat
    BY <1>0, <1>2, <2>4
  <2>7. A((k + 1) + 1) = A(k) + (a[k + 1] + a[(k + 1) + 1])
    BY <2>5, <2>6
  <2>8. u[j + 1] = a[k + 1] + a[(k + 1) + 1]
    BY <2>3, <2>4
  <2>9. U(j + 1) = A((k + 1) + 1)
    <3>1. U(j) = A(k)
      BY <2>1 DEF k
    <3>2. QED
      BY <2>2, <2>7, <2>8, <3>1
  <2>10. QED
    BY <2>4, <2>9
<1> HIDE DEF N
<1>6. \A j \in Nat : j \in N
  BY <1>4, <1>5, Induct
<1>7. QED
  BY <1>6 DEF N, U, A

\* A sum of which the terms over a subset have grown.
LEMMA SumGrows ==
  ASSUME NEW A, IsFiniteSet(A), NEW B \in SUBSET A, NEW f, NEW g, NEW h,
         \A x \in A : /\ f[x] \in Nat /\ h[x] \in Nat
                      /\ g[x] = IF x \in B THEN f[x] + h[x] ELSE f[x]
  PROVE  /\ SumFunctionOnSet(f, A) \in Nat /\ SumFunctionOnSet(h, B) \in Nat
         /\ SumFunctionOnSet(g, A) = SumFunctionOnSet(f, A) + SumFunctionOnSet(h, B)
<1> DEFINE w == [x \in A |-> IF x \in B THEN h[x] ELSE 0]
<1>1. \A x \in A : /\ f[x] \in Nat /\ w[x] \in Nat /\ g[x] = f[x] + w[x]
                   /\ h[x] \in Nat /\ w[x] = IF x \in B THEN h[x] ELSE 0
  OBVIOUS
<1> HIDE DEF w
<1>2. SumFunctionOnSet(g, A) = SumFunctionOnSet(f, A) + SumFunctionOnSet(w, A)
  BY <1>1, SumPlus
<1>3. SumFunctionOnSet(w, A) = SumFunctionOnSet(h, B)
  BY <1>1, SumWithin
<1>4. SumFunctionOnSet(f, A) \in Nat
  BY <1>1, SumNat
<1>5. SumFunctionOnSet(h, B) \in Nat
  BY <1>1, SumNat
<1>6. QED
  BY <1>2, <1>3, <1>4, <1>5

=============================================================================
