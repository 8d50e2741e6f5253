------------------------- MODULE HuffmanCodesProofs -------------------------
(***************************************************************************)
(* HuffmanCodes for every number of symbols, every maximum length and all  *)
(* weights: the selection of packages never runs past a level, the lengths *)
(* it finds are those of a complete code and no code takes fewer bits, and *)
(* the codes made from them fit their lengths, can be told apart, and are  *)
(* found again by a decoder.                                               *)
(***************************************************************************)
EXTENDS HuffmanCodes, Induction, SequenceTheorems

-----------------------------------------------------------------------------
(***************************************************************************)
(* Codes from lengths.  A code of length n stands for 2^(MaximumLength - n) *)
(* strings of bits of the maximum length, and begins where those of the    *)
(* codes before it end.                                                    *)
(***************************************************************************)
LengthsType == lengths \in [Symbol -> 0 .. MaximumLength]

Coded == {s \in Symbol : lengths[s] > 0}

\* What each code uses up.
Space == [s \in Coded |-> 2 ^ (MaximumLength - lengths[s])]

OfLength(n) == {t \in Coded : lengths[t] = n}

Shorter(n) == {t \in Coded : lengths[t] < n}

OfLengthBefore(n, s) == {t \in Coded : lengths[t] = n /\ t < s}

\* The codes in front of the code of s.
Earlier(s) == Shorter(lengths[s]) \cup OfLengthBefore(lengths[s], s)

\* The first code of each length, where nothing wraps around.
IsFirstCodes(f) ==
  /\ f[0] = 0
  /\ \A n \in 1 .. MaximumLength : f[n] = 2 * (f[n - 1] + Codes!CountByLength(n - 1))

FirstCodes == CHOOSE f \in [0 .. MaximumLength -> Nat] : IsFirstCodes(f)

\* The code of s as a number, where nothing wraps around.
NumberOf(s) == FirstCodes[lengths[s]] + Cardinality(OfLengthBefore(lengths[s], s))

LEMMA Constants ==
  /\ MaximumLength \in Nat \ {0} /\ Symbols \in Nat
  /\ 2 ^ MaximumLength \in Nat \ {0}
  /\ BitsModulus \in Nat \ {0} /\ 2 ^ MaximumLength <= BitsModulus
<1>1. MaximumLength \in Nat \ {0} /\ Symbols \in 0 .. 2 ^ MaximumLength
  BY PackageMergeAssumption
<1>2. 2 ^ MaximumLength \in Nat \ {0}
  BY <1>1, PowerSuccessor
<1>3. BitsModulus \in Nat /\ 2 ^ MaximumLength <= BitsModulus
  BY CodesFitAssumption
<1>4. QED
  BY <1>1, <1>2, <1>3

LEMMA CodedFinite ==
  /\ IsFiniteSet(Symbol) /\ Cardinality(Symbol) = Symbols
  /\ IsFiniteSet(Coded) /\ Coded \in SUBSET Symbol /\ Codes!Coded = Coded
<1>1. IsFiniteSet(1 .. Symbols) /\ Cardinality(1 .. Symbols) = Symbols
  BY Constants, FS_Interval
<1>2. Coded \in SUBSET Symbol
  BY DEF Coded
<1>3. IsFiniteSet(Symbol) /\ Cardinality(Symbol) = Symbols
  BY <1>1 DEF Symbol
<1>4. IsFiniteSet(Coded)
  BY <1>2, <1>3, FS_Subset
<1>5. Codes!Coded = Coded
  BY DEF Codes!Coded, Coded, Codes!Symbol, Symbol
<1>6. QED
  BY <1>2, <1>3, <1>4, <1>5

\* The module INSTANCE takes has the same sizes of sets.
LEMMA SameCardinality ==
  ASSUME NEW S
  PROVE  Codes!Cardinality(S) = Cardinality(S)
BY DEF Codes!Cardinality, Cardinality

LEMMA SpaceNat ==
  ASSUME LengthsType
  PROVE  \A s \in Coded : /\ lengths[s] \in 1 .. MaximumLength
                          /\ MaximumLength - lengths[s] \in Nat
                          /\ Space[s] = 2 ^ (MaximumLength - lengths[s])
                          /\ Space[s] \in Nat \ {0}
<1> SUFFICES ASSUME NEW s \in Coded
             PROVE  /\ lengths[s] \in 1 .. MaximumLength
                    /\ MaximumLength - lengths[s] \in Nat
                    /\ Space[s] = 2 ^ (MaximumLength - lengths[s])
                    /\ Space[s] \in Nat \ {0}
  OBVIOUS
<1>1. lengths[s] \in 1 .. MaximumLength
  BY DEF Coded, LengthsType
<1>2. MaximumLength - lengths[s] \in Nat
  BY <1>1, Constants
<1>3. Space[s] = 2 ^ (MaximumLength - lengths[s])
  BY DEF Space
<1>4. 2 ^ (MaximumLength - lengths[s]) \in Nat \ {0}
  BY <1>2, PowerSuccessor
<1>5. QED
  BY <1>1, <1>2, <1>3, <1>4

LEMMA CountByLengthIs ==
  ASSUME LengthsType, NEW n \in 0 .. MaximumLength
  PROVE  /\ Codes!CountByLength(n) = Cardinality(OfLength(n))
         /\ Codes!CountByLength(n) \in Nat
<1>1. OfLength(n) \in SUBSET Coded
  BY DEF OfLength
<1>2. Cardinality(OfLength(n)) \in Nat /\ (OfLength(n) = {} => Cardinality(OfLength(n)) = 0)
  BY <1>1, CodedFinite, SizeOf
<1>3. CASE n = 0
  <2>1. OfLength(n) = {}
    BY <1>3 DEF OfLength, Coded
  <2>2. Codes!CountByLength(n) = 0
    BY <1>3 DEF Codes!CountByLength
  <2>3. QED
    BY <1>2, <2>1, <2>2
<1>4. CASE n # 0
  <2>1. OfLength(n) = {s \in Symbol : lengths[s] = n}
    BY <1>4 DEF OfLength, Coded, LengthsType
  <2>2. Codes!CountByLength(n) = Cardinality({s \in Symbol : lengths[s] = n})
    <3>1. Codes!Symbol = Symbol
      BY DEF Codes!Symbol, Symbol
    <3>2. Codes!CountByLength(n) = Codes!Cardinality({s \in Symbol : lengths[s] = n})
      BY <1>4, <3>1, Zenon DEF Codes!CountByLength
    <3>3. QED
      BY <3>2, SameCardinality, Zenon
  <2>3. QED
    BY <1>2, <2>1, <2>2
<1>5. QED
  BY <1>3, <1>4

LEMMA FirstCodesExist ==
  ASSUME LengthsType
  PROVE  FirstCodes \in [0 .. MaximumLength -> Nat] /\ IsFirstCodes(FirstCodes)
<1> DEFINE Count(n) == Codes!CountByLength(n)
           step == [n \in 1 .. MaximumLength |-> [v \in Nat |-> 2 * (v + Count(n - 1))]]
<1>1. \A n \in 1 .. MaximumLength : Count(n - 1) \in Nat
  <2>1. \A n \in 1 .. MaximumLength : n - 1 \in 0 .. MaximumLength
    BY Constants
  <2>2. QED
    BY <2>1, CountByLengthIs
<1> HIDE DEF Count
<1>2. step \in [1 .. MaximumLength -> [Nat -> Nat]]
  BY <1>1
<1>3. \A n \in 1 .. MaximumLength, v \in Nat : step[n][v] = 2 * (v + Count(n - 1))
  OBVIOUS
<1> HIDE DEF step
<1>4. PICK f \in [0 .. MaximumLength -> Nat] : Recurs(f, MaximumLength, 0, step)
  <2>1. MaximumLength \in Nat /\ 0 \in Nat
    BY Constants
  <2>2. QED
    BY <1>2, <2>1, Recursion
<1>5. IsFirstCodes(f)
  <2>1. ASSUME NEW n \in 1 .. MaximumLength
        PROVE  f[n] = 2 * (f[n - 1] + Codes!CountByLength(n - 1))
    <3>1. n - 1 \in 0 .. MaximumLength
      BY Constants
    <3>2. f[n - 1] \in Nat
      BY <3>1
    <3>3. f[n] = step[n][f[n - 1]]
      BY <1>4 DEF Recurs
    <3>4. QED
      BY <1>3, <3>2, <3>3 DEF Count
  <2>2. f[0] = 0
    BY <1>4 DEF Recurs
  <2>3. QED
    BY <2>1, <2>2 DEF IsFirstCodes
<1>6. QED
  BY <1>5, Zenon DEF FirstCodes

\* The codes of a length begin where those of the shorter ones end.
LEMMA FirstCodesSum ==
  ASSUME LengthsType
  PROVE  \A n \in 0 .. MaximumLength :
           /\ FirstCodes[n] \in Nat
           /\ FirstCodes[n] * 2 ^ (MaximumLength - n) =
                SumFunctionOnSet(Space, Shorter(n))
<1> DEFINE f == FirstCodes
           N == {n \in Nat : n <= MaximumLength =>
                   f[n] * 2 ^ (MaximumLength - n) = SumFunctionOnSet(Space, Shorter(n))}
<1>1. f \in [0 .. MaximumLength -> Nat] /\ IsFirstCodes(f)
  BY FirstCodesExist
<1> HIDE DEF f
<1>2. 0 \in N
  <2>1. Shorter(0) = {}
    BY DEF Shorter, Coded, LengthsType
  <2>2. SumFunctionOnSet(Space, Shorter(0)) = 0
    BY <2>1, SumEmpty
  <2>3. f[0] = 0
    BY <1>1 DEF IsFirstCodes
  <2>4. 2 ^ (MaximumLength - 0) \in Nat
    BY Constants
  <2>5. f[0] * 2 ^ (MaximumLength - 0) = 0
    <3> DEFINE p == 2 ^ (MaximumLength - 0)
    <3>1. p \in Nat
      BY <2>4
    <3> HIDE DEF p
    <3>2. 0 * p = 0
      BY <3>1
    <3>3. QED
      BY <2>3, <3>2 DEF p
  <2>6. QED
    BY <2>2, <2>5
<1>3. ASSUME NEW n \in Nat, n \in N
      PROVE  n + 1 \in N
  <2>1. SUFFICES ASSUME n + 1 <= MaximumLength
                 PROVE  f[n + 1] * 2 ^ (MaximumLength - (n + 1)) =
                          SumFunctionOnSet(Space, Shorter(n + 1))
    OBVIOUS
  <2> DEFINE c == Codes!CountByLength(n)
             p == 2 ^ (MaximumLength - (n + 1))
             q == 2 ^ (MaximumLength - n)
             A == Shorter(n)
             B == OfLength(n)
  <2>2. n \in 0 .. MaximumLength /\ n + 1 \in 1 .. MaximumLength /\ n + 1 - 1 = n
    BY <2>1, Constants
  <2>3. c = Cardinality(B) /\ c \in Nat
    BY <2>2, CountByLengthIs
  <2>4. f[n + 1] = 2 * (f[n] + c)
    BY <1>1, <2>2 DEF IsFirstCodes
  <2>5. q = 2 * p /\ p \in Nat
    <3> DEFINE d == MaximumLength - (n + 1)
    <3>1. d \in Nat /\ MaximumLength - n = d + 1
      BY <2>1, Constants
    <3> HIDE DEF d
    <3>2. 2 ^ d \in Nat /\ 2 ^ (d + 1) = 2 * 2 ^ d
      BY <3>1, PowerSuccessor
    <3>3. QED
      BY <3>1, <3>2 DEF d
  <2>6. f[n] * q = SumFunctionOnSet(Space, A) /\ f[n] \in Nat
    BY <1>1, <1>3, <2>2
  <2>7. A \in SUBSET Coded /\ B \in SUBSET Coded /\ (\A x \in A : x \notin B)
    BY DEF Shorter, OfLength, Coded, LengthsType
  <2>8. Shorter(n + 1) = A \cup B
    BY DEF Shorter, OfLength, Coded, LengthsType
  <2>9. IsFiniteSet(Coded) /\ \A x \in Coded : Space[x] \in Nat
    BY CodedFinite, SpaceNat
  <2>10. SumFunctionOnSet(Space, B) = q * Cardinality(B)
    <3>1. \A x \in B : Space[x] = q
      BY <2>7 DEF OfLength, Space
    <3>2. IsFiniteSet(B) /\ q \in Nat
      BY <2>5, <2>7, <2>9, SizeOf
    <3> HIDE DEF B, q
    <3>3. QED
      BY <3>1, <3>2, SumConstant
  <2>11. SumFunctionOnSet(Space, A \cup B) =
           SumFunctionOnSet(Space, A) + SumFunctionOnSet(Space, B)
    <3>1. A \in SUBSET Coded /\ B \in SUBSET Coded /\ Apart(A, B)
      BY <2>7 DEF Apart
    <3>2. Terms(Space, Coded)
      BY <2>9 DEF Terms
    <3> HIDE DEF A, B
    <3>3. QED
      BY <3>1, <3>2, SumUnion
  <2>12. SumFunctionOnSet(Space, Shorter(n + 1)) = f[n] * q + q * c
    <3> HIDE DEF A, B, c, q
    <3>1. SumFunctionOnSet(Space, Shorter(n + 1)) = SumFunctionOnSet(Space, A \cup B)
      BY <2>8, Zenon
    <3>2. QED
      BY <2>3, <2>6, <2>10, <2>11, <3>1
  <2> HIDE DEF p, q, c, A, B
  <2>13. (2 * (f[n] + c)) * p = f[n] * (2 * p) + (2 * p) * c
    BY <2>3, <2>5, <2>6
  <2>14. f[n + 1] * p = SumFunctionOnSet(Space, Shorter(n + 1))
    BY <2>4, <2>5, <2>12, <2>13
  <2>15. QED
    BY <2>14 DEF p
<1> HIDE DEF N
<1>4. \A n \in Nat : n \in N
  BY <1>2, <1>3, Induct
<1>5. QED
  BY <1>1, <1>4 DEF N, f

\* A code begins where those before it end.
LEMMA NumberOfSum ==
  ASSUME LengthsType, NEW s \in Coded
  PROVE  /\ NumberOf(s) \in Nat
         /\ NumberOf(s) * Space[s] = SumFunctionOnSet(Space, Earlier(s))
<1> DEFINE n == lengths[s]
           A == Shorter(n)
           B == OfLengthBefore(n, s)
           q == 2 ^ (MaximumLength - n)
           f == FirstCodes[n]
           c == Cardinality(B)
<1>1. n \in 0 .. MaximumLength /\ Space[s] = q /\ q \in Nat
  BY SpaceNat
<1>2. f \in Nat /\ f * q = SumFunctionOnSet(Space, A)
  BY <1>1, FirstCodesSum
<1>3. A \in SUBSET Coded /\ B \in SUBSET Coded /\ Apart(A, B)
  BY DEF Shorter, OfLengthBefore, Apart, Coded, LengthsType
<1>4. Terms(Space, Coded) /\ IsFiniteSet(Coded)
  BY CodedFinite, SpaceNat DEF Terms
<1>5. IsFiniteSet(B) /\ c \in Nat
  BY <1>3, <1>4, SizeOf
<1>6. SumFunctionOnSet(Space, B) = q * c
  <2>1. \A x \in B : Space[x] = q
    BY <1>3 DEF OfLengthBefore, Space
  <2> HIDE DEF B, q
  <2>2. QED
    BY <1>1, <1>5, <2>1, SumConstant
<1> HIDE DEF A, B, q, f, c
<1>7. SumFunctionOnSet(Space, A \cup B) =
        SumFunctionOnSet(Space, A) + SumFunctionOnSet(Space, B)
  BY <1>3, <1>4, SumUnion
<1>8. (f + c) * q = f * q + q * c
  BY <1>1, <1>2, <1>5
<1>9. NumberOf(s) = f + c /\ Earlier(s) = A \cup B
  BY DEF NumberOf, Earlier, f, c, A, B, n
<1>10. SumFunctionOnSet(Space, Earlier(s)) = SumFunctionOnSet(Space, A \cup B)
  BY <1>9, Zenon
<1>11. QED
  BY <1>1, <1>2, <1>5, <1>6, <1>7, <1>8, <1>9, <1>10

\* All codes that are to be there fit in.
Kraft == SumFunctionOnSet(Space, Coded) <= 2 ^ MaximumLength

\* s comes before t.
InFront(s, t) == lengths[s] < lengths[t] \/ (lengths[s] = lengths[t] /\ s < t)

LEMMA EarlierAndOwn ==
  ASSUME LengthsType, NEW s \in Coded, NEW T \in SUBSET Coded,
         Earlier(s) \cup {s} \subseteq T
  PROVE  NumberOf(s) * Space[s] + Space[s] <= SumFunctionOnSet(Space, T)
<1>1. IsFiniteSet(Coded) /\ \A x \in Coded : Space[x] \in Nat
  BY CodedFinite, SpaceNat
<1>2. Earlier(s) \in SUBSET Coded /\ s \notin Earlier(s)
  BY DEF Earlier, Shorter, OfLengthBefore, Coded, LengthsType, Symbol
<1>3. /\ Space[s] \in Nat /\ SumFunctionOnSet(Space, Earlier(s)) \in Nat
      /\ SumFunctionOnSet(Space, Earlier(s) \cup {s}) =
           Space[s] + SumFunctionOnSet(Space, Earlier(s))
  <2> DEFINE E == Earlier(s)
  <2>1. E \in SUBSET Coded /\ s \notin E
    BY <1>2
  <2> HIDE DEF E
  <2>2. /\ Space[s] \in Nat /\ SumFunctionOnSet(Space, E) \in Nat
        /\ SumFunctionOnSet(Space, E \cup {s}) =
             Space[s] + SumFunctionOnSet(Space, E)
    BY <1>1, <2>1, SumAddElement
  <2>3. QED
    BY <2>2 DEF E
<1>4. /\ SumFunctionOnSet(Space, T) \in Nat
      /\ SumFunctionOnSet(Space, Earlier(s) \cup {s}) <= SumFunctionOnSet(Space, T)
  <2> DEFINE U == Earlier(s) \cup {s}
  <2>1. U \in SUBSET T
    OBVIOUS
  <2>2. IsFiniteSet(T) /\ \A x \in T : Space[x] \in Nat
    BY <1>1, SizeOf
  <2>3. Terms(Space, T)
    BY <2>2 DEF Terms
  <2> HIDE DEF U
  <2>4. /\ SumFunctionOnSet(Space, T) \in Nat
        /\ SumFunctionOnSet(Space, U) <= SumFunctionOnSet(Space, T)
    BY <2>1, <2>3, SumSubset
  <2>5. QED
    BY <2>4 DEF U
<1>5. NumberOf(s) * Space[s] = SumFunctionOnSet(Space, Earlier(s))
  BY NumberOfSum
<1>6. QED
  BY <1>3, <1>4, <1>5

\* A code fits its length, and so the bits that a code is held in.
LEMMA NumberOfFits ==
  ASSUME LengthsType, Kraft, NEW s \in Coded
  PROVE  /\ NumberOf(s) \in Nat /\ NumberOf(s) < 2 ^ lengths[s]
         /\ NumberOf(s) < BitsModulus
<1> DEFINE a == NumberOf(s)
           q == Space[s]
           p == 2 ^ lengths[s]
<1>1. /\ a \in Nat /\ q \in Nat \ {0} /\ lengths[s] \in Nat
      /\ MaximumLength - lengths[s] \in Nat /\ q = 2 ^ (MaximumLength - lengths[s])
      /\ lengths[s] <= MaximumLength
  BY SpaceNat, NumberOfSum
<1>2. p \in Nat \ {0} /\ p <= 2 ^ MaximumLength
  <2>1. MaximumLength \in Nat
    BY Constants
  <2>2. QED
    BY <1>1, <2>1, PowerSuccessor, PowerMonotone
<1>3. 2 ^ MaximumLength = p * q
  <2> DEFINE m == lengths[s]
             n == MaximumLength - lengths[s]
  <2>1. m \in Nat /\ n \in Nat /\ m + n = MaximumLength
    BY <1>1, Constants
  <2> HIDE DEF m, n
  <2>2. 2 ^ (m + n) = 2 ^ m * 2 ^ n
    BY <2>1, PowerOfSum
  <2>3. QED
    BY <1>1, <2>1, <2>2 DEF m, n
<1>4. a * q + q <= 2 ^ MaximumLength
  <2>1. Earlier(s) \cup {s} \subseteq Coded
    BY DEF Earlier, Shorter, OfLengthBefore
  <2>2. a * q + q <= SumFunctionOnSet(Space, Coded)
    BY <2>1, EarlierAndOwn
  <2>3. SumFunctionOnSet(Space, Coded) \in Nat
    BY CodedFinite, SpaceNat, SumNat
  <2> HIDE DEF a, q
  <2>4. 2 ^ MaximumLength \in Nat /\ a * q \in Nat
    BY <1>1, Constants
  <2>5. QED
    BY <1>1, <2>2, <2>3, <2>4 DEF Kraft
<1> HIDE DEF a, q, p
<1>5. a < p
  <2>1. SUFFICES ASSUME p <= a
                 PROVE  FALSE
    BY <1>1, <1>2
  <2>2. p * q <= a * q /\ p * q \in Int /\ a * q \in Int
    BY <1>1, <1>2, <2>1, FactorMonotone
  <2>3. QED
    BY <1>1, <1>3, <1>4, <2>2
<1>6. a < BitsModulus
  BY <1>1, <1>2, <1>5, Constants
<1>7. QED
  BY <1>1, <1>5, <1>6 DEF a, p

\* The codes are ordered as numbers of the maximum length, and do not overlap.
LEMMA NumberOfOrder ==
  ASSUME LengthsType, NEW s \in Coded, NEW t \in Coded, InFront(s, t)
  PROVE  NumberOf(s) * Space[s] + Space[s] <= NumberOf(t) * Space[t]
<1>1. Earlier(t) \in SUBSET Coded /\ Earlier(s) \cup {s} \subseteq Earlier(t)
  BY DEF Earlier, Shorter, OfLengthBefore, InFront, Coded, LengthsType, Symbol
<1>2. NumberOf(s) * Space[s] + Space[s] <= SumFunctionOnSet(Space, Earlier(t))
  BY <1>1, EarlierAndOwn
<1>3. QED
  BY <1>2, NumberOfSum

-----------------------------------------------------------------------------
(***************************************************************************)
(* Codes as they are pushed, the highest bit first.                        *)
(***************************************************************************)
\* The k-th of n bits, from the highest.
BitOf(a, n, k) == (a \div 2 ^ (n - k)) % 2

\* Without its last d bits a number has the same first ones.
LEMMA BitOfLonger ==
  ASSUME NEW a \in Nat, NEW n \in Nat, NEW d \in Nat
  PROVE  /\ a \div 2 ^ d \in Nat
         /\ \A k \in 1 .. n : BitOf(a, n + d, k) = BitOf(a \div 2 ^ d, n, k)
<1> DEFINE q == 2 ^ d
<1>1. q \in Nat \ {0}
  BY PowerSuccessor
<1>2. a \div q \in Nat
  <2> HIDE DEF q
  <2>1. a \in Int
    OBVIOUS
  <2>2. QED
    BY <1>1, <2>1, Quotient
<1>3. ASSUME NEW k \in 1 .. n
      PROVE  BitOf(a, n + d, k) = BitOf(a \div q, n, k)
  <2> DEFINE m == n - k
             p == 2 ^ m
  <2>1. m \in Nat /\ (n + d) - k = d + m
    OBVIOUS
  <2>2. 2 ^ (d + m) = q * p /\ p \in Nat \ {0}
    <3> HIDE DEF m
    <3>1. QED
      BY <2>1, PowerOfSum, PowerSuccessor
  <2> HIDE DEF q, p
  <2>3. a \div (q * p) = (a \div q) \div p
    BY <1>1, <2>2, QuotientTwice
  <2>4. BitOf(a, n + d, k) = (a \div (q * p)) % 2
    BY <2>1, <2>2, Zenon DEF BitOf
  <2>5. BitOf(a \div q, n, k) = ((a \div q) \div p) % 2
    BY DEF BitOf, p
  <2>6. QED
    BY <2>3, <2>4, <2>5
<1>4. QED
  BY <1>2, <1>3

\* The smaller of two numbers has the smaller bit where they first differ.
DiffersFirst(a, b, n) ==
  \E k \in 1 .. n : /\ BitOf(a, n, k) < BitOf(b, n, k)
                    /\ \A m \in 1 .. k - 1 : BitOf(a, n, m) = BitOf(b, n, m)

LEMMA SmallerFirst ==
  ASSUME NEW n \in Nat, NEW a \in Nat, NEW b \in Nat, a < b, b < 2 ^ n
  PROVE  DiffersFirst(a, b, n)
<1> DEFINE N == {l \in Nat : \A x, y \in Nat :
                   x < y /\ y < 2 ^ l => DiffersFirst(x, y, l)}
<1>1. 0 \in N
  <2>1. ASSUME NEW x \in Nat, NEW y \in Nat, x < y, y < 2 ^ 0
        PROVE  FALSE
    <3>1. 2 ^ 0 = 1
      OBVIOUS
    <3>2. QED
      BY <2>1, <3>1
  <2>2. QED
    BY <2>1
<1>2. ASSUME NEW l \in Nat, l \in N
      PROVE  l + 1 \in N
  <2> SUFFICES ASSUME NEW x \in Nat, NEW y \in Nat, x < y, y < 2 ^ (l + 1)
               PROVE  DiffersFirst(x, y, l + 1)
    OBVIOUS
  <2> DEFINE v == x \div 2
             w == y \div 2
             r == x % 2
             s == y % 2
  <2>1. /\ v \in Nat /\ r \in 0 .. 1 /\ x = v * 2 + r
        /\ w \in Nat /\ s \in 0 .. 1 /\ y = w * 2 + s
    OBVIOUS
  <2>2. \A k \in 1 .. l : /\ BitOf(x, l + 1, k) = BitOf(v, l, k)
                          /\ BitOf(y, l + 1, k) = BitOf(w, l, k)
    <3>1. PICK d \in Nat : d = 1
      OBVIOUS
    <3>2. 2 ^ d = 2
      BY <3>1
    <3>3. \A k \in 1 .. l : /\ BitOf(x, l + d, k) = BitOf(x \div 2 ^ d, l, k)
                            /\ BitOf(y, l + d, k) = BitOf(y \div 2 ^ d, l, k)
      BY BitOfLonger
    <3>4. QED
      BY <3>1, <3>2, <3>3
  <2>3. BitOf(x, l + 1, l + 1) = r /\ BitOf(y, l + 1, l + 1) = s
    <3>1. l + 1 - (l + 1) = 0 /\ 2 ^ 0 = 1 /\ x \div 1 = x /\ y \div 1 = y
      OBVIOUS
    <3>2. QED
      BY <3>1 DEF BitOf
  <2>4. 2 ^ (l + 1) = 2 * 2 ^ l /\ 2 ^ l \in Nat
    BY PowerSuccessor
  <2> HIDE DEF v, w, r, s
  <2>5. w < 2 ^ l
    <3> DEFINE p == 2 ^ l
    <3>1. p \in Nat /\ y < 2 * p
      BY <2>4
    <3> HIDE DEF p
    <3>2. w < p
      BY <2>1, <3>1
    <3>3. QED
      BY <3>2 DEF p
  <2>6. CASE v < w
    <3>1. DiffersFirst(v, w, l)
      BY <1>2, <2>1, <2>5, <2>6
    <3>2. PICK k \in 1 .. l : /\ BitOf(v, l, k) < BitOf(w, l, k)
                              /\ \A m \in 1 .. k - 1 : BitOf(v, l, m) = BitOf(w, l, m)
      BY <3>1 DEF DiffersFirst
    <3>3. k \in 1 .. l + 1 /\ \A m \in 1 .. k - 1 : m \in 1 .. l
      OBVIOUS
    <3>4. BitOf(x, l + 1, k) < BitOf(y, l + 1, k)
      BY <2>2, <3>2
    <3>5. \A m \in 1 .. k - 1 : BitOf(x, l + 1, m) = BitOf(y, l + 1, m)
      BY <2>2, <3>2, <3>3
    <3>6. QED
      BY <3>3, <3>4, <3>5 DEF DiffersFirst
  <2>7. CASE v = w
    <3>1. r < s
      BY <2>1, <2>7
    <3>2. \A m \in 1 .. (l + 1) - 1 : BitOf(x, l + 1, m) = BitOf(y, l + 1, m)
      BY <2>2, <2>7
    <3>3. l + 1 \in 1 .. l + 1
      OBVIOUS
    <3>4. QED
      BY <2>3, <3>1, <3>2, <3>3 DEF DiffersFirst
  <2>8. QED
    BY <2>1, <2>6, <2>7
<1> HIDE DEF N
<1>3. n \in N
  BY <1>1, <1>2, Induct
<1>4. QED
  BY <1>3 DEF N

\* What is pushed of the codes of two symbols is in the order of a dictionary.
LEMMA PushedInOrder ==
  ASSUME LengthsType, Kraft, NEW s \in Coded, NEW t \in Coded, InFront(s, t),
         NEW c, c.bits = NumberOf(s), c.length = lengths[s],
         NEW d, d.bits = NumberOf(t), d.length = lengths[t]
  PROVE  Codes!Before(Codes!Pushed(c), Codes!Pushed(d))
<1> DEFINE a == NumberOf(s)
           b == NumberOf(t)
           n == lengths[s]
           e == lengths[t] - lengths[s]
           q == Space[t]
           p == 2 ^ e
           u == b \div p
           r == b % p
<1>1. /\ a \in Nat /\ b \in Nat /\ b < 2 ^ lengths[t]
      /\ a < 2 ^ n /\ n \in Nat /\ lengths[t] \in Nat
  BY SpaceNat, NumberOfFits
<1>2. e \in Nat /\ lengths[t] = n + e
  BY <1>1 DEF InFront
<1>3. p \in Nat \ {0}
  BY <1>2, PowerSuccessor
<1>4. q \in Nat \ {0} /\ Space[s] = p * q
  <2> DEFINE m == MaximumLength - lengths[t]
  <2>1. /\ m \in Nat /\ q = 2 ^ m /\ q \in Nat \ {0}
        /\ Space[s] = 2 ^ (MaximumLength - lengths[s])
    BY SpaceNat
  <2>2. MaximumLength - lengths[s] = e + m
    BY <1>1, <1>2, <2>1, Constants
  <2> HIDE DEF e, m, q
  <2>3. 2 ^ (e + m) = 2 ^ e * 2 ^ m
    BY <1>2, <2>1, PowerOfSum
  <2>4. QED
    BY <2>1, <2>2, <2>3
<1>5. 2 ^ lengths[t] = 2 ^ n * p /\ 2 ^ n \in Nat
  <2> HIDE DEF n, e
  <2>1. 2 ^ (n + e) = 2 ^ n * 2 ^ e /\ 2 ^ n \in Nat
    BY <1>1, <1>2, PowerOfSum, PowerSuccessor
  <2>2. QED
    BY <1>2, <2>1
<1>6. u \in Nat /\ r \in 0 .. p - 1 /\ b = u * p + r
  <2> HIDE DEF p, b
  <2>1. b \in Int
    BY <1>1
  <2>2. QED
    BY <1>1, <1>3, <2>1, Quotient
<1>7. a * (p * q) + p * q <= b * q
  <2>1. a * Space[s] + Space[s] <= b * q
    BY NumberOfOrder
  <2> HIDE DEF a, b, p, q
  <2>2. QED
    BY <1>4, <2>1
<1> HIDE DEF a, b, n, e, q, p, u, r
<1>8. (a + 1) * p <= b
  <2>1. ((a + 1) * p) * q <= b * q
    <3>1. ((a + 1) * p) * q = a * (p * q) + p * q
      BY <1>1, <1>3, <1>4
    <3>2. QED
      BY <1>7, <3>1
  <2>2. (a + 1) * p \in Int /\ b \in Int
    BY <1>1, <1>3
  <2>3. QED
    BY <1>4, <2>1, <2>2, FactorCancels
<1>9. a < u
  <2>1. (a + 1) * p < (u + 1) * p
    <3>1. (u + 1) * p = u * p + p /\ u * p \in Int /\ (a + 1) * p \in Int
      BY <1>1, <1>3, <1>6
    <3>2. QED
      BY <1>3, <1>6, <1>8, <3>1
  <2>2. a + 1 \in Int /\ u + 1 \in Int
    BY <1>1, <1>6
  <2>3. a + 1 < u + 1
    BY <1>3, <2>1, <2>2, FactorCancels
  <2>4. QED
    BY <1>1, <1>6, <2>3
<1>10. u < 2 ^ n
  <2>1. u * p \in Int /\ u * p <= b
    BY <1>1, <1>3, <1>6
  <2>2. u * p < 2 ^ n * p
    BY <1>1, <1>5, <2>1
  <2>3. u \in Int /\ 2 ^ n \in Int
    BY <1>5, <1>6
  <2>4. QED
    BY <1>3, <2>2, <2>3, FactorCancels
<1>11. DiffersFirst(a, u, n)
  BY <1>1, <1>6, <1>9, <1>10, SmallerFirst
<1>12. PICK k \in 1 .. n : /\ BitOf(a, n, k) < BitOf(u, n, k)
                           /\ \A m \in 1 .. k - 1 : BitOf(a, n, m) = BitOf(u, n, m)
  BY <1>11 DEF DiffersFirst
<1>13. \A m \in 1 .. n : BitOf(b, n + e, m) = BitOf(u, n, m)
  BY <1>1, <1>2, BitOfLonger DEF u, p
<1> DEFINE f == Codes!Pushed(c)
           g == Codes!Pushed(d)
<1>14. /\ f = [m \in 1 .. n |-> BitOf(a, n, m)]
       /\ g = [m \in 1 .. n + e |-> BitOf(b, n + e, m)]
  <2>1. c.bits = a /\ c.length = n /\ d.bits = b /\ d.length = n + e
    BY <1>2 DEF a, b, n
  <2>2. QED
    BY <2>1, Zenon DEF Codes!Pushed, BitOf
<1> HIDE DEF f, g
<1>15. Len(f) = n /\ Len(g) = n + e
  BY <1>1, <1>2, <1>14
<1>16. /\ \A m \in 1 .. n : f[m] = BitOf(a, n, m)
       /\ \A m \in 1 .. n : g[m] = BitOf(u, n, m)
  <2>1. \A m \in 1 .. n : m \in 1 .. n + e
    BY <1>1, <1>2
  <2>2. QED
    BY <1>13, <1>14, <2>1
<1>17. f[k] < g[k]
  BY <1>12, <1>16
<1>18. \A m \in 1 .. k - 1 : f[m] = g[m]
  <2>1. \A m \in 1 .. k - 1 : m \in 1 .. n
    BY <1>1
  <2>2. QED
    BY <1>12, <1>16, <2>1
<1>19. k \in 1 .. Len(f) /\ k <= Len(g)
  BY <1>1, <1>2, <1>15
<1>20. Codes!Before(f, g)
  BY <1>17, <1>18, <1>19 DEF Codes!Before
<1>21. QED
  BY <1>20 DEF f, g

\* A word is no start of another before or behind which it comes.
LEMMA InOrderNoPrefix ==
  ASSUME NEW S, NEW a \in Seq(S), NEW b \in Seq(S), S \subseteq Int,
         Codes!Before(a, b)
  PROVE  ~ Codes!IsPrefix(a, b) /\ ~ Codes!IsPrefix(b, a)
<1>1. PICK k \in 1 .. Len(a) : k <= Len(b) /\ a[k] < b[k]
  BY DEF Codes!Before
<1>2. k \in 1 .. Len(b) /\ a[k] \in Int /\ b[k] \in Int
  <2>1. k \in 1 .. Len(b)
    BY <1>1
  <2>2. a[k] \in S /\ b[k] \in S
    BY <2>1
  <2>3. QED
    BY <2>1, <2>2
<1>3. a[k] # b[k]
  BY <1>1, <1>2
<1>4. ~ Codes!IsPrefix(a, b)
  <2>1. SUFFICES ASSUME Codes!IsPrefix(a, b)
                 PROVE  FALSE
    OBVIOUS
  <2>2. Len(a) <= Len(b) /\ \A m \in 1 .. Len(a) : a[m] = b[m]
    BY <2>1 DEF Codes!IsPrefix
  <2>3. QED
    BY <1>3, <2>2
<1>5. ~ Codes!IsPrefix(b, a)
  <2>1. SUFFICES ASSUME Codes!IsPrefix(b, a)
                 PROVE  FALSE
    OBVIOUS
  <2>2. Len(b) <= Len(a) /\ \A m \in 1 .. Len(b) : b[m] = a[m]
    BY <2>1 DEF Codes!IsPrefix
  <2>3. QED
    BY <1>2, <1>3, <2>2
<1>6. QED
  BY <1>4, <1>5

LEMMA LengthsUnchanged ==
  ASSUME lengths' = lengths
  PROVE  /\ Coded' = Coded /\ Space' = Space /\ FirstCodes' = FirstCodes
         /\ Kraft' = Kraft /\ LengthsType' = LengthsType
<1>1. Coded' = Coded /\ Space' = Space
  BY DEF Coded, Space
<1>2. FirstCodes' = FirstCodes
  BY Zenon DEF FirstCodes, IsFirstCodes, Codes!CountByLength, Codes!Symbol
<1>3. Kraft' = Kraft /\ LengthsType' = LengthsType
  BY <1>1 DEF Kraft, LengthsType
<1>4. QED
  BY <1>1, <1>2, <1>3

\* The first codes as the program computes them, wrapping around at BitsModulus.
WrappingCodes(g) ==
  g = [n \in 0 .. MaximumLength |->
         IF n = 0 THEN 0
         ELSE (((g[n - 1] + Codes!CountByLength(n - 1)) % BitsModulus) * 2)
              % BitsModulus]

LEMMA FirstCodeBitsAre ==
  ASSUME LengthsType
  PROVE  Codes!FirstCodeBits = [n \in 0 .. MaximumLength |-> FirstCodes[n] % BitsModulus]
<1> DEFINE B == BitsModulus
           f == FirstCodes
           h == [n \in 0 .. MaximumLength |-> f[n] % B]
<1>1. B \in Nat \ {0} /\ MaximumLength \in Nat
  BY Constants
<1>2. f \in [0 .. MaximumLength -> Nat] /\ IsFirstCodes(f)
  BY FirstCodesExist
<1> HIDE DEF B, f
<1>3. h[0] = 0
  <2>1. 0 \in 0 .. MaximumLength /\ f[0] = 0 /\ 0 % B = 0
    BY <1>1, <1>2 DEF IsFirstCodes
  <2>2. QED
    BY <2>1
<1>4. \A n \in 1 .. MaximumLength : n \in 0 .. MaximumLength /\ n - 1 \in 0 .. MaximumLength
  BY <1>1
<1>5. ASSUME NEW n \in 1 .. MaximumLength
      PROVE  h[n] = (((h[n - 1] + Codes!CountByLength(n - 1)) % B) * 2) % B
  <2> DEFINE c == Codes!CountByLength(n - 1)
             p == f[n - 1]
  <2>1. c \in Nat /\ p \in Nat
    BY <1>2, <1>4, CountByLengthIs
  <2>2. h[n] = (2 * (p + c)) % B /\ h[n - 1] = p % B
    BY <1>2, <1>4 DEF IsFirstCodes
  <2> HIDE DEF c, p, h
  <2>3. ((p % B) + c) % B = (p + c) % B
    <3>1. p \in Int /\ c \in Int
      BY <2>1
    <3>2. QED
      BY <1>1, <3>1, RestOfRest
  <2>4. (((p + c) % B) * 2) % B = ((p + c) * 2) % B
    <3> DEFINE s == p + c
    <3>1. s \in Int /\ 2 \in Int
      BY <2>1
    <3> HIDE DEF s
    <3>2. ((s % B) * 2) % B = (s * 2) % B
      BY <1>1, <3>1, RestOfRest
    <3>3. QED
      BY <3>2 DEF s
  <2>5. (p + c) * 2 = 2 * (p + c)
    BY <2>1
  <2>6. (((h[n - 1] + c) % B) * 2) % B = (2 * (p + c)) % B
    BY <2>2, <2>3, <2>4, <2>5, Zenon
  <2>7. QED
    BY <2>2, <2>6, Zenon DEF c
<1>6. WrappingCodes(h)
  <2>1. ASSUME NEW n \in 0 .. MaximumLength
        PROVE  h[n] = IF n = 0 THEN 0
                      ELSE (((h[n - 1] + Codes!CountByLength(n - 1)) % B) * 2) % B
    <3>1. n = 0 \/ n \in 1 .. MaximumLength
      BY <1>1
    <3> HIDE DEF h
    <3>2. QED
      BY <1>3, <1>5, <3>1
  <2> DEFINE k == [n \in 0 .. MaximumLength |->
                     IF n = 0 THEN 0
                     ELSE (((h[n - 1] + Codes!CountByLength(n - 1)) % B) * 2) % B]
  <2>2. h = k
    BY <2>1, Zenon
  <2>3. QED
    BY <2>2, Zenon DEF WrappingCodes, B
<1>7. ASSUME NEW g, WrappingCodes(g)
      PROVE  g = h
  <2> DEFINE N == {n \in Nat : n <= MaximumLength => g[n] = h[n]}
  <2>1. g = [n \in 0 .. MaximumLength |->
               IF n = 0 THEN 0
               ELSE (((g[n - 1] + Codes!CountByLength(n - 1)) % B) * 2) % B]
    BY <1>7, Zenon DEF WrappingCodes, B
  <2>2. \A n \in 0 .. MaximumLength :
          g[n] = IF n = 0 THEN 0
                 ELSE (((g[n - 1] + Codes!CountByLength(n - 1)) % B) * 2) % B
    BY <2>1, Zenon
  <2>3. 0 \in N
    <3>1. 0 \in 0 .. MaximumLength
      BY <1>1
    <3>2. g[0] = 0
      BY <2>2, <3>1
    <3> HIDE DEF h
    <3>3. QED
      BY <1>3, <3>2
  <2>4. ASSUME NEW n \in Nat, n \in N
        PROVE  n + 1 \in N
    <3>1. SUFFICES ASSUME n + 1 <= MaximumLength
                   PROVE  g[n + 1] = h[n + 1]
      OBVIOUS
    <3>2. /\ n + 1 \in 1 .. MaximumLength /\ n + 1 \in 0 .. MaximumLength
          /\ n + 1 # 0 /\ (n + 1) - 1 = n
      BY <1>1, <3>1
    <3> HIDE DEF h
    <3>3. g[n] = h[n]
      BY <1>1, <2>4, <3>1
    <3>4. h[n + 1] = (((h[n] + Codes!CountByLength(n)) % B) * 2) % B
      BY <1>5, <3>2
    <3>5. g[n + 1] = (((g[n] + Codes!CountByLength(n)) % B) * 2) % B
      BY <2>2, <3>2
    <3>6. QED
      BY <3>3, <3>4, <3>5
  <2> HIDE DEF N
  <2>5. \A n \in Nat : n \in N
    BY <2>3, <2>4, Induct
  <2>6. \A n \in 0 .. MaximumLength : g[n] = h[n]
    <3> HIDE DEF h
    <3>1. \A n \in 0 .. MaximumLength : n \in Nat /\ n <= MaximumLength
      BY <1>1
    <3>2. QED
      BY <2>5, <3>1 DEF N
  <2>7. g = [n \in 0 .. MaximumLength |-> g[n]]
    BY <2>1
  <2>8. QED
    BY <2>6, <2>7
<1>8. Codes!FirstCodeBits = CHOOSE g : WrappingCodes(g)
  BY Zenon DEF Codes!FirstCodeBits, WrappingCodes
<1> HIDE DEF h
<1>9. (CHOOSE g : WrappingCodes(g)) = h
  BY <1>6, <1>7
<1>10. QED
  BY <1>8, <1>9 DEF h, f, B

-----------------------------------------------------------------------------
(***************************************************************************)
(* The codes assigned so far, and the next code of each length.            *)
(***************************************************************************)
NextCodeBits(n, s) ==
  (FirstCodes[n] + Cardinality(OfLengthBefore(n, s))) % BitsModulus

CodeOf(s) == [bits |-> NumberOf(s) % BitsModulus, length |-> lengths[s]]

CodesInv ==
  /\ LengthsType
  /\ i \in 0 .. Symbols + 1
  /\ i = 0 => next_code_bits = [n \in 0 .. MaximumLength |-> 0]
  /\ i > 0 => /\ pc = "returned"
              /\ next_code_bits = [n \in 0 .. MaximumLength |-> NextCodeBits(n, i)]
  /\ codes = [s \in Symbol |-> IF s \in Coded /\ s < i THEN CodeOf(s)
                               ELSE Codes!NoCode]

LEMMA CodesUnchanged ==
  ASSUME lengths' = lengths
  PROVE  /\ \A n, s : NextCodeBits(n, s)' = NextCodeBits(n, s)
         /\ \A s : CodeOf(s)' = CodeOf(s)
<1>1. Coded' = Coded /\ FirstCodes' = FirstCodes
  BY LengthsUnchanged
<1>2. \A n, s : OfLengthBefore(n, s)' = OfLengthBefore(n, s)
  BY <1>1 DEF OfLengthBefore
<1>3. \A s : NumberOf(s)' = NumberOf(s)
  BY <1>1, <1>2, Zenon DEF NumberOf
<1>4. QED
  BY <1>1, <1>2, <1>3, Zenon DEF NextCodeBits, CodeOf

LEMMA CountStep ==
  ASSUME CodesInv, pc = "returned", Codes!Count, pc' = pc
  PROVE  CodesInv'
<1>1. /\ i = 0 /\ i' = 1 /\ lengths' = lengths /\ codes' = codes
      /\ next_code_bits' = Codes!FirstCodeBits
  BY DEF Codes!Count
<1>2. LengthsType /\ LengthsType'
  BY <1>1, LengthsUnchanged DEF CodesInv
<1>3. \A n \in 0 .. MaximumLength : NextCodeBits(n, 1) = FirstCodes[n] % BitsModulus
  <2> SUFFICES ASSUME NEW n \in 0 .. MaximumLength
               PROVE  NextCodeBits(n, 1) = FirstCodes[n] % BitsModulus
    OBVIOUS
  <2>1. OfLengthBefore(n, 1) = {}
    BY DEF OfLengthBefore, Coded, Symbol
  <2>2. Cardinality(OfLengthBefore(n, 1)) = 0
    BY <2>1, FS_EmptySet
  <2>3. FirstCodes[n] + 0 = FirstCodes[n]
    BY <1>2, FirstCodesSum
  <2>4. QED
    BY <2>2, <2>3, Zenon DEF NextCodeBits
<1>4. next_code_bits' = [n \in 0 .. MaximumLength |-> NextCodeBits(n, 1)]
  <2>1. next_code_bits' = [n \in 0 .. MaximumLength |-> FirstCodes[n] % BitsModulus]
    BY <1>1, <1>2, FirstCodeBitsAre
  <2>2. QED
    BY <1>3, <2>1
<1>5. \A n \in 0 .. MaximumLength : NextCodeBits(n, i)' = NextCodeBits(n, 1)
  BY <1>1, CodesUnchanged
<1>6. next_code_bits' = [n \in 0 .. MaximumLength |-> NextCodeBits(n, i)']
  BY <1>4, <1>5
<1>7. i' \in 0 .. Symbols + 1 /\ i' > 0
  BY <1>1, Constants
<1>8. codes' = [s \in Symbol |-> IF s \in Coded' /\ s < i' THEN CodeOf(s)'
                                 ELSE Codes!NoCode]
  <2>1. \A s \in Symbol : ~ (s < i) /\ ~ (s < 1)
    BY <1>1 DEF Symbol
  <2>2. codes = [s \in Symbol |-> Codes!NoCode]
    BY <2>1 DEF CodesInv
  <2>3. QED
    BY <1>1, <2>1, <2>2
<1>9. QED
  BY <1>1, <1>2, <1>6, <1>7, <1>8 DEF CodesInv

LEMMA AssignStep ==
  ASSUME CodesInv, Codes!Assign, pc' = pc
  PROVE  CodesInv'
<1>1. /\ i \in Symbol /\ i' = i + 1 /\ lengths' = lengths
      /\ IF lengths[i] = 0 THEN next_code_bits' = next_code_bits /\ codes' = codes
         ELSE /\ codes' = [codes EXCEPT ![i] = [bits |-> next_code_bits[lengths[i]],
                                                length |-> lengths[i]]]
              /\ next_code_bits' = [next_code_bits EXCEPT
                                      ![lengths[i]] = (@ + 1) % BitsModulus]
  BY DEF Codes!Assign, Codes!Symbol, Symbol
<1>2. LengthsType /\ LengthsType'
  BY <1>1, LengthsUnchanged DEF CodesInv
<1>3. /\ i \in 1 .. Symbols /\ i \in Nat /\ i' \in 0 .. Symbols + 1 /\ i' > 0
      /\ Symbols \in Nat
  BY <1>1, Constants DEF Symbol
<1>4. /\ pc = "returned"
      /\ next_code_bits = [n \in 0 .. MaximumLength |-> NextCodeBits(n, i)]
      /\ codes = [s \in Symbol |-> IF s \in Coded /\ s < i THEN CodeOf(s)
                                   ELSE Codes!NoCode]
  BY <1>3 DEF CodesInv
<1>5. \A n \in 0 .. MaximumLength : n # lengths[i] \/ lengths[i] = 0 =>
        NextCodeBits(n, i + 1) = NextCodeBits(n, i)
  <2> SUFFICES ASSUME NEW n \in 0 .. MaximumLength, n # lengths[i] \/ lengths[i] = 0
               PROVE  NextCodeBits(n, i + 1) = NextCodeBits(n, i)
    OBVIOUS
  <2>1. OfLengthBefore(n, i + 1) = OfLengthBefore(n, i)
    BY <1>3 DEF OfLengthBefore, Coded, Symbol
  <2>2. QED
    BY <2>1, Zenon DEF NextCodeBits
<1>6. lengths[i] > 0 => NextCodeBits(lengths[i], i + 1) =
                          (NextCodeBits(lengths[i], i) + 1) % BitsModulus
  <2> SUFFICES ASSUME lengths[i] > 0
               PROVE  NextCodeBits(lengths[i], i + 1) =
                        (NextCodeBits(lengths[i], i) + 1) % BitsModulus
    OBVIOUS
  <2> DEFINE n == lengths[i]
             A == OfLengthBefore(n, i)
             a == Cardinality(A)
             f == FirstCodes[n]
             B == BitsModulus
  <2>1. i \in Coded /\ n \in 0 .. MaximumLength
    BY <1>1, <1>2 DEF Coded, LengthsType
  <2>2. A \in SUBSET Coded /\ i \notin A
    BY <1>3 DEF OfLengthBefore
  <2>3. OfLengthBefore(n, i + 1) = A \cup {i}
    BY <1>3, <2>1 DEF OfLengthBefore, Coded, Symbol
  <2>4. a \in Nat /\ Cardinality(A \cup {i}) = a + 1
    <3> HIDE DEF A
    <3>1. QED
      BY <2>1, <2>2, CodedFinite, SizeOf
  <2>5. f \in Nat
    BY <1>2, <2>1, FirstCodesSum
  <2>6. B \in Nat \ {0}
    BY Constants
  <2> HIDE DEF A, a, f, B, n
  <2>7. (((f + a) % B) + 1) % B = ((f + a) + 1) % B
    <3> DEFINE x == f + a
    <3>1. x \in Int /\ 1 \in Int
      BY <2>4, <2>5
    <3> HIDE DEF x
    <3>2. ((x % B) + 1) % B = (x + 1) % B
      BY <2>6, <3>1, RestOfRest
    <3>3. QED
      BY <3>2 DEF x
  <2>8. (f + a) + 1 = f + (a + 1)
    BY <2>4, <2>5
  <2>9. NextCodeBits(n, i + 1) = (f + (a + 1)) % B
    BY <2>3, <2>4, Zenon DEF NextCodeBits, f, B
  <2>10. NextCodeBits(n, i) = (f + a) % B
    BY DEF NextCodeBits, f, B, a, A
  <2>11. NextCodeBits(n, i + 1) = (NextCodeBits(n, i) + 1) % B
    BY <2>7, <2>8, <2>9, <2>10, Zenon
  <2>12. QED
    BY <2>11 DEF n, B
<1>7. next_code_bits' = [n \in 0 .. MaximumLength |-> NextCodeBits(n, i + 1)]
  <2>1. lengths[i] \in 0 .. MaximumLength
    BY <1>1, <1>2 DEF LengthsType
  <2>2. CASE lengths[i] = 0
    BY <1>1, <1>4, <1>5, <2>2
  <2>3. CASE lengths[i] > 0
    <3>1. next_code_bits' = [next_code_bits EXCEPT
            ![lengths[i]] = (NextCodeBits(lengths[i], i) + 1) % BitsModulus]
      BY <1>1, <1>4, <2>1, <2>3
    <3>2. \A n \in 0 .. MaximumLength : next_code_bits'[n] = NextCodeBits(n, i + 1)
      BY <1>4, <1>5, <1>6, <2>3, <3>1
    <3>3. next_code_bits' = [n \in 0 .. MaximumLength |-> next_code_bits'[n]]
      BY <1>4, <3>1
    <3>4. QED
      BY <3>2, <3>3
  <2>4. QED
    BY <2>1, <2>2, <2>3
<1>8. next_code_bits' = [n \in 0 .. MaximumLength |-> NextCodeBits(n, i)']
  <2>1. \A n \in 0 .. MaximumLength : NextCodeBits(n, i)' = NextCodeBits(n, i + 1)
    BY <1>1, CodesUnchanged
  <2>2. QED
    BY <1>7, <2>1
<1>9. \A s \in Symbol : s \in Coded /\ s = i => CodeOf(s) =
        [bits |-> next_code_bits[lengths[i]], length |-> lengths[i]]
  <2> SUFFICES ASSUME i \in Coded
               PROVE  CodeOf(i) = [bits |-> next_code_bits[lengths[i]],
                                   length |-> lengths[i]]
    OBVIOUS
  <2>1. lengths[i] \in 0 .. MaximumLength
    BY <1>1, <1>2 DEF LengthsType
  <2>2. next_code_bits[lengths[i]] = NextCodeBits(lengths[i], i)
    BY <1>4, <2>1
  <2>3. NextCodeBits(lengths[i], i) = NumberOf(i) % BitsModulus
    BY DEF NextCodeBits, NumberOf
  <2>4. QED
    BY <2>2, <2>3 DEF CodeOf
<1>10. codes' = [s \in Symbol |-> IF s \in Coded /\ s < i + 1 THEN CodeOf(s)
                                  ELSE Codes!NoCode]
  <2>1. lengths[i] \in 0 .. MaximumLength /\ (i \in Coded <=> lengths[i] > 0)
    BY <1>1, <1>2 DEF LengthsType, Coded
  <2>2. \A s \in Symbol : s \in Int /\ (s < i + 1 <=> s < i \/ s = i)
    BY <1>3 DEF Symbol
  <2>3. CASE lengths[i] = 0
    <3>1. \A s \in Symbol : s \in Coded /\ s < i + 1 <=> s \in Coded /\ s < i
      BY <2>1, <2>2, <2>3
    <3>2. codes' = codes
      BY <1>1, <2>3
    <3>3. QED
      BY <1>4, <3>1, <3>2
  <2>4. CASE lengths[i] > 0
    <3>1. codes' = [codes EXCEPT ![i] = CodeOf(i)]
      BY <1>1, <1>9, <2>1, <2>4
    <3>2. i \in Coded /\ ~ (i < i)
      BY <1>3, <2>1, <2>4
    <3>3. \A s \in Symbol : codes'[s] = IF s \in Coded /\ s < i + 1 THEN CodeOf(s)
                                        ELSE Codes!NoCode
      BY <1>1, <1>4, <2>2, <3>1, <3>2
    <3>4. codes' = [s \in Symbol |-> codes'[s]]
      BY <1>4, <3>1
    <3>5. QED
      BY <3>3, <3>4
  <2>5. QED
    BY <2>1, <2>3, <2>4
<1>11. codes' = [s \in Symbol |-> IF s \in Coded' /\ s < i' THEN CodeOf(s)'
                                  ELSE Codes!NoCode]
  <2>1. Coded' = Coded /\ \A s : CodeOf(s)' = CodeOf(s)
    BY <1>1, LengthsUnchanged, CodesUnchanged
  <2>2. QED
    BY <1>1, <1>10, <2>1
<1>12. QED
  BY <1>1, <1>2, <1>3, <1>4, <1>8, <1>11 DEF CodesInv

\* What was assigned is the code meant.
LEMMA CodeAssigned ==
  ASSUME CodesInv, Kraft, NEW s \in Codes!Assigned
  PROVE  /\ s \in Coded /\ s \in Int
         /\ codes[s].bits = NumberOf(s) /\ codes[s].length = lengths[s]
<1>1. s \in Coded /\ s \in Symbol /\ s < i
  BY CodedFinite DEF Codes!Assigned
<1>2. LengthsType /\ codes[s] = CodeOf(s)
  BY <1>1 DEF CodesInv
<1>3. NumberOf(s) % BitsModulus = NumberOf(s)
  <2> DEFINE a == NumberOf(s)
             B == BitsModulus
  <2>1. a \in Nat /\ a < B /\ B \in Nat
    BY <1>1, <1>2, NumberOfFits, Constants
  <2> HIDE DEF a, B
  <2>2. a % B = a
    BY <2>1
  <2>3. QED
    BY <2>2 DEF a, B
<1>4. QED
  BY <1>1, <1>2, <1>3 DEF CodeOf, Symbol

LEMMA CodesAreTyped ==
  ASSUME CodesInv
  PROVE  Codes!TypeOK
<1>1. LengthsType /\ MaximumLength \in Nat /\ BitsModulus \in Nat \ {0}
  BY Constants DEF CodesInv
<1>2. \A n \in 0 .. MaximumLength : \A s : NextCodeBits(n, s) \in 0 .. BitsModulus - 1
  <2> SUFFICES ASSUME NEW n \in 0 .. MaximumLength, NEW s
               PROVE  NextCodeBits(n, s) \in 0 .. BitsModulus - 1
    OBVIOUS
  <2> DEFINE a == FirstCodes[n] + Cardinality(OfLengthBefore(n, s))
  <2>1. OfLengthBefore(n, s) \in SUBSET Coded
    BY DEF OfLengthBefore
  <2>2. a \in Int
    BY <1>1, <2>1, CodedFinite, FirstCodesSum, SizeOf
  <2> HIDE DEF a
  <2>3. a % BitsModulus \in 0 .. BitsModulus - 1
    BY <1>1, <2>2, Quotient
  <2>4. QED
    BY <2>3 DEF NextCodeBits, a
<1>3. next_code_bits \in [0 .. MaximumLength -> 0 .. BitsModulus - 1]
  <2>1. CASE i = 0
    BY <1>1, <2>1 DEF CodesInv
  <2>2. CASE i > 0
    <3>1. next_code_bits = [n \in 0 .. MaximumLength |-> NextCodeBits(n, i)]
      BY <2>2 DEF CodesInv
    <3>2. QED
      BY <1>2, <3>1
  <2>3. QED
    BY <2>1, <2>2, Constants DEF CodesInv
<1>4. codes \in [Symbol -> [bits : 0 .. BitsModulus - 1, length : 0 .. MaximumLength]]
  <2>1. \A s \in Coded : CodeOf(s) \in
          [bits : 0 .. BitsModulus - 1, length : 0 .. MaximumLength]
    <3> SUFFICES ASSUME NEW s \in Coded
                 PROVE  CodeOf(s) \in
                          [bits : 0 .. BitsModulus - 1, length : 0 .. MaximumLength]
      OBVIOUS
    <3>1. NumberOf(s) \in Int /\ lengths[s] \in 0 .. MaximumLength
      BY <1>1, NumberOfSum, SpaceNat
    <3>2. NumberOf(s) % BitsModulus \in 0 .. BitsModulus - 1
      BY <1>1, <3>1, Quotient
    <3>3. QED
      BY <3>1, <3>2 DEF CodeOf
  <2>2. Codes!NoCode \in [bits : 0 .. BitsModulus - 1, length : 0 .. MaximumLength]
    BY <1>1 DEF Codes!NoCode
  <2>3. QED
    BY <2>1, <2>2 DEF CodesInv
<1>5. Codes!Symbol = Symbol /\ i \in 0 .. Symbols + 1
  BY DEF Codes!Symbol, Symbol, CodesInv
<1>6. QED
  BY <1>1, <1>3, <1>4, <1>5 DEF Codes!TypeOK, LengthsType

\* The codes are what they are for.
LEMMA CodesAreGood ==
  ASSUME CodesInv, Kraft
  PROVE  CodesFit /\ PrefixFree /\ Canonical
<1>1. LengthsType
  BY DEF CodesInv
<1>2. CodesFit
  <2>1. ASSUME NEW s \in Codes!Assigned
        PROVE  codes[s].length = lengths[s] /\ codes[s].bits < 2 ^ lengths[s]
    <3>1. s \in Coded /\ codes[s].bits = NumberOf(s) /\ codes[s].length = lengths[s]
      BY CodeAssigned
    <3>2. NumberOf(s) < 2 ^ lengths[s]
      BY <1>1, <3>1, NumberOfFits
    <3>3. QED
      BY <3>1, <3>2
  <2>2. QED
    BY <2>1 DEF CodesFit, Codes!CodesFit
<1>3. ASSUME NEW s \in Codes!Assigned, NEW t \in Codes!Assigned, InFront(s, t)
      PROVE  Codes!Before(Codes!Pushed(codes[s]), Codes!Pushed(codes[t]))
  <2>1. /\ s \in Coded /\ codes[s].bits = NumberOf(s) /\ codes[s].length = lengths[s]
        /\ t \in Coded /\ codes[t].bits = NumberOf(t) /\ codes[t].length = lengths[t]
    BY CodeAssigned
  <2>2. QED
    BY <1>1, <1>3, <2>1, PushedInOrder
<1>4. PrefixFree
  <2>1. ASSUME NEW s \in Codes!Assigned, NEW t \in Codes!Assigned, s # t
        PROVE  ~ Codes!IsPrefix(Codes!Pushed(codes[s]), Codes!Pushed(codes[t]))
    <3> DEFINE a == Codes!Pushed(codes[s])
               b == Codes!Pushed(codes[t])
    <3>1. /\ s \in Coded /\ codes[s].bits = NumberOf(s) /\ codes[s].length = lengths[s]
          /\ t \in Coded /\ codes[t].bits = NumberOf(t) /\ codes[t].length = lengths[t]
          /\ s \in Int /\ t \in Int
      BY CodeAssigned
    <3>2. a \in Seq(Int) /\ b \in Seq(Int)
      <4>1. ASSUME NEW u \in Coded, codes[u].bits = NumberOf(u),
                   codes[u].length = lengths[u]
            PROVE  Codes!Pushed(codes[u]) \in Seq(Int)
        <5>1. NumberOf(u) \in Nat /\ lengths[u] \in Nat
          BY <1>1, NumberOfSum, SpaceNat
        <5>2. \A k \in 1 .. lengths[u] : BitOf(NumberOf(u), lengths[u], k) \in Int
          <6> SUFFICES ASSUME NEW k \in 1 .. lengths[u]
                       PROVE  BitOf(NumberOf(u), lengths[u], k) \in Int
            OBVIOUS
          <6> DEFINE p == 2 ^ (lengths[u] - k)
                     v == NumberOf(u) \div p
          <6>1. p \in Nat \ {0}
            BY <5>1, PowerSuccessor
          <6>2. v \in Int
            <7> HIDE DEF p
            <7>1. NumberOf(u) \in Int
              BY <5>1
            <7>2. QED
              BY <6>1, <7>1, Quotient
          <6> HIDE DEF v
          <6>3. v % 2 \in Int
            BY <6>2
          <6>4. QED
            BY <6>3 DEF BitOf, v, p
        <5>3. Codes!Pushed(codes[u]) =
                [k \in 1 .. lengths[u] |-> BitOf(NumberOf(u), lengths[u], k)]
          BY <4>1, Zenon DEF Codes!Pushed, BitOf
        <5>4. QED
          BY <5>1, <5>2, <5>3
      <4>2. QED
        BY <3>1, <4>1
    <3>3. lengths[s] \in Int /\ lengths[t] \in Int
      BY <1>1, <3>1, SpaceNat
    <3>4. InFront(s, t) \/ InFront(t, s)
      BY <2>1, <3>1, <3>3 DEF InFront
    <3>5. Codes!Before(a, b) \/ Codes!Before(b, a)
      BY <1>3, <3>4
    <3> HIDE DEF a, b
    <3>6. ~ Codes!IsPrefix(a, b)
      BY <3>2, <3>5, InOrderNoPrefix
    <3>7. QED
      BY <3>6 DEF a, b
  <2>2. QED
    BY <2>1 DEF PrefixFree, Codes!PrefixFree
<1>5. Canonical
  <2>1. ASSUME NEW s \in Codes!Assigned,
               \A t \in Codes!Coded : lengths[s] < lengths[t]
                                        \/ (lengths[s] = lengths[t] /\ s <= t)
        PROVE  codes[s].bits = 0
    <3>1. s \in Coded /\ codes[s].bits = NumberOf(s) /\ s \in Int
      BY CodeAssigned
    <3>2. \A t \in Coded : lengths[s] < lengths[t] \/ (lengths[s] = lengths[t] /\ s <= t)
      BY <2>1, CodedFinite
    <3>3. Earlier(s) = {}
      BY <1>1, <3>1, <3>2 DEF Earlier, Shorter, OfLengthBefore, Coded, LengthsType, Symbol
    <3>4. SumFunctionOnSet(Space, Earlier(s)) = 0
      BY <3>3, SumEmpty
    <3>5. /\ NumberOf(s) \in Nat /\ Space[s] \in Nat \ {0}
          /\ NumberOf(s) * Space[s] = 0
      BY <1>1, <3>1, <3>4, NumberOfSum, SpaceNat
    <3>6. NumberOf(s) = 0
      <4> DEFINE a == NumberOf(s)
                 q == Space[s]
      <4>1. a \in Nat /\ q \in Nat \ {0} /\ a * q = 0
        BY <3>5
      <4> HIDE DEF a, q
      <4>2. a * q <= 0 * q
        BY <4>1
      <4>3. a <= 0
        BY <4>1, <4>2, FactorCancels
      <4>4. QED
        BY <4>1, <4>3 DEF a
    <3>7. QED
      BY <3>1, <3>6
  <2>2. QED
    BY <1>3, <2>1 DEF Canonical, Codes!Canonical, InFront
<1>6. QED
  BY <1>2, <1>4, <1>5

-----------------------------------------------------------------------------
(***************************************************************************)
(* Sorting.                                                                *)
(***************************************************************************)
\* f holds one thing for each element of D, in positions 1 .. n.
Arranges(f, n, D) ==
  /\ f \in [1 .. n -> D]
  /\ \A j, k \in 1 .. n : f[j] = f[k] => j = k
  /\ \A p \in D : \E k \in 1 .. n : f[k] = p

Ordered(level) ==
  \A j, k \in DOMAIN level : j <= k => level[j].weight <= level[k].weight

LEMMA SortedIs ==
  ASSUME NEW packages, IsFiniteSet(DOMAIN packages), DOMAIN packages \subseteq Int,
         \A p \in DOMAIN packages : packages[p].weight \in Int
  PROVE  LET D == DOMAIN packages
             n == Cardinality(D)
         IN \E perm : /\ Arranges(perm, n, D)
                      /\ Sorted(packages) = [k \in 1 .. n |-> packages[perm[k]]]
                      /\ Ordered(Sorted(packages))
<1> DEFINE D == DOMAIN packages
           n == Cardinality(D)
           Less(p, q) == \/ packages[p].weight < packages[q].weight
                         \/ packages[p].weight = packages[q].weight /\ p < q
           Ahead(p) == {q \in D : Less(q, p)}
           place == [p \in D |-> 1 + Cardinality(Ahead(p))]
           perm == [k \in 1 .. n |-> CHOOSE p \in D : place[p] = k]
<1>0. /\ IsFiniteSet(D) /\ D \subseteq Int
      /\ \A p \in D : packages[p].weight \in Int
  OBVIOUS
<1>14. Sorted(packages) = [k \in 1 .. n |-> packages[CHOOSE p \in D : place[p] = k]]
  BY Zenon DEF Sorted
<1> HIDE DEF D
<1>1. n \in Nat /\ IsFiniteSet(1 .. n) /\ Cardinality(1 .. n) = n
  <2>1. n \in Nat
    BY <1>0, FS_CardinalityType
  <2> HIDE DEF n
  <2>2. IsFiniteSet(1 .. n)
    BY <2>1, FS_Interval
  <2>3. Cardinality(1 .. n) = IF 1 > n THEN 0 ELSE n - 1 + 1
    BY <2>1, FS_Interval
  <2>4. QED
    BY <2>1, <2>2, <2>3
<1>2. \A p \in D : Ahead(p) \in SUBSET D /\ p \notin Ahead(p)
  BY <1>0
<1>3. \A p \in D : /\ Cardinality(Ahead(p)) \in Nat
                   /\ Cardinality(Ahead(p)) + 1 <= n
                   /\ Cardinality(Ahead(p) \cup {p}) = Cardinality(Ahead(p)) + 1
  <2> SUFFICES ASSUME NEW p \in D
               PROVE  /\ Cardinality(Ahead(p)) \in Nat
                      /\ Cardinality(Ahead(p)) + 1 <= n
                      /\ Cardinality(Ahead(p) \cup {p}) = Cardinality(Ahead(p)) + 1
    OBVIOUS
  <2> DEFINE A == Ahead(p)
  <2>1. A \in SUBSET D /\ p \notin A /\ A \cup {p} \in SUBSET D
    BY <1>2
  <2> HIDE DEF A, n
  <2>2. Cardinality(A) \in Nat /\ Cardinality(A \cup {p}) = Cardinality(A) + 1
    BY <1>0, <2>1, SizeOf
  <2>3. Cardinality(A \cup {p}) <= n
    BY <1>0, <2>1, SizeOf DEF n
  <2>4. QED
    BY <2>2, <2>3 DEF A
<1>4. ASSUME NEW p \in D, NEW q \in D, Less(p, q)
      PROVE  place[p] < place[q]
  <2> DEFINE A == Ahead(p) \cup {p}
             B == Ahead(q)
  <2>1. A \subseteq B
    <3> SUFFICES ASSUME NEW r \in D, Less(r, p) \/ r = p
                 PROVE  Less(r, q)
      OBVIOUS
    <3>1. /\ p \in Int /\ q \in Int /\ r \in Int
          /\ packages[p].weight \in Int /\ packages[q].weight \in Int
          /\ packages[r].weight \in Int
      BY <1>0
    <3>2. QED
      BY <1>4, <3>1
  <2>2. B \in SUBSET D
    BY <1>2
  <2>3. IsFiniteSet(B)
    <3> HIDE DEF B
    <3>1. QED
      BY <1>0, <2>2, SizeOf
  <2>4. Cardinality(A) <= Cardinality(B)
    <3> HIDE DEF A, B
    <3>1. QED
      BY <2>1, <2>3, SizeOf
  <2>5. /\ Cardinality(Ahead(p)) \in Nat /\ Cardinality(Ahead(q)) \in Nat
        /\ Cardinality(A) = Cardinality(Ahead(p)) + 1
    BY <1>3
  <2>6. /\ place[p] = 1 + Cardinality(Ahead(p))
        /\ place[q] = 1 + Cardinality(Ahead(q))
    OBVIOUS
  <2> HIDE DEF A, Ahead, place
  <2>7. QED
    BY <2>4, <2>5, <2>6
<1>5. \A p, q \in D : p = q \/ Less(p, q) \/ Less(q, p)
  BY <1>0
<1>6. \A p \in D : place[p] \in 1 .. n
  <2> SUFFICES ASSUME NEW p \in D
               PROVE  place[p] \in 1 .. n
    OBVIOUS
  <2>1. /\ Cardinality(Ahead(p)) \in Nat /\ Cardinality(Ahead(p)) + 1 <= n
        /\ place[p] = 1 + Cardinality(Ahead(p))
    BY <1>3
  <2> HIDE DEF Ahead, n, place
  <2>2. QED
    BY <1>1, <2>1
<1>7. \A p, q \in D : place[p] = place[q] => p = q
  <2> HIDE DEF place, Less
  <2>1. QED
    BY <1>4, <1>5, <1>6
<1>8. \A k \in 1 .. n : \E p \in D : place[p] = k
  <2>1. place \in Injection(D, 1 .. n)
    <3>1. place \in [D -> 1 .. n]
      BY <1>6
    <3> HIDE DEF place
    <3>2. QED
      BY <1>7, <3>1 DEF Injection, IsInjective
  <2>2. place \in Surjection(D, 1 .. n)
    <3> HIDE DEF place
    <3>1. Cardinality(D) = Cardinality(1 .. n) <=> place \in Surjection(D, 1 .. n)
      BY <1>0, <1>1, <2>1, FS_Injection
    <3>2. QED
      BY <1>1, <3>1
  <2>3. QED
    BY <2>2 DEF Surjection
<1> HIDE DEF place, Less, n
<1>9. \A k \in 1 .. n : perm[k] \in D /\ place[perm[k]] = k
  BY <1>8
<1>10. Arranges(perm, n, D)
  <2>1. perm \in [1 .. n -> D]
    BY <1>8
  <2>2. \A j, k \in 1 .. n : perm[j] = perm[k] => j = k
    BY <1>9
  <2>3. ASSUME NEW p \in D
        PROVE  perm[place[p]] = p
    BY <1>6, <1>7, <1>9
  <2> HIDE DEF perm
  <2>4. QED
    BY <1>6, <2>1, <2>2, <2>3 DEF Arranges
<1>11. Sorted(packages) = [k \in 1 .. n |-> packages[perm[k]]]
  <2>1. QED
    BY <1>14
<1>12. Ordered(Sorted(packages))
  <2> SUFFICES ASSUME NEW j \in 1 .. n, NEW k \in 1 .. n, j <= k
               PROVE  packages[perm[j]].weight <= packages[perm[k]].weight
    BY <1>11 DEF Ordered
  <2>1. /\ perm[j] \in D /\ place[perm[j]] = j
        /\ perm[k] \in D /\ place[perm[k]] = k
    BY <1>9
  <2> HIDE DEF perm
  <2>2. ~ Less(perm[k], perm[j])
    <3> SUFFICES ASSUME Less(perm[k], perm[j])
                 PROVE  FALSE
      OBVIOUS
    <3>1. place[perm[k]] < place[perm[j]]
      BY <1>4, <2>1
    <3>2. k < j
      BY <2>1, <3>1
    <3>3. QED
      BY <1>1, <3>2
  <2>3. packages[perm[j]].weight \in Int /\ packages[perm[k]].weight \in Int
    BY <1>0, <2>1
  <2>4. QED
    BY <2>2, <2>3 DEF Less
<1> HIDE DEF perm
<1>13. QED
  BY <1>10, <1>11, <1>12 DEF n, D

-----------------------------------------------------------------------------
(***************************************************************************)
(* A level: the symbols that occur and the pairs of the level before it,   *)
(* which count as -1, -2 and so on, in the order of their weights.         *)
(***************************************************************************)
WeightsType == weights \in [Symbol -> 0 .. MaxWeight]

PackageOf(pairs, o) ==
  [weight |-> IF o > 0 THEN weights[o] ELSE pairs[-o].weight,
   index |-> IF o > 0 THEN o ELSE Several]

Origins(pairs) == NonZero \cup {-j : j \in 1 .. Len(pairs)}

LevelIs(level, pairs, origin) ==
  LET n == Cardinality(NonZero) + Len(pairs)
  IN /\ Arranges(origin, n, Origins(pairs))
     /\ level = [k \in 1 .. n |-> PackageOf(pairs, origin[k])]
     /\ Ordered(level)

LEMMA NonZeroFinite ==
  /\ NonZero \in SUBSET Symbol /\ IsFiniteSet(NonZero) /\ Cardinality(NonZero) \in Nat
  /\ Cardinality(NonZero) <= Symbols
  /\ \A s \in NonZero : s \in Int /\ s > 0 /\ weights[s] > 0
<1>1. NonZero \in SUBSET Symbol
  BY DEF NonZero
<1>2. QED
  BY <1>1, CodedFinite, SizeOf DEF NonZero, Symbol

LEMMA SinglesAre ==
  ASSUME WeightsType
  PROVE  \E origin : LevelIs(Singles, <<>>, origin)
<1> DEFINE packages == [s \in NonZero |-> [weight |-> weights[s], index |-> s]]
           n == Cardinality(NonZero)
<1>1. /\ DOMAIN packages = NonZero /\ IsFiniteSet(NonZero)
      /\ NonZero \subseteq Int /\ \A p \in NonZero : packages[p].weight \in Int
  BY NonZeroFinite DEF WeightsType, NonZero
<1>2. Singles = Sorted(packages)
  BY Zenon DEF Singles
<1>3. PICK perm : /\ Arranges(perm, n, NonZero)
                  /\ Sorted(packages) = [k \in 1 .. n |-> packages[perm[k]]]
                  /\ Ordered(Sorted(packages))
  <2> HIDE DEF packages
  <2>1. QED
    BY <1>1, SortedIs
<1>4. n + Len(<<>>) = n /\ Origins(<<>>) = NonZero
  BY NonZeroFinite DEF Origins
<1>5. \A k \in 1 .. n : packages[perm[k]] = PackageOf(<<>>, perm[k])
  <2>1. \A k \in 1 .. n : perm[k] \in NonZero
    BY <1>3 DEF Arranges
  <2>2. QED
    BY <2>1, NonZeroFinite DEF PackageOf
<1>6. Singles = [k \in 1 .. n |-> PackageOf(<<>>, perm[k])]
  <2> HIDE DEF packages
  <2>1. QED
    BY <1>2, <1>3, <1>5
<1> HIDE DEF packages, n
<1>7. LevelIs(Singles, <<>>, perm)
  BY <1>2, <1>3, <1>4, <1>6 DEF LevelIs, n
<1>8. QED
  BY <1>7

LEMMA Joined ==
  ASSUME NEW m \in Nat, NEW n \in Nat, NEW a, NEW b,
         a = [k \in 1 .. m |-> a[k]], b = [k \in 1 .. n |-> b[k]]
  PROVE  /\ Len(a) = m /\ Len(b) = n
         /\ DOMAIN (a \o b) = 1 .. m + n
         /\ \A k \in 1 .. m + n : (a \o b)[k] = IF k <= m THEN a[k] ELSE b[k - m]
<1> DEFINE S == {a[k] : k \in 1 .. m} \cup {b[k] : k \in 1 .. n}
<1>1. a \in [1 .. m -> S] /\ b \in [1 .. n -> S]
  OBVIOUS
<1> HIDE DEF S
<1>2. a \in Seq(S) /\ b \in Seq(S) /\ Len(a) = m /\ Len(b) = n
  BY <1>1
<1>3. QED
  BY <1>2

\* Packages that hold several symbols, of given weights.
PairsOf(pairs, m) ==
  \E w \in [1 .. m -> Int] : pairs = [k \in 1 .. m |-> [weight |-> w[k], index |-> Several]]

LEMMA MergedAre ==
  ASSUME WeightsType, NEW m \in Nat, NEW pairs, PairsOf(pairs, m)
  PROVE  /\ Len(pairs) = m
         /\ \E origin : LevelIs(Sorted(pairs \o Singles), pairs, origin)
<1> DEFINE n == Cardinality(NonZero)
           packages == pairs \o Singles
<1>1. PICK o1 : LevelIs(Singles, <<>>, o1)
  BY SinglesAre
<1>2. n \in Nat /\ m \in Nat
  BY NonZeroFinite
<1>3. /\ Arranges(o1, n, NonZero)
      /\ Singles = [k \in 1 .. n |-> PackageOf(<<>>, o1[k])]
  <2>1. n + Len(<<>>) = n /\ Origins(<<>>) = NonZero
    BY <1>2 DEF Origins
  <2>2. QED
    BY <1>1, <2>1 DEF LevelIs
<1>4. \A k \in 1 .. n : /\ o1[k] \in NonZero /\ o1[k] \in Int /\ o1[k] > 0
                        /\ Singles[k] = [weight |-> weights[o1[k]], index |-> o1[k]]
                        /\ weights[o1[k]] \in Int
  <2>1. \A k \in 1 .. n : o1[k] \in NonZero
    BY <1>3 DEF Arranges
  <2>2. QED
    BY <1>3, <2>1, NonZeroFinite DEF PackageOf, WeightsType, NonZero
<1>5. PICK w \in [1 .. m -> Int] :
        pairs = [k \in 1 .. m |-> [weight |-> w[k], index |-> Several]]
  BY DEF PairsOf
<1>6. \A k \in 1 .. m : /\ pairs[k] = [weight |-> pairs[k].weight, index |-> Several]
                        /\ pairs[k].weight \in Int
  BY <1>5
<1>7. /\ DOMAIN packages = 1 .. m + n
      /\ \A k \in 1 .. m + n : packages[k] = IF k <= m THEN pairs[k] ELSE Singles[k - m]
      /\ Len(pairs) = m
  <2>1. Singles = [k \in 1 .. n |-> Singles[k]] /\ pairs = [k \in 1 .. m |-> pairs[k]]
    BY <1>3, <1>5, Zenon
  <2> HIDE DEF n
  <2>2. QED
    BY <1>2, <2>1, Joined
<1>8. \A k \in 1 .. m + n : packages[k].weight \in Int
  <2> SUFFICES ASSUME NEW k \in 1 .. m + n
               PROVE  packages[k].weight \in Int
    OBVIOUS
  <2>1. CASE k <= m
    BY <1>2, <1>6, <1>7, <2>1
  <2>2. CASE ~ (k <= m)
    <3> DEFINE q == k - m
    <3>1. q \in 1 .. n
      BY <1>2, <2>2
    <3>2. packages[k] = Singles[q]
      BY <1>7, <2>2
    <3> HIDE DEF packages, q, n
    <3>3. /\ Singles[q] = [weight |-> weights[o1[q]], index |-> o1[q]]
          /\ weights[o1[q]] \in Int
      BY <1>4, <3>1
    <3>4. QED
      BY <3>2, <3>3
  <2>3. QED
    BY <2>1, <2>2
<1>9. IsFiniteSet(1 .. m + n) /\ Cardinality(1 .. m + n) = n + m
  <2> HIDE DEF n
  <2>1. IsFiniteSet(1 .. m + n)
    BY <1>2, FS_Interval
  <2>2. Cardinality(1 .. m + n) = IF 1 > m + n THEN 0 ELSE m + n - 1 + 1
    BY <1>2, FS_Interval
  <2>3. QED
    BY <1>2, <2>1, <2>2
<1>10. PICK perm : /\ Arranges(perm, n + m, 1 .. m + n)
                   /\ Sorted(packages) = [k \in 1 .. n + m |-> packages[perm[k]]]
                   /\ Ordered(Sorted(packages))
  <2> HIDE DEF packages, n
  <2>1. DOMAIN packages \subseteq Int /\ IsFiniteSet(DOMAIN packages)
    BY <1>7, <1>9
  <2>2. \A p \in DOMAIN packages : packages[p].weight \in Int
    BY <1>7, <1>8
  <2> DEFINE D == DOMAIN packages
  <2>3. \E perm : /\ Arranges(perm, Cardinality(D), D)
                  /\ Sorted(packages) = [k \in 1 .. Cardinality(D) |-> packages[perm[k]]]
                  /\ Ordered(Sorted(packages))
    BY <2>1, <2>2, SortedIs
  <2>4. D = 1 .. m + n /\ Cardinality(D) = n + m
    BY <1>7, <1>9, Zenon
  <2> HIDE DEF D
  <2>5. QED
    BY <2>3, <2>4, Zenon
<1> DEFINE origin == [k \in 1 .. n + m |-> IF perm[k] <= m THEN - perm[k]
                                           ELSE o1[perm[k] - m]]
<1> HIDE DEF packages, n
<1>11. \A k \in 1 .. n + m :
         /\ perm[k] \in 1 .. m + n
         /\ perm[k] > m => perm[k] - m \in 1 .. n
  <2> SUFFICES ASSUME NEW k \in 1 .. n + m
               PROVE  /\ perm[k] \in 1 .. m + n
                      /\ perm[k] > m => perm[k] - m \in 1 .. n
    OBVIOUS
  <2>1. perm[k] \in 1 .. m + n
    BY <1>10 DEF Arranges
  <2>2. QED
    BY <1>2, <2>1
<1>12. \A k \in 1 .. n + m :
         /\ origin[k] \in Origins(pairs)
         /\ packages[perm[k]] = PackageOf(pairs, origin[k])
  <2> SUFFICES ASSUME NEW k \in 1 .. n + m
               PROVE  /\ origin[k] \in Origins(pairs)
                      /\ packages[perm[k]] = PackageOf(pairs, origin[k])
    OBVIOUS
  <2>1. CASE perm[k] <= m
    <3> DEFINE p == perm[k]
    <3>1. p \in 1 .. m /\ origin[k] = - p /\ packages[p] = pairs[p]
      BY <1>2, <1>7, <1>11, <2>1
    <3> HIDE DEF p
    <3>2. - p \in Origins(pairs)
      BY <1>7, <3>1 DEF Origins
    <3>4. PackageOf(pairs, - p) = [weight |-> pairs[p].weight, index |-> Several]
      BY <1>2, <3>1 DEF PackageOf
    <3>5. pairs[p] = [weight |-> pairs[p].weight, index |-> Several]
      BY <1>6, <3>1
    <3>6. QED
      BY <3>1, <3>2, <3>4, <3>5 DEF p
  <2>2. CASE ~ (perm[k] <= m)
    <3> DEFINE p == perm[k]
               o == o1[p - m]
    <3>1. /\ p \in 1 .. m + n /\ p - m \in 1 .. n /\ origin[k] = o
          /\ packages[p] = Singles[p - m]
      BY <1>2, <1>7, <1>11, <2>2
    <3>2. /\ o \in NonZero /\ o > 0 /\ Singles[p - m] = [weight |-> weights[o], index |-> o]
      BY <1>4, <3>1
    <3> HIDE DEF o
    <3>3. QED
      BY <3>1, <3>2 DEF Origins, PackageOf
  <2>3. QED
    BY <2>1, <2>2
<1>13. Arranges(origin, n + m, Origins(pairs))
  <2>1. origin \in [1 .. n + m -> Origins(pairs)]
    BY <1>12
  <2>2. ASSUME NEW j \in 1 .. n + m, NEW k \in 1 .. n + m, origin[j] = origin[k]
        PROVE  j = k
    <3>1. perm[j] \in Int /\ perm[k] \in Int /\ perm[j] > 0 /\ perm[k] > 0
      BY <1>2, <1>11
    <3>2. \A h \in 1 .. n + m : perm[h] > m => origin[h] > 0 /\ origin[h] = o1[perm[h] - m]
      <4> SUFFICES ASSUME NEW h \in 1 .. n + m, perm[h] > m
                   PROVE  origin[h] > 0 /\ origin[h] = o1[perm[h] - m]
        OBVIOUS
      <4>1. perm[h] - m \in 1 .. n /\ ~ (perm[h] <= m)
        BY <1>2, <1>11
      <4>2. origin[h] = o1[perm[h] - m]
        BY <4>1
      <4> HIDE DEF origin
      <4>3. QED
        BY <1>4, <4>1, <4>2
    <3>3. \A h \in 1 .. n + m : perm[h] <= m => origin[h] = - perm[h]
      OBVIOUS
    <3> HIDE DEF origin
    <3>4. perm[j] = perm[k]
      <4>1. CASE perm[j] <= m
        BY <1>2, <2>2, <3>1, <3>2, <3>3, <4>1
      <4>2. CASE perm[j] > m
        <5>1. perm[k] > m
          BY <1>2, <2>2, <3>1, <3>2, <3>3, <4>2
        <5>2. o1[perm[j] - m] = o1[perm[k] - m]
          BY <2>2, <3>2, <4>2, <5>1
        <5>3. perm[j] - m = perm[k] - m
          BY <1>3, <1>11, <4>2, <5>1, <5>2 DEF Arranges
        <5>4. QED
          BY <1>2, <3>1, <5>3
      <4>3. QED
        BY <1>2, <3>1, <4>1, <4>2
    <3>5. QED
      BY <1>10, <3>4 DEF Arranges
  <2>3. ASSUME NEW o \in Origins(pairs)
        PROVE  \E k \in 1 .. n + m : origin[k] = o
    <3>1. CASE o \in NonZero
      <4>1. PICK q \in 1 .. n : o1[q] = o
        BY <1>3, <3>1 DEF Arranges
      <4>2. q + m \in 1 .. m + n /\ (q + m) - m = q /\ ~ (q + m <= m)
        BY <1>2
      <4>3. PICK k \in 1 .. n + m : perm[k] = q + m
        BY <1>10, <4>2 DEF Arranges
      <4>4. QED
        BY <4>1, <4>2, <4>3
    <3>2. CASE o \notin NonZero
      <4>1. PICK q \in 1 .. m : o = - q
        BY <1>7, <3>2 DEF Origins
      <4>2. q \in 1 .. m + n /\ q <= m
        BY <1>2
      <4>3. PICK k \in 1 .. n + m : perm[k] = q
        BY <1>10, <4>2 DEF Arranges
      <4>4. QED
        BY <4>1, <4>2, <4>3
    <3>3. QED
      BY <3>1, <3>2
  <2> HIDE DEF origin
  <2>4. QED
    BY <2>1, <2>2, <2>3 DEF Arranges
<1> HIDE DEF origin
<1>14. Sorted(packages) = [k \in 1 .. n + m |-> PackageOf(pairs, origin[k])]
  BY <1>10, <1>12
<1>15. LevelIs(Sorted(packages), pairs, origin)
  BY <1>7, <1>10, <1>13, <1>14 DEF LevelIs, n
<1>16. QED
  BY <1>7, <1>15 DEF packages

LevelHas(level, pairs, origin, m) ==
  LET len == Cardinality(NonZero) + m
  IN /\ len \in Nat /\ Len(level) = len /\ DOMAIN level = 1 .. len
     /\ \A k \in 1 .. len :
          \/ /\ origin[k] \in NonZero
             /\ level[k] = [weight |-> weights[origin[k]], index |-> origin[k]]
          \/ \E j \in 1 .. m :
               /\ origin[k] = - j
               /\ level[k] = [weight |-> pairs[j].weight, index |-> Several]
     /\ \A s \in NonZero : \E k \in 1 .. len :
          level[k] = [weight |-> weights[s], index |-> s]
     /\ \A j \in 1 .. m : \E k \in 1 .. len :
          level[k] = [weight |-> pairs[j].weight, index |-> Several]
     /\ \A j, k \in 1 .. len : origin[j] = origin[k] => j = k
     /\ Ordered(level)

LEMMA LevelFacts ==
  ASSUME WeightsType, NEW m \in Nat, NEW pairs, PairsOf(pairs, m), Len(pairs) = m,
         NEW level, NEW origin, LevelIs(level, pairs, origin)
  PROVE  LevelHas(level, pairs, origin, m)
<1> DEFINE len == Cardinality(NonZero) + m
<1>1. len \in Nat
  BY NonZeroFinite
<1>2. /\ Arranges(origin, len, Origins(pairs)) /\ Ordered(level)
      /\ level = [k \in 1 .. len |-> PackageOf(pairs, origin[k])]
  BY DEF LevelIs
<1>3. \A s \in NonZero : PackageOf(pairs, s) = [weight |-> weights[s], index |-> s]
  BY NonZeroFinite DEF PackageOf
<1>4. \A j \in 1 .. m : PackageOf(pairs, - j) = [weight |-> pairs[j].weight, index |-> Several]
  BY DEF PackageOf
<1> HIDE DEF len
<1>5. Len(level) = len /\ DOMAIN level = 1 .. len
  <2>1. DOMAIN level = 1 .. len
    BY <1>2
  <2>2. level = [k \in 1 .. len |-> level[k]]
    BY <1>2, Zenon
  <2>3. QED
    BY <1>1, <2>1, <2>2, Joined
<1>6. \A k \in 1 .. len : level[k] = PackageOf(pairs, origin[k])
  BY <1>2
<1>7. \A k \in 1 .. len : origin[k] \in NonZero \/ \E j \in 1 .. m : origin[k] = - j
  <2>1. \A k \in 1 .. len : origin[k] \in Origins(pairs)
    BY <1>2 DEF Arranges
  <2>2. QED
    BY <2>1 DEF Origins
<1>8. \A s \in NonZero : \E k \in 1 .. len : origin[k] = s
  BY <1>2 DEF Arranges, Origins
<1>9. \A j \in 1 .. m : \E k \in 1 .. len : origin[k] = - j
  <2>1. \A j \in 1 .. m : - j \in Origins(pairs)
    BY DEF Origins
  <2>2. QED
    BY <1>2, <2>1 DEF Arranges
<1>10. \A k \in 1 .. len :
         \/ /\ origin[k] \in NonZero
            /\ level[k] = [weight |-> weights[origin[k]], index |-> origin[k]]
         \/ \E j \in 1 .. m :
              /\ origin[k] = - j
              /\ level[k] = [weight |-> pairs[j].weight, index |-> Several]
  BY <1>3, <1>4, <1>6, <1>7
<1>11. \A s \in NonZero : \E k \in 1 .. len : level[k] = [weight |-> weights[s], index |-> s]
  BY <1>3, <1>6, <1>8
<1>12. \A j \in 1 .. m : \E k \in 1 .. len :
         level[k] = [weight |-> pairs[j].weight, index |-> Several]
  BY <1>4, <1>6, <1>9
<1>13. \A j, k \in 1 .. len : origin[j] = origin[k] => j = k
  BY <1>2 DEF Arranges
<1>14. QED
  BY <1>1, <1>2, <1>5, <1>10, <1>11, <1>12, <1>13, Zenon DEF LevelHas, len

\* What the levels have in common.  There are less than twice as many packages
\* as symbols, each level halves what is missing, and where only one is missing
\* the last package is heavier than every symbol.
GoodLevel(level, l) ==
  LET n == Cardinality(NonZero)
      len == Len(level)
  IN /\ len \in Nat /\ DOMAIN level = 1 .. len
     /\ Ordered(level)
     /\ \A k \in 1 .. len : level[k].weight \in 1 .. 2 ^ (l - 1) * MaxWeight
     /\ \A s \in NonZero : \E k \in 1 .. len :
          level[k] = [weight |-> weights[s], index |-> s]
     /\ n <= len /\ len < 2 * n /\ 2 * n - len <= 2 ^ ((MaximumLength + 1) - l)
     /\ len = 2 * n - 1 =>
          \A k \in 1 .. len :
            level[k].index # Several => level[k].weight < level[len].weight

LEMMA Weights ==
  ASSUME NEW l \in 1 .. MaximumLength
  PROVE  /\ MaxWeight \in Nat /\ WeightModulus \in Nat
         /\ 2 ^ (l - 1) * MaxWeight \in Nat /\ 2 ^ (l - 1) * MaxWeight < WeightModulus
         /\ MaxWeight <= 2 ^ (l - 1) * MaxWeight
<1>1. MaximumLength \in Nat /\ l - 1 \in Nat /\ MaximumLength - 1 \in Nat
  BY Constants
<1> DEFINE p == 2 ^ (l - 1)
           q == 2 ^ (MaximumLength - 1)
<1>2. p \in Nat /\ q \in Nat /\ p <= q /\ 1 <= p
  <2>1. l - 1 <= MaximumLength - 1
    BY <1>1
  <2>2. QED
    BY <1>1, <2>1, PowerPositive, PowerMonotone
<1>3. MaxWeight \in Nat /\ WeightModulus \in Nat /\ q * MaxWeight < WeightModulus
  BY PackageMergeAssumption
<1> HIDE DEF p, q
<1>4. /\ p * MaxWeight \in Int /\ q * MaxWeight \in Int
      /\ p * MaxWeight <= q * MaxWeight /\ 1 * MaxWeight <= p * MaxWeight
  BY <1>2, <1>3, FactorMonotone
<1>5. 1 * MaxWeight = MaxWeight
  BY <1>3
<1>6. QED
  BY <1>3, <1>4, <1>5 DEF p

\* No pair of a level that is not the last is too heavy for W.
LEMMA PairsAre ==
  ASSUME NEW l \in 1 .. MaximumLength, l < MaximumLength, NEW level, GoodLevel(level, l)
  PROVE  LET m == Len(level) \div 2
             pairs == Pairs(level)
         IN /\ m \in Nat /\ 2 * m <= Len(level) /\ Len(level) <= 2 * m + 1
            /\ PairsOf(pairs, m) /\ Len(pairs) = m
            /\ \A k \in 1 .. m :
                 /\ 2 * k - 1 \in 1 .. Len(level) /\ 2 * k \in 1 .. Len(level)
                 /\ pairs[k].weight = level[2 * k - 1].weight + level[2 * k].weight
                 /\ pairs[k].weight \in 1 .. 2 ^ ((l + 1) - 1) * MaxWeight
<1> DEFINE m == Len(level) \div 2
           len == Len(level)
           pairs == Pairs(level)
           p == 2 ^ (l - 1) * MaxWeight
           q == 2 ^ ((l + 1) - 1) * MaxWeight
           u == level
<1>1. /\ len \in Nat
      /\ \A k \in 1 .. len : level[k].weight \in 1 .. p
  BY Zenon DEF GoodLevel
<1>2. m \in Nat /\ 2 * m <= len /\ len <= 2 * m + 1
  <2> HIDE DEF len
  <2>1. QED
    BY <1>1 DEF len
<1>3. \A k \in 1 .. m : 2 * k - 1 \in 1 .. len /\ 2 * k \in 1 .. len
  <2> HIDE DEF len, m
  <2>1. QED
    BY <1>1, <1>2
<1>4. p \in Nat /\ q = 2 * p /\ q < WeightModulus /\ WeightModulus \in Nat
  <2> DEFINE a == 2 ^ (l - 1)
  <2>1. MaximumLength \in Nat /\ l - 1 \in Nat /\ (l - 1) + 1 = (l + 1) - 1
        /\ l + 1 \in 1 .. MaximumLength
    BY Constants
  <2>2. a \in Nat /\ 2 ^ ((l + 1) - 1) = 2 * a
    BY <2>1, PowerSuccessor
  <2>3. /\ MaxWeight \in Nat /\ a * MaxWeight \in Nat /\ q < WeightModulus
        /\ WeightModulus \in Nat
    BY <2>1, Weights
  <2> HIDE DEF a
  <2>4. (2 * a) * MaxWeight = 2 * (a * MaxWeight)
    BY <2>2, <2>3
  <2>5. QED
    BY <2>2, <2>3, <2>4 DEF a
<1> HIDE DEF p, q
<1>5. \A k \in 1 .. m :
        pairs[k] = [weight |-> (u[2 * k - 1].weight + u[2 * k].weight) % WeightModulus,
                    index |-> Several]
  BY DEF Pairs
<1>6. \A k \in 1 .. m :
        /\ u[2 * k - 1].weight + u[2 * k].weight \in 1 .. q
        /\ (u[2 * k - 1].weight + u[2 * k].weight) % WeightModulus =
             u[2 * k - 1].weight + u[2 * k].weight
  <2> SUFFICES ASSUME NEW k \in 1 .. m
               PROVE  LET x == u[2 * k - 1].weight
                          y == u[2 * k].weight
                      IN x + y \in 1 .. q /\ (x + y) % WeightModulus = x + y
    BY Zenon
  <2> DEFINE x == u[2 * k - 1].weight
             y == u[2 * k].weight
  <2>1. x \in 1 .. p /\ y \in 1 .. p
    BY <1>1, <1>3
  <2> HIDE DEF x, y
  <2>2. x + y \in 1 .. q /\ x + y < WeightModulus
    BY <1>4, <2>1
  <2> DEFINE z == x + y
  <2>3. z % WeightModulus = z
    <3>1. z \in Nat /\ z < WeightModulus
      BY <2>2
    <3> HIDE DEF z
    <3>2. QED
      BY <1>4, <3>1
  <2>4. QED
    BY <2>2, <2>3 DEF x, y, z
<1> DEFINE w == [k \in 1 .. m |-> u[2 * k - 1].weight + u[2 * k].weight]
<1>7. w \in [1 .. m -> Int] /\ pairs = [k \in 1 .. m |-> [weight |-> w[k], index |-> Several]]
  <2>1. \A k \in 1 .. m : pairs[k] = [weight |-> w[k], index |-> Several]
    BY <1>5, <1>6
  <2>2. pairs = [k \in 1 .. m |-> pairs[k]]
    BY Zenon DEF Pairs
  <2>3. \A k \in 1 .. m : w[k] \in Int
    BY <1>6
  <2> HIDE DEF pairs
  <2>4. QED
    BY <2>1, <2>2, <2>3
<1>8. PairsOf(pairs, m)
  <2> HIDE DEF pairs, w
  <2>1. QED
    BY <1>7 DEF PairsOf
<1>9. Len(pairs) = m
  <2> HIDE DEF pairs, m
  <2>1. pairs = [k \in 1 .. m |-> pairs[k]]
    BY <1>7, Zenon
  <2>2. QED
    BY <1>2, <2>1, Joined
<1>10. \A k \in 1 .. m : /\ pairs[k].weight = u[2 * k - 1].weight + u[2 * k].weight
                         /\ pairs[k].weight \in 1 .. q
  <2> SUFFICES ASSUME NEW k \in 1 .. m
               PROVE  /\ pairs[k].weight = u[2 * k - 1].weight + u[2 * k].weight
                      /\ pairs[k].weight \in 1 .. q
    OBVIOUS
  <2> DEFINE z == u[2 * k - 1].weight + u[2 * k].weight
  <2>1. z \in 1 .. q /\ pairs[k] = [weight |-> z, index |-> Several]
    BY <1>5, <1>6
  <2> HIDE DEF z, pairs
  <2>2. pairs[k].weight = z
    BY <2>1
  <2>3. QED
    BY <2>1, <2>2 DEF z
<1> HIDE DEF pairs
<1>11. QED
  BY <1>2, <1>3, <1>8, <1>9, <1>10 DEF pairs, q

LEMMA NoPairs ==
  PairsOf(<<>>, 0) /\ Len(<<>>) = 0
<1> DEFINE w == [k \in 1 .. 0 |-> 0]
<1>1. w \in [1 .. 0 -> Int] /\ <<>> = [k \in 1 .. 0 |-> [weight |-> w[k], index |-> Several]]
  OBVIOUS
<1> HIDE DEF w
<1>2. QED
  BY <1>1 DEF PairsOf

LEMMA GoodSingles ==
  ASSUME WeightsType, Cardinality(NonZero) >= 2
  PROVE  GoodLevel(Singles, 1)
<1> DEFINE n == Cardinality(NonZero)
           level == Singles
<1>1. PICK origin : LevelIs(level, <<>>, origin)
  BY SinglesAre
<1>2. n \in Nat /\ n + 0 = n /\ 1 \in 1 .. MaximumLength
  BY NonZeroFinite, Constants
<1>3. /\ n + 0 \in Nat /\ Len(level) = n + 0 /\ DOMAIN level = 1 .. n + 0
      /\ \A k \in 1 .. n + 0 :
           \/ /\ origin[k] \in NonZero
              /\ level[k] = [weight |-> weights[origin[k]], index |-> origin[k]]
           \/ \E j \in 1 .. 0 :
                /\ origin[k] = - j
                /\ level[k] = [weight |-> <<>>[j].weight, index |-> Several]
      /\ \A s \in NonZero : \E k \in 1 .. n + 0 :
           level[k] = [weight |-> weights[s], index |-> s]
      /\ Ordered(level)
  <2> HIDE DEF level
  <2>1. 0 \in Nat
    OBVIOUS
  <2>2. LevelHas(level, <<>>, origin, 0)
    BY <1>1, <2>1, NoPairs, LevelFacts
  <2>3. QED
    BY <2>2, Zenon DEF LevelHas
<1> HIDE DEF level, n
<1>4. \A s \in NonZero : weights[s] \in 1 .. 2 ^ (1 - 1) * MaxWeight
  <2> SUFFICES ASSUME NEW s \in NonZero
               PROVE  weights[s] \in 1 .. 2 ^ (1 - 1) * MaxWeight
    OBVIOUS
  <2> DEFINE p == 2 ^ (1 - 1) * MaxWeight
  <2>1. p \in Nat /\ MaxWeight \in Nat /\ MaxWeight <= p
    BY <1>2, Weights
  <2>2. weights[s] \in 0 .. MaxWeight /\ weights[s] > 0
    BY NonZeroFinite DEF WeightsType
  <2> HIDE DEF p
  <2>3. weights[s] \in 1 .. p
    BY <2>1, <2>2
  <2>4. QED
    BY <2>3 DEF p
<1>5. \A k \in 1 .. n : level[k].weight \in 1 .. 2 ^ (1 - 1) * MaxWeight
  <2> SUFFICES ASSUME NEW k \in 1 .. n
               PROVE  level[k].weight \in 1 .. 2 ^ (1 - 1) * MaxWeight
    OBVIOUS
  <2>1. /\ origin[k] \in NonZero
        /\ level[k] = [weight |-> weights[origin[k]], index |-> origin[k]]
    BY <1>2, <1>3
  <2>2. level[k].weight = weights[origin[k]]
    BY <2>1
  <2>3. QED
    BY <1>4, <2>1, <2>2, Zenon
<1>6. 2 * n - n <= 2 ^ ((MaximumLength + 1) - 1)
  <2>1. (MaximumLength + 1) - 1 = MaximumLength
    BY Constants
  <2> DEFINE p == 2 ^ MaximumLength
  <2>2. p \in Nat /\ Symbols \in 0 .. p
    BY Constants, PackageMergeAssumption
  <2>3. n <= Symbols
    BY NonZeroFinite DEF n
  <2> HIDE DEF p
  <2>4. 2 * n - n <= p
    BY <1>2, <2>2, <2>3
  <2>5. QED
    BY <2>1, <2>4 DEF p
<1>7. n >= 2
  BY DEF n
<1>8. Len(level) = n /\ DOMAIN level = 1 .. n
  BY <1>2, <1>3
<1>9. \A s \in NonZero : \E k \in 1 .. n : level[k] = [weight |-> weights[s], index |-> s]
  BY <1>2, <1>3
<1> DEFINE B == 2 ^ ((MaximumLength + 1) - 1)
           W == 1 .. 2 ^ (1 - 1) * MaxWeight
<1> HIDE DEF B, W
<1>10. n <= n /\ n < 2 * n /\ 2 * n - n <= B /\ ~ (n = 2 * n - 1)
  BY <1>2, <1>6, <1>7 DEF B
<1>11. GoodLevel(level, 1)
  BY <1>2, <1>3, <1>5, <1>8, <1>9, <1>10, Zenon DEF GoodLevel, n, B
<1>12. QED
  BY <1>11 DEF level

LEMMA GoodNext ==
  ASSUME WeightsType, NEW l \in 1 .. MaximumLength, l < MaximumLength,
         NEW level, GoodLevel(level, l),
         NEW next, NEW origin, LevelIs(next, Pairs(level), origin)
  PROVE  GoodLevel(next, l + 1)
<1> DEFINE n == Cardinality(NonZero)
           len == Len(level)
           m == Len(level) \div 2
           pairs == Pairs(level)
           W == 1 .. 2 ^ ((l + 1) - 1) * MaxWeight
           B == 2 ^ ((MaximumLength + 1) - l)
           C == 2 ^ ((MaximumLength + 1) - (l + 1))
<1>1. /\ m \in Nat /\ 2 * m <= len /\ len <= 2 * m + 1
      /\ PairsOf(pairs, m) /\ Len(pairs) = m
      /\ \A k \in 1 .. m :
           /\ 2 * k - 1 \in 1 .. len /\ 2 * k \in 1 .. len
           /\ pairs[k].weight = level[2 * k - 1].weight + level[2 * k].weight
           /\ pairs[k].weight \in W
  BY PairsAre
<1>2. /\ len \in Nat /\ DOMAIN level = 1 .. len /\ Ordered(level)
      /\ \A k \in 1 .. len : level[k].weight \in 1 .. 2 ^ (l - 1) * MaxWeight
      /\ \A s \in NonZero : \E k \in 1 .. len :
           level[k] = [weight |-> weights[s], index |-> s]
      /\ n <= len /\ len < 2 * n /\ 2 * n - len <= B
      /\ len = 2 * n - 1 =>
           \A k \in 1 .. len :
             level[k].index # Several => level[k].weight < level[len].weight
  BY Zenon DEF GoodLevel
<1> HIDE DEF pairs, m, W
<1>3. /\ n + m \in Nat /\ Len(next) = n + m /\ DOMAIN next = 1 .. n + m
      /\ \A k \in 1 .. n + m :
           \/ /\ origin[k] \in NonZero
              /\ next[k] = [weight |-> weights[origin[k]], index |-> origin[k]]
           \/ \E j \in 1 .. m :
                /\ origin[k] = - j
                /\ next[k] = [weight |-> pairs[j].weight, index |-> Several]
      /\ \A s \in NonZero : \E k \in 1 .. n + m :
           next[k] = [weight |-> weights[s], index |-> s]
      /\ \A j \in 1 .. m : \E k \in 1 .. n + m :
           next[k] = [weight |-> pairs[j].weight, index |-> Several]
      /\ Ordered(next)
  <2>1. LevelIs(next, pairs, origin)
    BY DEF pairs
  <2>2. LevelHas(next, pairs, origin, m)
    BY <1>1, <2>1, LevelFacts
  <2>3. QED
    BY <2>2, Zenon DEF LevelHas
<1>4. n \in Nat
  BY NonZeroFinite
<1> HIDE DEF n, len
<1>5. \A s \in NonZero : weights[s] \in Int /\ weights[s] > 0 /\ s # Several /\ weights[s] \in W
  <2> SUFFICES ASSUME NEW s \in NonZero
               PROVE  weights[s] \in Int /\ weights[s] > 0 /\ s # Several /\ weights[s] \in W
    OBVIOUS
  <2> DEFINE p == 2 ^ ((l + 1) - 1) * MaxWeight
  <2>1. p \in Nat /\ MaxWeight \in Nat /\ MaxWeight <= p
    <3>1. l + 1 \in 1 .. MaximumLength
      BY Constants
    <3>2. QED
      BY <3>1, Weights
  <2>2. weights[s] \in 0 .. MaxWeight /\ weights[s] > 0 /\ s # 0
    BY NonZeroFinite DEF WeightsType
  <2> HIDE DEF p
  <2>3. weights[s] \in 1 .. p
    BY <2>1, <2>2
  <2>4. QED
    BY <2>2, <2>3 DEF p, W, Several
<1>6. \A k \in 1 .. n + m : next[k].weight \in W
  <2> SUFFICES ASSUME NEW k \in 1 .. n + m
               PROVE  next[k].weight \in W
    OBVIOUS
  <2>1. CASE /\ origin[k] \in NonZero
             /\ next[k] = [weight |-> weights[origin[k]], index |-> origin[k]]
    BY <1>5, <2>1
  <2>2. CASE \E j \in 1 .. m :
                /\ origin[k] = - j
                /\ next[k] = [weight |-> pairs[j].weight, index |-> Several]
    BY <1>1, <2>2
  <2>3. QED
    BY <1>3, <2>1, <2>2
<1>7. B = 2 * C
  <2>1. /\ (MaximumLength + 1) - (l + 1) \in Nat
        /\ ((MaximumLength + 1) - (l + 1)) + 1 = (MaximumLength + 1) - l
    BY Constants
  <2>2. QED
    BY <2>1, PowerSuccessor
<1>8. C \in Nat
  <2>1. (MaximumLength + 1) - (l + 1) \in Nat
    BY Constants
  <2>2. QED
    BY <2>1, PowerSuccessor
<1> HIDE DEF B, C
<1>9. n <= n + m /\ n + m < 2 * n /\ 2 * n - (n + m) <= C
  BY <1>1, <1>2, <1>4, <1>7, <1>8
<1>10. ASSUME n + m = 2 * n - 1, NEW k \in 1 .. n + m, next[k].index # Several
       PROVE  next[k].weight < next[n + m].weight
  <2>1. m = n - 1 /\ (len = 2 * m \/ len = 2 * n - 1)
    BY <1>1, <1>2, <1>4, <1>10
  <2>2. /\ origin[k] \in NonZero
        /\ next[k] = [weight |-> weights[origin[k]], index |-> origin[k]]
    <3>1. ~ \E j \in 1 .. m :
                /\ origin[k] = - j
                /\ next[k] = [weight |-> pairs[j].weight, index |-> Several]
      <4> SUFFICES ASSUME NEW j \in 1 .. m,
                          next[k] = [weight |-> pairs[j].weight, index |-> Several]
                   PROVE  FALSE
        OBVIOUS
      <4>1. next[k].index = Several
        OBVIOUS
      <4>2. QED
        BY <1>10, <4>1
    <3>2. QED
      BY <1>3, <3>1
  <2> DEFINE s == origin[k]
  <2>3. s \in NonZero /\ next[k].weight = weights[s]
    BY <2>2
  <2> HIDE DEF s
  <2>4. PICK p \in 1 .. len : level[p] = [weight |-> weights[s], index |-> s]
    BY <1>2, <2>3
  <2>5. level[p].weight = weights[s] /\ level[p].index # Several
    BY <1>5, <2>3, <2>4
  <2>6. p <= 2 * m
    <3>1. CASE len = 2 * m
      BY <1>1, <3>1
    <3>2. CASE len = 2 * n - 1
      <4>1. level[p].weight < level[len].weight
        BY <1>2, <2>5, <3>2
      <4>2. p # len
        BY <1>5, <2>3, <2>5, <4>1
      <4>3. QED
        BY <1>1, <1>2, <4>2
    <3>3. QED
      BY <2>1, <3>1, <3>2
  <2>7. m \in 1 .. m
    <3>1. m > 0
      BY <1>1, <2>6
    <3>2. QED
      BY <1>1, <3>1
  <2>8. level[p].weight <= level[2 * m].weight
    BY <1>1, <1>2, <2>6, <2>7 DEF Ordered
  <2>9. /\ pairs[m].weight = level[2 * m - 1].weight + level[2 * m].weight
        /\ 2 * m - 1 \in 1 .. len /\ 2 * m \in 1 .. len
    BY <1>1, <2>7
  <2> DEFINE a == level[2 * m - 1].weight
             b == level[2 * m].weight
  <2>10. a \in Int /\ b \in Int /\ a > 0
    <3> DEFINE Q == 2 ^ (l - 1) * MaxWeight
    <3>1. Q \in Nat
      BY Weights
    <3>2. a \in 1 .. Q /\ b \in 1 .. Q
      BY <1>2, <2>9
    <3> HIDE DEF Q, a, b
    <3>3. QED
      BY <3>1, <3>2
  <2>11. weights[s] < pairs[m].weight
    <3>1. weights[s] <= b /\ pairs[m].weight = a + b /\ weights[s] \in Int
      BY <1>5, <2>3, <2>5, <2>8, <2>9
    <3> HIDE DEF a, b
    <3>2. QED
      BY <2>10, <3>1
  <2>12. PICK q \in 1 .. n + m : next[q] = [weight |-> pairs[m].weight, index |-> Several]
    BY <1>3, <2>7
  <2>13. next[q].weight = pairs[m].weight
    BY <2>12
  <2>14. next[q].weight <= next[n + m].weight
    <3>1. n + m \in 1 .. n + m /\ q <= n + m
      BY <1>1, <1>4
    <3>2. QED
      BY <1>3, <3>1 DEF Ordered
  <2> DEFINE x == next[n + m].weight
             y == pairs[m].weight
  <2>15. x \in W /\ y \in W
    <3>1. n + m \in 1 .. n + m
      BY <1>1, <1>4
    <3>2. QED
      BY <1>1, <1>6, <2>7, <3>1
  <2>16. x \in Int /\ y \in Int
    BY <2>15 DEF W
  <2>17. weights[s] < x
    <3>1. weights[s] \in Int /\ weights[s] < y /\ y <= x
      BY <1>5, <2>3, <2>11, <2>13, <2>14
    <3> HIDE DEF x, y
    <3>2. QED
      BY <2>16, <3>1
  <2>18. QED
    BY <2>3, <2>17
<1>11. /\ n <= Len(next) /\ Len(next) < 2 * n /\ 2 * n - Len(next) <= C
       /\ Len(next) \in Nat /\ DOMAIN next = 1 .. Len(next)
  BY <1>3, <1>9
<1>12. Len(next) = 2 * n - 1 =>
         \A k \in 1 .. Len(next) :
           next[k].index # Several => next[k].weight < next[Len(next)].weight
  BY <1>3, <1>10
<1>13. QED
  BY <1>3, <1>6, <1>11, <1>12, Zenon DEF GoodLevel, n, C, W

-----------------------------------------------------------------------------
(***************************************************************************)
(* Selecting the first packages of a level.                                *)
(***************************************************************************)
AsHeavyAs(level, S, k) == {p \in S : level[p].weight = level[k].weight}

\* f may be what is first when packages as heavy change places.
Selects(level, w, f) ==
  /\ f \in SUBSET DOMAIN level /\ Cardinality(f) = w
  /\ \A k \in DOMAIN level :
       Cardinality(AsHeavyAs(level, f, k)) = Cardinality(AsHeavyAs(level, 1 .. w, k))

SeveralIn(level, f) == {p \in f : level[p].index = Several}

SelectionOf(level, f) ==
  [symbols |-> {level[p].index : p \in f} \ {Several},
   several |-> Cardinality(SeveralIn(level, f))]

LEMMA FirstIs ==
  ASSUME NEW level, NEW w, NEW selection \in First(level, w)
  PROVE  \E f : Selects(level, w, f) /\ selection = SelectionOf(level, f)
<1>1. PICK f \in kSubset(w, DOMAIN level) :
        /\ selection = [symbols |-> {level[p].index : p \in f} \ {Several},
                        several |-> Cardinality({p \in f : level[p].index = Several})]
        /\ \A package \in Range(level) :
             Cardinality({p \in f : level[p].weight = package.weight}) =
             Cardinality({p \in 1 .. w : level[p].weight = package.weight})
  BY DEF First, Quantify
<1>2. f \in SUBSET DOMAIN level /\ Cardinality(f) = w
  BY DEF kSubset
<1>3. \A k \in DOMAIN level : level[k] \in Range(level)
  BY DEF Range
<1>4. \A k \in DOMAIN level :
        Cardinality(AsHeavyAs(level, f, k)) = Cardinality(AsHeavyAs(level, 1 .. w, k))
  BY <1>1, <1>3, Zenon DEF AsHeavyAs
<1>5. selection = SelectionOf(level, f)
  BY <1>1, Zenon DEF SelectionOf, SeveralIn
<1>6. QED
  BY <1>2, <1>4, <1>5 DEF Selects

\* What is selected is as heavy as one of the first, and not heavier than what
\* is not selected.
LEMMA SelectedIsLight ==
  ASSUME NEW level, NEW l \in 1 .. MaximumLength, GoodLevel(level, l),
         NEW w \in Nat, w <= Len(level), NEW f, Selects(level, w, f), NEW p \in f
  PROVE  /\ p \in 1 .. Len(level)
         /\ \E r \in 1 .. w : level[r].weight = level[p].weight
         /\ \A q \in 1 .. Len(level) : q \notin f => level[p].weight <= level[q].weight
<1> DEFINE len == Len(level)
           All(k) == AsHeavyAs(level, 1 .. len, k)
           Mine(k) == AsHeavyAs(level, f, k)
           Ahead(k) == AsHeavyAs(level, 1 .. w, k)
<1>1. /\ len \in Nat /\ DOMAIN level = 1 .. len /\ Ordered(level)
      /\ \A k \in 1 .. len : level[k].weight \in 1 .. 2 ^ (l - 1) * MaxWeight
  BY Zenon DEF GoodLevel
<1>2. \A k \in 1 .. len : level[k].weight \in Int
  BY <1>1
<1>3. /\ f \in SUBSET (1 .. len) /\ p \in 1 .. len
      /\ \A k \in 1 .. len : Cardinality(Mine(k)) = Cardinality(Ahead(k))
  BY <1>1 DEF Selects
<1> HIDE DEF len
<1>4. IsFiniteSet(1 .. len) /\ 1 .. w \in SUBSET (1 .. len)
  BY <1>1, FS_Interval DEF len
<1>5. \A k \in 1 .. len : /\ All(k) \in SUBSET (1 .. len) /\ Mine(k) \in SUBSET All(k)
                          /\ Ahead(k) \in SUBSET All(k)
  BY <1>3, <1>4 DEF AsHeavyAs
<1>6. \A k \in 1 .. len :
        /\ IsFiniteSet(All(k)) /\ IsFiniteSet(Mine(k)) /\ IsFiniteSet(Ahead(k))
        /\ Cardinality(Mine(k)) = 0 <=> Mine(k) = {}
        /\ Cardinality(Ahead(k)) = 0 <=> Ahead(k) = {}
        /\ Cardinality(All(k)) = Cardinality(Mine(k)) => All(k) = Mine(k)
  <2> SUFFICES ASSUME NEW k \in 1 .. len
               PROVE  /\ IsFiniteSet(All(k)) /\ IsFiniteSet(Mine(k))
                      /\ IsFiniteSet(Ahead(k))
                      /\ Cardinality(Mine(k)) = 0 <=> Mine(k) = {}
                      /\ Cardinality(Ahead(k)) = 0 <=> Ahead(k) = {}
                      /\ Cardinality(All(k)) = Cardinality(Mine(k)) => All(k) = Mine(k)
    OBVIOUS
  <2> DEFINE A == All(k)
             M == Mine(k)
             F == Ahead(k)
  <2>1. A \in SUBSET (1 .. len) /\ M \in SUBSET A /\ F \in SUBSET A
    BY <1>5
  <2> HIDE DEF A, M, F
  <2>2. IsFiniteSet(A)
    BY <1>4, <2>1, FS_Subset
  <2>3. IsFiniteSet(M) /\ (Cardinality(A) = Cardinality(M) => A = M)
    BY <2>1, <2>2, FS_Subset
  <2>4. IsFiniteSet(F)
    BY <2>1, <2>2, FS_Subset
  <2>5. QED
    BY <2>2, <2>3, <2>4, FS_EmptySet DEF A, M, F
<1>7. \E r \in 1 .. w : level[r].weight = level[p].weight
  <2>1. p \in Mine(p)
    BY DEF AsHeavyAs
  <2>2. Mine(p) # {} /\ Cardinality(Mine(p)) = Cardinality(Ahead(p))
    BY <1>3, <2>1
  <2> HIDE DEF Mine, Ahead
  <2>3. Ahead(p) # {}
    BY <1>3, <1>6, <2>2
  <2>4. PICK r : r \in Ahead(p)
    BY <2>3
  <2>5. QED
    BY <2>4 DEF Ahead, AsHeavyAs
<1>8. ASSUME NEW q \in 1 .. len, q \notin f, ~ (level[p].weight <= level[q].weight)
      PROVE  FALSE
  <2>1. q \in All(q) /\ q \notin Mine(q)
    BY <1>8 DEF AsHeavyAs
  <2>2. Ahead(q) # All(q)
    <3> HIDE DEF Mine, Ahead, All
    <3>1. All(q) # Mine(q)
      BY <2>1
    <3>2. Cardinality(Ahead(q)) # Cardinality(All(q))
      BY <1>3, <1>6, <3>1
    <3>3. QED
      BY <3>2
  <2>3. PICK r \in 1 .. len : level[r].weight = level[q].weight /\ r \notin 1 .. w
    <3>1. PICK r \in All(q) : r \notin Ahead(q)
      <4> HIDE DEF All, Ahead
      <4>1. QED
        BY <1>5, <2>2
    <3>2. QED
      BY <3>1 DEF AsHeavyAs
  <2>4. PICK h \in 1 .. w : level[h].weight = level[p].weight
    BY <1>7
  <2>5. h \in 1 .. len /\ h <= r
    BY <1>1, <1>4, <2>3, <2>4
  <2>6. level[h].weight <= level[r].weight
    BY <1>1, <2>5 DEF Ordered
  <2>7. QED
    BY <1>8, <2>3, <2>4, <2>6
<1>9. QED
  BY <1>3, <1>7, <1>8 DEF len

\* How many symbols and how many pairs are selected, and which.
SelectionHas(level, pairs, m, w, f) ==
  LET symbols == SelectionOf(level, f).symbols
      several == SelectionOf(level, f).several
  IN /\ symbols \in SUBSET NonZero
     /\ several \in Nat /\ several <= m
     /\ Cardinality(symbols) = w - several
     /\ \A s \in symbols : \E p \in f :
          level[p].index = s /\ level[p].weight = weights[s]
     /\ \A p \in f : level[p].index \in NonZero => level[p].index \in symbols
     /\ several > 0 => \E p \in f, j \in 1 .. m :
                         j >= several /\ level[p].weight = pairs[j].weight

LEMMA SelectionFacts ==
  ASSUME NEW m \in Nat, NEW pairs, NEW level, NEW origin,
         LevelHas(level, pairs, origin, m),
         NEW w \in Nat, NEW f, Selects(level, w, f)
  PROVE  SelectionHas(level, pairs, m, w, f)
<1> DEFINE len == Cardinality(NonZero) + m
           symbols == {level[p].index : p \in f} \ {Several}
           S == SeveralIn(level, f)
           R == f \ S
<1>1. /\ SelectionOf(level, f).symbols = symbols
      /\ SelectionOf(level, f).several = Cardinality(S)
  BY DEF SelectionOf
<1>2. /\ len \in Nat /\ DOMAIN level = 1 .. len
      /\ \A k \in 1 .. len :
           \/ /\ origin[k] \in NonZero
              /\ level[k] = [weight |-> weights[origin[k]], index |-> origin[k]]
           \/ \E j \in 1 .. m :
                /\ origin[k] = - j
                /\ level[k] = [weight |-> pairs[j].weight, index |-> Several]
      /\ \A j, k \in 1 .. len : origin[j] = origin[k] => j = k
  BY Zenon DEF LevelHas
<1>3. f \in SUBSET (1 .. len) /\ Cardinality(f) = w
  BY <1>2, Zenon DEF Selects
<1> HIDE DEF len
<1>4. IsFiniteSet(f)
  <2>1. IsFiniteSet(1 .. len)
    BY <1>2, FS_Interval
  <2>2. QED
    BY <1>3, <2>1, FS_Subset
<1>5. \A k \in f :
        \/ /\ origin[k] \in NonZero /\ level[k].index = origin[k]
           /\ level[k].weight = weights[origin[k]] /\ level[k].index # Several
        \/ \E j \in 1 .. m : /\ origin[k] = - j /\ level[k].index = Several
                             /\ level[k].weight = pairs[j].weight
  <2> SUFFICES ASSUME NEW k \in f
               PROVE  \/ /\ origin[k] \in NonZero /\ level[k].index = origin[k]
                         /\ level[k].weight = weights[origin[k]] /\ level[k].index # Several
                      \/ \E j \in 1 .. m : /\ origin[k] = - j /\ level[k].index = Several
                                           /\ level[k].weight = pairs[j].weight
    OBVIOUS
  <2>1. CASE /\ origin[k] \in NonZero
             /\ level[k] = [weight |-> weights[origin[k]], index |-> origin[k]]
    <3>1. level[k].index = origin[k] /\ level[k].weight = weights[origin[k]]
      BY <2>1
    <3>2. QED
      BY <2>1, <3>1, NonZeroFinite DEF Several
  <2>2. CASE \E j \in 1 .. m :
                /\ origin[k] = - j
                /\ level[k] = [weight |-> pairs[j].weight, index |-> Several]
    BY <2>2
  <2>3. QED
    BY <1>2, <1>3, <2>1, <2>2
<1>6. \A j, k \in f : origin[j] = origin[k] => j = k
  BY <1>2, <1>3
<1>7. /\ Cardinality(S) \in Nat /\ Cardinality(S) <= m
      /\ Cardinality(S) > 0 => \E p \in f, j \in 1 .. m :
                                 j >= Cardinality(S) /\ level[p].weight = pairs[j].weight
  <2> DEFINE num == [p \in S |-> - origin[p]]
  <2>1. \A p \in S : p \in f /\ num[p] \in 1 .. m /\ level[p].weight = pairs[num[p]].weight
    <3> SUFFICES ASSUME NEW p \in f, level[p].index = Several
                 PROVE  - origin[p] \in 1 .. m /\ level[p].weight = pairs[- origin[p]].weight
      BY DEF SeveralIn
    <3>1. PICK j \in 1 .. m : origin[p] = - j /\ level[p].weight = pairs[j].weight
      BY <1>5
    <3>2. - origin[p] = j
      BY <3>1
    <3>3. QED
      BY <3>1, <3>2
  <2>2. \A p, q \in S : num[p] = num[q] => p = q
    <3> SUFFICES ASSUME NEW p \in S, NEW q \in S, - origin[p] = - origin[q]
                 PROVE  p = q
      OBVIOUS
    <3>1. p \in f /\ q \in f
      BY DEF SeveralIn
    <3>2. \A r \in S : origin[r] \in Int
      BY <1>5 DEF SeveralIn
    <3>3. origin[p] = origin[q]
      BY <3>2
    <3>4. QED
      BY <1>6, <3>1, <3>3
  <2> HIDE DEF num, S
  <2>3. /\ Cardinality(S) \in Nat /\ Cardinality(S) <= m
        /\ Cardinality(S) > 0 => \E p \in S : num[p] >= Cardinality(S)
    BY <2>1, <2>2, AtLeastAsMany
  <2>4. QED
    BY <2>1, <2>3
<1>8. Cardinality(R) = Cardinality(symbols)
  <2>1. \A p \in R : p \in f /\ level[p].index = origin[p] /\ origin[p] \in NonZero
                     /\ origin[p] \in symbols
    BY <1>5 DEF SeveralIn
  <2>2. \A s \in symbols : \E p \in R : origin[p] = s
    BY <1>5 DEF SeveralIn
  <2>3. \A p, q \in R : origin[p] = origin[q] => p = q
    BY <1>6, <2>1
  <2>4. IsFiniteSet(symbols)
    <3>1. symbols \in SUBSET NonZero
      BY <1>5
    <3> HIDE DEF symbols
    <3>2. QED
      BY <3>1, NonZeroFinite, FS_Subset
  <2> HIDE DEF R, symbols
  <2>5. QED
    BY <2>1, <2>2, <2>3, <2>4, Injected
<1>9. Cardinality(R) = w - Cardinality(S)
  <2>1. f \cap S = S
    BY DEF SeveralIn
  <2>2. Cardinality(f \ S) = Cardinality(f) - Cardinality(f \cap S)
    <3> HIDE DEF S
    <3>1. QED
      BY <1>4, FS_Difference
  <2>3. QED
    BY <1>3, <2>1, <2>2, Zenon
<1>10. symbols \in SUBSET NonZero
  BY <1>5
<1>11. \A s \in symbols : \E p \in f : level[p].index = s /\ level[p].weight = weights[s]
  BY <1>5
<1>12. \A p \in f : level[p].index \in NonZero => level[p].index \in symbols
  BY NonZeroFinite DEF Several
<1> HIDE DEF symbols, R, S
<1>13. Cardinality(symbols) = w - Cardinality(S)
  BY <1>8, <1>9
<1>14. QED
  BY <1>1, <1>7, <1>10, <1>11, <1>12, <1>13, Zenon DEF SelectionHas

\* Who is selected on one level was selected on the level above.
SelectedAbove(l, level, next, w, f) ==
  /\ l < MaximumLength /\ GoodLevel(level, l) /\ GoodLevel(next, l + 1)
  /\ w \in Nat /\ w <= Len(next) /\ Selects(next, w, f)
  /\ SelectionHas(next, Pairs(level), Len(level) \div 2, w, f)

SelectedBelow(level, v, g) ==
  /\ v \in Nat /\ 2 * v <= Len(level) /\ Selects(level, 2 * v, g)
  /\ \E pairs : \E m \in Nat : SelectionHas(level, pairs, m, 2 * v, g)

LEMMA SelectionsShrink ==
  ASSUME NEW l \in 1 .. MaximumLength, NEW level, NEW next, NEW w, NEW f, NEW v, NEW g,
         SelectedAbove(l, level, next, w, f), v = SelectionOf(next, f).several,
         SelectedBelow(level, v, g)
  PROVE  SelectionOf(level, g).symbols \subseteq SelectionOf(next, f).symbols
<1> SUFFICES ASSUME NEW s \in SelectionOf(level, g).symbols,
                    s \notin SelectionOf(next, f).symbols
             PROVE  FALSE
  OBVIOUS
<1>0. /\ l < MaximumLength /\ GoodLevel(level, l) /\ GoodLevel(next, l + 1)
      /\ w \in Nat /\ w <= Len(next) /\ Selects(next, w, f)
      /\ SelectionHas(next, Pairs(level), Len(level) \div 2, w, f)
      /\ v \in Nat /\ 2 * v <= Len(level) /\ Selects(level, 2 * v, g)
      /\ \E pairs : \E m \in Nat : SelectionHas(level, pairs, m, 2 * v, g)
  BY DEF SelectedAbove, SelectedBelow
<1> DEFINE len == Len(level)
           half == Len(level) \div 2
           W == 1 .. 2 ^ (l - 1) * MaxWeight
<1>1. /\ len \in Nat /\ Ordered(level) /\ DOMAIN level = 1 .. len
      /\ \A k \in 1 .. len : level[k].weight \in W
  BY <1>0, Zenon DEF GoodLevel
<1>2. \A k \in 1 .. len : level[k].weight \in Int /\ level[k].weight > 0
  BY <1>1
<1>3. /\ half \in Nat /\ 2 * half <= len
      /\ \A k \in 1 .. half :
           /\ 2 * k - 1 \in 1 .. len /\ 2 * k \in 1 .. len
           /\ Pairs(level)[k].weight = level[2 * k - 1].weight + level[2 * k].weight
  BY <1>0, PairsAre
<1>4. /\ Len(next) \in Nat
      /\ \A x \in NonZero : \E k \in 1 .. Len(next) :
           next[k] = [weight |-> weights[x], index |-> x]
  BY <1>0, Zenon DEF GoodLevel
<1>5. /\ s \in NonZero
      /\ \E p \in g : level[p].index = s /\ level[p].weight = weights[s]
  BY <1>0 DEF SelectionHas
<1>6. /\ \A p \in f : next[p].index \in NonZero =>
                        next[p].index \in SelectionOf(next, f).symbols
      /\ v > 0 => \E p \in f, j \in 1 .. half :
                    j >= v /\ next[p].weight = Pairs(level)[j].weight
  BY <1>0 DEF SelectionHas
<1> HIDE DEF len, half, W
<1>7. PICK p \in g : level[p].weight = weights[s]
  BY <1>5
<1>8. /\ p \in 1 .. len
      /\ \E r \in 1 .. 2 * v : level[r].weight = level[p].weight
  <2>1. 2 * v \in Nat
    BY <1>0
  <2>2. QED
    BY <1>0, <2>1, SelectedIsLight DEF len
<1>9. PICK q \in 1 .. Len(next) : next[q] = [weight |-> weights[s], index |-> s]
  BY <1>4, <1>5
<1>10. next[q].weight = weights[s] /\ next[q].index = s
  BY <1>9
<1>11. q \notin f
  BY <1>5, <1>6, <1>10
<1>12. PICK r \in 1 .. 2 * v : level[r].weight = weights[s]
  BY <1>7, <1>8
<1>13. PICK x \in f, j \in 1 .. half : j >= v /\ next[x].weight = Pairs(level)[j].weight
  <2>1. v > 0
    BY <1>0, <1>12
  <2>2. QED
    BY <1>6, <2>1
<1>14. next[x].weight <= next[q].weight
  <2>1. l + 1 \in 1 .. MaximumLength
    BY <1>0, Constants
  <2>2. QED
    BY <1>0, <1>11, <2>1, SelectedIsLight
<1>15. /\ 2 * j - 1 \in 1 .. len /\ 2 * j \in 1 .. len
       /\ next[x].weight = level[2 * j - 1].weight + level[2 * j].weight
  BY <1>3, <1>13
<1>16. r \in 1 .. len /\ r <= 2 * j
  BY <1>0, <1>1, <1>3, <1>12, <1>13, <1>15
<1>17. level[r].weight <= level[2 * j].weight
  BY <1>1, <1>15, <1>16 DEF Ordered
<1> DEFINE a == level[2 * j - 1].weight
           b == level[2 * j].weight
           c == weights[s]
<1>18. a \in Int /\ a > 0 /\ b \in Int
  BY <1>2, <1>15
<1>19. c \in Int /\ c <= b /\ a + b <= c
  <2>1. level[r].weight \in Int
    BY <1>2, <1>16
  <2>2. QED
    BY <1>10, <1>12, <1>14, <1>15, <1>17, <2>1
<1> HIDE DEF a, b, c
<1>20. QED
  BY <1>18, <1>19

\* There are packages enough on the last level, and all symbols are selected.
LEMMA LastLevelSuffices ==
  ASSUME NEW level, GoodLevel(level, MaximumLength), Cardinality(NonZero) >= 2
  PROVE  LET w == 2 * Cardinality(NonZero) - 2
         IN /\ w \in Nat /\ w <= Len(level) /\ Len(level) <= w + 1
<1> DEFINE n == Cardinality(NonZero)
           len == Len(level)
           B == 2 ^ ((MaximumLength + 1) - MaximumLength)
<1>1. len \in Nat /\ len < 2 * n /\ 2 * n - len <= B
  BY Zenon DEF GoodLevel
<1>2. B = 2
  <2>1. PICK d \in Nat : d = 0
    OBVIOUS
  <2>2. (MaximumLength + 1) - MaximumLength = d + 1
    BY <2>1, Constants
  <2>3. 2 ^ (d + 1) = 2 * 2 ^ d
    BY PowerSuccessor
  <2>4. 2 ^ d = 1
    BY <2>1
  <2>5. QED
    BY <2>2, <2>3, <2>4
<1>3. n \in Nat /\ n >= 2
  BY NonZeroFinite
<1> HIDE DEF n, len, B
<1>4. 2 * n - 2 \in Nat /\ 2 * n - 2 <= len /\ len <= (2 * n - 2) + 1
  BY <1>1, <1>2, <1>3
<1>5. QED
  BY <1>4 DEF n, len

LEMMA LastSelectionHasAll ==
  ASSUME NEW level, GoodLevel(level, MaximumLength), Cardinality(NonZero) >= 2,
         NEW pairs, NEW m \in Nat, NEW w \in Nat, w = 2 * Cardinality(NonZero) - 2,
         NEW f, Selects(level, w, f), SelectionHas(level, pairs, m, w, f)
  PROVE  SelectionOf(level, f).symbols = NonZero
<1> DEFINE n == Cardinality(NonZero)
           len == Len(level)
<1>1. /\ len \in Nat /\ DOMAIN level = 1 .. len
      /\ \A s \in NonZero : \E k \in 1 .. len :
           level[k] = [weight |-> weights[s], index |-> s]
      /\ len = 2 * n - 1 =>
           \A k \in 1 .. len :
             level[k].index # Several => level[k].weight < level[len].weight
      /\ \A k \in 1 .. len : level[k].weight \in 1 .. 2 ^ (MaximumLength - 1) * MaxWeight
  BY Zenon DEF GoodLevel
<1>2. /\ w <= len /\ len <= w + 1
  BY LastLevelSuffices
<1>3. \A k \in 1 .. len : level[k].weight \in Int
  BY <1>1
<1>4. /\ SelectionOf(level, f).symbols \subseteq NonZero
      /\ \A p \in f : level[p].index \in NonZero =>
                        level[p].index \in SelectionOf(level, f).symbols
  BY DEF SelectionHas
<1>5. f \in SUBSET (1 .. len) /\ Cardinality(f) = w
  BY <1>1, Zenon DEF Selects
<1>6. n \in Nat /\ n >= 2 /\ w = 2 * n - 2 /\ MaximumLength \in 1 .. MaximumLength
  BY NonZeroFinite, Constants
<1> HIDE DEF n
<1>7. IsFiniteSet(1 .. len) /\ Cardinality(1 .. len) = len
  <2> HIDE DEF len
  <2>1. IsFiniteSet(1 .. len)
    BY <1>1, FS_Interval
  <2>2. Cardinality(1 .. len) = IF 1 > len THEN 0 ELSE len - 1 + 1
    BY <1>1, FS_Interval
  <2>3. QED
    BY <1>1, <2>1, <2>2
<1>8. ASSUME NEW s \in NonZero
      PROVE  s \in SelectionOf(level, f).symbols
  <2>1. PICK q \in 1 .. len : level[q] = [weight |-> weights[s], index |-> s]
    BY <1>1
  <2>2. level[q].index = s /\ s # Several
    BY <2>1, NonZeroFinite DEF Several
  <2>3. SUFFICES ASSUME q \notin f
                 PROVE  FALSE
    BY <1>4, <2>2
  <2> DEFINE T == (1 .. len) \ {q}
  <2>4. T \in SUBSET (1 .. len) /\ f \in SUBSET T
    BY <1>5, <2>3
  <2> HIDE DEF len
  <2>5. Cardinality(T) = len - 1
    <3>1. Cardinality((1 .. len) \ {q}) = Cardinality(1 .. len) - 1
      BY <1>7, FS_RemoveElement
    <3>2. QED
      BY <1>7, <3>1
  <2>6. IsFiniteSet(T)
    BY <1>7, <2>4, FS_Subset
  <2>7. w <= len - 1 /\ len = w + 1
    <3> HIDE DEF T
    <3>1. w <= len - 1
      BY <1>5, <2>4, <2>5, <2>6, FS_Subset
    <3>2. QED
      BY <1>1, <1>2, <3>1
  <2>8. f = T
    <3> HIDE DEF T
    <3>1. Cardinality(f) = Cardinality(T)
      BY <1>1, <1>5, <2>5, <2>7
    <3>2. QED
      BY <2>4, <2>6, <3>1, FS_Subset
  <2>9. len = 2 * n - 1 /\ len \in 1 .. len
    BY <1>1, <1>6, <2>7
  <2>10. level[q].weight < level[len].weight
    BY <1>1, <2>2, <2>9
  <2>11. level[q].weight \in Int /\ level[len].weight \in Int
    BY <1>3, <2>9
  <2>12. q # len
    BY <2>10, <2>11
  <2>13. len \in f
    BY <2>8, <2>9, <2>12
  <2>14. level[len].weight <= level[q].weight
    BY <1>2, <1>6, <2>3, <2>13, SelectedIsLight DEF len
  <2>15. QED
    BY <2>10, <2>11, <2>14
<1>9. QED
  BY <1>4, <1>8

-----------------------------------------------------------------------------
(***************************************************************************)
(* What lengths counted from such selections use up.  All of A are in the  *)
(* first of L sets, the sets shrink, and their sizes are 2v[t - 1] - v[t], *)
(* where v begins with one less than there are elements and ends with 0.   *)
(***************************************************************************)
Shrinking(S, v, A, L) ==
  /\ S[1] = A /\ \A t \in 1 .. L : S[t] \in SUBSET A
  /\ \A t \in 1 .. L - 1 : S[t + 1] \subseteq S[t]
  /\ v[0] = Cardinality(A) - 1 /\ v[L] = 0 /\ \A t \in 0 .. L : v[t] \in Nat
  /\ \A t \in 1 .. L : Cardinality(S[t]) = 2 * v[t - 1] - v[t]

With(S, t, s) == {u \in 1 .. t : s \in S[u]}

SpaceAfter(S, A, L, t) == [s \in A |-> 2 ^ (L - Cardinality(With(S, t, s)))]

LEMMA WithSize ==
  ASSUME NEW L \in Nat, NEW A, NEW S, NEW t \in Nat, t <= L, NEW s
  PROVE  /\ Cardinality(With(S, t, s)) \in 0 .. t
         /\ L - Cardinality(With(S, t, s)) \in Nat
<1> DEFINE T == With(S, t, s)
<1>1. T \in SUBSET (1 .. t)
  BY DEF With
<1>2. IsFiniteSet(1 .. t) /\ Cardinality(1 .. t) = t
  <2>1. IsFiniteSet(1 .. t)
    BY FS_Interval
  <2>2. Cardinality(1 .. t) = IF 1 > t THEN 0 ELSE t - 1 + 1
    BY FS_Interval
  <2>3. QED
    BY <2>1, <2>2
<1> HIDE DEF T
<1>3. Cardinality(T) \in Nat /\ Cardinality(T) <= t
  <2>1. Cardinality(T) \in Nat /\ Cardinality(T) <= Cardinality(1 .. t)
    BY <1>1, <1>2, SizeOf
  <2>2. QED
    BY <1>2, <2>1
<1>4. QED
  BY <1>3 DEF T

LEMMA ShrinkingHolds ==
  ASSUME NEW L \in Nat \ {0}, NEW A, IsFiniteSet(A), NEW S, NEW v, Shrinking(S, v, A, L),
         NEW t \in 1 .. L, NEW s \in S[t]
  PROVE  With(S, t, s) = 1 .. t
<1> DEFINE N == {k \in Nat : \A u \in 1 .. t : u + k = t => s \in S[u]}
<1>1. 0 \in N
  OBVIOUS
<1>2. ASSUME NEW k \in Nat, k \in N
      PROVE  k + 1 \in N
  <2> SUFFICES ASSUME NEW u \in 1 .. t, u + (k + 1) = t
               PROVE  s \in S[u]
    OBVIOUS
  <2>1. u + 1 \in 1 .. t /\ (u + 1) + k = t /\ u \in 1 .. L - 1
    OBVIOUS
  <2>2. s \in S[u + 1]
    BY <1>2, <2>1
  <2>3. QED
    BY <2>1, <2>2 DEF Shrinking
<1> HIDE DEF N
<1>3. \A k \in Nat : k \in N
  BY <1>1, <1>2, Induct
<1>4. ASSUME NEW u \in 1 .. t
      PROVE  s \in S[u]
  <2>1. t - u \in Nat /\ u + (t - u) = t
    OBVIOUS
  <2>2. t - u \in N
    BY <1>3, <2>1
  <2>3. QED
    BY <2>1, <2>2 DEF N
<1>5. QED
  BY <1>4 DEF With

\* One more set halves what its elements use up.
LEMMA SpaceHalves ==
  ASSUME NEW L \in Nat \ {0}, NEW A, IsFiniteSet(A), NEW S, NEW v, Shrinking(S, v, A, L),
         NEW t \in 0 .. L - 1
  PROVE  LET p == 2 ^ (L - (t + 1))
         IN /\ p \in Nat /\ 2 ^ (L - t) = 2 * p
            /\ SumFunctionOnSet(SpaceAfter(S, A, L, t), A) \in Nat
            /\ SumFunctionOnSet(SpaceAfter(S, A, L, t + 1), A) \in Nat
            /\ SumFunctionOnSet(SpaceAfter(S, A, L, t), A) =
                 SumFunctionOnSet(SpaceAfter(S, A, L, t + 1), A)
                   + p * Cardinality(S[t + 1])
<1> DEFINE p == 2 ^ (L - (t + 1))
           f == SpaceAfter(S, A, L, t)
           g == SpaceAfter(S, A, L, t + 1)
           B == S[t + 1]
           C == A \ B
<1>1. /\ L - (t + 1) \in Nat /\ (L - (t + 1)) + 1 = L - t
      /\ t \in Nat /\ t + 1 \in Nat /\ t <= L /\ t + 1 <= L /\ t + 1 \in 1 .. L
  OBVIOUS
<1>2. p \in Nat /\ 2 ^ (L - t) = 2 * p
  BY <1>1, PowerSuccessor
<1>3. \A s \in A : f[s] \in Nat /\ g[s] \in Nat
  <2> SUFFICES ASSUME NEW s \in A
               PROVE  /\ 2 ^ (L - Cardinality(With(S, t, s))) \in Nat
                      /\ 2 ^ (L - Cardinality(With(S, t + 1, s))) \in Nat
    BY DEF SpaceAfter
  <2>1. L - Cardinality(With(S, t, s)) \in Nat
    BY <1>1, WithSize
  <2>2. L - Cardinality(With(S, t + 1, s)) \in Nat
    BY <1>1, WithSize
  <2>3. QED
    BY <2>1, <2>2, PowerSuccessor
<1>4. B \in SUBSET A /\ C \in SUBSET A
  BY <1>1 DEF Shrinking
<1>5. ASSUME NEW s \in B
      PROVE  f[s] = 2 * p /\ g[s] = p
  <2>1. With(S, t + 1, s) = 1 .. t + 1
    BY <1>1, ShrinkingHolds
  <2>2. With(S, t, s) = 1 .. t
    BY <1>1, <2>1 DEF With
  <2>3. Cardinality(1 .. t + 1) = t + 1 /\ Cardinality(1 .. t) = t
    <3>1. Cardinality(1 .. t) = IF 1 > t THEN 0 ELSE t - 1 + 1
      BY FS_Interval
    <3>2. Cardinality(1 .. t + 1) = IF 1 > t + 1 THEN 0 ELSE (t + 1) - 1 + 1
      BY FS_Interval
    <3>3. QED
      BY <1>1, <3>1, <3>2
  <2>4. f[s] = 2 ^ (L - t) /\ g[s] = 2 ^ (L - (t + 1))
    <3>1. s \in A
      BY <1>4
    <3>2. f[s] = 2 ^ (L - Cardinality(With(S, t, s)))
      BY <3>1 DEF SpaceAfter
    <3>3. g[s] = 2 ^ (L - Cardinality(With(S, t + 1, s)))
      BY <3>1 DEF SpaceAfter
    <3>4. QED
      BY <2>1, <2>2, <2>3, <3>2, <3>3, Zenon
  <2>5. QED
    BY <1>2, <2>4
<1>6. ASSUME NEW s \in C
      PROVE  f[s] = g[s]
  <2>1. With(S, t + 1, s) = With(S, t, s)
    BY <1>1 DEF With
  <2>2. QED
    BY <2>1, Zenon DEF SpaceAfter
<1>7. Terms(f, A) /\ Terms(g, A) /\ Apart(B, C) /\ B \cup C = A
  BY <1>3, <1>4 DEF Terms, Apart
<1>8. IsFiniteSet(B) /\ IsFiniteSet(C) /\ Cardinality(B) \in Nat
  <2> HIDE DEF B, C
  <2>1. QED
    BY <1>4, SizeOf
<1>9. SumFunctionOnSet(f, B) = (2 * p) * Cardinality(B)
  <2> HIDE DEF f, g, B, C, p
  <2>1. 2 * p \in Nat
    BY <1>2
  <2>2. QED
    BY <1>5, <1>8, <2>1, SumConstant
<1>10. SumFunctionOnSet(g, B) = p * Cardinality(B)
  <2> HIDE DEF f, g, B, C, p
  <2>1. QED
    BY <1>2, <1>5, <1>8, SumConstant
<1>11. SumFunctionOnSet(f, C) = SumFunctionOnSet(g, C)
  <2>1. \A s \in C : f[s] \in Nat /\ f[s] = g[s]
    BY <1>3, <1>4, <1>6
  <2> HIDE DEF f, g, C
  <2>2. QED
    BY <1>8, <2>1, SumSame
<1> HIDE DEF f, g, B, C, p
<1>12. /\ SumFunctionOnSet(f, A) = SumFunctionOnSet(f, B) + SumFunctionOnSet(f, C)
       /\ SumFunctionOnSet(g, A) = SumFunctionOnSet(g, B) + SumFunctionOnSet(g, C)
  <2>1. SumFunctionOnSet(f, B \cup C) = SumFunctionOnSet(f, B) + SumFunctionOnSet(f, C)
    BY <1>4, <1>7, SumUnion
  <2>2. SumFunctionOnSet(g, B \cup C) = SumFunctionOnSet(g, B) + SumFunctionOnSet(g, C)
    BY <1>4, <1>7, SumUnion
  <2>3. QED
    BY <1>7, <2>1, <2>2, Zenon
<1>13. /\ SumFunctionOnSet(g, C) \in Nat /\ SumFunctionOnSet(f, A) \in Nat
       /\ SumFunctionOnSet(g, A) \in Nat
  <2>1. SumFunctionOnSet(g, C) \in Nat
    BY <1>4, <1>7, SumSubset
  <2>2. A \in SUBSET A
    OBVIOUS
  <2>3. SumFunctionOnSet(g, A) \in Nat /\ SumFunctionOnSet(f, A) \in Nat
    BY <1>7, <2>2, SumSubset
  <2>4. QED
    BY <2>1, <2>3
<1> DEFINE x == p * Cardinality(B)
<1>14. x \in Nat /\ (2 * p) * Cardinality(B) = 2 * x
  BY <1>2, <1>8
<1> HIDE DEF x
<1>15. SumFunctionOnSet(f, A) = SumFunctionOnSet(g, A) + x
  BY <1>9, <1>10, <1>11, <1>12, <1>13, <1>14 DEF x
<1>16. QED
  BY <1>2, <1>13, <1>15 DEF f, g, B, p, x

LEMMA SpaceIsWhole ==
  ASSUME NEW L \in Nat \ {0}, NEW A, IsFiniteSet(A), Cardinality(A) > 0,
         NEW S, NEW v, Shrinking(S, v, A, L)
  PROVE  SumFunctionOnSet(SpaceAfter(S, A, L, L), A) = 2 ^ L
<1> DEFINE K(t) == SumFunctionOnSet(SpaceAfter(S, A, L, t), A)
           N == {t \in Nat : t <= L => K(t) = 2 ^ L + v[t] * 2 ^ (L - t)}
           n == Cardinality(A)
<1>1. 2 ^ L \in Nat /\ n \in Nat
  BY PowerSuccessor, FS_CardinalityType
<1>2. 0 \in N
  <2>1. \A s \in A : SpaceAfter(S, A, L, 0)[s] = 2 ^ L
    <3> SUFFICES ASSUME NEW s \in A
                 PROVE  SpaceAfter(S, A, L, 0)[s] = 2 ^ L
      OBVIOUS
    <3>1. With(S, 0, s) = {}
      BY DEF With
    <3>2. Cardinality(With(S, 0, s)) = 0
      BY <3>1, FS_EmptySet
    <3>3. L - 0 = L
      OBVIOUS
    <3>4. SpaceAfter(S, A, L, 0)[s] = 2 ^ (L - Cardinality(With(S, 0, s)))
      BY DEF SpaceAfter
    <3>5. QED
      BY <3>2, <3>3, <3>4, Zenon
  <2> DEFINE f == SpaceAfter(S, A, L, 0)
             p == 2 ^ L
  <2>2. SumFunctionOnSet(f, A) = p * n
    <3> HIDE DEF f, p
    <3>1. QED
      BY <1>1, <2>1, SumConstant DEF f, p
  <2>3. v[0] = n - 1 /\ L - 0 = L
    BY DEF Shrinking
  <2> HIDE DEF p, n
  <2>4. p * n = p + (n - 1) * p
    BY <1>1 DEF p
  <2>5. K(0) = 2 ^ L + v[0] * 2 ^ (L - 0)
    BY <2>2, <2>3, <2>4 DEF p
  <2>6. QED
    BY <2>5
<1>3. ASSUME NEW t \in Nat, t \in N
      PROVE  t + 1 \in N
  <2> SUFFICES ASSUME t + 1 <= L
               PROVE  K(t + 1) = 2 ^ L + v[t + 1] * 2 ^ (L - (t + 1))
    OBVIOUS
  <2>1. t \in 0 .. L - 1 /\ t <= L /\ t + 1 \in 1 .. L /\ (t + 1) - 1 = t
        /\ t \in 0 .. L /\ t + 1 \in 0 .. L
    OBVIOUS
  <2> DEFINE p == 2 ^ (L - (t + 1))
             c == Cardinality(S[t + 1])
             a == v[t]
             b == v[t + 1]
             q == 2 ^ L
  <2>2. /\ p \in Nat /\ 2 ^ (L - t) = 2 * p /\ K(t) \in Nat /\ K(t + 1) \in Nat
        /\ K(t) = K(t + 1) + p * c
    BY <2>1, SpaceHalves
  <2>3. K(t) = q + a * 2 ^ (L - t)
    BY <1>3, <2>1
  <2>4. a \in Nat /\ b \in Nat /\ c = 2 * a - b
    BY <2>1 DEF Shrinking
  <2> DEFINE k == K(t)
             h == K(t + 1)
  <2>5. k = q + a * (2 * p) /\ k = h + p * c /\ k \in Nat /\ h \in Nat /\ q \in Nat
    BY <1>1, <2>2, <2>3
  <2> HIDE DEF p, a, b, q, k, h, c
  <2>6. p * c = a * (2 * p) - b * p /\ a * (2 * p) \in Nat /\ b * p \in Nat
    BY <2>2, <2>4
  <2>7. h = q + b * p
    BY <2>5, <2>6
  <2>8. QED
    BY <2>7 DEF h, q, b, p
<1> HIDE DEF N, K
<1>4. \A t \in Nat : t \in N
  BY <1>2, <1>3, Induct
<1>5. K(L) = 2 ^ L + v[L] * 2 ^ (L - L)
  <2>1. L \in N /\ L <= L
    BY <1>4
  <2>2. QED
    BY <2>1, Zenon DEF N
<1>6. v[L] = 0 /\ 2 ^ (L - L) \in Nat
  <2>1. L - L = 0
    OBVIOUS
  <2>2. QED
    BY <2>1, PowerSuccessor DEF Shrinking
<1> DEFINE z == 2 ^ (L - L)
<1> HIDE DEF z
<1>7. 0 * z = 0
  BY <1>6 DEF z
<1>8. K(L) = 2 ^ L
  BY <1>1, <1>5, <1>6, <1>7 DEF z
<1>9. QED
  BY <1>8 DEF K

-----------------------------------------------------------------------------
(***************************************************************************)
(* The invariant of the merge.                                             *)
(***************************************************************************)
PairsBelow(l) == IF l = 1 THEN <<>> ELSE Pairs(packages_by_level[l - 1])

HalfBelow(l) == IF l = 1 THEN 0 ELSE Len(packages_by_level[l - 1]) \div 2

LevelInv(l) ==
  /\ GoodLevel(packages_by_level[l], l)
  /\ \E origin : LevelIs(packages_by_level[l], PairsBelow(l), origin)

\* How many packages the selection number t is to have, and of which level.
WantedAt(t) ==
  IF t = 1 THEN 2 * Cardinality(NonZero) - 2 ELSE 2 * solution_by_level[t - 1].several

LevelAt(t) == packages_by_level[(MaximumLength + 1) - t]

SelectionInv(t) ==
  \E f : /\ Selects(LevelAt(t), WantedAt(t), f)
         /\ solution_by_level[t] = SelectionOf(LevelAt(t), f)

MergeInv ==
  /\ Cardinality(NonZero) >= 2
  /\ Len(packages_by_level) \in 1 .. MaximumLength
  /\ \A l \in 1 .. Len(packages_by_level) : LevelInv(l)
  /\ Len(solution_by_level) \in 0 .. MaximumLength
  /\ Len(solution_by_level) > 0 => Len(packages_by_level) = MaximumLength
  /\ \A t \in 1 .. Len(solution_by_level) : SelectionInv(t)

SelectionRecord == [symbols : SUBSET Symbol, several : Nat]

\* What holds while package_merge runs: the types, what the levels and the
\* selections are (MergeInv), and, of its result, that the code is complete
\* (CompleteCode, Kraft).
Inv ==
  /\ pc \in {"start", "merge", "done", "returned"}
  /\ WeightsType /\ LengthsType
  /\ packages_by_level \in Seq(Seq(Package)) /\ Len(packages_by_level) <= MaximumLength
  /\ solution_by_level \in Seq(SelectionRecord)
  /\ pc = "start" => packages_by_level = <<>> /\ solution_by_level = <<>>
  /\ pc = "merge" => MergeInv
  /\ CompleteCode
  /\ pc \in {"done", "returned"} => Kraft

LEMMA WeightsUnchanged ==
  ASSUME weights' = weights
  PROVE  /\ NonZero' = NonZero /\ (WeightsType => WeightsType')
         /\ \A level, l : GoodLevel(level, l)' <=> GoodLevel(level, l)
         /\ \A level, pairs, origin :
              LevelIs(level, pairs, origin)' <=> LevelIs(level, pairs, origin)
<1>1. NonZero' = NonZero
  BY DEF NonZero
<1>2. WeightsType => WeightsType'
  BY DEF WeightsType
<1>3. \A level, l : GoodLevel(level, l)' <=> GoodLevel(level, l)
  BY <1>1, Zenon DEF GoodLevel
<1>4. \A pairs, o : PackageOf(pairs, o)' = PackageOf(pairs, o)
  BY Zenon DEF PackageOf
<1>5. \A pairs : Origins(pairs)' = Origins(pairs)
  BY <1>1 DEF Origins
<1>6. \A level, pairs, origin :
        LevelIs(level, pairs, origin)' <=> LevelIs(level, pairs, origin)
  BY <1>1, <1>4, <1>5 DEF LevelIs
<1>7. QED
  BY <1>1, <1>2, <1>3, <1>6

LEMMA LevelKept ==
  ASSUME weights' = weights, NEW l, LevelInv(l),
         packages_by_level'[l] = packages_by_level[l],
         l # 1 => packages_by_level'[l - 1] = packages_by_level[l - 1]
  PROVE  LevelInv(l)'
<1>1. PICK origin : LevelIs(packages_by_level[l], PairsBelow(l), origin)
  BY DEF LevelInv
<1>2. PairsBelow(l)' = PairsBelow(l)
  <2>1. CASE l = 1
    BY <2>1 DEF PairsBelow
  <2>2. CASE l # 1
    <3>1. PairsBelow(l) = Pairs(packages_by_level[l - 1])
      BY <2>2 DEF PairsBelow
    <3>2. PairsBelow(l)' = Pairs(packages_by_level[l - 1])'
      BY <2>2 DEF PairsBelow
    <3>3. Pairs(packages_by_level[l - 1])' = Pairs(packages_by_level[l - 1])
      BY <2>2, Zenon DEF Pairs
    <3>4. QED
      BY <3>1, <3>2, <3>3
  <2>3. QED
    BY <2>1, <2>2
<1> DEFINE level == packages_by_level[l]
           pairs == PairsBelow(l)
<1>3. level' = level /\ pairs' = pairs
  BY <1>2
<1>4. GoodLevel(level, l)'
  <2>1. GoodLevel(level, l)
    BY DEF LevelInv
  <2> HIDE DEF level
  <2>2. QED
    BY <1>3, <2>1, WeightsUnchanged
<1>5. LevelIs(level, pairs, origin)'
  <2>1. LevelIs(level, pairs, origin)
    BY <1>1
  <2> HIDE DEF level, pairs
  <2>2. QED
    BY <1>3, <2>1, WeightsUnchanged
<1>6. QED
  BY <1>4, <1>5 DEF LevelInv

LEMMA SelectionKept ==
  ASSUME weights' = weights, packages_by_level' = packages_by_level,
         NEW t, SelectionInv(t), solution_by_level'[t] = solution_by_level[t],
         t # 1 => solution_by_level'[t - 1] = solution_by_level[t - 1]
  PROVE  SelectionInv(t)'
<1>1. LevelAt(t)' = LevelAt(t)
  BY DEF LevelAt
<1>2. WantedAt(t)' = WantedAt(t)
  <2>1. NonZero' = NonZero
    BY WeightsUnchanged
  <2>2. QED
    BY <2>1 DEF WantedAt
<1>3. PICK f : /\ Selects(LevelAt(t), WantedAt(t), f)
               /\ solution_by_level[t] = SelectionOf(LevelAt(t), f)
  BY DEF SelectionInv
<1> DEFINE level == LevelAt(t)
           w == WantedAt(t)
<1>4. level' = level /\ w' = w
  BY <1>1, <1>2
<1> HIDE DEF level, w
<1>5. Selects(level, w, f)' <=> Selects(level, w, f)
  BY <1>4, Zenon DEF Selects, AsHeavyAs
<1>6. SelectionOf(level, f)' = SelectionOf(level, f)
  BY <1>4, Zenon DEF SelectionOf, SeveralIn
<1>7. QED
  BY <1>3, <1>5, <1>6 DEF SelectionInv, level, w

LEMMA LevelTyped ==
  ASSUME WeightsType, NEW l \in 1 .. MaximumLength, NEW level, GoodLevel(level, l),
         NEW pairs, NEW m \in Nat, PairsOf(pairs, m), Len(pairs) = m,
         NEW origin, LevelIs(level, pairs, origin)
  PROVE  level \in Seq(Package)
<1> DEFINE len == Cardinality(NonZero) + m
           W == 1 .. 2 ^ (l - 1) * MaxWeight
<1>0. LevelHas(level, pairs, origin, m)
  BY LevelFacts
<1>1. /\ len \in Nat /\ Len(level) = len /\ DOMAIN level = 1 .. len
      /\ \A k \in 1 .. len :
           \/ /\ origin[k] \in NonZero
              /\ level[k] = [weight |-> weights[origin[k]], index |-> origin[k]]
           \/ \E j \in 1 .. m :
                /\ origin[k] = - j
                /\ level[k] = [weight |-> pairs[j].weight, index |-> Several]
  BY <1>0, Zenon DEF LevelHas
<1>2. /\ \A k \in 1 .. Len(level) : level[k].weight \in W
      /\ \A s \in NonZero : \E k \in 1 .. Len(level) :
           level[k] = [weight |-> weights[s], index |-> s]
  BY Zenon DEF GoodLevel
<1>3. W \subseteq 0 .. WeightModulus - 1
  <2> DEFINE p == 2 ^ (l - 1) * MaxWeight
  <2>1. p \in Nat /\ p < WeightModulus /\ WeightModulus \in Nat
    BY Weights
  <2> HIDE DEF p
  <2>2. 1 .. p \subseteq 0 .. WeightModulus - 1
    BY <2>1
  <2>3. QED
    BY <2>2 DEF p
<1> HIDE DEF len, W
<1>4. ASSUME NEW k \in 1 .. len
      PROVE  level[k] \in Package
  <2>1. level[k].weight \in 0 .. WeightModulus - 1
    BY <1>1, <1>2, <1>3
  <2>2. PICK a, b : level[k] = [weight |-> a, index |-> b] /\ b \in {Several} \cup Symbol
    BY <1>1, NonZeroFinite
  <2>3. a \in 0 .. WeightModulus - 1
    BY <2>1, <2>2
  <2>4. QED
    BY <2>2, <2>3 DEF Package
<1>5. level = [k \in 1 .. len |-> level[k]]
  <2>1. level = [k \in 1 .. len |-> PackageOf(pairs, origin[k])]
    BY DEF LevelIs, len
  <2>2. QED
    BY <2>1, Zenon
<1>6. level \in [1 .. len -> Package]
  BY <1>4, <1>5
<1>7. QED
  BY <1>1, <1>6

\* Each level consists of the symbols and of the pairs of the level below.
LEMMA LevelAtHas ==
  ASSUME WeightsType, MergeInv, NEW l \in 1 .. Len(packages_by_level)
  PROVE  /\ l \in 1 .. MaximumLength /\ GoodLevel(packages_by_level[l], l)
         /\ HalfBelow(l) \in Nat
         /\ PairsOf(PairsBelow(l), HalfBelow(l)) /\ Len(PairsBelow(l)) = HalfBelow(l)
         /\ \E origin : /\ LevelIs(packages_by_level[l], PairsBelow(l), origin)
                        /\ LevelHas(packages_by_level[l], PairsBelow(l), origin, HalfBelow(l))
<1>1. /\ Len(packages_by_level) \in 1 .. MaximumLength
      /\ \A k \in 1 .. Len(packages_by_level) : LevelInv(k)
  BY DEF MergeInv
<1>2. MaximumLength \in Nat /\ l \in 1 .. MaximumLength
  BY <1>1, Constants
<1>3. GoodLevel(packages_by_level[l], l)
  BY <1>1 DEF LevelInv
<1>4. /\ HalfBelow(l) \in Nat
      /\ PairsOf(PairsBelow(l), HalfBelow(l)) /\ Len(PairsBelow(l)) = HalfBelow(l)
  <2>1. CASE l = 1
    BY <2>1, NoPairs DEF PairsBelow, HalfBelow
  <2>2. CASE l # 1
    <3> DEFINE k == l - 1
               level == packages_by_level[k]
    <3>1. k \in 1 .. MaximumLength /\ k < MaximumLength /\ k \in 1 .. Len(packages_by_level)
      BY <1>1, <1>2, <2>2
    <3>2. GoodLevel(level, k)
      BY <1>1, <3>1 DEF LevelInv
    <3>3. HalfBelow(l) = Len(level) \div 2 /\ PairsBelow(l) = Pairs(level)
      BY <2>2 DEF HalfBelow, PairsBelow
    <3> HIDE DEF level, k
    <3>4. /\ Len(level) \div 2 \in Nat /\ PairsOf(Pairs(level), Len(level) \div 2)
          /\ Len(Pairs(level)) = Len(level) \div 2
      BY <3>1, <3>2, PairsAre
    <3>5. QED
      BY <3>3, <3>4
  <2>3. QED
    BY <2>1, <2>2
<1>5. PICK origin : LevelIs(packages_by_level[l], PairsBelow(l), origin)
  BY <1>1 DEF LevelInv
<1>6. LevelHas(packages_by_level[l], PairsBelow(l), origin, HalfBelow(l))
  BY <1>4, <1>5, LevelFacts
<1>7. QED
  BY <1>2, <1>3, <1>4, <1>5, <1>6

\* A selection, as far as it is known from the levels.
SelectionFrom(t, f) ==
  LET l == (MaximumLength + 1) - t
  IN /\ Selects(LevelAt(t), WantedAt(t), f)
     /\ solution_by_level[t] = SelectionOf(LevelAt(t), f)
     /\ SelectionHas(LevelAt(t), PairsBelow(l), HalfBelow(l), WantedAt(t), f)

LEMMA SelectionIsFrom ==
  ASSUME WeightsType, MergeInv, NEW t \in 1 .. Len(solution_by_level), WantedAt(t) \in Nat
  PROVE  /\ t \in 1 .. MaximumLength /\ Len(packages_by_level) = MaximumLength
         /\ \E f : SelectionFrom(t, f)
<1> DEFINE l == (MaximumLength + 1) - t
<1>1. /\ Len(solution_by_level) \in 0 .. MaximumLength
      /\ Len(solution_by_level) > 0 => Len(packages_by_level) = MaximumLength
      /\ SelectionInv(t)
  BY DEF MergeInv
<1>2. /\ t \in 1 .. MaximumLength /\ Len(packages_by_level) = MaximumLength
      /\ l \in 1 .. Len(packages_by_level)
  BY <1>1, Constants
<1>3. PICK f : /\ Selects(LevelAt(t), WantedAt(t), f)
               /\ solution_by_level[t] = SelectionOf(LevelAt(t), f)
  BY <1>1 DEF SelectionInv
<1>4. LevelAt(t) = packages_by_level[l]
  BY DEF LevelAt
<1> HIDE DEF l
<1>5. HalfBelow(l) \in Nat /\ \E origin :
        LevelHas(LevelAt(t), PairsBelow(l), origin, HalfBelow(l))
  BY <1>2, <1>4, LevelAtHas
<1>6. SelectionHas(LevelAt(t), PairsBelow(l), HalfBelow(l), WantedAt(t), f)
  BY <1>3, <1>5, SelectionFacts
<1>7. QED
  BY <1>2, <1>3, <1>6 DEF SelectionFrom, l

\* The selection asks for no more packages than there are.
LEMMA WantedFits ==
  ASSUME WeightsType, MergeInv, Len(packages_by_level) = MaximumLength,
         NEW t \in 1 .. MaximumLength, t <= Len(solution_by_level) + 1
  PROVE  /\ WantedAt(t) \in Nat /\ WantedAt(t) <= Len(LevelAt(t))
         /\ Len(LevelAt(t)) \in Nat
<1> DEFINE N == {k \in Nat : k \in 1 .. MaximumLength /\ k <= Len(solution_by_level) + 1 =>
                   WantedAt(k) \in Nat /\ WantedAt(k) <= Len(LevelAt(k))}
<1>0. MaximumLength \in Nat \ {0} /\ Len(solution_by_level) \in Nat
  BY Constants DEF MergeInv
<1>1. \A k \in 1 .. MaximumLength :
        /\ (MaximumLength + 1) - k \in 1 .. MaximumLength
        /\ GoodLevel(LevelAt(k), (MaximumLength + 1) - k)
        /\ Len(LevelAt(k)) \in Nat
  <2> SUFFICES ASSUME NEW k \in 1 .. MaximumLength
               PROVE  /\ (MaximumLength + 1) - k \in 1 .. MaximumLength
                      /\ GoodLevel(LevelAt(k), (MaximumLength + 1) - k)
                      /\ Len(LevelAt(k)) \in Nat
    OBVIOUS
  <2> DEFINE l == (MaximumLength + 1) - k
  <2>1. l \in 1 .. Len(packages_by_level) /\ l \in 1 .. MaximumLength
    BY <1>0
  <2> HIDE DEF l
  <2>2. GoodLevel(packages_by_level[l], l)
    BY <2>1, LevelAtHas
  <2>3. Len(packages_by_level[l]) \in Nat
    BY <2>2, Zenon DEF GoodLevel
  <2>4. QED
    BY <2>1, <2>2, <2>3 DEF LevelAt, l
<1>2. 0 \in N
  OBVIOUS
<1>3. ASSUME NEW k \in Nat, k \in N
      PROVE  k + 1 \in N
  <2> SUFFICES ASSUME k + 1 \in 1 .. MaximumLength, k + 1 <= Len(solution_by_level) + 1
               PROVE  WantedAt(k + 1) \in Nat /\ WantedAt(k + 1) <= Len(LevelAt(k + 1))
    OBVIOUS
  <2>1. CASE k = 0
    <3> DEFINE n == Cardinality(NonZero)
    <3>1. n >= 2
      BY DEF MergeInv
    <3>2. LevelAt(1) = packages_by_level[MaximumLength] /\ 1 \in 1 .. MaximumLength
          /\ (MaximumLength + 1) - 1 = MaximumLength
      <4>1. (MaximumLength + 1) - 1 = MaximumLength
        BY <1>0
      <4>2. QED
        BY <1>0, <4>1 DEF LevelAt
    <3>3. GoodLevel(LevelAt(1), MaximumLength)
      BY <1>1, <3>2
    <3>4. 2 * n - 2 \in Nat /\ 2 * n - 2 <= Len(LevelAt(1))
      BY <3>1, <3>3, LastLevelSuffices
    <3>5. WantedAt(1) = 2 * n - 2 /\ k + 1 = 1
      BY <2>1 DEF WantedAt
    <3>6. QED
      BY <3>4, <3>5
  <2>2. CASE k # 0
    <3> DEFINE h == (MaximumLength + 1) - k
    <3>1. k \in 1 .. MaximumLength /\ k \in 1 .. Len(solution_by_level)
          /\ k <= Len(solution_by_level) + 1
      BY <1>0, <2>2
    <3>2. WantedAt(k) \in Nat
      BY <1>3, <3>1
    <3>3. PICK f : SelectionFrom(k, f)
      BY <3>1, <3>2, SelectionIsFrom
    <3>4. /\ solution_by_level[k] = SelectionOf(LevelAt(k), f)
          /\ SelectionHas(LevelAt(k), PairsBelow(h), HalfBelow(h), WantedAt(k), f)
      BY <3>3 DEF SelectionFrom
    <3> DEFINE v == solution_by_level[k].several
    <3>5. v \in Nat /\ v <= HalfBelow(h)
      BY <3>4 DEF SelectionHas
    <3>6. h # 1 /\ h - 1 = (MaximumLength + 1) - (k + 1)
      BY <1>0
    <3>7. HalfBelow(h) = Len(LevelAt(k + 1)) \div 2
      BY <3>6, Zenon DEF HalfBelow, LevelAt
    <3>8. Len(LevelAt(k + 1)) \in Nat
      BY <1>1
    <3>9. WantedAt(k + 1) = 2 * v
      <4>1. k + 1 # 1 /\ (k + 1) - 1 = k
        BY <2>2
      <4>2. QED
        BY <4>1, Zenon DEF WantedAt
    <3> DEFINE len == Len(LevelAt(k + 1))
    <3> HIDE DEF v, len, h
    <3>10. v \in Nat /\ v <= len \div 2 /\ len \in Nat
      BY <3>5, <3>7, <3>8 DEF len
    <3>11. 2 * v \in Nat /\ 2 * v <= len
      BY <3>10
    <3>12. QED
      BY <3>9, <3>11 DEF len
  <2>3. QED
    BY <2>1, <2>2
<1> HIDE DEF N
<1>4. t \in N /\ t \in Nat
  BY <1>2, <1>3, Induct
<1>5. QED
  BY <1>1, <1>4 DEF N

\* The selections in the order they are made, and how many pairs each leaves
\* to the level below.
SelectedSymbols == [t \in 1 .. MaximumLength |-> solution_by_level[t].symbols]

SelectedPairs ==
  [t \in 0 .. MaximumLength |->
     IF t = 0 THEN Cardinality(NonZero) - 1 ELSE solution_by_level[t].several]

LEMMA SolutionShrinks ==
  ASSUME WeightsType, MergeInv, Len(solution_by_level) = MaximumLength
  PROVE  Shrinking(SelectedSymbols, SelectedPairs, NonZero, MaximumLength)
<1> DEFINE S == SelectedSymbols
           v == SelectedPairs
           n == Cardinality(NonZero)
           L == MaximumLength
           low(t) == (L + 1) - t
<1>0. L \in Nat \ {0} /\ n \in Nat /\ n >= 2
  BY Constants, NonZeroFinite DEF MergeInv
<1>1. Len(packages_by_level) = L
  BY <1>0 DEF MergeInv
<1>2. \A t \in 1 .. L : /\ WantedAt(t) \in Nat /\ WantedAt(t) <= Len(LevelAt(t))
                        /\ low(t) \in 1 .. L /\ low(t) \in 1 .. Len(packages_by_level)
                        /\ GoodLevel(LevelAt(t), low(t))
                        /\ HalfBelow(low(t)) \in Nat
                        /\ \E f : SelectionFrom(t, f)
  <2> SUFFICES ASSUME NEW t \in 1 .. L
               PROVE  /\ WantedAt(t) \in Nat /\ WantedAt(t) <= Len(LevelAt(t))
                      /\ low(t) \in 1 .. L /\ low(t) \in 1 .. Len(packages_by_level)
                      /\ GoodLevel(LevelAt(t), low(t))
                      /\ HalfBelow(low(t)) \in Nat
                      /\ \E f : SelectionFrom(t, f)
    OBVIOUS
  <2> DEFINE l == low(t)
  <2>1. /\ t \in 1 .. Len(solution_by_level) /\ t <= Len(solution_by_level) + 1
        /\ l \in 1 .. L /\ l \in 1 .. Len(packages_by_level)
    BY <1>0, <1>1
  <2>2. WantedAt(t) \in Nat /\ WantedAt(t) <= Len(LevelAt(t))
    BY <1>1, <2>1, WantedFits
  <2>3. \E f : SelectionFrom(t, f)
    BY <2>1, <2>2, SelectionIsFrom
  <2> HIDE DEF l
  <2>4. GoodLevel(packages_by_level[l], l) /\ HalfBelow(l) \in Nat
    BY <2>1, LevelAtHas
  <2>5. LevelAt(t) = packages_by_level[l]
    BY DEF LevelAt, l
  <2>6. QED
    BY <2>1, <2>2, <2>3, <2>4, <2>5 DEF l
<1>3. \A t \in 1 .. L : /\ S[t] = solution_by_level[t].symbols
                        /\ v[t] = solution_by_level[t].several
  BY <1>0 DEF SelectedSymbols, SelectedPairs
<1>4. v[0] = n - 1
  BY <1>0 DEF SelectedPairs
<1>5. \A t \in 1 .. L : WantedAt(t) = 2 * v[t - 1]
  <2> SUFFICES ASSUME NEW t \in 1 .. L
               PROVE  WantedAt(t) = 2 * v[t - 1]
    OBVIOUS
  <2>1. CASE t = 1
    <3>1. t - 1 = 0 /\ WantedAt(t) = 2 * n - 2
      BY <2>1 DEF WantedAt
    <3> HIDE DEF v, n
    <3>2. QED
      BY <1>0, <1>4, <3>1
  <2>2. CASE t # 1
    <3>1. t - 1 \in 1 .. L
      BY <1>0, <2>2
    <3>2. WantedAt(t) = 2 * solution_by_level[t - 1].several
      BY <2>2, Zenon DEF WantedAt
    <3>3. QED
      BY <1>3, <3>1, <3>2
  <2>3. QED
    BY <2>1, <2>2
<1> HIDE DEF S, v
<1>6. \A t \in 1 .. L : /\ S[t] \in SUBSET NonZero
                        /\ v[t] \in Nat /\ v[t] <= HalfBelow(low(t))
                        /\ Cardinality(S[t]) = 2 * v[t - 1] - v[t]
  <2> SUFFICES ASSUME NEW t \in 1 .. L
               PROVE  /\ S[t] \in SUBSET NonZero
                      /\ v[t] \in Nat /\ v[t] <= HalfBelow(low(t))
                      /\ Cardinality(S[t]) = 2 * v[t - 1] - v[t]
    OBVIOUS
  <2>1. PICK f : SelectionFrom(t, f)
    BY <1>2
  <2> DEFINE l == low(t)
             s == solution_by_level[t]
  <2>2. /\ s = SelectionOf(LevelAt(t), f)
        /\ SelectionHas(LevelAt(t), PairsBelow(l), HalfBelow(l), WantedAt(t), f)
    BY <2>1 DEF SelectionFrom
  <2> HIDE DEF s, l
  <2>3. /\ s.symbols \in SUBSET NonZero
        /\ s.several \in Nat /\ s.several <= HalfBelow(l)
        /\ Cardinality(s.symbols) = WantedAt(t) - s.several
    BY <2>2 DEF SelectionHas
  <2>4. S[t] = s.symbols /\ v[t] = s.several /\ WantedAt(t) = 2 * v[t - 1]
    BY <1>3, <1>5 DEF s
  <2>5. QED
    BY <2>3, <2>4 DEF l
<1>7. S[1] = NonZero
  <2>1. 1 \in 1 .. L /\ low(1) = L
    BY <1>0
  <2>2. PICK f : SelectionFrom(1, f)
    BY <1>2, <2>1
  <2>3. /\ solution_by_level[1] = SelectionOf(LevelAt(1), f)
        /\ Selects(LevelAt(1), WantedAt(1), f)
        /\ SelectionHas(LevelAt(1), PairsBelow(L), HalfBelow(L), WantedAt(1), f)
    BY <2>1, <2>2, Zenon DEF SelectionFrom
  <2>4. /\ GoodLevel(LevelAt(1), L) /\ HalfBelow(L) \in Nat /\ WantedAt(1) \in Nat
        /\ WantedAt(1) = 2 * n - 2
    <3>1. /\ GoodLevel(LevelAt(1), low(1)) /\ HalfBelow(low(1)) \in Nat
          /\ WantedAt(1) \in Nat
      BY <1>2, <2>1
    <3>2. WantedAt(1) = 2 * n - 2
      BY DEF WantedAt
    <3> HIDE DEF low
    <3>3. QED
      BY <2>1, <3>1, <3>2
  <2>5. SelectionOf(LevelAt(1), f).symbols = NonZero
    BY <1>0, <2>3, <2>4, LastSelectionHasAll
  <2>6. QED
    BY <1>3, <2>1, <2>3, <2>5
<1>8. \A t \in 1 .. L - 1 : S[t + 1] \subseteq S[t]
  <2> SUFFICES ASSUME NEW t \in 1 .. L - 1
               PROVE  S[t + 1] \subseteq S[t]
    OBVIOUS
  <2> DEFINE l == low(t + 1)
             level == LevelAt(t + 1)
             next == LevelAt(t)
             w == WantedAt(t)
             u == solution_by_level[t].several
  <2>1. /\ t \in 1 .. L /\ t + 1 \in 1 .. L /\ low(t) = l + 1 /\ (t + 1) - 1 = t
        /\ l < L /\ low(t) # 1 /\ low(t) - 1 = l /\ t + 1 # 1
    BY <1>0
  <2>2. /\ w \in Nat /\ w <= Len(next) /\ GoodLevel(next, l + 1)
        /\ WantedAt(t + 1) \in Nat /\ WantedAt(t + 1) <= Len(level)
        /\ l \in 1 .. L /\ GoodLevel(level, l) /\ HalfBelow(l) \in Nat
    <3>1. /\ WantedAt(t) \in Nat /\ WantedAt(t) <= Len(LevelAt(t))
          /\ GoodLevel(LevelAt(t), low(t))
      BY <1>2, <2>1
    <3>2. /\ WantedAt(t + 1) \in Nat /\ WantedAt(t + 1) <= Len(LevelAt(t + 1))
          /\ low(t + 1) \in 1 .. L /\ GoodLevel(LevelAt(t + 1), low(t + 1))
          /\ HalfBelow(low(t + 1)) \in Nat
      BY <1>2, <2>1
    <3>3. GoodLevel(LevelAt(t), l + 1)
      <4> HIDE DEF l, low
      <4>1. QED
        BY <2>1, <3>1
    <3>4. QED
      BY <3>1, <3>2, <3>3
  <2>3. PairsBelow(low(t)) = Pairs(level) /\ HalfBelow(low(t)) = Len(level) \div 2
    <3>1. level = packages_by_level[l]
      BY DEF LevelAt
    <3> HIDE DEF level, l, low
    <3>2. QED
      BY <2>1, <3>1, Zenon DEF PairsBelow, HalfBelow
  <2>4. PICK f : SelectionFrom(t, f)
    BY <1>2, <2>1
  <2>5. PICK g : SelectionFrom(t + 1, g)
    BY <1>2, <2>1
  <2>6. /\ solution_by_level[t] = SelectionOf(next, f)
        /\ Selects(next, w, f)
        /\ SelectionHas(next, Pairs(level), Len(level) \div 2, w, f)
    BY <2>3, <2>4, Zenon DEF SelectionFrom
  <2>7. /\ solution_by_level[t + 1] = SelectionOf(level, g)
        /\ Selects(level, WantedAt(t + 1), g)
        /\ SelectionHas(level, PairsBelow(l), HalfBelow(l), WantedAt(t + 1), g)
    BY <2>5, Zenon DEF SelectionFrom
  <2>8. WantedAt(t + 1) = 2 * u
    BY <2>1, Zenon DEF WantedAt
  <2>9. u \in Nat
    BY <1>3, <1>6, <2>1
  <2>10. u = SelectionOf(next, f).several
    BY <2>6
  <2> HIDE DEF l, level, next, w, u, low
  <2>11. /\ Selects(level, 2 * u, g) /\ 2 * u <= Len(level)
         /\ SelectionHas(level, PairsBelow(l), HalfBelow(l), 2 * u, g)
    BY <2>2, <2>7, <2>8
  <2>12. SelectionOf(level, g).symbols \subseteq SelectionOf(next, f).symbols
    <3>1. SelectedAbove(l, level, next, w, f)
      BY <2>1, <2>2, <2>6 DEF SelectedAbove
    <3>2. SelectedBelow(level, u, g)
      BY <2>2, <2>9, <2>11, Zenon DEF SelectedBelow
    <3>3. QED
      BY <2>2, <2>10, <3>1, <3>2, SelectionsShrink
  <2>13. QED
    BY <1>3, <2>1, <2>6, <2>7, <2>12
<1>9. v[L] = 0
  <2>1. L \in 1 .. L /\ low(L) = 1
    BY <1>0
  <2>2. v[L] \in Nat /\ v[L] <= HalfBelow(low(L))
    BY <1>6, <2>1
  <2>3. HalfBelow(low(L)) = 0
    BY <2>1 DEF HalfBelow
  <2>4. QED
    BY <2>2, <2>3
<1>10. \A t \in 0 .. L : v[t] \in Nat
  <2> SUFFICES ASSUME NEW t \in 0 .. L
               PROVE  v[t] \in Nat
    OBVIOUS
  <2>1. t = 0 \/ t \in 1 .. L
    BY <1>0
  <2>2. n - 1 \in Nat
    BY <1>0
  <2>3. QED
    BY <1>4, <1>6, <2>1, <2>2
<1>11. QED
  BY <1>4, <1>6, <1>7, <1>8, <1>9, <1>10 DEF Shrinking, S, v

-----------------------------------------------------------------------------
(***************************************************************************)
(* The steps of the merge.                                                 *)
(***************************************************************************)
LEMMA Appended ==
  ASSUME NEW S, NEW s \in Seq(S), NEW x \in S
  PROVE  /\ Append(s, x) \in Seq(S) /\ Len(Append(s, x)) = Len(s) + 1
         /\ \A k \in 1 .. Len(s) : Append(s, x)[k] = s[k]
         /\ Append(s, x)[Len(s) + 1] = x
OBVIOUS

LEMMA InitStep ==
  ASSUME Init
  PROVE  Inv
<1>1. LengthsType
  BY Constants DEF Init, LengthsType
<1>2. WeightsType
  BY DEF Init, WeightsType
<1>3. Len(<<>>) = 0 /\ \A S : <<>> \in Seq(S)
  OBVIOUS
<1>4. QED
  BY <1>1, <1>2, <1>3, Constants DEF Init, Inv, CompleteCode

LEMMA LevelNew ==
  ASSUME weights' = weights, NEW l, NEW level, NEW pairs, NEW origin,
         GoodLevel(level, l), LevelIs(level, pairs, origin),
         packages_by_level'[l] = level, PairsBelow(l)' = pairs
  PROVE  LevelInv(l)'
<1>1. GoodLevel(level, l)' /\ LevelIs(level, pairs, origin)'
  BY WeightsUnchanged
<1>2. GoodLevel(packages_by_level[l], l)'
  BY <1>1
<1>3. LevelIs(packages_by_level[l], PairsBelow(l), origin)'
  BY <1>1
<1>4. QED
  BY <1>2, <1>3 DEF LevelInv

LEMMA FirstLevelStep ==
  ASSUME Inv, FirstLevel
  PROVE  Inv'
<1>1. /\ pc = "start" /\ pc' = "merge" /\ weights' = weights /\ lengths' = lengths
      /\ packages_by_level' = <<Singles>> /\ solution_by_level' = solution_by_level
      /\ Cardinality(NonZero) >= 2
  BY DEF FirstLevel
<1>2. /\ WeightsType /\ LengthsType /\ packages_by_level = <<>> /\ solution_by_level = <<>>
  BY <1>1 DEF Inv
<1>3. WeightsType' /\ LengthsType' /\ NonZero' = NonZero
  BY <1>1, <1>2, WeightsUnchanged, LengthsUnchanged
<1>4. 1 \in 1 .. MaximumLength /\ MaximumLength \in Nat
  BY Constants
<1>5. GoodLevel(Singles, 1)
  BY <1>1, <1>2, GoodSingles
<1>6. PICK origin : LevelIs(Singles, <<>>, origin)
  BY <1>2, SinglesAre
<1>7. Singles \in Seq(Package)
  <2>1. 0 \in Nat
    OBVIOUS
  <2>2. QED
    BY <1>2, <1>4, <1>5, <1>6, <2>1, NoPairs, LevelTyped
<1> DEFINE level == Singles
<1> HIDE DEF level
<1>8. /\ packages_by_level' \in Seq(Seq(Package)) /\ Len(packages_by_level') = 1
      /\ packages_by_level'[1] = level
  <2> DEFINE T == Seq(Package)
  <2>1. level \in T
    BY <1>7 DEF level
  <2> HIDE DEF T
  <2>2. packages_by_level' = <<level>>
    BY <1>1 DEF level
  <2>3. packages_by_level' \in Seq(T) /\ Len(packages_by_level') = 1
        /\ packages_by_level'[1] = level
    BY <2>1, <2>2
  <2>4. QED
    BY <2>3 DEF T
<1>9. LevelInv(1)'
  <2>1. GoodLevel(level, 1) /\ LevelIs(level, <<>>, origin)
    BY <1>5, <1>6 DEF level
  <2>2. packages_by_level'[1] = level /\ PairsBelow(1)' = <<>>
    BY <1>8 DEF PairsBelow
  <2>3. QED
    BY <1>1, <2>1, <2>2, LevelNew
<1>10. MergeInv'
  <2>1. \A l \in 1 .. Len(packages_by_level') : LevelInv(l)'
    BY <1>8, <1>9
  <2>2. Len(solution_by_level') = 0
    BY <1>1, <1>2
  <2>3. \A t \in 1 .. Len(solution_by_level') : SelectionInv(t)'
    BY <2>2
  <2>4. Cardinality(NonZero)' >= 2
    BY <1>1, <1>3
  <2>5. Len(packages_by_level') \in 1 .. MaximumLength /\ 0 \in 0 .. MaximumLength
    BY <1>4, <1>8
  <2>6. QED
    BY <2>1, <2>2, <2>3, <2>4, <2>5 DEF MergeInv
<1>11. QED
  BY <1>1, <1>2, <1>3, <1>4, <1>8, <1>10 DEF Inv, CompleteCode

LEMMA MergeLevelStep ==
  ASSUME Inv, MergeLevel
  PROVE  Inv'
<1> DEFINE P == packages_by_level
           n == Len(packages_by_level)
           below == Last(packages_by_level)
           m == Len(below) \div 2
           level == Sorted(Pairs(below) \o Singles)
<1>0. PICK q : q = Len(packages_by_level) + 1
  OBVIOUS
<1>1. /\ pc = "merge" /\ pc' = pc /\ weights' = weights /\ lengths' = lengths
      /\ solution_by_level' = solution_by_level
      /\ n < MaximumLength /\ P' = Append(P, level)
  BY DEF MergeLevel
<1>2. /\ WeightsType /\ LengthsType /\ MergeInv
      /\ P \in Seq(Seq(Package)) /\ solution_by_level \in Seq(SelectionRecord)
  BY <1>1 DEF Inv
<1>3. WeightsType' /\ LengthsType' /\ NonZero' = NonZero
  BY <1>1, <1>2, WeightsUnchanged, LengthsUnchanged
<1>4. /\ Cardinality(NonZero) >= 2 /\ n \in 1 .. MaximumLength
      /\ \A l \in 1 .. n : LevelInv(l)
      /\ Len(solution_by_level) \in 0 .. MaximumLength
      /\ Len(solution_by_level) > 0 => n = MaximumLength
  BY <1>2 DEF MergeInv
<1>5. MaximumLength \in Nat /\ n \in 1 .. n /\ n + 1 \in 1 .. MaximumLength
  BY <1>1, <1>4, Constants
<1>6. below = P[n]
  BY <1>2, <1>5 DEF Last
<1>7. GoodLevel(below, n)
  BY <1>4, <1>5, <1>6 DEF LevelInv
<1> HIDE DEF below
<1>8. m \in Nat /\ PairsOf(Pairs(below), m) /\ Len(Pairs(below)) = m
  BY <1>1, <1>4, <1>7, PairsAre
<1>9. PICK origin : LevelIs(level, Pairs(below), origin)
  BY <1>2, <1>8, MergedAre
<1> HIDE DEF level, m
<1>10. GoodLevel(level, n + 1)
  BY <1>1, <1>2, <1>4, <1>7, <1>9, GoodNext
<1>11. level \in Seq(Package)
  BY <1>2, <1>5, <1>8, <1>9, <1>10, LevelTyped
<1>12. /\ P' \in Seq(Seq(Package)) /\ Len(P') = n + 1 /\ P'[n + 1] = level
       /\ \A l \in 1 .. n : P'[l] = P[l]
  <2> DEFINE T == Seq(Package)
  <2>1. P \in Seq(T) /\ level \in T
    BY <1>2, <1>11
  <2> HIDE DEF T
  <2>2. /\ Append(P, level) \in Seq(T) /\ Len(Append(P, level)) = n + 1
        /\ \A l \in 1 .. n : Append(P, level)[l] = P[l]
        /\ Append(P, level)[n + 1] = level
    BY <2>1, Appended
  <2>3. QED
    BY <1>1, <2>2 DEF T
<1>13. LevelInv(q)'
  <2>1. q # 1 /\ q - 1 = n
    BY <1>0, <1>4
  <2>2. PairsBelow(q)' = Pairs(P[q - 1])'
    BY <2>1, Zenon DEF PairsBelow
  <2>3. Pairs(P[q - 1])' = Pairs(below)
    <3>1. P'[q - 1] = below
      BY <1>5, <1>6, <1>12, <2>1
    <3>2. QED
      BY <3>1, Zenon DEF Pairs
  <2>4. P'[q] = level /\ GoodLevel(level, q)
    BY <1>0, <1>10, <1>12
  <2>5. QED
    BY <1>1, <1>9, <2>2, <2>3, <2>4, LevelNew
<1>14. ASSUME NEW l \in 1 .. n
       PROVE  LevelInv(l)'
  <2>1. l # 1 => l - 1 \in 1 .. n
    BY <1>4
  <2>2. QED
    BY <1>1, <1>4, <1>12, <2>1, LevelKept
<1>15. \A l \in 1 .. Len(P') : LevelInv(l)'
  <2> SUFFICES ASSUME NEW l \in 1 .. Len(P')
               PROVE  LevelInv(l)'
    OBVIOUS
  <2>1. l \in 1 .. n \/ l = q
    BY <1>0, <1>4, <1>12
  <2>2. ASSUME l = q
        PROVE  LevelInv(l)'
    BY <1>13, <2>2
  <2>3. QED
    BY <1>14, <2>1, <2>2
<1>16. MergeInv'
  <2>1. Len(solution_by_level') = 0
    BY <1>1, <1>4
  <2>2. \A t \in 1 .. Len(solution_by_level') : SelectionInv(t)'
    BY <2>1
  <2>3. Cardinality(NonZero)' >= 2
    BY <1>3, <1>4
  <2>4. Len(P') \in 1 .. MaximumLength /\ 0 \in 0 .. MaximumLength
    BY <1>5, <1>12
  <2>5. QED
    BY <1>15, <2>1, <2>2, <2>3, <2>4 DEF MergeInv
<1>17. Len(P') <= MaximumLength
  BY <1>5, <1>12
<1>18. QED
  BY <1>1, <1>2, <1>3, <1>12, <1>16, <1>17 DEF Inv, CompleteCode

LEMMA SelectLevelStep ==
  ASSUME Inv, SelectLevel
  PROVE  Inv'
<1> DEFINE S == solution_by_level
           k == Len(solution_by_level)
<1>0. PICK t : t = Len(solution_by_level) + 1
  OBVIOUS
<1>1. /\ pc = "merge" /\ weights' = weights /\ lengths' = lengths
      /\ packages_by_level' = packages_by_level
      /\ Len(packages_by_level) = MaximumLength /\ k < MaximumLength
      /\ IF Wanted > Len(Level) THEN pc' = "overrun" /\ S' = S
         ELSE /\ \E first \in First(Level, Wanted) : S' = Append(S, first)
              /\ pc' = pc
  BY DEF SelectLevel
<1>2. /\ WeightsType /\ LengthsType /\ MergeInv
      /\ packages_by_level \in Seq(Seq(Package)) /\ S \in Seq(SelectionRecord)
  BY <1>1 DEF Inv
<1>3. WeightsType' /\ LengthsType' /\ NonZero' = NonZero
  BY <1>1, <1>2, WeightsUnchanged, LengthsUnchanged
<1>4. /\ k \in Nat /\ t \in 1 .. MaximumLength /\ MaximumLength \in Nat
      /\ (MaximumLength + 1) - t = MaximumLength - k
      /\ (MaximumLength + 1) - t \in 1 .. MaximumLength
  BY <1>0, <1>1, <1>2, Constants
<1>5. Wanted = WantedAt(t) /\ Level = LevelAt(t)
  <2>1. Level = LevelAt(t)
    BY <1>4, Zenon DEF Level, LevelAt
  <2>2. CASE S = <<>>
    BY <1>0, <2>1, <2>2 DEF Wanted, WantedAt
  <2>3. CASE S # <<>>
    <3>1. k # 0
      BY <1>2, <2>3
    <3>2. t # 1 /\ t - 1 = k
      BY <1>0, <1>4, <3>1
    <3>3. WantedAt(t) = 2 * S[k].several
      BY <3>2, Zenon DEF WantedAt
    <3>4. Wanted = 2 * S[k].several
      BY <1>2, <2>3 DEF Wanted, Last
    <3>5. QED
      BY <2>1, <3>3, <3>4
  <2>4. QED
    BY <2>1, <2>2, <2>3
<1> DEFINE w == WantedAt(t)
           level == LevelAt(t)
<1>6. w \in Nat /\ w <= Len(level) /\ Len(level) \in Nat
  BY <1>1, <1>2, <1>4, WantedFits
<1>7. PICK first \in First(level, w) : S' = Append(S, first)
  <2> HIDE DEF w, level
  <2>1. ~ (Wanted > Len(Level))
    BY <1>5, <1>6 DEF w, level
  <2>2. QED
    BY <1>1, <1>5, <2>1 DEF w, level
<1>8. pc' = pc
  <2> HIDE DEF w, level
  <2>1. ~ (Wanted > Len(Level))
    BY <1>5, <1>6 DEF w, level
  <2>2. QED
    BY <1>1, <2>1
<1>9. PICK f : Selects(level, w, f) /\ first = SelectionOf(level, f)
  <2> HIDE DEF w, level
  <2>1. QED
    BY <1>7, FirstIs
<1>10. first \in SelectionRecord
  <2> DEFINE l == (MaximumLength + 1) - t
  <2>1. level = packages_by_level[l]
    BY DEF LevelAt
  <2>2. l \in 1 .. Len(packages_by_level)
    BY <1>1, <1>4
  <2> HIDE DEF w, level, l
  <2>3. HalfBelow(l) \in Nat /\ \E origin :
          LevelHas(packages_by_level[l], PairsBelow(l), origin, HalfBelow(l))
    BY <1>2, <2>2, LevelAtHas
  <2>4. SelectionHas(level, PairsBelow(l), HalfBelow(l), w, f)
    BY <1>6, <1>9, <2>1, <2>3, SelectionFacts
  <2>5. first.symbols \in SUBSET NonZero /\ first.several \in Nat
    BY <1>9, <2>4 DEF SelectionHas
  <2>6. first = [symbols |-> first.symbols, several |-> first.several]
    <3>1. \E x, y : SelectionOf(level, f) = [symbols |-> x, several |-> y]
      BY DEF SelectionOf
    <3>2. QED
      BY <1>9, <3>1
  <2>7. QED
    BY <2>5, <2>6, NonZeroFinite DEF SelectionRecord
<1>11. /\ S' \in Seq(SelectionRecord) /\ Len(S') = t /\ S'[t] = first
       /\ \A h \in 1 .. k : S'[h] = S[h]
  <2> HIDE DEF w, level
  <2>1. QED
    BY <1>0, <1>2, <1>7, <1>10, Appended
<1>12. SelectionInv(t)'
  <2>1. t # 1 => t - 1 \in 1 .. k
    BY <1>0, <1>4
  <2> DEFINE lv == LevelAt(t)
             wt == WantedAt(t)
  <2>2. lv' = level
    BY <1>1 DEF LevelAt
  <2>3. wt' = w
    <3>1. CASE t = 1
      BY <1>3, <3>1 DEF WantedAt
    <3>2. CASE t # 1
      <4>1. WantedAt(t) = 2 * S[t - 1].several
        BY <3>2, Zenon DEF WantedAt
      <4>2. WantedAt(t)' = 2 * S'[t - 1].several
        BY <3>2, Zenon DEF WantedAt
      <4>3. S'[t - 1] = S[t - 1]
        BY <1>11, <2>1, <3>2
      <4>4. QED
        BY <4>1, <4>2, <4>3
    <3>3. QED
      BY <3>1, <3>2
  <2> HIDE DEF lv, wt, w, level
  <2>4. Selects(lv, wt, f)' <=> Selects(level, w, f)
    BY <2>2, <2>3, Zenon DEF Selects, AsHeavyAs
  <2>5. SelectionOf(lv, f)' = SelectionOf(level, f)
    BY <2>2, Zenon DEF SelectionOf, SeveralIn
  <2>6. Selects(lv, wt, f)' /\ S'[t] = SelectionOf(lv, f)'
    BY <1>9, <1>11, <2>4, <2>5
  <2>7. QED
    BY <2>6, Zenon DEF SelectionInv, lv, wt
<1>13. ASSUME NEW h \in 1 .. k
       PROVE  SelectionInv(h)'
  <2>1. SelectionInv(h)
    BY <1>2 DEF MergeInv
  <2>2. h # 1 => h - 1 \in 1 .. k
    BY <1>4
  <2> HIDE DEF w, level
  <2>3. QED
    BY <1>1, <1>11, <2>1, <2>2, SelectionKept
<1> HIDE DEF w, level
<1>14. \A h \in 1 .. Len(S') : SelectionInv(h)'
  <2> SUFFICES ASSUME NEW h \in 1 .. Len(S')
               PROVE  SelectionInv(h)'
    OBVIOUS
  <2>1. h \in 1 .. k \/ h = t
    BY <1>0, <1>4, <1>11
  <2>2. ASSUME h = t
        PROVE  SelectionInv(h)'
    BY <1>12, <2>2
  <2>3. QED
    BY <1>13, <2>1, <2>2
<1>15. \A l \in 1 .. Len(packages_by_level') : LevelInv(l)'
  <2> SUFFICES ASSUME NEW l \in 1 .. Len(packages_by_level)
               PROVE  LevelInv(l)'
    BY <1>1
  <2>1. LevelInv(l)
    BY <1>2 DEF MergeInv
  <2>2. QED
    BY <1>1, <2>1, LevelKept
<1>16. MergeInv'
  <2>1. /\ Cardinality(NonZero)' >= 2
        /\ Len(packages_by_level') \in 1 .. MaximumLength
    BY <1>1, <1>2, <1>3 DEF MergeInv
  <2>2. Len(S') \in 0 .. MaximumLength
    BY <1>4, <1>11
  <2>3. QED
    BY <1>1, <1>14, <1>15, <2>1, <2>2 DEF MergeInv
<1>17. QED
  BY <1>1, <1>2, <1>3, <1>8, <1>11, <1>16 DEF Inv, CompleteCode

LEMMA CountLengthsStep ==
  ASSUME Inv, CountLengths
  PROVE  Inv'
<1> DEFINE L == MaximumLength
           S == SelectedSymbols
           F == SpaceAfter(S, NonZero, L, L)
<1>1. /\ pc = "merge" /\ pc' = "done" /\ weights' = weights
      /\ packages_by_level' = packages_by_level /\ solution_by_level' = solution_by_level
      /\ Len(solution_by_level) = L
      /\ lengths' = [s \in Symbol |-> Cardinality({t \in 1 .. L :
                                        s \in solution_by_level[t].symbols})]
  BY DEF CountLengths
<1>2. /\ WeightsType /\ LengthsType /\ MergeInv
      /\ packages_by_level \in Seq(Seq(Package)) /\ Len(packages_by_level) <= L
      /\ solution_by_level \in Seq(SelectionRecord)
  BY <1>1 DEF Inv
<1>3. WeightsType' /\ NonZero' = NonZero
  BY <1>1, <1>2, WeightsUnchanged
<1>4. L \in Nat \ {0} /\ IsFiniteSet(NonZero) /\ Cardinality(NonZero) >= 2
      /\ Cardinality(NonZero) \in Nat /\ NonZero \in SUBSET Symbol
  BY <1>2, Constants, NonZeroFinite DEF MergeInv
<1>5. Shrinking(S, SelectedPairs, NonZero, L)
  BY <1>1, <1>2, SolutionShrinks
<1>6. SumFunctionOnSet(F, NonZero) = 2 ^ L
  BY <1>4, <1>5, SpaceIsWhole
<1>7. \A s \in Symbol : With(S, L, s) = {t \in 1 .. L : s \in solution_by_level[t].symbols}
  BY DEF With, SelectedSymbols
<1>8. \A s \in Symbol : lengths'[s] = Cardinality(With(S, L, s))
  BY <1>1, <1>7
<1> HIDE DEF S
<1>9. \A s \in Symbol : lengths'[s] \in 0 .. L
  <2> SUFFICES ASSUME NEW s \in Symbol
               PROVE  lengths'[s] \in 0 .. L
    OBVIOUS
  <2>1. L \in Nat /\ L <= L
    BY <1>4
  <2>2. Cardinality(With(S, L, s)) \in 0 .. L
    BY <2>1, WithSize
  <2>3. QED
    BY <1>8, <2>2
<1>10. LengthsType'
  BY <1>1, <1>9 DEF LengthsType
<1>11. \A s \in Symbol : lengths'[s] > 0 <=> s \in NonZero
  <2> SUFFICES ASSUME NEW s \in Symbol
               PROVE  lengths'[s] > 0 <=> s \in NonZero
    OBVIOUS
  <2> DEFINE T == With(S, L, s)
  <2>1. T \in SUBSET (1 .. L)
    BY DEF With
  <2>2. IsFiniteSet(T)
    <3>1. IsFiniteSet(1 .. L)
      BY <1>4, FS_Interval
    <3> HIDE DEF T
    <3>2. QED
      BY <2>1, <3>1, FS_Subset
  <2>3. s \in NonZero => T # {}
    <3>1. 1 \in 1 .. L /\ S[1] = NonZero
      BY <1>4, <1>5 DEF Shrinking
    <3>2. QED
      BY <3>1 DEF With
  <2>4. s \notin NonZero => T = {}
    <3>1. \A t \in 1 .. L : S[t] \in SUBSET NonZero
      BY <1>5 DEF Shrinking
    <3>2. QED
      BY <3>1 DEF With
  <2> HIDE DEF T
  <2>5. Cardinality(T) \in Nat /\ (Cardinality(T) = 0 <=> T = {})
    BY <2>2, FS_CardinalityType, FS_EmptySet
  <2>6. lengths'[s] = Cardinality(T)
    BY <1>8 DEF T
  <2>7. QED
    BY <2>3, <2>4, <2>5, <2>6
<1>12. Coded' = NonZero /\ {s \in Symbol : lengths'[s] > 0} = NonZero
  BY <1>4, <1>11 DEF Coded
<1>13. F = [s \in NonZero |-> 2 ^ (L - lengths'[s])]
  <2>1. \A s \in NonZero : 2 ^ (L - lengths'[s]) = 2 ^ (L - Cardinality(With(S, L, s)))
    BY <1>4, <1>8
  <2>2. QED
    BY <2>1, Zenon DEF SpaceAfter
<1>14. Space' = F
  BY <1>12, <1>13, Zenon DEF Space
<1>15. CodeSpace(lengths, NonZero)' = 2 ^ L
  <2>1. CodeSpace(lengths, NonZero)' = SumFunction([s \in NonZero |-> 2 ^ (L - lengths'[s])])
    BY <1>3, Zenon DEF CodeSpace
  <2>2. DOMAIN F = NonZero
    BY DEF SpaceAfter
  <2> HIDE DEF F
  <2>3. SumFunction(F) = SumFunctionOnSet(F, NonZero)
    BY <2>2, Zenon DEF SumFunction
  <2>4. QED
    BY <1>6, <1>13, <2>1, <2>3, Zenon
<1>16. Kraft'
  <2> DEFINE p == 2 ^ L
  <2>1. p \in Nat /\ SumFunctionOnSet(Space', Coded') = p
    <3>1. p \in Nat
      BY Constants
    <3> HIDE DEF F, p
    <3>2. SumFunctionOnSet(Space', Coded') = p
      BY <1>6, <1>12, <1>14, Zenon DEF p
    <3>3. QED
      BY <3>1, <3>2
  <2> HIDE DEF p
  <2>2. SumFunctionOnSet(Space', Coded') <= p
    BY <2>1
  <2>3. QED
    BY <2>2 DEF Kraft, p
<1>17. CompleteCode'
  <2>1. NonZero' = {s \in Symbol : lengths'[s] > 0}
    BY <1>3, <1>12
  <2>2. QED
    BY <1>15, <2>1 DEF CompleteCode
<1>18. QED
  BY <1>1, <1>2, <1>3, <1>10, <1>16, <1>17 DEF Inv

LEMMA FewSymbolsStep ==
  ASSUME Inv, FewSymbols
  PROVE  Inv'
<1>1. /\ pc = "start" /\ pc' = "done" /\ weights' = weights
      /\ packages_by_level' = packages_by_level /\ solution_by_level' = solution_by_level
      /\ Cardinality(NonZero) <= 1
      /\ lengths' = [s \in Symbol |-> IF s \in NonZero THEN 1 ELSE 0]
  BY DEF FewSymbols
<1>2. /\ WeightsType /\ packages_by_level \in Seq(Seq(Package))
      /\ Len(packages_by_level) <= MaximumLength
      /\ solution_by_level \in Seq(SelectionRecord)
  BY DEF Inv
<1>3. WeightsType' /\ NonZero' = NonZero
  BY <1>1, <1>2, WeightsUnchanged
<1>4. MaximumLength \in Nat \ {0} /\ MaximumLength - 1 \in Nat
      /\ IsFiniteSet(NonZero) /\ Cardinality(NonZero) \in Nat /\ NonZero \in SUBSET Symbol
  BY Constants, NonZeroFinite
<1>5. LengthsType'
  BY <1>1, <1>4 DEF LengthsType
<1>6. Coded' = NonZero /\ {s \in Symbol : lengths'[s] > 0} = NonZero
  BY <1>1, <1>4 DEF Coded
<1> DEFINE p == 2 ^ (MaximumLength - 1)
           q == 2 ^ MaximumLength
           f == Space'
<1>7. \A s \in NonZero : f[s] = p
  <2>1. \A s \in NonZero : f[s] = 2 ^ (MaximumLength - lengths'[s])
    BY <1>6 DEF Space
  <2>2. \A s \in NonZero : lengths'[s] = 1
    BY <1>1, <1>4
  <2>3. QED
    BY <2>1, <2>2
<1>8. p \in Nat /\ q \in Nat /\ p <= q
  <2>1. MaximumLength - 1 <= MaximumLength /\ MaximumLength \in Nat
    BY <1>4
  <2>2. QED
    BY <1>4, <2>1, PowerPositive, PowerMonotone
<1> HIDE DEF f, p, q
<1>9. SumFunctionOnSet(f, NonZero) = p * Cardinality(NonZero)
  BY <1>4, <1>7, <1>8, SumConstant
<1>10. SumFunctionOnSet(f, NonZero) <= q
  <2>1. Cardinality(NonZero) = 0 \/ Cardinality(NonZero) = 1
    BY <1>1, <1>4
  <2>2. p * 0 = 0 /\ p * 1 = p
    BY <1>8
  <2>3. QED
    BY <1>8, <1>9, <2>1, <2>2
<1>11. Kraft'
  BY <1>6, <1>10 DEF Kraft, f, q
<1>12. CompleteCode'
  <2>1. NonZero' = {s \in Symbol : lengths'[s] > 0} /\ ~ (Cardinality(NonZero)' >= 2)
    BY <1>1, <1>3, <1>4, <1>6
  <2>2. QED
    BY <2>1 DEF CompleteCode
<1>13. QED
  BY <1>1, <1>2, <1>3, <1>5, <1>11, <1>12 DEF Inv

LEMMA ReturnStep ==
  ASSUME Inv, Return
  PROVE  Inv'
<1>1. /\ pc = "done" /\ pc' = "returned" /\ weights' = [s \in Symbol |-> 0]
      /\ packages_by_level' = <<>> /\ solution_by_level' = <<>> /\ lengths' = lengths
  BY DEF Return
<1>2. LengthsType' /\ Kraft'
  BY <1>1, LengthsUnchanged DEF Inv
<1>3. WeightsType'
  BY <1>1, PackageMergeAssumption DEF WeightsType
<1>4. Len(<<>>) = 0 /\ \A T : <<>> \in Seq(T)
  OBVIOUS
<1>5. QED
  BY <1>1, <1>2, <1>3, <1>4, Constants DEF Inv, CompleteCode

LEMMA MergeStep ==
  ASSUME Inv, Next
  PROVE  Inv'
BY FewSymbolsStep, FirstLevelStep, MergeLevelStep, SelectLevelStep, CountLengthsStep,
   ReturnStep DEF Next

-----------------------------------------------------------------------------
(***************************************************************************)
(* The merge, and the codes that are assigned when it has returned.        *)
(***************************************************************************)
AllInv == Inv /\ CodesInv

LEMMA MergeStutters ==
  ASSUME Inv, UNCHANGED vars
  PROVE  Inv'
<1>1. /\ pc' = pc /\ weights' = weights /\ lengths' = lengths
      /\ packages_by_level' = packages_by_level /\ solution_by_level' = solution_by_level
  BY DEF vars
<1>2. /\ WeightsType' /\ LengthsType' /\ NonZero' = NonZero /\ Kraft' = Kraft
  BY <1>1, WeightsUnchanged, LengthsUnchanged DEF Inv
<1>3. ASSUME MergeInv
      PROVE  MergeInv'
  <2>1. \A l \in 1 .. Len(packages_by_level') : LevelInv(l)'
    <3> SUFFICES ASSUME NEW l \in 1 .. Len(packages_by_level)
                 PROVE  LevelInv(l)'
      BY <1>1
    <3>1. LevelInv(l)
      BY <1>3 DEF MergeInv
    <3>2. QED
      BY <1>1, <3>1, LevelKept
  <2>2. \A t \in 1 .. Len(solution_by_level') : SelectionInv(t)'
    <3> SUFFICES ASSUME NEW t \in 1 .. Len(solution_by_level)
                 PROVE  SelectionInv(t)'
      BY <1>1
    <3>1. SelectionInv(t)
      BY <1>3 DEF MergeInv
    <3>2. QED
      BY <1>1, <3>1, SelectionKept
  <2>3. QED
    BY <1>1, <1>2, <1>3, <2>1, <2>2 DEF MergeInv
<1>4. CompleteCode'
  <2>1. CompleteCode
    BY DEF Inv
  <2>2. CodeSpace(lengths, NonZero)' = CodeSpace(lengths, NonZero)
    BY <1>1, <1>2, Zenon DEF CodeSpace
  <2>3. QED
    BY <1>1, <1>2, <2>1, <2>2 DEF CompleteCode
<1>5. QED
  BY <1>1, <1>2, <1>3, <1>4 DEF Inv

LEMMA AllInit ==
  ASSUME InitCodes
  PROVE  AllInv
<1>1. Init /\ Codes!Init
  BY DEF InitCodes
<1>2. Inv
  BY <1>1, InitStep
<1>3. /\ i = 0 /\ next_code_bits = [n \in 0 .. MaximumLength |-> 0]
      /\ codes = [s \in Symbol |-> Codes!NoCode]
  BY <1>1 DEF Codes!Init, Codes!Symbol, Symbol
<1>4. \A s \in Symbol : ~ (s < i)
  BY <1>3 DEF Symbol
<1>5. codes = [s \in Symbol |-> IF s \in Coded /\ s < i THEN CodeOf(s) ELSE Codes!NoCode]
  BY <1>3, <1>4
<1>6. LengthsType /\ i \in 0 .. Symbols + 1 /\ ~ (i > 0)
  BY <1>2, <1>3, Constants DEF Inv
<1>7. CodesInv
  BY <1>3, <1>5, <1>6 DEF CodesInv
<1>8. QED
  BY <1>2, <1>7 DEF AllInv

LEMMA AllStep ==
  ASSUME AllInv, [NextCodes]_allVars
  PROVE  AllInv'
<1>1. Inv /\ CodesInv
  BY DEF AllInv
<1>2. CASE MergePackages
  <2>1. /\ Next /\ i' = i /\ next_code_bits' = next_code_bits /\ codes' = codes
    BY <1>2 DEF MergePackages
  <2>2. Inv' /\ LengthsType'
    BY <1>1, <2>1, MergeStep DEF Inv
  <2>3. pc # "returned"
    BY <2>1 DEF Next, FewSymbols, FirstLevel, MergeLevel, SelectLevel, CountLengths, Return
  <2>4. i = 0 /\ next_code_bits = [n \in 0 .. MaximumLength |-> 0]
    BY <1>1, <2>3, Constants DEF CodesInv
  <2>5. \A s \in Symbol : ~ (s < i) /\ ~ (s < i')
    BY <2>1, <2>4 DEF Symbol
  <2>6. codes = [s \in Symbol |-> Codes!NoCode]
    BY <1>1, <2>5 DEF CodesInv
  <2>7. codes' = [s \in Symbol |-> IF s \in Coded' /\ s < i' THEN CodeOf(s)'
                                   ELSE Codes!NoCode]
    BY <2>1, <2>5, <2>6
  <2>8. i' \in 0 .. Symbols + 1 /\ i' = 0 /\ ~ (i' > 0)
    BY <2>1, <2>4, Constants
  <2>9. CodesInv'
    BY <2>1, <2>2, <2>4, <2>7, <2>8 DEF CodesInv
  <2>10. QED
    BY <2>2, <2>9 DEF AllInv
<1>3. CASE AssignCodes
  <2>1. /\ pc = "returned" /\ Codes!Next /\ pc' = pc /\ weights' = weights
        /\ packages_by_level' = packages_by_level
        /\ solution_by_level' = solution_by_level
    BY <1>3 DEF AssignCodes
  <2>2. lengths' = lengths
    BY <2>1 DEF Codes!Next, Codes!Count, Codes!Assign
  <2>3. Inv'
    <3>1. UNCHANGED vars
      BY <2>1, <2>2 DEF vars
    <3>2. QED
      BY <1>1, <3>1, MergeStutters
  <2>4. CodesInv'
    BY <1>1, <2>1, CountStep, AssignStep DEF Codes!Next
  <2>5. QED
    BY <2>3, <2>4 DEF AllInv
<1>4. CASE UNCHANGED allVars
  <2>1. /\ UNCHANGED vars /\ pc' = pc /\ lengths' = lengths
        /\ i' = i /\ next_code_bits' = next_code_bits /\ codes' = codes
    BY <1>4 DEF allVars, vars
  <2>2. Inv' /\ LengthsType'
    BY <1>1, <2>1, MergeStutters DEF Inv
  <2>3. /\ \A n, s : NextCodeBits(n, s)' = NextCodeBits(n, s)
        /\ \A s : CodeOf(s)' = CodeOf(s)
        /\ Coded' = Coded
    BY <2>1, CodesUnchanged, LengthsUnchanged
  <2>4. \A n : NextCodeBits(n, i)' = NextCodeBits(n, i)
    BY <2>1, <2>3
  <2>5. CodesInv'
    BY <1>1, <2>1, <2>2, <2>3, <2>4 DEF CodesInv
  <2>6. QED
    BY <2>2, <2>5 DEF AllInv
<1>5. QED
  BY <1>2, <1>3, <1>4 DEF NextCodes

\* The inductive invariant holds in every state of the specification.
THEOREM MergeInvariant == SpecCodes => []AllInv
<1>1. InitCodes => AllInv
  BY AllInit
<1>2. AllInv /\ [NextCodes]_allVars => AllInv'
  BY AllStep
<1>3. QED
  BY <1>1, <1>2, PTL DEF SpecCodes

\* Every variable of package_merge and prefix_codes keeps its type: a package
\* holds symbols that exist, and no code needs more than the bits of Bits.
THEOREM TypesCorrect == SpecCodes => []TypesOK
<1>1. ASSUME AllInv
      PROVE  TypesOK
  <2>1. Inv /\ CodesInv
    BY <1>1 DEF AllInv
  <2>2. TypeOK
    BY <2>1 DEF Inv, TypeOK, WeightsType, LengthsType, SelectionRecord
  <2>3. Codes!TypeOK
    BY <2>1, CodesAreTyped
  <2>4. QED
    BY <2>2, <2>3 DEF TypesOK
<1>2. QED
  BY <1>1, MergeInvariant, PTL

\* The copy of the first packages of a level never runs past its end: there
\* are as many as the levels above ask for.
THEOREM SelectionAlwaysExists == SpecCodes => []SelectionExists
<1>1. AllInv => SelectionExists
  BY DEF AllInv, Inv, SelectionExists
<1>2. QED
  BY <1>1, MergeInvariant, PTL

\* The lengths package_merge returns are those of a complete code for exactly
\* the symbols that occur.
THEOREM CodeIsComplete == SpecCodes => []CompleteCode
<1>1. AllInv => CompleteCode
  BY DEF AllInv, Inv
<1>2. QED
  BY <1>1, MergeInvariant, PTL

LEMMA AssignedAreGood ==
  ASSUME AllInv
  PROVE  CodesFit /\ PrefixFree /\ Canonical
<1>1. Inv /\ CodesInv
  BY DEF AllInv
<1>2. CASE i = 0
  <2>1. Codes!Assigned = {}
    BY <1>2 DEF Codes!Assigned, Codes!Coded, Codes!Symbol
  <2>2. QED
    BY <2>1 DEF CodesFit, Codes!CodesFit, PrefixFree, Codes!PrefixFree,
                Canonical, Codes!Canonical
<1>3. CASE i # 0
  <2>1. pc = "returned"
    BY <1>1, <1>3, Constants DEF CodesInv
  <2>2. Kraft
    BY <1>1, <2>1 DEF Inv
  <2>3. QED
    BY <1>1, <2>2, CodesAreGood
<1>4. QED
  BY <1>2, <1>3

\* Each code prefix_codes assigns fits the length it is pushed with.
THEOREM CodesDoFit == SpecCodes => []CodesFit
<1>1. AllInv => CodesFit
  BY AssignedAreGood
<1>2. QED
  BY <1>1, MergeInvariant, PTL

\* No code prefix_codes assigns is the start of another.
THEOREM CodesArePrefixFree == SpecCodes => []PrefixFree
<1>1. AllInv => PrefixFree
  BY AssignedAreGood
<1>2. QED
  BY <1>1, MergeInvariant, PTL

\* The codes are in the order of their lengths, then of their symbols, and
\* begin with zeros: they are the ones a decoder makes of the lengths alone.
THEOREM CodesAreCanonical == SpecCodes => []Canonical
<1>1. AllInv => Canonical
  BY AssignedAreGood
<1>2. QED
  BY <1>1, MergeInvariant, PTL

-----------------------------------------------------------------------------
(***************************************************************************)
(* What a selection weighs.  The packages of a level are the symbols and   *)
(* the pairs of the level below, and the first of them the lightest.       *)
(***************************************************************************)
WeightOf(packages) == [k \in DOMAIN packages |-> packages[k].weight]

OriginWeight(pairs) == [o \in Origins(pairs) |-> PackageOf(pairs, o).weight]

Minus(J) == {- j : j \in J}

\* Packages that hold several symbols and weigh something.
Weighed(pairs, m) ==
  /\ Len(pairs) = m /\ DOMAIN pairs = 1 .. m
  /\ \A j \in 1 .. m : pairs[j].weight \in Nat

\* How many symbols and pairs there are, and what they weigh.
OriginsHave(pairs, B, J) ==
  LET O == B \cup Minus(J)
  IN /\ IsFiniteSet(O) /\ O \in SUBSET Origins(pairs)
     /\ Cardinality(O) = Cardinality(B) + Cardinality(J)
     /\ \A o \in Origins(pairs) : OriginWeight(pairs)[o] \in Nat
     /\ SumFunctionOnSet(OriginWeight(pairs), O) =
          SumFunctionOnSet(weights, B) + SumFunctionOnSet(WeightOf(pairs), J)

\* Symbols B and pairs J weigh as packages what they weigh on their own.
LEMMA OriginsWeigh ==
  ASSUME WeightsType, NEW m \in Nat, NEW pairs, Weighed(pairs, m),
         NEW B \in SUBSET NonZero, NEW J \in SUBSET (1 .. m)
  PROVE  OriginsHave(pairs, B, J)
<1> DEFINE f == OriginWeight(pairs)
           u == WeightOf(pairs)
           M == Minus(J)
           all == Origins(pairs)
<1>1. /\ \A s \in NonZero : s \in Int /\ s > 0 /\ weights[s] \in Nat
      /\ IsFiniteSet(NonZero)
  <2>1. \A s \in NonZero : s \in Int /\ s > 0 /\ s \in Symbol
    BY NonZeroFinite
  <2>2. \A s \in Symbol : weights[s] \in Nat
    BY PackageMergeAssumption DEF WeightsType
  <2>3. QED
    BY <2>1, <2>2, NonZeroFinite
<1>2. /\ Len(pairs) = m /\ DOMAIN pairs = 1 .. m
      /\ \A j \in 1 .. m : pairs[j].weight \in Nat
  BY DEF Weighed
<1>3. all = NonZero \cup {- j : j \in 1 .. m}
  BY <1>2 DEF Origins
<1>4. /\ \A s \in NonZero : s \in all /\ f[s] = weights[s]
      /\ \A j \in 1 .. m : - j \in all /\ f[- j] = pairs[j].weight
  <2>1. ASSUME NEW s \in NonZero
        PROVE  s \in all /\ f[s] = weights[s]
    BY <1>1, <1>3, <2>1 DEF OriginWeight, PackageOf
  <2>2. ASSUME NEW j \in 1 .. m
        PROVE  - j \in all /\ f[- j] = pairs[j].weight
    <3>1. - j \in all /\ ~ (- j > 0) /\ - (- j) = j
      BY <1>3
    <3>2. PackageOf(pairs, - j).weight = pairs[j].weight
      BY <3>1 DEF PackageOf
    <3> HIDE DEF all
    <3>3. f[- j] = PackageOf(pairs, - j).weight
      BY <3>1 DEF OriginWeight, all
    <3>4. QED
      BY <3>1, <3>2, <3>3
  <2>3. QED
    BY <2>1, <2>2
<1>5. \A j \in 1 .. m : u[j] = pairs[j].weight /\ u[j] \in Nat
  BY <1>2 DEF WeightOf
<1>6. \A o \in all : f[o] \in Nat
  <2> HIDE DEF f, all
  <2>1. ASSUME NEW o \in all
        PROVE  f[o] \in Nat
    <3>1. CASE o \in NonZero
      BY <1>1, <1>4, <3>1
    <3>2. CASE \E j \in 1 .. m : o = - j
      BY <1>2, <1>4, <3>2
    <3>3. QED
      BY <1>3, <3>1, <3>2
  <2>2. QED
    BY <2>1
<1> HIDE DEF f, u, all
<1>7. IsFiniteSet(B) /\ Cardinality(B) \in Nat
  BY <1>1, SizeOf
<1>8. IsFiniteSet(J) /\ Cardinality(J) \in Nat
  <2>1. IsFiniteSet(1 .. m)
    BY FS_Interval
  <2>2. QED
    BY <2>1, SizeOf
<1>9. /\ IsFiniteSet(M) /\ Cardinality(M) = Cardinality(J)
      /\ SumFunctionOnSet(f, M) = SumFunctionOnSet(u, J)
  <2> DEFINE move == [j \in J |-> - j]
             K == J
  <2>1. /\ \A j \in K : u[j] \in Nat /\ f[move[j]] = u[j]
        /\ \A j, k \in K : move[j] = move[k] => j = k
    BY <1>4, <1>5
  <2>2. M = {move[j] : j \in K} /\ IsFiniteSet(K)
    BY <1>8 DEF Minus
  <2> HIDE DEF move, M, K
  <2>3. /\ IsFiniteSet(M) /\ Cardinality(M) = Cardinality(K)
        /\ SumFunctionOnSet(f, M) = SumFunctionOnSet(u, K)
    BY <2>1, <2>2, SumMoved
  <2>4. QED
    BY <2>3 DEF K
<1>10. /\ M \in SUBSET all /\ B \in SUBSET all /\ Apart(B, M) /\ B \cap M = {}
  <2>1. \A x \in M : x \in Int /\ x < 0 /\ x \in all
    BY <1>4 DEF Minus
  <2> HIDE DEF M
  <2>2. QED
    BY <1>1, <1>4, <2>1 DEF Apart
<1> HIDE DEF M
<1> DEFINE O == B \cup M
<1>11. IsFiniteSet(O) /\ Cardinality(O) = Cardinality(B) + Cardinality(J)
  <2>1. IsFiniteSet(O)
    BY <1>7, <1>9, FS_Union
  <2>2. Cardinality(O) = Cardinality(B) + Cardinality(M) - Cardinality(B \cap M)
    BY <1>7, <1>9, FS_Union
  <2>3. Cardinality(B \cap M) = 0
    BY <1>10, FS_EmptySet
  <2> HIDE DEF O
  <2>4. QED
    BY <1>7, <1>8, <1>9, <2>1, <2>2, <2>3
<1>12. Terms(f, O)
  BY <1>6, <1>10, <1>11 DEF Terms
<1>13. SumFunctionOnSet(f, B \cup M) = SumFunctionOnSet(f, B) + SumFunctionOnSet(f, M)
  <2>1. B \in SUBSET O /\ M \in SUBSET O
    OBVIOUS
  <2> HIDE DEF O
  <2>2. QED
    BY <1>10, <1>12, <2>1, SumUnion
<1>14. SumFunctionOnSet(f, B) = SumFunctionOnSet(weights, B)
  <2>1. \A s \in B : f[s] \in Nat /\ f[s] = weights[s]
    BY <1>1, <1>4
  <2>2. QED
    BY <1>7, <2>1, SumSame
<1>15. SumFunctionOnSet(f, O) = SumFunctionOnSet(weights, B) + SumFunctionOnSet(u, J)
  BY <1>9, <1>13, <1>14
<1>16. O \in SUBSET all
  BY <1>10
<1> HIDE DEF O
<1>17. QED
  BY <1>6, <1>11, <1>15, <1>16, Zenon DEF OriginsHave, f, u, all, M, O

\* The places of symbols and pairs in a level.
LEMMA PlacesOf ==
  ASSUME WeightsType, NEW m \in Nat, NEW pairs, Weighed(pairs, m),
         NEW level, NEW origin, LevelIs(level, pairs, origin),
         NEW B \in SUBSET NonZero, NEW J \in SUBSET (1 .. m)
  PROVE  \E P \in SUBSET DOMAIN level :
           /\ Cardinality(P) = Cardinality(B) + Cardinality(J)
           /\ SumFunctionOnSet(WeightOf(level), P) =
                SumFunctionOnSet(weights, B) + SumFunctionOnSet(WeightOf(pairs), J)
<1> DEFINE n == Cardinality(NonZero) + Len(pairs)
           all == Origins(pairs)
           O == B \cup Minus(J)
           f == OriginWeight(pairs)
           g == WeightOf(level)
           move == [o \in O |-> CHOOSE k \in 1 .. n : origin[k] = o]
<1>1. /\ IsFiniteSet(O) /\ O \in SUBSET all
      /\ Cardinality(O) = Cardinality(B) + Cardinality(J)
      /\ \A o \in all : f[o] \in Nat
      /\ SumFunctionOnSet(f, O) =
           SumFunctionOnSet(weights, B) + SumFunctionOnSet(WeightOf(pairs), J)
  <2>1. OriginsHave(pairs, B, J)
    BY OriginsWeigh
  <2>2. QED
    BY <2>1, Zenon DEF OriginsHave
<1>2. /\ Arranges(origin, n, all)
      /\ level = [k \in 1 .. n |-> PackageOf(pairs, origin[k])]
  BY DEF LevelIs
<1> HIDE DEF n, all, O
<1>3. \A o \in O : /\ o \in all /\ \E k \in 1 .. n : origin[k] = o
  BY <1>1, <1>2 DEF Arranges
<1>4. \A o \in O : move[o] \in 1 .. n /\ origin[move[o]] = o
  BY <1>3
<1> HIDE DEF move
<1>5. \A o \in O : f[o] \in Nat /\ g[move[o]] = f[o]
  <2> SUFFICES ASSUME NEW o \in O
               PROVE  g[move[o]] = f[o]
    BY <1>1, <1>3
  <2>1. move[o] \in 1 .. n /\ origin[move[o]] = o /\ o \in all
    BY <1>3, <1>4
  <2>2. g[move[o]] = PackageOf(pairs, o).weight
    BY <1>2, <2>1 DEF WeightOf
  <2>3. f[o] = PackageOf(pairs, o).weight
    BY <2>1 DEF OriginWeight, all
  <2>4. QED
    BY <2>2, <2>3
<1>6. \A o, q \in O : move[o] = move[q] => o = q
  BY <1>4
<1> DEFINE P == {move[o] : o \in O}
<1> HIDE DEF f, g
<1>7. Cardinality(P) = Cardinality(O) /\ SumFunctionOnSet(g, P) = SumFunctionOnSet(f, O)
  BY <1>1, <1>5, <1>6, SumMoved
<1>8. P \in SUBSET DOMAIN level
  BY <1>2, <1>4
<1> HIDE DEF P
<1>9. QED
  BY <1>1, <1>7, <1>8 DEF g

\* What is selected weighs as much as the symbols and the pairs it holds.
LEMMA SelectionWeighs ==
  ASSUME WeightsType, NEW m \in Nat, NEW pairs, Weighed(pairs, m),
         NEW level, NEW origin, LevelIs(level, pairs, origin),
         NEW P \in SUBSET DOMAIN level
  PROVE  \E J \in SUBSET (1 .. m) :
           /\ Cardinality(J) = SelectionOf(level, P).several
           /\ SumFunctionOnSet(WeightOf(level), P) =
                SumFunctionOnSet(weights, SelectionOf(level, P).symbols)
                  + SumFunctionOnSet(WeightOf(pairs), J)
<1> DEFINE n == Cardinality(NonZero) + Len(pairs)
           all == Origins(pairs)
           f == OriginWeight(pairs)
           g == WeightOf(level)
           B == SelectionOf(level, P).symbols
           J == {j \in 1 .. m : \E p \in P : origin[p] = - j}
           S == SeveralIn(level, P)
<1>1. /\ Arranges(origin, n, all) /\ DOMAIN level = 1 .. n
      /\ level = [k \in 1 .. n |-> PackageOf(pairs, origin[k])]
  BY DEF LevelIs
<1>2. /\ B = {level[p].index : p \in P} \ {Several}
      /\ SelectionOf(level, P).several = Cardinality(S)
      /\ S = {p \in P : level[p].index = Several}
  BY Zenon DEF SelectionOf, SeveralIn
<1>3. n \in Nat /\ Len(pairs) = m
  BY NonZeroFinite DEF Weighed
<1> HIDE DEF n
<1>4. \A p \in P :
        /\ p \in 1 .. n /\ origin[p] \in all
        /\ origin[p] \in NonZero \/ \E j \in 1 .. m : origin[p] = - j
        /\ level[p] = PackageOf(pairs, origin[p])
  BY <1>1, <1>3 DEF Arranges, Origins
<1>5. \A s \in NonZero : s \in Int /\ s > 0
  BY NonZeroFinite
<1>6. \A p \in P : /\ origin[p] \in NonZero => level[p].index = origin[p]
                   /\ \A j \in 1 .. m : origin[p] = - j => level[p].index = Several
  <2> SUFFICES ASSUME NEW p \in P
               PROVE  /\ origin[p] \in NonZero => level[p].index = origin[p]
                      /\ \A j \in 1 .. m : origin[p] = - j => level[p].index = Several
    OBVIOUS
  <2>1. level[p].index = IF origin[p] > 0 THEN origin[p] ELSE Several
    <3>1. level[p] = PackageOf(pairs, origin[p])
      BY <1>4
    <3>2. PackageOf(pairs, origin[p]).index = IF origin[p] > 0 THEN origin[p] ELSE Several
      BY DEF PackageOf
    <3>3. QED
      BY <3>1, <3>2, Zenon
  <2>2. origin[p] \in NonZero => level[p].index = origin[p]
    BY <1>5, <2>1
  <2>3. ASSUME NEW j \in 1 .. m, origin[p] = - j
        PROVE  level[p].index = Several
    <3>1. ~ (origin[p] > 0)
      BY <2>3
    <3>2. QED
      BY <2>1, <3>1
  <2>4. QED
    BY <2>2, <2>3
<1>7. \A s \in NonZero : s # Several
  BY <1>5 DEF Several
<1>8. \A j, k \in 1 .. n : origin[j] = origin[k] => j = k
  BY <1>1 DEF Arranges
<1> HIDE DEF all, B, S
<1>9. B = {origin[p] : p \in P} \cap NonZero
  <2>1. ASSUME NEW s \in B
        PROVE  s \in {origin[p] : p \in P} /\ s \in NonZero
    BY <1>2, <1>4, <1>6, <2>1
  <2>2. ASSUME NEW s \in NonZero, NEW p \in P, s = origin[p]
        PROVE  s \in B
    <3>1. level[p].index = s /\ s # Several
      BY <1>6, <1>7, <2>2
    <3>2. QED
      BY <1>2, <3>1
  <2>3. QED
    BY <2>1, <2>2
<1>10. {origin[p] : p \in P} = B \cup Minus(J)
  <2>1. ASSUME NEW p \in P
        PROVE  origin[p] \in B \cup Minus(J)
    BY <1>4, <1>9 DEF Minus
  <2>2. ASSUME NEW o \in B \cup Minus(J)
        PROVE  \E p \in P : o = origin[p]
    BY <1>9 DEF Minus
  <2>3. QED
    BY <2>1, <2>2
<1>11. Cardinality(J) = Cardinality(S)
  <2> DEFINE h == [p \in S |-> - origin[p]]
  <2>1. \A p \in S : p \in P /\ level[p].index = Several
    BY <1>2
  <2>2. \A p \in S : h[p] \in J /\ origin[p] = - h[p] /\ p \in 1 .. n
    <3> SUFFICES ASSUME NEW p \in S
                 PROVE  h[p] \in J /\ origin[p] = - h[p]
      BY <1>4, <2>1
    <3>1. p \in P /\ level[p].index = Several
      BY <2>1
    <3>2. origin[p] \notin NonZero
      BY <1>6, <1>7, <3>1
    <3>3. PICK j \in 1 .. m : origin[p] = - j
      BY <1>4, <3>1, <3>2
    <3>4. - origin[p] = j
      BY <3>3
    <3>5. QED
      BY <3>1, <3>3, <3>4
  <2>3. \A p, q \in S : h[p] = h[q] => p = q
    BY <1>8, <2>2
  <2>4. \A j \in J : \E p \in S : h[p] = j
    <3> SUFFICES ASSUME NEW j \in J
                 PROVE  \E p \in S : h[p] = j
      OBVIOUS
    <3>1. PICK p \in P : origin[p] = - j
      OBVIOUS
    <3>2. level[p].index = Several
      BY <1>6, <3>1
    <3>3. p \in S
      BY <1>2, <3>2
    <3>4. - origin[p] = j
      BY <3>1
    <3>5. QED
      BY <3>3, <3>4
  <2>5. IsFiniteSet(J)
    <3>1. IsFiniteSet(1 .. m) /\ J \in SUBSET (1 .. m)
      BY FS_Interval
    <3> HIDE DEF J
    <3>2. QED
      BY <3>1, SizeOf
  <2> HIDE DEF h, J
  <2>6. QED
    BY <2>2, <2>3, <2>4, <2>5, Injected
<1>12. J \in SUBSET (1 .. m) /\ B \in SUBSET NonZero
  BY <1>9
<1> HIDE DEF J
<1>13. /\ \A o \in all : f[o] \in Nat
       /\ SumFunctionOnSet(f, B \cup Minus(J)) =
            SumFunctionOnSet(weights, B) + SumFunctionOnSet(WeightOf(pairs), J)
  <2>1. OriginsHave(pairs, B, J)
    BY <1>12, OriginsWeigh
  <2>2. QED
    BY <2>1, Zenon DEF OriginsHave, all
<1>14. SumFunctionOnSet(f, {origin[p] : p \in P}) = SumFunctionOnSet(g, P)
  <2>1. \A p \in P : g[p] = f[origin[p]]
    <3> SUFFICES ASSUME NEW p \in P
                 PROVE  g[p] = f[origin[p]]
      OBVIOUS
    <3>1. p \in 1 .. n /\ origin[p] \in all /\ level[p] = PackageOf(pairs, origin[p])
      BY <1>4
    <3>2. g[p] = level[p].weight
      BY <1>1, <3>1 DEF WeightOf
    <3>3. f[origin[p]] = PackageOf(pairs, origin[p]).weight
      BY <3>1 DEF OriginWeight, all
    <3>4. QED
      BY <3>1, <3>2, <3>3
  <2> HIDE DEF f, g
  <2>2. \A p \in P : g[p] \in Nat /\ f[origin[p]] = g[p]
    BY <1>4, <1>13, <2>1
  <2>3. \A p, q \in P : origin[p] = origin[q] => p = q
    BY <1>4, <1>8
  <2>4. IsFiniteSet(P)
    <3>1. P \in SUBSET (1 .. n)
      BY <1>4
    <3>2. IsFiniteSet(1 .. n)
      BY <1>3, FS_Interval
    <3>3. QED
      BY <3>1, <3>2, SizeOf
  <2>5. QED
    BY <2>2, <2>3, <2>4, SumMoved
<1>15. SumFunctionOnSet(g, P) =
         SumFunctionOnSet(weights, B) + SumFunctionOnSet(WeightOf(pairs), J)
  <2>1. SumFunctionOnSet(f, {origin[p] : p \in P}) = SumFunctionOnSet(f, B \cup Minus(J))
    BY <1>10, Zenon
  <2>2. QED
    BY <1>13, <1>14, <2>1
<1>16. QED
  BY <1>2, <1>11, <1>12, <1>15 DEF B

\* The first packages are the lightest.
LEMMA FirstAreLightest ==
  ASSUME NEW m \in Nat, NEW packages, Weighed(packages, m), Ordered(packages)
  PROVE  /\ Terms(WeightOf(packages), 1 .. m)
         /\ \A k \in 1 .. m : WeightOf(packages)[k] = packages[k].weight
         /\ \A k \in 0 .. m : /\ Cardinality(1 .. k) = k
                              /\ 1 .. k \in SUBSET (1 .. m)
                              /\ LightestOf(WeightOf(packages), 1 .. m, 1 .. k)
<1> DEFINE g == WeightOf(packages)
<1>1. /\ DOMAIN packages = 1 .. m
      /\ \A j \in 1 .. m : packages[j].weight \in Nat
  BY DEF Weighed
<1>2. \A k \in 1 .. m : g[k] = packages[k].weight /\ g[k] \in Nat
  BY <1>1 DEF WeightOf
<1>3. \A j, k \in 1 .. m : j <= k => g[j] <= g[k]
  BY <1>1, <1>2 DEF Ordered
<1> HIDE DEF g
<1>4. Terms(g, 1 .. m)
  BY <1>2, FS_Interval DEF Terms
<1>5. ASSUME NEW k \in 0 .. m
      PROVE  /\ Cardinality(1 .. k) = k
             /\ 1 .. k \in SUBSET (1 .. m)
             /\ LightestOf(g, 1 .. m, 1 .. k)
  <2>1. Cardinality(1 .. k) = IF 1 > k THEN 0 ELSE k - 1 + 1
    BY FS_Interval
  <2>2. Cardinality(1 .. k) = k
    BY <2>1
  <2>3. 1 .. k \in SUBSET (1 .. m)
    OBVIOUS
  <2>4. ASSUME NEW x \in 1 .. k, NEW y \in 1 .. m, y \notin 1 .. k
        PROVE  g[x] <= g[y]
    BY <1>3, <2>4
  <2>5. QED
    BY <2>2, <2>3, <2>4 DEF LightestOf
<1>6. QED
  BY <1>2, <1>4, <1>5 DEF g

\* What the first packages weigh is a number.
LEMMA FirstIsNat ==
  ASSUME NEW m \in Nat, NEW packages, Weighed(packages, m), Ordered(packages),
         NEW k \in 0 .. m
  PROVE  SumFunctionOnSet(WeightOf(packages), 1 .. k) \in Nat
<1> DEFINE D == 1 .. m
           P == 1 .. k
           g == WeightOf(packages)
<1>1. Terms(g, D) /\ P \in SUBSET D
  BY FirstAreLightest
<1> HIDE DEF D, P, g
<1>2. SumFunctionOnSet(g, P) \in Nat
  BY <1>1, SumSubset
<1>3. QED
  BY <1>2 DEF P, g

-----------------------------------------------------------------------------
\* What the first k packages of a level weigh; below the lowest there are none.
FirstWeigh(l, k) ==
  IF l = 0 THEN 0 ELSE SumFunctionOnSet(WeightOf(packages_by_level[l]), 1 .. k)

\* Every level, and the pairs of the level below, are in the order of weights.
LEMMA LevelOrdered ==
  ASSUME WeightsType, MergeInv, NEW l \in 1 .. Len(packages_by_level)
  PROVE  LET level == packages_by_level[l]
             pairs == PairsBelow(l)
             m == HalfBelow(l)
         IN /\ l \in 1 .. MaximumLength /\ Len(level) \in Nat /\ m \in Nat
            /\ Weighed(level, Len(level)) /\ Ordered(level)
            /\ Weighed(pairs, m) /\ Ordered(pairs)
            /\ \E origin : LevelIs(level, pairs, origin)
<1> DEFINE level == packages_by_level[l]
           pairs == PairsBelow(l)
           m == HalfBelow(l)
           len == Len(level)
<1>1. /\ l \in 1 .. MaximumLength /\ GoodLevel(level, l) /\ m \in Nat
      /\ Len(pairs) = m /\ \E origin : LevelIs(level, pairs, origin)
  BY LevelAtHas
<1>2. /\ len \in Nat /\ DOMAIN level = 1 .. len /\ Ordered(level)
      /\ \A k \in 1 .. len : level[k].weight \in 1 .. 2 ^ (l - 1) * MaxWeight
  BY <1>1, Zenon DEF GoodLevel
<1>3. \A k \in 1 .. len : level[k].weight \in Nat
  BY <1>2
<1>4. Weighed(level, len)
  BY <1>2, <1>3 DEF Weighed
<1>5. Weighed(pairs, m) /\ Ordered(pairs)
  <2>1. CASE l = 1
    <3>1. pairs = <<>> /\ m = 0
      BY <2>1 DEF PairsBelow, HalfBelow
    <3> HIDE DEF pairs, m
    <3>2. Len(<<>>) = 0 /\ DOMAIN <<>> = 1 .. 0 /\ 1 .. 0 = {}
      OBVIOUS
    <3>3. QED
      BY <3>1, <3>2 DEF Weighed, Ordered
  <2>2. CASE l # 1
    <3> DEFINE k == l - 1
               below == packages_by_level[k]
               size == Len(below)
    <3>1. k \in 1 .. MaximumLength /\ k < MaximumLength /\ k \in 1 .. Len(packages_by_level)
      BY <1>1, <2>2, Constants DEF MergeInv
    <3>2. pairs = Pairs(below) /\ m = size \div 2
      BY <2>2 DEF PairsBelow, HalfBelow
    <3> HIDE DEF k, pairs, m, level, len
    <3>3. GoodLevel(below, k)
      BY <3>1, LevelAtHas
    <3> HIDE DEF below, size
    <3>4. /\ PairsOf(pairs, m) /\ Len(pairs) = m
          /\ \A j \in 1 .. m :
               /\ 2 * j - 1 \in 1 .. size /\ 2 * j \in 1 .. size
               /\ pairs[j].weight = below[2 * j - 1].weight + below[2 * j].weight
               /\ pairs[j].weight \in 1 .. 2 ^ ((k + 1) - 1) * MaxWeight
      BY <3>1, <3>2, <3>3, PairsAre DEF size
    <3>5. /\ DOMAIN below = 1 .. size /\ Ordered(below)
          /\ \A j \in 1 .. size : below[j].weight \in 1 .. 2 ^ (k - 1) * MaxWeight
      BY <3>3, Zenon DEF GoodLevel, size
    <3>6. \A j \in 1 .. size : below[j].weight \in Int
      BY <3>5
    <3>7. DOMAIN pairs = 1 .. m
      BY <3>4 DEF PairsOf
    <3>8. \A j \in 1 .. m : pairs[j].weight \in Nat
      BY <3>4
    <3>9. ASSUME NEW j \in 1 .. m, NEW h \in 1 .. m, j <= h
          PROVE  pairs[j].weight <= pairs[h].weight
      <4>1. 2 * j - 1 <= 2 * h - 1 /\ 2 * j <= 2 * h
        BY <3>9
      <4>2. /\ 2 * j - 1 \in 1 .. size /\ 2 * j \in 1 .. size
            /\ 2 * h - 1 \in 1 .. size /\ 2 * h \in 1 .. size
        BY <3>4
      <4>3. /\ below[2 * j - 1].weight <= below[2 * h - 1].weight
            /\ below[2 * j].weight <= below[2 * h].weight
        BY <3>5, <4>1, <4>2 DEF Ordered
      <4>4. QED
        BY <3>4, <3>6, <4>2, <4>3
    <3>10. QED
      BY <3>4, <3>7, <3>8, <3>9 DEF Weighed, Ordered
  <2>3. QED
    BY <2>1, <2>2
<1>6. QED
  BY <1>1, <1>2, <1>4, <1>5

\* The first pairs weigh as much as the first packages they are made of.
LEMMA PairsWeigh ==
  ASSUME WeightsType, MergeInv, NEW l \in 1 .. Len(packages_by_level),
         NEW j \in 0 .. HalfBelow(l)
  PROVE  SumFunctionOnSet(WeightOf(PairsBelow(l)), 1 .. j) = FirstWeigh(l - 1, 2 * j)
<1>1. l \in 1 .. MaximumLength
  BY LevelAtHas
<1>2. CASE l = 1
  <2>1. HalfBelow(l) = 0 /\ l - 1 = 0
    BY <1>2 DEF HalfBelow
  <2>2. 1 .. j = {}
    BY <2>1
  <2>3. SumFunctionOnSet(WeightOf(PairsBelow(l)), 1 .. j) = 0
    BY <2>2, SumEmpty
  <2>4. QED
    BY <2>1, <2>3 DEF FirstWeigh
<1>3. CASE l # 1
  <2> DEFINE k == l - 1
             below == packages_by_level[k]
             n == Len(below)
             m == HalfBelow(l)
             pairs == PairsBelow(l)
             a == WeightOf(below)
             u == WeightOf(pairs)
  <2>1. k \in 1 .. MaximumLength /\ k < MaximumLength /\ k \in 1 .. Len(packages_by_level)
        /\ k # 0
    BY <1>1, <1>3, Constants DEF MergeInv
  <2>2. pairs = Pairs(below) /\ m = n \div 2
    BY <1>3 DEF PairsBelow, HalfBelow
  <2> HIDE DEF k
  <2>3. GoodLevel(below, k) /\ n \in Nat /\ Weighed(below, n) /\ Ordered(below)
    BY <2>1, LevelAtHas, LevelOrdered
  <2> HIDE DEF below, n
  <2>4. /\ m \in Nat /\ 2 * m <= n
        /\ \A h \in 1 .. m :
             /\ 2 * h - 1 \in 1 .. n /\ 2 * h \in 1 .. n
             /\ pairs[h].weight = below[2 * h - 1].weight + below[2 * h].weight
    <3> HIDE DEF pairs, m
    <3>1. QED
      BY <2>1, <2>2, <2>3, PairsAre DEF n
  <2>5. Weighed(pairs, m) /\ Ordered(pairs)
    BY LevelOrdered
  <2> HIDE DEF pairs, m
  <2>6. \A h \in 1 .. n : a[h] = below[h].weight /\ a[h] \in Nat
    BY <2>3, FirstAreLightest DEF Terms
  <2>7. \A h \in 1 .. m : u[h] = pairs[h].weight
    BY <2>4, <2>5, FirstAreLightest
  <2> HIDE DEF a, u
  <2>8. \A h \in 1 .. m : u[h] = a[2 * h - 1] + a[2 * h]
    BY <2>4, <2>6, <2>7
  <2>9. SumFunctionOnSet(u, 1 .. j) = SumFunctionOnSet(a, 1 .. 2 * j)
    <3>1. TwoByTwo(a, n, u, m)
      BY <2>4, <2>6, <2>8 DEF TwoByTwo
    <3>2. \A h \in 0 .. m : SumFunctionOnSet(u, 1 .. h) = SumFunctionOnSet(a, 1 .. 2 * h)
      BY <2>3, <2>4, <3>1, SumTwoByTwo
    <3>3. QED
      BY <3>2 DEF m
  <2>10. FirstWeigh(l - 1, 2 * j) = SumFunctionOnSet(a, 1 .. 2 * j)
    BY <2>1, Zenon DEF FirstWeigh, a, k, below
  <2>11. QED
    BY <2>9, <2>10 DEF u, pairs
<1>4. QED
  BY <1>2, <1>3

\* The first packages of a level weigh no more than as many symbols, each
\* once, and first packages of the level below that make pairs.
LEMMA LevelCovers ==
  ASSUME WeightsType, MergeInv, NEW l \in 1 .. Len(packages_by_level),
         NEW B \in SUBSET NonZero, NEW j \in 0 .. HalfBelow(l),
         NEW k \in Nat, k <= Cardinality(B) + j
  PROVE  /\ k <= Len(packages_by_level[l])
         /\ FirstWeigh(l, k) <= SumFunctionOnSet(weights, B) + FirstWeigh(l - 1, 2 * j)
<1> DEFINE level == packages_by_level[l]
           pairs == PairsBelow(l)
           m == HalfBelow(l)
           len == Len(level)
           g == WeightOf(level)
           D == 1 .. len
           J == 1 .. j
<1>1. /\ l \in 1 .. MaximumLength /\ len \in Nat /\ m \in Nat
      /\ Weighed(level, len) /\ Ordered(level)
      /\ Weighed(pairs, m) /\ Ordered(pairs)
      /\ \E origin : LevelIs(level, pairs, origin)
  BY LevelOrdered
<1>2. SumFunctionOnSet(WeightOf(pairs), J) = FirstWeigh(l - 1, 2 * j)
  BY PairsWeigh
<1>3. Cardinality(J) = j /\ J \in SUBSET (1 .. m)
  <2> HIDE DEF m, pairs, level
  <2>1. j \in 0 .. m
    BY DEF m
  <2>2. QED
    BY <1>1, <2>1, FirstAreLightest
<1>4. FirstWeigh(l, k) = SumFunctionOnSet(g, 1 .. k)
  <2>1. l # 0
    BY <1>1
  <2>2. QED
    BY <2>1, Zenon DEF FirstWeigh
<1> HIDE DEF level, pairs, m, len, g, J
<1>5. PICK P \in SUBSET DOMAIN level :
        /\ Cardinality(P) = Cardinality(B) + Cardinality(J)
        /\ SumFunctionOnSet(g, P) =
             SumFunctionOnSet(weights, B) + SumFunctionOnSet(WeightOf(pairs), J)
  BY <1>1, <1>3, PlacesOf DEF g
<1>6. DOMAIN level = D
  BY <1>1 DEF Weighed
<1>7. P \in SUBSET D /\ Cardinality(P) = Cardinality(B) + j
  BY <1>3, <1>5, <1>6
<1>8. IsFiniteSet(D) /\ Cardinality(D) = len
  <2>1. IsFiniteSet(1 .. len) /\ Cardinality(1 .. len) = IF 1 > len THEN 0 ELSE len - 1 + 1
    BY <1>1, FS_Interval
  <2>2. QED
    BY <1>1, <2>1
<1> HIDE DEF D
<1>9. Cardinality(P) <= len /\ Cardinality(P) \in Nat
  BY <1>7, <1>8, SizeOf
<1>10. k <= Cardinality(P)
  BY <1>7
<1>11. k \in 0 .. len
  BY <1>1, <1>9, <1>10
<1>12. /\ Terms(g, D) /\ Cardinality(1 .. k) = k /\ LightestOf(g, D, 1 .. k)
  BY <1>1, <1>11, FirstAreLightest DEF g, D
<1>13. SumFunctionOnSet(g, 1 .. k) <= SumFunctionOnSet(g, P)
  <2> DEFINE f == 1 .. k
  <2> HIDE DEF f
  <2>1. Terms(g, D) /\ LightestOf(g, D, f) /\ Cardinality(f) <= Cardinality(P)
    BY <1>10, <1>12 DEF f
  <2>2. SumFunctionOnSet(g, f) <= SumFunctionOnSet(g, P)
    BY <1>7, <2>1, Lightest
  <2>3. QED
    BY <2>2 DEF f
<1>14. k <= len
  BY <1>11
<1>15. SumFunctionOnSet(g, P) = SumFunctionOnSet(weights, B) + FirstWeigh(l - 1, 2 * j)
  BY <1>2, <1>5
<1>16. FirstWeigh(l, k) <= SumFunctionOnSet(weights, B) + FirstWeigh(l - 1, 2 * j)
  BY <1>4, <1>13, <1>15
<1>17. QED
  BY <1>14, <1>16 DEF len, level

\* The symbols selected of a level weigh no more than what was to be selected
\* without what is to be selected of the level below.
LEMMA SelectedWeighs ==
  ASSUME WeightsType, MergeInv, NEW l \in 1 .. Len(packages_by_level),
         NEW k \in Nat, k <= Len(packages_by_level[l]),
         NEW f, Selects(packages_by_level[l], k, f),
         NEW S, NEW v, S = SelectionOf(packages_by_level[l], f).symbols,
         v = SelectionOf(packages_by_level[l], f).several
  PROVE  /\ S \in SUBSET NonZero /\ v \in 0 .. HalfBelow(l)
         /\ SumFunctionOnSet(weights, S) + FirstWeigh(l - 1, 2 * v) <= FirstWeigh(l, k)
         /\ FirstWeigh(l - 1, 2 * v) \in Nat /\ FirstWeigh(l, k) \in Nat
         /\ SumFunctionOnSet(weights, S) \in Nat
<1> DEFINE level == packages_by_level[l]
           pairs == PairsBelow(l)
           m == HalfBelow(l)
           len == Len(level)
           g == WeightOf(level)
           u == WeightOf(pairs)
           D == 1 .. len
<1>1. /\ l \in 1 .. MaximumLength /\ len \in Nat /\ m \in Nat
      /\ Weighed(level, len) /\ Ordered(level)
      /\ Weighed(pairs, m) /\ Ordered(pairs)
      /\ \E origin : LevelIs(level, pairs, origin)
  BY LevelOrdered
<1>2. GoodLevel(level, l) /\ \E origin : LevelHas(level, pairs, origin, m)
  BY LevelAtHas
<1>3. FirstWeigh(l, k) = SumFunctionOnSet(g, 1 .. k)
  <2>1. l # 0
    BY <1>1
  <2>2. QED
    BY <2>1, Zenon DEF FirstWeigh
<1>4. \A j \in 0 .. m : SumFunctionOnSet(u, 1 .. j) = FirstWeigh(l - 1, 2 * j)
  BY PairsWeigh
<1>5. /\ Selects(level, k, f) /\ k <= len
      /\ S = SelectionOf(level, f).symbols /\ v = SelectionOf(level, f).several
  OBVIOUS
<1> HIDE DEF level, pairs, m, len, g, u
<1>6. S \in SUBSET NonZero /\ v \in Nat /\ v <= m
  <2>1. SelectionHas(level, pairs, m, k, f)
    BY <1>1, <1>2, <1>5, SelectionFacts
  <2>2. QED
    BY <1>5, <2>1 DEF SelectionHas
<1>7. f \in SUBSET D /\ f \in SUBSET DOMAIN level /\ Cardinality(f) = k
  <2>1. DOMAIN level = D
    BY <1>1 DEF Weighed
  <2>2. QED
    BY <1>5, <2>1 DEF Selects
<1>8. \A p \in f, q \in D : q \notin f => level[p].weight <= level[q].weight
  BY <1>1, <1>2, <1>5, SelectedIsLight DEF len
<1>9. /\ \A p \in D : g[p] = level[p].weight
      /\ Terms(g, D) /\ Cardinality(1 .. k) = k /\ 1 .. k \in SUBSET D
  <2>1. k \in 0 .. len
    BY <1>1, <1>5
  <2>2. QED
    BY <1>1, <2>1, FirstAreLightest DEF g
<1> HIDE DEF D
<1>10. LightestOf(g, D, f)
  <2>1. \A p \in f, q \in D : q \notin f => g[p] <= g[q]
    BY <1>7, <1>8, <1>9
  <2>2. QED
    BY <1>7, <2>1 DEF LightestOf
<1>11. SumFunctionOnSet(g, f) <= SumFunctionOnSet(g, 1 .. k)
  <2> DEFINE P == 1 .. k
  <2> HIDE DEF P
  <2>1. P \in SUBSET D /\ Cardinality(f) <= Cardinality(P)
    BY <1>7, <1>9 DEF P
  <2>2. SumFunctionOnSet(g, f) <= SumFunctionOnSet(g, P)
    BY <1>9, <1>10, <2>1, Lightest
  <2>3. QED
    BY <2>2 DEF P
<1>12. PICK J \in SUBSET (1 .. m) :
         /\ Cardinality(J) = v
         /\ SumFunctionOnSet(g, f) =
              SumFunctionOnSet(weights, S) + SumFunctionOnSet(u, J)
  BY <1>1, <1>5, <1>7, SelectionWeighs DEF g, u
<1> DEFINE E == 1 .. m
           V == 1 .. v
<1>13. /\ Terms(u, E) /\ Cardinality(V) = v /\ V \in SUBSET E /\ LightestOf(u, E, V)
  <2>1. v \in 0 .. m
    BY <1>1, <1>6
  <2>2. QED
    BY <1>1, <2>1, FirstAreLightest DEF u
<1>14. SumFunctionOnSet(u, V) = FirstWeigh(l - 1, 2 * v)
  BY <1>1, <1>4, <1>6
<1>15. J \in SUBSET E
  OBVIOUS
<1> HIDE DEF E, V
<1>16. SumFunctionOnSet(u, V) <= SumFunctionOnSet(u, J)
  BY <1>6, <1>12, <1>13, <1>15, Lightest
<1>17. /\ SumFunctionOnSet(u, V) \in Nat /\ SumFunctionOnSet(u, J) \in Nat
       /\ SumFunctionOnSet(g, f) \in Nat
       /\ SumFunctionOnSet(g, 1 .. k) \in Nat
  <2>1. SumFunctionOnSet(u, V) \in Nat /\ SumFunctionOnSet(u, J) \in Nat
    BY <1>13, <1>15, SumNat DEF Terms
  <2>2. SumFunctionOnSet(g, f) \in Nat
    BY <1>7, <1>9, SumNat DEF Terms
  <2>3. SumFunctionOnSet(g, 1 .. k) \in Nat
    <3> DEFINE P == 1 .. k
    <3> HIDE DEF P
    <3>1. P \in SUBSET D
      BY <1>9 DEF P
    <3>2. SumFunctionOnSet(g, P) \in Nat
      BY <1>9, <3>1, SumNat DEF Terms
    <3>3. QED
      BY <3>2 DEF P
  <2>4. QED
    BY <2>1, <2>2, <2>3
<1>18. SumFunctionOnSet(weights, S) \in Nat
  <2>1. IsFiniteSet(NonZero) /\ \A s \in NonZero : weights[s] \in Nat
    <3>1. \A s \in NonZero : s \in Symbol
      BY NonZeroFinite
    <3>2. QED
      BY <3>1, NonZeroFinite, PackageMergeAssumption DEF WeightsType
  <2>2. QED
    BY <1>6, <2>1, SumNat
<1>19. SumFunctionOnSet(weights, S) + FirstWeigh(l - 1, 2 * v) <= FirstWeigh(l, k)
  BY <1>3, <1>11, <1>12, <1>14, <1>16, <1>17, <1>18
<1>20. v \in 0 .. m
  BY <1>1, <1>6
<1>21. FirstWeigh(l - 1, 2 * v) \in Nat /\ FirstWeigh(l, k) \in Nat
  BY <1>3, <1>14, <1>17
<1>22. QED
  BY <1>6, <1>18, <1>19, <1>20, <1>21 DEF m

-----------------------------------------------------------------------------
(***************************************************************************)
(* What the selections cost.                                               *)
(***************************************************************************)
\* The weights of the symbols that occur are numbers.
LEMMA WeightsNat ==
  ASSUME WeightsType
  PROVE  /\ IsFiniteSet(NonZero)
         /\ \A s \in NonZero : weights[s] \in Nat
<1>1. \A s \in NonZero : s \in Symbol
  BY NonZeroFinite
<1>2. QED
  BY <1>1, NonZeroFinite, PackageMergeAssumption DEF WeightsType

\* What the symbols weigh, each as often as it is in the first t sets.
PartCost(S, t) ==
  SumFunctionOnSet([s \in NonZero |-> weights[s] * Cardinality(With(S, t, s))], NonZero)

\* One set more adds what its symbols weigh.
LEMMA PartCostGrows ==
  ASSUME WeightsType, NEW t \in Nat, NEW S, S[t + 1] \in SUBSET NonZero
  PROVE  /\ PartCost(S, t) \in Nat
         /\ SumFunctionOnSet(weights, S[t + 1]) \in Nat
         /\ PartCost(S, t + 1) = PartCost(S, t) + SumFunctionOnSet(weights, S[t + 1])
<1> DEFINE f == [s \in NonZero |-> weights[s] * Cardinality(With(S, t, s))]
           g == [s \in NonZero |-> weights[s] * Cardinality(With(S, t + 1, s))]
           B == S[t + 1]
<1>1. ASSUME NEW s \in NonZero
      PROVE  /\ f[s] \in Nat /\ weights[s] \in Nat
             /\ g[s] = IF s \in B THEN f[s] + weights[s] ELSE f[s]
  <2> DEFINE T == With(S, t, s)
             U == With(S, t + 1, s)
             a == Cardinality(T)
             b == Cardinality(U)
             w == weights[s]
  <2>1. T \in SUBSET (1 .. t) /\ t + 1 \notin T
    BY DEF With
  <2>2. U = IF s \in B THEN T \cup {t + 1} ELSE T
    BY DEF With
  <2>3. IsFiniteSet(T)
    <3>1. IsFiniteSet(1 .. t)
      BY FS_Interval
    <3> HIDE DEF T
    <3>2. QED
      BY <2>1, <3>1, FS_Subset
  <2> HIDE DEF T, U, B
  <2>4. a \in Nat /\ (s \in B => b = a + 1) /\ (s \notin B => b = a)
    <3>1. a \in Nat
      BY <2>3, FS_CardinalityType
    <3>2. ASSUME s \in B
          PROVE  b = a + 1
      BY <2>1, <2>2, <2>3, <3>2, FS_AddElement
    <3>3. QED
      BY <2>2, <3>1, <3>2
  <2>5. f[s] = w * a /\ g[s] = w * b
    BY DEF T, U
  <2>6. w \in Nat
    BY WeightsNat
  <2> HIDE DEF a, b, w, f, g
  <2>7. w * a \in Nat /\ w * (a + 1) = w * a + w
    BY <2>4, <2>6
  <2>8. QED
    BY <2>4, <2>5, <2>6, <2>7 DEF w
<1> HIDE DEF f, g, B
<1>2. /\ SumFunctionOnSet(f, NonZero) \in Nat /\ SumFunctionOnSet(weights, B) \in Nat
      /\ SumFunctionOnSet(g, NonZero) =
           SumFunctionOnSet(f, NonZero) + SumFunctionOnSet(weights, B)
  <2>1. B \in SUBSET NonZero
    BY DEF B
  <2>2. QED
    BY <1>1, <2>1, WeightsNat, SumGrows
<1>3. QED
  BY <1>2, Zenon DEF PartCost, f, g, B

\* The selection number t + 1, of what the one before it has left.
LEMMA SelectionStep ==
  ASSUME WeightsType, MergeInv, Len(solution_by_level) = MaximumLength,
         NEW t \in 0 .. MaximumLength - 1, NEW l, l = MaximumLength - t
  PROVE  LET S == SelectedSymbols
             v == SelectedPairs
         IN /\ v[t] \in Nat /\ v[t + 1] \in Nat
            /\ S[t + 1] \in SUBSET NonZero
            /\ FirstWeigh(l - 1, 2 * v[t + 1]) \in Nat /\ FirstWeigh(l, 2 * v[t]) \in Nat
            /\ SumFunctionOnSet(weights, S[t + 1]) \in Nat
            /\ SumFunctionOnSet(weights, S[t + 1]) + FirstWeigh(l - 1, 2 * v[t + 1]) <=
                 FirstWeigh(l, 2 * v[t])
<1> DEFINE L == MaximumLength
           S == SelectedSymbols
           v == SelectedPairs
           u == t + 1
           level == packages_by_level[l]
<1>0. /\ L \in Nat \ {0} /\ u \in 1 .. L /\ (L + 1) - u = l /\ l \in 1 .. L
      /\ Len(packages_by_level) = L /\ u \in 1 .. Len(solution_by_level)
      /\ u <= Len(solution_by_level) + 1 /\ u - 1 = t /\ l \in 1 .. Len(packages_by_level)
  BY Constants DEF MergeInv
<1>1. LevelAt(u) = level
  BY <1>0, Zenon DEF LevelAt
<1>2. S[u] = solution_by_level[u].symbols /\ v[u] = solution_by_level[u].several
  BY <1>0 DEF SelectedSymbols, SelectedPairs
<1>3. WantedAt(u) = 2 * v[t]
  <2>1. CASE u = 1
    <3> DEFINE n == Cardinality(NonZero)
    <3>1. t = 0 /\ WantedAt(u) = 2 * n - 2 /\ v[0] = n - 1
      BY <1>0, <2>1 DEF WantedAt, SelectedPairs
    <3>2. n \in Nat
      BY NonZeroFinite
    <3> HIDE DEF n, v
    <3>3. QED
      BY <3>1, <3>2
  <2>2. CASE u # 1
    <3>1. WantedAt(u) = 2 * solution_by_level[t].several
      BY <1>0, <2>2, Zenon DEF WantedAt
    <3>2. t # 0 /\ t \in 0 .. L
      BY <1>0, <2>2
    <3>3. v[t] = solution_by_level[t].several
      BY <3>2 DEF SelectedPairs
    <3>4. QED
      BY <3>1, <3>3
  <2>3. QED
    BY <2>1, <2>2
<1>4. v[t] \in Nat
  <2>1. Shrinking(S, v, NonZero, L)
    BY SolutionShrinks
  <2>2. t \in 0 .. L
    BY <1>0
  <2> HIDE DEF S, v
  <2>3. QED
    BY <2>1, <2>2 DEF Shrinking
<1>5. WantedAt(u) \in Nat /\ WantedAt(u) <= Len(level)
  BY <1>0, <1>1, WantedFits
<1>6. PICK f : SelectionFrom(u, f)
  BY <1>0, <1>5, SelectionIsFrom
<1>7. /\ Selects(level, WantedAt(u), f)
      /\ solution_by_level[u] = SelectionOf(level, f)
  BY <1>1, <1>6, Zenon DEF SelectionFrom
<1> DEFINE k == 2 * v[t]
<1>8. /\ k \in Nat /\ k <= Len(level) /\ Selects(level, k, f)
      /\ S[u] = SelectionOf(level, f).symbols /\ v[u] = SelectionOf(level, f).several
  BY <1>2, <1>3, <1>5, <1>7
<1> DEFINE x == S[u]
           y == v[u]
<1> HIDE DEF S, v, level, k, x, y
<1>9. /\ x \in SUBSET NonZero /\ y \in 0 .. HalfBelow(l)
      /\ SumFunctionOnSet(weights, x) + FirstWeigh(l - 1, 2 * y) <= FirstWeigh(l, k)
      /\ FirstWeigh(l - 1, 2 * y) \in Nat /\ FirstWeigh(l, k) \in Nat
      /\ SumFunctionOnSet(weights, x) \in Nat
  BY <1>0, <1>8, SelectedWeighs DEF level, x, y
<1>10. y \in Nat
  BY <1>9
<1>11. QED
  BY <1>4, <1>9, <1>10 DEF x, y, k, S, v

\* The selections cost no more than what is selected of the last level weighs.
LEMMA SelectionsCost ==
  ASSUME WeightsType, MergeInv, Len(solution_by_level) = MaximumLength
  PROVE  /\ PartCost(SelectedSymbols, MaximumLength) \in Nat
         /\ PartCost(SelectedSymbols, MaximumLength) <=
              FirstWeigh(MaximumLength, 2 * (Cardinality(NonZero) - 1))
<1> DEFINE L == MaximumLength
           S == SelectedSymbols
           v == SelectedPairs
           n == Cardinality(NonZero)
           C(t) == PartCost(S, t)
           F(t) == FirstWeigh(L - t, 2 * v[t])
           N == {t \in Nat : t <= L =>
                   C(t) \in Nat /\ F(t) \in Nat /\ C(t) + F(t) <= F(0)}
<1>0. L \in Nat \ {0}
  BY Constants
<1>1. \A t \in 0 .. L - 1 :
        LET a == SumFunctionOnSet(weights, S[t + 1])
        IN /\ C(t) \in Nat /\ F(t) \in Nat /\ F(t + 1) \in Nat /\ a \in Nat
           /\ C(t + 1) = C(t) + a /\ a + F(t + 1) <= F(t)
  <2> SUFFICES ASSUME NEW t \in 0 .. L - 1
               PROVE  LET a == SumFunctionOnSet(weights, S[t + 1])
                      IN /\ C(t) \in Nat /\ F(t) \in Nat /\ F(t + 1) \in Nat /\ a \in Nat
                         /\ C(t + 1) = C(t) + a /\ a + F(t + 1) <= F(t)
    OBVIOUS
  <2> DEFINE a == SumFunctionOnSet(weights, S[t + 1])
             l == L - t
  <2>1. t \in Nat /\ L - (t + 1) = l - 1
    BY <1>0
  <2> HIDE DEF l
  <2>2. /\ S[t + 1] \in SUBSET NonZero /\ a \in Nat
        /\ FirstWeigh(l - 1, 2 * v[t + 1]) \in Nat /\ FirstWeigh(l, 2 * v[t]) \in Nat
        /\ a + FirstWeigh(l - 1, 2 * v[t + 1]) <= FirstWeigh(l, 2 * v[t])
    BY SelectionStep DEF l
  <2>3. F(t) = FirstWeigh(l, 2 * v[t]) /\ F(t + 1) = FirstWeigh(l - 1, 2 * v[t + 1])
    BY <2>1, Zenon DEF l
  <2>4. C(t) \in Nat /\ C(t + 1) = C(t) + a
    BY <2>1, <2>2, PartCostGrows
  <2> HIDE DEF S, v, a, C, F
  <2>5. QED
    BY <2>2, <2>3, <2>4 DEF a
<1>2. C(0) = 0
  <2> DEFINE f == [s \in NonZero |-> weights[s] * Cardinality(With(S, 0, s))]
  <2>1. \A s \in NonZero : f[s] = 0
    <3> SUFFICES ASSUME NEW s \in NonZero
                 PROVE  f[s] = 0
      OBVIOUS
    <3>1. With(S, 0, s) = {}
      BY DEF With
    <3>2. Cardinality(With(S, 0, s)) = 0
      BY <3>1, FS_EmptySet
    <3>3. weights[s] \in Nat /\ f[s] = weights[s] * Cardinality(With(S, 0, s))
      BY WeightsNat
    <3> HIDE DEF f
    <3>4. QED
      BY <3>2, <3>3
  <2> HIDE DEF f
  <2>2. SumFunctionOnSet(f, NonZero) = 0 * Cardinality(NonZero)
    BY <2>1, WeightsNat, SumConstant
  <2>3. SumFunctionOnSet(f, NonZero) = 0
    BY <2>2, NonZeroFinite
  <2>4. QED
    BY <2>3, Zenon DEF PartCost, f
<1> HIDE DEF C, F
<1>3. 0 \in N
  <2>1. 0 \in 0 .. L - 1
    BY <1>0
  <2>2. F(0) \in Nat
    BY <1>1, <2>1
  <2>3. QED
    BY <1>2, <2>2
<1>4. ASSUME NEW t \in Nat, t \in N
      PROVE  t + 1 \in N
  <2> SUFFICES ASSUME t + 1 <= L
               PROVE  C(t + 1) \in Nat /\ F(t + 1) \in Nat /\ C(t + 1) + F(t + 1) <= F(0)
    OBVIOUS
  <2> DEFINE a == SumFunctionOnSet(weights, S[t + 1])
  <2>1. t \in 0 .. L - 1 /\ t <= L
    BY <1>0
  <2>2. /\ C(t) \in Nat /\ F(t) \in Nat /\ F(t + 1) \in Nat /\ a \in Nat
        /\ C(t + 1) = C(t) + a /\ a + F(t + 1) <= F(t)
    BY <1>1, <2>1
  <2>3. C(t) + F(t) <= F(0)
    BY <1>4, <2>1
  <2>4. F(0) \in Nat
    <3>1. 0 \in 0 .. L - 1
      BY <1>0
    <3>2. QED
      BY <1>1, <3>1
  <2> HIDE DEF a
  <2>5. QED
    BY <2>2, <2>3, <2>4
<1> HIDE DEF N
<1>5. L \in N
  BY <1>0, <1>3, <1>4, Induct
<1>6. C(L) \in Nat /\ C(L) <= F(0)
  <2>1. C(L) \in Nat /\ F(L) \in Nat /\ C(L) + F(L) <= F(0)
    BY <1>0, <1>5 DEF N
  <2>2. F(0) \in Nat
    <3>1. 0 \in 0 .. L - 1
      BY <1>0
    <3>2. QED
      BY <1>1, <3>1
  <2>3. QED
    BY <2>1, <2>2
<1>7. F(0) = FirstWeigh(L, 2 * (n - 1))
  <2>1. L - 0 = L /\ v[0] = n - 1
    BY <1>0 DEF SelectedPairs
  <2> HIDE DEF v, n
  <2>2. QED
    BY <2>1, Zenon DEF F
<1>8. QED
  BY <1>6, <1>7 DEF C

-----------------------------------------------------------------------------
(***************************************************************************)
(* What any other code costs.  A symbol with a code of length c counts as  *)
(* selected of the last c levels.                                          *)
(***************************************************************************)
\* The lengths of a code that a decoder can read.
IsCode(code) == code \in [NonZero -> 1 .. MaximumLength]

\* The symbols it selects of the level behind the first l.
Selected(code, l) == {s \in NonZero : code[s] >= MaximumLength - l}

\* How much of the level behind the first l these leave to be selected of the
\* first l, in parts of a package of the first level, and what that weighs.
RoomOf(code, l) ==
  [s \in NonZero |->
     IF s \in Selected(code, l) THEN 2 ^ l - 2 ^ (MaximumLength - code[s]) ELSE 0]

PartOf(code, l) ==
  [s \in NonZero |->
     IF s \in Selected(code, l) THEN weights[s] * (code[s] - (MaximumLength - l)) ELSE 0]

Room(code, l) == SumFunctionOnSet(RoomOf(code, l), NonZero)
Part(code, l) == SumFunctionOnSet(PartOf(code, l), NonZero)

\* One level more adds 2^l parts for each symbol that is selected of it.
LEMMA RoomGrows ==
  ASSUME WeightsType, NEW code, IsCode(code), NEW l \in 0 .. MaximumLength - 1
  PROVE  LET B == Selected(code, l)
         IN /\ B \in SUBSET NonZero /\ Cardinality(B) \in Nat
            /\ Room(code, l) \in Nat
            /\ Room(code, l + 1) = Room(code, l) + 2 ^ l * Cardinality(B)
<1> DEFINE L == MaximumLength
           B == Selected(code, l)
           f == RoomOf(code, l)
           g == RoomOf(code, l + 1)
           p == 2 ^ l
           h == [s \in NonZero |-> p]
<1>0. /\ L \in Nat \ {0} /\ l \in Nat /\ l + 1 <= L /\ p \in Nat
      /\ 2 ^ (l + 1) = 2 * p /\ IsFiniteSet(NonZero)
  BY Constants, PowerSuccessor, NonZeroFinite
<1>1. B \in SUBSET NonZero
  BY DEF Selected
<1>2. ASSUME NEW s \in NonZero
      PROVE  /\ f[s] \in Nat /\ h[s] \in Nat
             /\ g[s] = IF s \in B THEN f[s] + h[s] ELSE f[s]
  <2> DEFINE c == code[s]
             d == L - c
             q == 2 ^ d
             r == 2 ^ (l + 1)
  <2>1. c \in 1 .. L
    BY DEF IsCode
  <2> HIDE DEF c
  <2>2. d \in Nat
    BY <1>0, <2>1
  <2>3. q \in Nat
    BY <2>2, PowerSuccessor
  <2>4. /\ s \in B <=> c >= L - l
        /\ s \in Selected(code, l + 1) <=> c >= L - (l + 1)
    BY DEF Selected, c
  <2>5. /\ f[s] = IF s \in B THEN p - q ELSE 0
        /\ g[s] = IF s \in Selected(code, l + 1) THEN r - q ELSE 0
        /\ h[s] = p
    BY DEF RoomOf, c
  <2>6. r = 2 * p
    BY <1>0
  <2> HIDE DEF p, q, r, f, g, h, B
  <2>7. CASE c >= L - l
    <3>1. s \in B /\ s \in Selected(code, l + 1)
      BY <1>0, <2>1, <2>4, <2>7
    <3>2. q <= p
      <4>1. d <= l
        BY <1>0, <2>1, <2>7
      <4>2. QED
        BY <1>0, <2>2, <4>1, PowerMonotone DEF p, q
    <3>3. QED
      BY <1>0, <2>3, <2>5, <2>6, <3>1, <3>2
  <2>8. CASE c = L - (l + 1)
    <3>1. s \notin B /\ s \in Selected(code, l + 1)
      BY <1>0, <2>1, <2>4, <2>8
    <3>2. q = r
      <4>1. d = l + 1
        BY <1>0, <2>1, <2>8
      <4>2. QED
        BY <4>1 DEF q, r
    <3>3. QED
      BY <1>0, <2>3, <2>5, <3>1, <3>2
  <2>9. CASE c < L - (l + 1)
    <3>1. s \notin B /\ s \notin Selected(code, l + 1)
      BY <1>0, <2>1, <2>4, <2>9
    <3>2. QED
      BY <1>0, <2>5, <3>1
  <2>10. QED
    BY <1>0, <2>1, <2>7, <2>8, <2>9
<1>3. IsFiniteSet(B) /\ Cardinality(B) \in Nat
  <2> HIDE DEF B
  <2>1. QED
    BY <1>0, <1>1, SizeOf
<1>4. \A s \in B : h[s] = p
  BY <1>1
<1> HIDE DEF B, f, g, p, h
<1>5. SumFunctionOnSet(h, B) = p * Cardinality(B)
  BY <1>0, <1>3, <1>4, SumConstant
<1>6. /\ SumFunctionOnSet(f, NonZero) \in Nat
      /\ SumFunctionOnSet(g, NonZero) =
           SumFunctionOnSet(f, NonZero) + SumFunctionOnSet(h, B)
  BY <1>0, <1>1, <1>2, SumGrows
<1>7. Room(code, l) = SumFunctionOnSet(f, NonZero)
      /\ Room(code, l + 1) = SumFunctionOnSet(g, NonZero)
  BY Zenon DEF Room, f, g
<1>8. QED
  BY <1>1, <1>3, <1>5, <1>6, <1>7 DEF B, p

\* One level more adds what is selected of it.
LEMMA PartGrows ==
  ASSUME WeightsType, NEW code, IsCode(code), NEW l \in 0 .. MaximumLength - 1
  PROVE  LET B == Selected(code, l)
         IN /\ Part(code, l) \in Nat /\ SumFunctionOnSet(weights, B) \in Nat
            /\ Part(code, l + 1) = Part(code, l) + SumFunctionOnSet(weights, B)
<1> DEFINE L == MaximumLength
           B == Selected(code, l)
           f == PartOf(code, l)
           g == PartOf(code, l + 1)
<1>0. /\ L \in Nat \ {0} /\ l \in Nat /\ l + 1 <= L /\ IsFiniteSet(NonZero)
      /\ \A s \in NonZero : weights[s] \in Nat
  BY Constants, WeightsNat
<1>1. B \in SUBSET NonZero
  BY DEF Selected
<1>2. ASSUME NEW s \in NonZero
      PROVE  /\ f[s] \in Nat /\ weights[s] \in Nat
             /\ g[s] = IF s \in B THEN f[s] + weights[s] ELSE f[s]
  <2> DEFINE c == code[s]
             w == weights[s]
             a == c - (L - l)
             b == c - (L - (l + 1))
  <2>1. c \in 1 .. L /\ w \in Nat
    BY <1>0 DEF IsCode
  <2>2. /\ s \in B <=> c >= L - l
        /\ s \in Selected(code, l + 1) <=> c >= L - (l + 1)
    BY DEF Selected
  <2>3. /\ f[s] = IF s \in B THEN w * a ELSE 0
        /\ g[s] = IF s \in Selected(code, l + 1) THEN w * b ELSE 0
    BY DEF PartOf
  <2> HIDE DEF c, w, f, g, B
  <2>4. a \in Int /\ b = a + 1
    BY <1>0, <2>1
  <2> HIDE DEF a, b
  <2>5. CASE c >= L - l
    <3>1. s \in B /\ s \in Selected(code, l + 1) /\ a \in Nat
      BY <1>0, <2>1, <2>2, <2>5 DEF a
    <3>2. w * a \in Nat /\ w * (a + 1) = w * a + w
      BY <2>1, <3>1
    <3>3. QED
      BY <2>1, <2>3, <2>4, <3>1, <3>2 DEF w
  <2>6. CASE c = L - (l + 1)
    <3>1. s \notin B /\ s \in Selected(code, l + 1) /\ b = 0
      BY <1>0, <2>1, <2>2, <2>6 DEF b
    <3>2. w * 0 = 0
      BY <2>1
    <3>3. QED
      BY <2>1, <2>3, <3>1, <3>2 DEF w
  <2>7. CASE c < L - (l + 1)
    <3>1. s \notin B /\ s \notin Selected(code, l + 1)
      BY <1>0, <2>1, <2>2, <2>7
    <3>2. QED
      BY <2>1, <2>3, <3>1 DEF w
  <2>8. QED
    BY <1>0, <2>1, <2>5, <2>6, <2>7
<1> HIDE DEF B, f, g
<1>3. /\ SumFunctionOnSet(f, NonZero) \in Nat /\ SumFunctionOnSet(weights, B) \in Nat
      /\ SumFunctionOnSet(g, NonZero) =
           SumFunctionOnSet(f, NonZero) + SumFunctionOnSet(weights, B)
  BY <1>0, <1>1, <1>2, SumGrows
<1>4. QED
  BY <1>3, Zenon DEF Part, f, g, B

\* The code has no room and no part below the first level.
LEMMA NoRoom ==
  ASSUME WeightsType, NEW code, IsCode(code)
  PROVE  Room(code, 0) = 0 /\ Part(code, 0) = 0
<1> DEFINE L == MaximumLength
           f == RoomOf(code, 0)
           g == PartOf(code, 0)
<1>0. L \in Nat \ {0} /\ IsFiniteSet(NonZero) /\ Cardinality(NonZero) \in Nat
  BY Constants, NonZeroFinite
<1>1. ASSUME NEW s \in NonZero
      PROVE  f[s] = 0 /\ g[s] = 0
  <2> DEFINE c == code[s]
             d == L - c
  <2>1. c \in 1 .. L /\ weights[s] \in Nat
    BY WeightsNat DEF IsCode
  <2>2. s \in Selected(code, 0) <=> c >= L - 0
    BY DEF Selected
  <2>3. /\ f[s] = IF s \in Selected(code, 0) THEN 2 ^ 0 - 2 ^ d ELSE 0
        /\ g[s] = IF s \in Selected(code, 0) THEN weights[s] * (c - (L - 0)) ELSE 0
    BY DEF RoomOf, PartOf
  <2> HIDE DEF c, d, f, g
  <2>4. CASE c = L
    <3>1. d = 0 /\ c - (L - 0) = 0
      BY <1>0, <2>4 DEF d
    <3>2. 2 ^ 0 - 2 ^ d = 0
      <4>1. 2 ^ 0 \in Nat
        BY PowerSuccessor
      <4>2. 2 ^ d = 2 ^ 0
        BY <3>1
      <4>3. QED
        BY <4>1, <4>2
    <3>3. weights[s] * 0 = 0
      BY <2>1
    <3>4. QED
      BY <2>3, <3>1, <3>2, <3>3
  <2>5. CASE c # L
    <3>1. s \notin Selected(code, 0)
      BY <1>0, <2>1, <2>2, <2>5
    <3>2. QED
      BY <2>3, <3>1
  <2>6. QED
    BY <2>4, <2>5
<1> HIDE DEF f, g
<1>2. /\ SumFunctionOnSet(f, NonZero) = 0 * Cardinality(NonZero)
      /\ SumFunctionOnSet(g, NonZero) = 0 * Cardinality(NonZero)
  BY <1>0, <1>1, SumConstant
<1>3. SumFunctionOnSet(f, NonZero) = 0 /\ SumFunctionOnSet(g, NonZero) = 0
  BY <1>0, <1>2
<1>4. QED
  BY <1>3, Zenon DEF Room, Part, f, g

\* A code selects as many packages of the first l levels as there is room for,
\* and the first ones weigh no more.
LEMMA CodeCovers ==
  ASSUME WeightsType, MergeInv, Len(packages_by_level) = MaximumLength,
         NEW code, IsCode(code)
  PROVE  \A l \in 0 .. MaximumLength : \A j \in Nat :
           j * 2 ^ l <= Room(code, l) =>
             j <= HalfBelow(l + 1) /\ FirstWeigh(l, 2 * j) <= Part(code, l)
<1> DEFINE L == MaximumLength
           Covers(l) == \A j \in Nat :
                          j * 2 ^ l <= Room(code, l) =>
                            j <= HalfBelow(l + 1) /\ FirstWeigh(l, 2 * j) <= Part(code, l)
           N == {l \in Nat : l <= L => Covers(l)}
<1>0. L \in Nat \ {0}
  BY Constants
<1>1. 0 \in N
  <2>1. ASSUME NEW j \in Nat, j * 2 ^ 0 <= Room(code, 0)
        PROVE  j <= HalfBelow(0 + 1) /\ FirstWeigh(0, 2 * j) <= Part(code, 0)
    <3>1. 2 ^ 0 = 1 /\ 0 + 1 = 1
      OBVIOUS
    <3>2. j = 0
      BY <2>1, <3>1, NoRoom
    <3>3. HalfBelow(0 + 1) = 0
      BY <3>1 DEF HalfBelow
    <3>4. FirstWeigh(0, 2 * j) = 0
      BY DEF FirstWeigh
    <3>5. QED
      BY <3>2, <3>3, <3>4, NoRoom
  <2>2. QED
    BY <2>1
<1>2. ASSUME NEW l \in Nat, l \in N
      PROVE  l + 1 \in N
  <2> SUFFICES ASSUME l + 1 <= L,
                      NEW j \in Nat, j * 2 ^ (l + 1) <= Room(code, l + 1)
               PROVE  /\ j <= HalfBelow((l + 1) + 1)
                      /\ FirstWeigh(l + 1, 2 * j) <= Part(code, l + 1)
    OBVIOUS
  <2> DEFINE B == Selected(code, l)
             a == Cardinality(B)
             p == 2 ^ l
             R == Room(code, l)
             k == 2 * j
             x == IF k <= a THEN 0 ELSE k - a
  <2>1. l \in 0 .. L - 1 /\ l \in 0 .. L /\ l <= L /\ l + 1 \in 1 .. Len(packages_by_level)
        /\ l + 1 # 1 - 1 /\ (l + 1) - 1 = l
    BY <1>0
  <2>2. /\ B \in SUBSET NonZero /\ a \in Nat /\ R \in Nat
        /\ Room(code, l + 1) = R + p * a
    BY <2>1, RoomGrows
  <2>3. p \in Nat /\ 2 ^ (l + 1) = 2 * p
    BY PowerSuccessor
  <2>4. k \in Nat /\ x \in Nat /\ k <= a + x
    <3> HIDE DEF a
    <3>1. QED
      BY <2>2 DEF k, x
  <2>5. x * p <= R
    <3> DEFINE q == 2 ^ (l + 1)
    <3>1. j * q <= R + p * a /\ q = 2 * p
      BY <2>2, <2>3
    <3> HIDE DEF a, p, q, R
    <3>2. k * p <= R + a * p
      <4>1. j * q = k * p
        BY <2>3, <3>1 DEF k
      <4>2. p * a = a * p
        BY <2>2, <2>3
      <4>3. QED
        BY <3>1, <4>1, <4>2
    <3>3. CASE k <= a
      BY <2>2, <2>3, <3>3 DEF x
    <3>4. CASE ~ (k <= a)
      <4>1. x \in Nat /\ k = a + x
        BY <2>2, <2>4, <3>4 DEF x
      <4> HIDE DEF x, k
      <4>2. k * p = a * p + x * p /\ a * p \in Nat /\ x * p \in Nat
        BY <2>2, <2>3, <4>1
      <4>3. QED
        BY <2>2, <3>2, <4>2
    <3>5. QED
      BY <3>3, <3>4
  <2>6. x <= HalfBelow(l + 1) /\ FirstWeigh(l, 2 * x) <= Part(code, l)
    <3>1. Covers(l)
      BY <1>2, <2>1
    <3> HIDE DEF x, p, R
    <3>2. x * 2 ^ l <= Room(code, l)
      BY <2>5 DEF p, R
    <3>3. QED
      BY <2>4, <3>1, <3>2
  <2>7. HalfBelow(l + 1) \in Nat
    BY <2>1, LevelAtHas
  <2> DEFINE h == l + 1
  <2> HIDE DEF x, B, k, a, p, R
  <2>8. x \in 0 .. HalfBelow(l + 1)
    BY <2>4, <2>6, <2>7
  <2>9. h \in 1 .. Len(packages_by_level) /\ x \in 0 .. HalfBelow(h) /\ h - 1 = l
    BY <2>1, <2>8
  <2> HIDE DEF h
  <2>10. /\ k <= Len(packages_by_level[h])
         /\ FirstWeigh(h, k) <= SumFunctionOnSet(weights, B) + FirstWeigh(h - 1, 2 * x)
    BY <2>2, <2>4, <2>9, LevelCovers DEF a
  <2>11. j <= HalfBelow(h + 1)
    <3>1. h + 1 # 1 /\ (h + 1) - 1 = h
      BY <2>9
    <3>2. HalfBelow(h + 1) = Len(packages_by_level[h]) \div 2
      BY <3>1, Zenon DEF HalfBelow
    <3>3. Len(packages_by_level[h]) \in Nat
      BY <2>9, LevelOrdered
    <3> DEFINE len == Len(packages_by_level[h])
    <3> HIDE DEF len
    <3>4. len \in Nat /\ 2 * j <= len
      BY <2>10, <3>3 DEF len, k
    <3>5. j <= len \div 2
      BY <3>4
    <3>6. QED
      BY <3>2, <3>5 DEF len
  <2>12. /\ Part(code, l) \in Nat /\ SumFunctionOnSet(weights, B) \in Nat
         /\ Part(code, l + 1) = Part(code, l) + SumFunctionOnSet(weights, B)
    BY <2>1, PartGrows DEF B
  <2>13. /\ FirstWeigh(l, 2 * x) \in Int /\ FirstWeigh(h, k) \in Int
    <3>1. FirstWeigh(h - 1, 2 * x) \in Nat
      <4>1. SumFunctionOnSet(WeightOf(PairsBelow(h)), 1 .. x) = FirstWeigh(h - 1, 2 * x)
        BY <2>9, PairsWeigh
      <4>2. HalfBelow(h) \in Nat /\ Weighed(PairsBelow(h), HalfBelow(h)) /\ Ordered(PairsBelow(h))
        BY <2>9, LevelOrdered
      <4>3. SumFunctionOnSet(WeightOf(PairsBelow(h)), 1 .. x) \in Nat
        BY <2>9, <4>2, FirstIsNat
      <4>4. QED
        BY <4>1, <4>3
    <3>2. FirstWeigh(h, k) \in Nat
      <4>1. h # 0
        BY <2>9
      <4>2. FirstWeigh(h, k) = SumFunctionOnSet(WeightOf(packages_by_level[h]), 1 .. k)
        BY <4>1, Zenon DEF FirstWeigh
      <4> DEFINE level == packages_by_level[h]
                 len == Len(level)
      <4>3. len \in Nat /\ Weighed(level, len) /\ Ordered(level)
        BY <2>9, LevelOrdered
      <4>4. k \in 0 .. len
        BY <2>4, <2>10, <4>3
      <4> HIDE DEF level, len
      <4>5. SumFunctionOnSet(WeightOf(level), 1 .. k) \in Nat
        BY <4>3, <4>4, FirstIsNat
      <4>6. QED
        BY <4>2, <4>5 DEF level
    <3>3. QED
      BY <2>9, <3>1, <3>2
  <2>14. FirstWeigh(h, k) <= Part(code, l + 1)
    BY <2>6, <2>9, <2>10, <2>12, <2>13
  <2>15. QED
    BY <2>11, <2>14 DEF h, k
<1> HIDE DEF N, Covers
<1>3. \A l \in Nat : l \in N
  BY <1>1, <1>2, Induct
<1>4. \A l \in 0 .. L : Covers(l)
  BY <1>0, <1>3 DEF N
<1>5. QED
  BY <1>4 DEF Covers

-----------------------------------------------------------------------------
(***************************************************************************)
(* No code costs less.                                                     *)
(***************************************************************************)
CostsOf(code) == [s \in NonZero |-> weights[s] * code[s]]

\* What a code costs, as a sum over the symbols.
LEMMA CostIs ==
  ASSUME NEW code
  PROVE  Cost(code) = SumFunctionOnSet(CostsOf(code), NonZero)
<1> DEFINE f == CostsOf(code)
<1>1. DOMAIN f = NonZero
  BY DEF CostsOf
<1>2. Cost(code) = SumFunction(f)
  BY Zenon DEF Cost, CostsOf
<1> HIDE DEF f
<1>3. SumFunction(f) = SumFunctionOnSet(f, NonZero)
  BY <1>1, Zenon DEF SumFunction
<1>4. QED
  BY <1>2, <1>3 DEF f

\* Longer codes cost no less.
LEMMA CostGrows ==
  ASSUME WeightsType, NEW code, NEW other,
         \A s \in NonZero : /\ code[s] \in Nat /\ other[s] \in Nat
                            /\ code[s] <= other[s]
  PROVE  Cost(code) <= Cost(other)
<1> DEFINE f == CostsOf(code)
           g == CostsOf(other)
<1>1. ASSUME NEW s \in NonZero
      PROVE  f[s] \in Nat /\ g[s] \in Nat /\ f[s] <= g[s]
  <2> DEFINE w == weights[s]
             a == code[s]
             b == other[s]
  <2>1. w \in Nat /\ a \in Nat /\ b \in Nat /\ a <= b
    BY WeightsNat
  <2>2. f[s] = w * a /\ g[s] = w * b
    BY DEF CostsOf
  <2> HIDE DEF w, a, b, f, g
  <2>3. w * a \in Nat /\ w * b \in Nat
    BY <2>1
  <2>4. w * a <= w * b
    BY <2>1, FactorMonotone
  <2>5. QED
    BY <2>2, <2>3, <2>4
<1> HIDE DEF f, g
<1>2. SumFunctionOnSet(f, NonZero) <= SumFunctionOnSet(g, NonZero)
  BY <1>1, WeightsNat, SumMonotone
<1>3. QED
  BY <1>2, CostIs, Zenon DEF f, g

\* What a code uses up of all codes and the room it has make as many codes of
\* no length as there are symbols.
LEMMA RoomAndSpace ==
  ASSUME WeightsType, NEW code, IsCode(code)
  PROVE  /\ CodeSpace(code, NonZero) \in Nat /\ Room(code, MaximumLength) \in Nat
         /\ Room(code, MaximumLength) + CodeSpace(code, NonZero) =
              2 ^ MaximumLength * Cardinality(NonZero)
<1> DEFINE L == MaximumLength
           p == 2 ^ L
           f == [s \in NonZero |-> 2 ^ (L - code[s])]
           g == RoomOf(code, L)
           h == [s \in NonZero |-> p]
<1>0. L \in Nat \ {0} /\ p \in Nat /\ IsFiniteSet(NonZero) /\ Cardinality(NonZero) \in Nat
  BY Constants, NonZeroFinite
<1>1. ASSUME NEW s \in NonZero
      PROVE  f[s] \in Nat /\ g[s] \in Nat /\ h[s] = g[s] + f[s] /\ h[s] = p
  <2> DEFINE c == code[s]
             d == L - c
             q == 2 ^ d
  <2>1. c \in 1 .. L
    BY DEF IsCode
  <2>2. s \in Selected(code, L)
    BY <1>0, <2>1 DEF Selected
  <2>3. f[s] = q /\ g[s] = p - q /\ h[s] = p
    BY <2>2 DEF RoomOf
  <2> HIDE DEF c
  <2>4. d \in Nat /\ d <= L
    BY <1>0, <2>1
  <2>5. q \in Nat
    BY <2>4, PowerSuccessor
  <2>6. q <= p
    BY <1>0, <2>4, PowerMonotone DEF p, q
  <2> HIDE DEF p, q, f, g, h
  <2>7. QED
    BY <1>0, <2>3, <2>5, <2>6
<1>2. CodeSpace(code, NonZero) = SumFunctionOnSet(f, NonZero)
  <2>1. CodeSpace(code, NonZero) = SumFunction(f)
    BY Zenon DEF CodeSpace
  <2>2. DOMAIN f = NonZero
    OBVIOUS
  <2> HIDE DEF f
  <2>3. SumFunction(f) = SumFunctionOnSet(f, NonZero)
    BY <2>2, Zenon DEF SumFunction
  <2>4. QED
    BY <2>1, <2>3, Zenon
<1>3. Room(code, L) = SumFunctionOnSet(g, NonZero)
  BY Zenon DEF Room
<1> HIDE DEF f, g, h, p
<1>4. SumFunctionOnSet(h, NonZero) = SumFunctionOnSet(g, NonZero) + SumFunctionOnSet(f, NonZero)
  BY <1>0, <1>1, SumPlus
<1>5. SumFunctionOnSet(h, NonZero) = p * Cardinality(NonZero)
  BY <1>0, <1>1, SumConstant
<1>6. SumFunctionOnSet(f, NonZero) \in Nat /\ SumFunctionOnSet(g, NonZero) \in Nat
  BY <1>0, <1>1, SumNat
<1>7. QED
  BY <1>2, <1>3, <1>4, <1>5, <1>6 DEF p

\* What a code costs is what it selects of all levels weighs.
LEMMA CostIsPart ==
  ASSUME WeightsType, NEW code, IsCode(code)
  PROVE  Cost(code) = Part(code, MaximumLength)
<1> DEFINE L == MaximumLength
           f == CostsOf(code)
           g == PartOf(code, L)
<1>0. L \in Nat \ {0} /\ IsFiniteSet(NonZero)
  BY Constants, NonZeroFinite
<1>1. ASSUME NEW s \in NonZero
      PROVE  f[s] \in Nat /\ f[s] = g[s]
  <2> DEFINE c == code[s]
             w == weights[s]
  <2>1. c \in 1 .. L /\ w \in Nat
    BY WeightsNat DEF IsCode
  <2>2. s \in Selected(code, L)
    BY <1>0, <2>1 DEF Selected
  <2>3. f[s] = w * c /\ g[s] = w * (c - (L - L))
    BY <2>2 DEF CostsOf, PartOf
  <2> HIDE DEF c, w, f, g
  <2>4. c - (L - L) = c /\ w * c \in Nat
    BY <1>0, <2>1
  <2>5. QED
    BY <2>3, <2>4
<1> HIDE DEF f, g
<1>2. SumFunctionOnSet(f, NonZero) = SumFunctionOnSet(g, NonZero)
  BY <1>0, <1>1, SumSame
<1>3. QED
  BY <1>2, CostIs, Zenon DEF Part, f, g

\* The selections cost no more than a code that a decoder can read.
LEMMA NoneCheaper ==
  ASSUME WeightsType, MergeInv, Len(solution_by_level) = MaximumLength,
         NEW code, IsCode(code), CodeSpace(code, NonZero) <= 2 ^ MaximumLength
  PROVE  PartCost(SelectedSymbols, MaximumLength) <= Cost(code)
<1> DEFINE L == MaximumLength
           n == Cardinality(NonZero)
           m == n - 1
           p == 2 ^ L
           R == Room(code, L)
           U == CodeSpace(code, NonZero)
           C == PartCost(SelectedSymbols, L)
           F == FirstWeigh(L, 2 * m)
           Q == Part(code, L)
<1>0. /\ L \in Nat \ {0} /\ p \in Nat /\ n \in Nat /\ n >= 2
      /\ Len(packages_by_level) = L
  BY Constants, NonZeroFinite DEF MergeInv
<1>1. R \in Nat /\ U \in Nat /\ R + U = p * n /\ U <= p
  BY RoomAndSpace
<1>2. L \in 0 .. L /\ m \in Nat
  BY <1>0
<1>3. m * p <= R
  <2> HIDE DEF p, n, R, U
  <2>1. p * n = m * p + p /\ m * p \in Nat
    BY <1>0
  <2>2. QED
    BY <1>0, <1>1, <2>1
<1>4. F <= Q
  <2>1. \A l \in 0 .. L : \A j \in Nat :
          j * 2 ^ l <= Room(code, l) =>
            j <= HalfBelow(l + 1) /\ FirstWeigh(l, 2 * j) <= Part(code, l)
    BY <1>0, CodeCovers
  <2> HIDE DEF m, L
  <2>2. m * 2 ^ L <= Room(code, L)
    BY <1>3
  <2>3. QED
    BY <1>2, <2>1, <2>2
<1>5. C \in Nat /\ C <= F
  BY SelectionsCost
<1>6. F \in Nat
  <2> DEFINE level == packages_by_level[L]
             len == Len(level)
             k == 2 * m
  <2>1. L # 0 /\ L \in 1 .. Len(packages_by_level) /\ L \in 0 .. L
    BY <1>0
  <2>2. F = SumFunctionOnSet(WeightOf(level), 1 .. k)
    BY <2>1, Zenon DEF FirstWeigh
  <2>3. len \in Nat /\ Weighed(level, len) /\ Ordered(level)
    BY <2>1, LevelOrdered
  <2>4. m <= HalfBelow(L + 1)
    <3>1. \A l \in 0 .. L : \A j \in Nat :
            j * 2 ^ l <= Room(code, l) =>
              j <= HalfBelow(l + 1) /\ FirstWeigh(l, 2 * j) <= Part(code, l)
      BY <1>0, CodeCovers
    <3> HIDE DEF m, L
    <3>2. m * 2 ^ L <= Room(code, L)
      BY <1>3
    <3>3. QED
      BY <1>2, <3>1, <3>2
  <2>5. HalfBelow(L + 1) = len \div 2
    <3>1. L + 1 # 1 /\ (L + 1) - 1 = L
      BY <1>0
    <3>2. QED
      BY <3>1, Zenon DEF HalfBelow
  <2> HIDE DEF len, m
  <2>6. k \in 0 .. len
    BY <1>2, <2>3, <2>4, <2>5
  <2> HIDE DEF level, k
  <2>7. SumFunctionOnSet(WeightOf(level), 1 .. k) \in Nat
    BY <2>3, <2>6, FirstIsNat
  <2>8. QED
    BY <2>2, <2>7
<1>7. Cost(code) = Q
  BY CostIsPart
<1>8. Q \in Int
  <2> DEFINE l == L - 1
  <2>1. l \in 0 .. L - 1 /\ l + 1 = L
    BY <1>0
  <2> HIDE DEF l
  <2>2. /\ Part(code, l) \in Nat /\ SumFunctionOnSet(weights, Selected(code, l)) \in Nat
        /\ Part(code, l + 1) = Part(code, l) + SumFunctionOnSet(weights, Selected(code, l))
    BY <2>1, PartGrows
  <2>3. QED
    BY <2>1, <2>2
<1> HIDE DEF C, F, Q
<1>9. C <= Q
  BY <1>4, <1>5, <1>6, <1>8
<1>10. QED
  BY <1>7, <1>9 DEF C

\* The codes that are compared are those a decoder can read.
LEMMA CodesForAre ==
  ASSUME NEW code \in CodesFor[NonZero]
  PROVE  IsCode(code) /\ CodeSpace(code, NonZero) <= 2 ^ MaximumLength
<1>1. NonZero \in SUBSET Symbol
  BY NonZeroFinite
<1>2. CodesFor[NonZero] = {c \in [NonZero -> 1 .. MaximumLength] :
                             CodeSpace(c, NonZero) <= 2 ^ MaximumLength}
  BY <1>1, Zenon DEF CodesFor
<1>3. QED
  BY <1>2, Zenon DEF IsCode

\* Nothing that is compared depends on more than the weights.
LEMMA CostsUnchanged ==
  ASSUME weights' = weights
  PROVE  /\ \A code : Cost(code)' = Cost(code)
         /\ Cost(lengths)' = Cost(lengths')
         /\ CodesFor' = CodesFor /\ CodesFor[NonZero]' = CodesFor[NonZero]
<1>1. NonZero' = NonZero
  BY DEF NonZero
<1>2. \A code : Cost(code)' = Cost(code)
  BY <1>1, Zenon DEF Cost
<1>3. Cost(lengths)' = Cost(lengths')
  BY <1>1, Zenon DEF Cost
<1>4. \A code, symbols : CodeSpace(code, symbols)' = CodeSpace(code, symbols)
  BY Zenon DEF CodeSpace
<1>5. CodesFor' = CodesFor
  BY Zenon DEF CodesFor, CodeSpace
<1>6. QED
  BY <1>1, <1>2, <1>3, <1>5

\* The lengths counted from the selections cost what the selections weigh.
LEMMA CountedIsOptimal ==
  ASSUME Inv, CountLengths
  PROVE  OptimalCode'
<1> DEFINE L == MaximumLength
           S == SelectedSymbols
<1>1. /\ pc = "merge" /\ weights' = weights /\ Len(solution_by_level) = L
      /\ lengths' = [s \in Symbol |-> Cardinality({t \in 1 .. L :
                                        s \in solution_by_level[t].symbols})]
  BY DEF CountLengths
<1>2. WeightsType /\ MergeInv
  BY <1>1 DEF Inv
<1>3. NonZero \in SUBSET Symbol
  BY NonZeroFinite
<1>4. \A s \in Symbol : With(S, L, s) = {t \in 1 .. L : s \in solution_by_level[t].symbols}
  BY DEF With, SelectedSymbols
<1>5. \A s \in NonZero : lengths'[s] = Cardinality(With(S, L, s))
  BY <1>1, <1>3, <1>4
<1>6. Cost(lengths') = PartCost(S, L)
  <2> DEFINE f == [s \in NonZero |-> weights[s] * Cardinality(With(S, L, s))]
  <2>1. CostsOf(lengths') = f
    <3>1. CostsOf(lengths') = [s \in NonZero |-> weights[s] * lengths'[s]]
      BY Zenon DEF CostsOf
    <3> HIDE DEF S
    <3>2. \A s \in NonZero : weights[s] * lengths'[s] = weights[s] * Cardinality(With(S, L, s))
      BY <1>5, Zenon
    <3>3. QED
      BY <3>1, <3>2, Zenon
  <2>2. Cost(lengths') = SumFunctionOnSet(CostsOf(lengths'), NonZero)
    BY CostIs
  <2>3. QED
    BY <2>1, <2>2, Zenon DEF PartCost
<1>7. ASSUME NEW code \in CodesFor[NonZero]'
      PROVE  Cost(lengths)' <= Cost(code)'
  <2>1. code \in CodesFor[NonZero] /\ Cost(lengths)' = Cost(lengths') /\ Cost(code)' = Cost(code)
    BY <1>1, <1>7, CostsUnchanged, Zenon
  <2>2. IsCode(code) /\ CodeSpace(code, NonZero) <= 2 ^ L
    BY <2>1, CodesForAre
  <2>3. PartCost(S, L) <= Cost(code)
    BY <1>1, <1>2, <2>2, NoneCheaper
  <2>4. QED
    BY <1>6, <2>1, <2>3
<1>8. QED
  BY <1>7 DEF OptimalCode

\* No code is shorter than one bit.
LEMMA FewAreOptimal ==
  ASSUME Inv, FewSymbols
  PROVE  OptimalCode'
<1>1. /\ weights' = weights
      /\ lengths' = [s \in Symbol |-> IF s \in NonZero THEN 1 ELSE 0]
  BY DEF FewSymbols
<1>2. WeightsType /\ NonZero \in SUBSET Symbol
  BY NonZeroFinite DEF Inv
<1>3. ASSUME NEW code \in CodesFor[NonZero]'
      PROVE  Cost(lengths)' <= Cost(code)'
  <2>1. code \in CodesFor[NonZero] /\ Cost(lengths)' = Cost(lengths') /\ Cost(code)' = Cost(code)
    BY <1>1, <1>3, CostsUnchanged, Zenon
  <2>2. IsCode(code)
    BY <2>1, CodesForAre
  <2>3. \A s \in NonZero : /\ lengths'[s] \in Nat /\ code[s] \in Nat
                           /\ lengths'[s] <= code[s]
    BY <1>1, <1>2, <2>2, Constants DEF IsCode
  <2>4. Cost(lengths') <= Cost(code)
    BY <1>2, <2>3, CostGrows
  <2>5. QED
    BY <2>1, <2>4
<1>4. QED
  BY <1>3 DEF OptimalCode

\* The code is optimal when the function is done, in whichever way it got there.
LEMMA OptimalStep ==
  ASSUME AllInv, OptimalCode, [NextCodes]_allVars
  PROVE  OptimalCode'
<1>1. Inv
  BY DEF AllInv
<1>2. CASE FewSymbols
  BY <1>1, <1>2, FewAreOptimal
<1>3. CASE CountLengths
  BY <1>1, <1>3, CountedIsOptimal
<1>4. CASE FirstLevel \/ MergeLevel \/ SelectLevel \/ Return
  <2>1. pc' # "done"
    BY <1>4 DEF FirstLevel, MergeLevel, SelectLevel, Return
  <2>2. QED
    BY <2>1 DEF OptimalCode
<1>5. CASE AssignCodes
  <2>1. pc' # "done"
    BY <1>5 DEF AssignCodes
  <2>2. QED
    BY <2>1 DEF OptimalCode
<1>6. CASE UNCHANGED allVars
  <2>1. pc' = pc /\ weights' = weights /\ lengths' = lengths
    BY <1>6 DEF allVars, vars
  <2>2. ASSUME pc' = "done", NEW code \in CodesFor[NonZero]'
        PROVE  Cost(lengths)' <= Cost(code)'
    <3>1. code \in CodesFor[NonZero] /\ Cost(lengths)' = Cost(lengths) /\ Cost(code)' = Cost(code)
      BY <2>1, <2>2, CostsUnchanged, Zenon
    <3>2. Cost(lengths) <= Cost(code)
      BY <2>1, <2>2, <3>1, Zenon DEF OptimalCode
    <3>3. QED
      BY <3>1, <3>2, Zenon
  <2>3. QED
    BY <2>2, Zenon DEF OptimalCode
<1>7. QED
  BY <1>2, <1>3, <1>4, <1>5, <1>6 DEF NextCodes, MergePackages, Next

\* No code within the maximum length takes fewer bits than the one
\* package_merge finds, whichever of several packages as heavy come first.
THEOREM CodeIsOptimal == SpecCodes => []OptimalCode
<1>1. InitCodes => AllInv /\ OptimalCode
  <2>1. InitCodes => OptimalCode
    BY DEF InitCodes, Init, OptimalCode
  <2>2. QED
    BY <2>1, AllInit
<1>2. AllInv /\ OptimalCode /\ [NextCodes]_allVars => (AllInv /\ OptimalCode)'
  BY AllStep, OptimalStep
<1>3. QED
  BY <1>1, <1>2, PTL DEF SpecCodes

=============================================================================
