--------------------------- MODULE BlockCodingProofs ---------------------------
(***************************************************************************)
(* BlockCoding for all matches that a match finder may give, blocks of any *)
(* number of steps and codes of any length: what block types 1 and 2 write *)
(* is read back as what they took, in no more bits than they promise.      *)
(***************************************************************************)
EXTENDS BlockCoding, Induction, FiniteSetTheorems, SequenceTheorems, TLAPS

-----------------------------------------------------------------------------
(***************************************************************************)
(* The symbol tables: what a length or a distance is written as is read    *)
(* as that length or distance.                                             *)
(***************************************************************************)
\* The powers of two up to the widest offset.
PowerOf(n) ==
  IF n = 0 THEN 1 ELSE IF n = 1 THEN 2 ELSE IF n = 2 THEN 4
  ELSE IF n = 3 THEN 8 ELSE IF n = 4 THEN 16 ELSE IF n = 5 THEN 32
  ELSE IF n = 6 THEN 64 ELSE IF n = 7 THEN 128 ELSE IF n = 8 THEN 256
  ELSE IF n = 9 THEN 512 ELSE IF n = 10 THEN 1024 ELSE IF n = 11 THEN 2048
  ELSE IF n = 12 THEN 4096 ELSE 8192

\* The powers of two are the ones listed.
LEMMA Powers == \A n \in 0 .. 13 : 2 ^ n = PowerOf(n) /\ PowerOf(n) \in Nat
<1> DEFINE S == {n \in Nat : n \in 0 .. 13 => 2 ^ n = PowerOf(n)}
<1>1. 0 \in S
  BY DEF PowerOf
<1>2. ASSUME NEW n \in Nat, n \in S
      PROVE  n + 1 \in S
  <2>1. SUFFICES ASSUME n + 1 \in 0 .. 13
                 PROVE  2 ^ (n + 1) = PowerOf(n + 1)
    OBVIOUS
  <2>2. PowerOf(n + 1) = 2 * PowerOf(n)
    BY <2>1 DEF PowerOf
  <2>3. QED
    BY <1>2, <2>1, <2>2, PowerSuccessor
<1> HIDE DEF S
<1>3. \A n \in Nat : n \in S
  BY <1>1, <1>2, Induct
<1>4. \A n \in 0 .. 13 : PowerOf(n) \in Nat
  BY DEF PowerOf
<1>5. QED
  BY <1>3, <1>4 DEF S

\* Every distance lies in one range, which is as wide as the offset bits can
\* tell apart, and begins where RFC 1951 says.
LEMMA DistanceRange ==
  ASSUME NEW r \in 1 .. 30
  PROVE  /\ distance_ranges[r][1] \in 0 .. 13
         /\ distance_ranges[r][2] \in Nat /\ distance_ranges[r][3] \in Nat
         /\ distance_ranges[r][2] <= distance_ranges[r][3]
         /\ distance_ranges[r][1] = DistanceOffsetBits(r - 1)
         /\ \A offset \in 0 .. distance_ranges[r][3] - distance_ranges[r][2] :
              /\ DistanceOf(r - 1, offset) = distance_ranges[r][2] + offset
              /\ offset < 2 ^ distance_ranges[r][1]
         /\ r < 30 => distance_ranges[r + 1][2] = distance_ranges[r][3] + 1
<1> DEFINE n == distance_ranges[r][1]
           first == distance_ranges[r][2]
           last == distance_ranges[r][3]
<1>1. n \in 0 .. 13
  BY DEF distance_ranges
<1>2. first \in Nat /\ last \in Nat
  BY DEF distance_ranges
<1>3. last + 1 = first + PowerOf(n)
  BY DEF distance_ranges, PowerOf
<1>4. n = DistanceOffsetBits(r - 1)
  BY DEF distance_ranges, DistanceOffsetBits
<1>5. /\ r - 1 >= 4 /\ (r - 1) % 2 = 0 => first = PowerOf(n) + PowerOf(n) + 1
      /\ r - 1 >= 4 /\ (r - 1) % 2 # 0 => first = PowerOf(n) + PowerOf(n) + PowerOf(n) + 1
      /\ r - 1 < 4 => first = r /\ last = r
  BY DEF distance_ranges, PowerOf
<1>6. r < 30 => distance_ranges[r + 1][2] = last + 1
  BY DEF distance_ranges
<1> HIDE DEF n, first, last
<1>7. 2 ^ n = PowerOf(n) /\ 2 ^ n \in Nat \ {0}
  <2>1. 2 ^ n = PowerOf(n)
    BY <1>1, Powers
  <2>2. 2 ^ n \in Nat \ {0}
    BY <1>1, PowerSuccessor
  <2>3. QED
    BY <2>1, <2>2
<1> DEFINE width == 2 ^ n
<1>8. \A offset \in 0 .. last - first : DistanceOf(r - 1, offset) = first + offset
  <2>1. CASE r - 1 < 4
    BY <1>5, <2>1 DEF DistanceOf
  <2>2. CASE r - 1 >= 4 
    <3>1. \A offset : DistanceOf(r - 1, offset) = (2 + ((r - 1) % 2)) * width + 1 + offset
      BY <2>2, <1>4 DEF DistanceOf
    <3>2. (2 + ((r - 1) % 2)) * width + 1 = first
      <4>1. width \in Nat /\ width = PowerOf(n)
        BY <1>7
      <4>2. (r - 1) % 2 \in {0, 1}
        OBVIOUS
      <4> HIDE DEF width
      <4>3. QED
        BY <1>5, <2>2, <4>1, <4>2
    <3>3. width \in Nat
      BY <1>7
    <3> HIDE DEF width
    <3>4. QED
      BY <1>2, <3>1, <3>2, <3>3
  <2>3. QED
    BY <2>1, <2>2
<1>9. \A offset \in 0 .. last - first : offset < 2 ^ n
  <2>1. last + 1 = first + width /\ width \in Nat
    BY <1>3, <1>7
  <2> HIDE DEF width
  <2>2. \A offset \in 0 .. last - first : offset < width
    BY <1>2, <2>1
  <2>3. QED
    BY <2>2 DEF width
<1>10. first <= last
  BY <1>2, <1>3, <1>7
<1>11. QED
  BY <1>1, <1>2, <1>4, <1>6, <1>8, <1>9, <1>10 DEF n, first, last

\* Every length lies in one range, in the same way.
LEMMA LengthRange ==
  ASSUME NEW r \in 1 .. 29
  PROVE  /\ length_ranges[r][1] \in 0 .. 13
         /\ length_ranges[r][2] \in Nat /\ length_ranges[r][3] \in Nat
         /\ length_ranges[r][2] <= length_ranges[r][3]
         /\ length_ranges[r][1] = LengthOffsetBits(r + 256)
         /\ \A offset \in 0 .. length_ranges[r][3] - length_ranges[r][2] :
              /\ LengthOf(r + 256, offset) = length_ranges[r][2] + offset
              /\ offset < 2 ^ length_ranges[r][1]
         /\ r < 29 => length_ranges[r + 1][2] = length_ranges[r][3] + 1
<1> DEFINE n == length_ranges[r][1]
           first == length_ranges[r][2]
           last == length_ranges[r][3]
           rest == (r + 256 - 261) % 4
<1>1. n \in 0 .. 13
  BY DEF length_ranges
<1>2. first \in Nat /\ last \in Nat
  BY DEF length_ranges
<1>3. last < first + PowerOf(n) /\ first <= last
  BY DEF length_ranges, PowerOf
<1>4. n = LengthOffsetBits(r + 256)
  BY DEF length_ranges, LengthOffsetBits
<1>5. /\ r < 9 => first = r + 2 /\ last = first
      /\ r = 29 => first = 258 /\ last = first
      /\ r \in 9 .. 28 /\ rest = 0 => first = 4 * PowerOf(n) + 3
      /\ r \in 9 .. 28 /\ rest = 1 => first = 5 * PowerOf(n) + 3
      /\ r \in 9 .. 28 /\ rest = 2 => first = 6 * PowerOf(n) + 3
      /\ r \in 9 .. 28 /\ rest = 3 => first = 7 * PowerOf(n) + 3
  BY SMTT(30) DEF length_ranges, PowerOf
<1>r. rest \in 0 .. 3
  OBVIOUS
<1>6. r < 29 => length_ranges[r + 1][2] = last + 1
  BY DEF length_ranges
<1> HIDE DEF n, first, last
<1>7. 2 ^ n = PowerOf(n) /\ 2 ^ n \in Nat \ {0}
  <2>1. 2 ^ n = PowerOf(n)
    BY <1>1, Powers
  <2>2. 2 ^ n \in Nat \ {0}
    BY <1>1, PowerSuccessor
  <2>3. QED
    BY <2>1, <2>2
<1> DEFINE width == 2 ^ n
<1>8. \A offset \in 0 .. last - first : LengthOf(r + 256, offset) = first + offset
  <2>1. CASE r < 9 \/ r = 29
    BY <1>2, <1>5, <2>1 DEF LengthOf
  <2>2. CASE r \in 9 .. 28
    <3>1. \A offset : LengthOf(r + 256, offset) = (4 + rest) * width + 3 + offset
      BY <2>2, <1>4 DEF LengthOf
    <3>2. (4 + rest) * width + 3 = first
      <4>1. width \in Nat /\ width = PowerOf(n)
        BY <1>7
      <4>2. rest \in {0, 1, 2, 3}
        BY <1>r
      <4> HIDE DEF width, rest
      <4>3. QED
        BY <1>5, <2>2, <4>1, <4>2
    <3>3. width \in Nat /\ rest \in Nat
      BY <1>r, <1>7
    <3> HIDE DEF width, rest
    <3>4. QED
      BY <1>2, <3>1, <3>2, <3>3
  <2>3. QED
    BY <2>1, <2>2
<1>9. \A offset \in 0 .. last - first : offset < 2 ^ n
  <2>1. last < first + width /\ width \in Nat
    BY <1>3, <1>7
  <2> HIDE DEF width
  <2>2. \A offset \in 0 .. last - first : offset < width
    BY <1>2, <2>1
  <2>3. QED
    BY <2>2 DEF width
<1>10. QED
  BY <1>1, <1>2, <1>3, <1>4, <1>6, <1>8, <1>9 DEF n, first, last

\* Where ranges follow each other, a point lies in exactly one of them, and the
\* table has the entry made for it.
Consecutive(ranges, m) ==
  /\ DOMAIN ranges = 1 .. m
  /\ \A r \in 1 .. m :
       /\ ranges[r][2] \in Nat /\ ranges[r][3] \in Nat
       /\ ranges[r][2] <= ranges[r][3]
       /\ r < m => ranges[r + 1][2] = ranges[r][3] + 1

\* The entry of a point is that of the range it lies in.
LEMMA RangeFound ==
  ASSUME NEW m \in Nat \ {0}, NEW ranges, Consecutive(ranges, m),
         NEW point \in ranges[1][2] .. ranges[m][3], NEW symbol
  PROVE  \E r \in 1 .. m :
           /\ point \in ranges[r][2] .. ranges[r][3]
           /\ SymbolWithOffset(symbol, ranges, point) =
                [symbol |-> symbol + r - 1, bits |-> point - ranges[r][2],
                 num_bits |-> ranges[r][1]]
<1> DEFINE In(r) == point \in ranges[r][2] .. ranges[r][3]
           S == {k \in Nat : k \in 1 .. m /\ point <= ranges[k][3]
                               => \E r \in 1 .. k : In(r)}
           T == {k \in Nat : k \in 1 .. m => \A r \in 1 .. k :
                               r < k => ranges[r][3] < ranges[k][2]}
<1>0. \A r \in 1 .. m :
       /\ ranges[r][2] \in Nat /\ ranges[r][3] \in Nat
       /\ ranges[r][2] <= ranges[r][3]
       /\ r < m => ranges[r + 1][2] = ranges[r][3] + 1
  BY DEF Consecutive
<1>1. 0 \in S /\ 0 \in T
  OBVIOUS
<1>2. ASSUME NEW k \in Nat, k \in S
      PROVE  k + 1 \in S
  <2>1. SUFFICES ASSUME k + 1 \in 1 .. m, point <= ranges[k + 1][3]
                 PROVE  \E r \in 1 .. k + 1 : In(r)
    OBVIOUS
  <2>2. point \in Int /\ ranges[1][2] <= point
    BY <1>0
  <2>3. CASE k = 0
    BY <2>1, <2>2, <2>3
  <2>4. CASE k > 0 /\ point <= ranges[k][3]
    <3>1. k \in 1 .. m
      BY <2>1, <2>4
    <3>2. PICK r \in 1 .. k : In(r)
      BY <1>2, <2>4, <3>1
    <3>3. r \in 1 .. k + 1
      OBVIOUS
    <3>4. QED
      BY <3>2, <3>3
  <2>5. CASE k > 0 /\ ~ (point <= ranges[k][3])
    <3>1. ranges[k + 1][2] = ranges[k][3] + 1 /\ ranges[k][3] \in Nat
      BY <1>0, <2>1, <2>5
    <3>2. In(k + 1) /\ k + 1 \in 1 .. k + 1
      BY <2>1, <2>2, <2>5, <3>1
    <3>3. QED
      BY <3>2
  <2>6. QED
    BY <2>3, <2>4, <2>5
<1>3. ASSUME NEW k \in Nat, k \in T
      PROVE  k + 1 \in T
  <2>1. SUFFICES ASSUME k + 1 \in 1 .. m, NEW r \in 1 .. k + 1, r < k + 1
                 PROVE  ranges[r][3] < ranges[k + 1][2]
    OBVIOUS
  <2>2. /\ r \in 1 .. k /\ k \in 1 .. m /\ k < m
        /\ r \in 1 .. m
    BY <2>1
  <2>3. /\ ranges[k + 1][2] = ranges[k][3] + 1
        /\ ranges[k][2] <= ranges[k][3] /\ ranges[k][2] \in Nat /\ ranges[k][3] \in Nat
        /\ ranges[r][3] \in Nat
    BY <1>0, <2>2
  <2>4. r < k => ranges[r][3] < ranges[k][2]
    BY <1>3, <2>2
  <2>5. QED
    BY <2>2, <2>3, <2>4
<1> HIDE DEF S, T
<1>4. \A k \in Nat : k \in S
  BY <1>1, <1>2, Induct
<1>5. \A k \in Nat : k \in T
  BY <1>1, <1>3, Induct
<1>6. m \in 1 .. m /\ m \in Nat /\ point <= ranges[m][3] /\ point \in Int
  OBVIOUS
<1>7. PICK r \in 1 .. m : In(r)
  BY <1>4, <1>6 DEF S
<1>8. \A q \in 1 .. m : In(q) => q = r
  <2>1. TAKE q \in 1 .. m
  <2>2. HAVE In(q)
  <2>3. r < q => ranges[r][3] < ranges[q][2]
    BY <1>5 DEF T
  <2>4. q < r => ranges[q][3] < ranges[r][2]
    BY <1>5 DEF T
  <2>5. /\ ranges[r][2] \in Nat /\ ranges[r][3] \in Nat
        /\ ranges[q][2] \in Nat /\ ranges[q][3] \in Nat
    BY <1>0
  <2>6. QED
    BY <1>6, <1>7, <2>2, <2>3, <2>4, <2>5
<1>9. {q \in DOMAIN ranges : point \in ranges[q][2] .. ranges[q][3]} = {r}
  BY <1>7, <1>8 DEF Consecutive
<1>10. Max({r}) = r
  BY DEF Max
<1> HIDE DEF In
<1>11. SymbolWithOffset(symbol, ranges, point) =
         [symbol |-> symbol + r - 1, bits |-> point - ranges[r][2],
          num_bits |-> ranges[r][1]]
  BY <1>9, <1>10 DEF SymbolWithOffset
<1>12. QED
  BY <1>7, <1>11 DEF In

\* The distances there are.
Distance == 1 .. maximum_look_back_size

\* The ranges of distances follow each other over all distances.
LEMMA DistanceRanges ==
  /\ Consecutive(distance_ranges, 30)
  /\ Distance = distance_ranges[1][2] .. distance_ranges[30][3]
<1>1. DOMAIN distance_ranges = 1 .. 30
  BY DEF distance_ranges
<1>2. \A r \in 1 .. 30 :
        /\ distance_ranges[r][2] \in Nat /\ distance_ranges[r][3] \in Nat
        /\ distance_ranges[r][2] <= distance_ranges[r][3]
        /\ r < 30 => distance_ranges[r + 1][2] = distance_ranges[r][3] + 1
  BY DistanceRange, Zenon
<1>3. Consecutive(distance_ranges, 30)
  BY <1>1, <1>2, Zenon DEF Consecutive
<1>4. distance_ranges[1][2] = 1 /\ distance_ranges[30][3] = 32768
  BY DEF distance_ranges
<1>5. 2 ^ 15 = 32768
  OBVIOUS
<1>6. QED
  BY <1>3, <1>4, <1>5 DEF Distance, maximum_look_back_size

\* What DistanceOf and LengthOf of RFC 1951 make of a symbol and its offset is
\* what the symbol stands for in the tables.
LEMMA FromDistanceReads ==
  ASSUME NEW d \in Distance
  PROVE  LET s == FromDistance(d)
         IN /\ s.symbol \in 0 .. 29 /\ s.bits \in Nat
            /\ s.num_bits \in 0 .. 13 /\ s.num_bits = DistanceOffsetBits(s.symbol)
            /\ s.bits < 2 ^ s.num_bits
            /\ DistanceOf(s.symbol, s.bits) = d
<1>1. 30 \in Nat \ {0}
  OBVIOUS
<1>2. \E r \in 1 .. 30 :
        /\ d \in distance_ranges[r][2] .. distance_ranges[r][3]
        /\ SymbolWithOffset(0, distance_ranges, d) =
             [symbol |-> 0 + r - 1, bits |-> d - distance_ranges[r][2],
              num_bits |-> distance_ranges[r][1]]
  <2>1. d \in distance_ranges[1][2] .. distance_ranges[30][3]
    BY DistanceRanges, Zenon
  <2>2. Consecutive(distance_ranges, 30)
    BY DistanceRanges
  <2>3. QED
    BY <1>1, <2>1, <2>2, RangeFound, SMTT(20)
<1>3. PICK r \in 1 .. 30 :
        /\ d \in distance_ranges[r][2] .. distance_ranges[r][3]
        /\ FromDistance(d) =
             [symbol |-> r - 1, bits |-> d - distance_ranges[r][2],
              num_bits |-> distance_ranges[r][1]]
  <2>1. \A r \in 1 .. 30 : 0 + r - 1 = r - 1
    OBVIOUS
  <2>2. QED
    BY <1>2, <2>1, Zenon DEF FromDistance, first_distance_symbol
<1> DEFINE first == distance_ranges[r][2]
           last == distance_ranges[r][3]
<1>4. first \in Nat /\ last \in Nat /\ d \in first .. last
  BY <1>3, DistanceRange, Zenon
<1>5. d - first \in 0 .. last - first /\ d \in Nat /\ first + (d - first) = d
  <2> HIDE DEF first, last
  <2>1. QED
    BY <1>4
<1>6. /\ DistanceOf(r - 1, d - first) = first + (d - first)
      /\ d - first < 2 ^ distance_ranges[r][1]
      /\ distance_ranges[r][1] \in 0 .. 13
      /\ distance_ranges[r][1] = DistanceOffsetBits(r - 1)
  BY <1>5, DistanceRange, Zenon
<1> HIDE DEF first, last
<1>7. r - 1 \in 0 .. 29 /\ d - first \in Nat
  BY <1>5
<1>8. QED
  BY <1>3, <1>5, <1>6, <1>7 DEF first

\* The symbol and the offset of a length stand for that length, here and in RFC
\* 1951.
LEMMA FromLengthReads ==
  ASSUME NEW n \in 3 .. 258
  PROVE  LET s == FromLength(n)
         IN /\ s.symbol \in 257 .. 285 /\ s.bits \in Nat
            /\ s.num_bits \in 0 .. 13 /\ s.num_bits = LengthOffsetBits(s.symbol)
            /\ s.bits < 2 ^ s.num_bits
            /\ LengthOf(s.symbol, s.bits) = n
            /\ ToLength(s.symbol, s.bits) = n
<1>1. Consecutive(length_ranges, 29)
  <2>1. DOMAIN length_ranges = 1 .. 29
    BY DEF length_ranges
  <2>2. \A r \in 1 .. 29 :
          /\ length_ranges[r][2] \in Nat /\ length_ranges[r][3] \in Nat
          /\ length_ranges[r][2] <= length_ranges[r][3]
          /\ r < 29 => length_ranges[r + 1][2] = length_ranges[r][3] + 1
    BY LengthRange, Zenon
  <2>3. QED
    BY <2>1, <2>2, Zenon DEF Consecutive
<1>2. length_ranges[1][2] = 3 /\ length_ranges[29][3] = 258
  BY DEF length_ranges
<1>3. PICK r \in 1 .. 29 :
        /\ n \in length_ranges[r][2] .. length_ranges[r][3]
        /\ FromLength(n) =
             [symbol |-> r + 256, bits |-> n - length_ranges[r][2],
              num_bits |-> length_ranges[r][1]]
  <2>0. 29 \in Nat \ {0}
    OBVIOUS
  <2>1. n \in length_ranges[1][2] .. length_ranges[29][3]
    BY <1>2
  <2>2. \E r \in 1 .. 29 :
           /\ n \in length_ranges[r][2] .. length_ranges[r][3]
           /\ SymbolWithOffset(257, length_ranges, n) =
                [symbol |-> 257 + r - 1, bits |-> n - length_ranges[r][2],
                 num_bits |-> length_ranges[r][1]]
    BY <1>1, <2>0, <2>1, RangeFound, SMTT(20)
  <2>3. \A r \in 1 .. 29 : 257 + r - 1 = r + 256
    OBVIOUS
  <2>4. QED
    BY <2>2, <2>3, Zenon DEF FromLength, first_length_symbol
<1> DEFINE first == length_ranges[r][2]
           last == length_ranges[r][3]
<1>4. first \in Nat /\ last \in Nat /\ n - first \in 0 .. last - first
  <2>1. first \in Nat /\ last \in Nat
    BY LengthRange, Zenon
  <2>2. n \in first .. last
    BY <1>3
  <2> HIDE DEF first, last
  <2>3. QED
    BY <2>1, <2>2
<1>5. /\ LengthOf(r + 256, n - first) = first + (n - first)
      /\ n - first < 2 ^ length_ranges[r][1]
      /\ length_ranges[r][1] \in 0 .. 13
      /\ length_ranges[r][1] = LengthOffsetBits(r + 256)
  BY <1>4, LengthRange, Zenon
<1> HIDE DEF first, last
<1>6. first + (n - first) = n
  BY <1>4
<1>7. ToLength(r + 256, n - length_ranges[r][2]) = n
  <2>1. r + 256 - 257 + 1 = r
    OBVIOUS
  <2>2. ToLength(r + 256, n - length_ranges[r][2]) = first + (n - first)
    BY <2>1 DEF ToLength, first_length_symbol, first
  <2>3. QED
    BY <1>6, <2>2
<1>8. QED
  BY <1>3, <1>4, <1>5, <1>6, <1>7 DEF first

\* The symbols of a length and of a distance, and their offsets.
Symbols(length, distance) ==
  /\ length.symbol \in 257 .. 285 /\ length.bits \in Nat
  /\ length.num_bits \in 0 .. 13
  /\ distance.symbol \in 0 .. 29 /\ distance.bits \in Nat
  /\ distance.num_bits \in 0 .. 13

\* Every length and every distance has one.
LEMMA SymbolsExist ==
  ASSUME NEW n \in 3 .. 258, NEW d \in Distance
  PROVE  Symbols(FromLength(n), FromDistance(d))
<1> DEFINE x == FromLength(n)
           y == FromDistance(d)
<1>1. x.symbol \in 257 .. 285 /\ x.bits \in Nat /\ x.num_bits \in 0 .. 13
  BY FromLengthReads
<1>2. y.symbol \in 0 .. 29 /\ y.bits \in Nat /\ y.num_bits \in 0 .. 13
  BY FromDistanceReads
<1> HIDE DEF x, y
<1>3. Symbols(x, y)
  BY <1>1, <1>2 DEF Symbols
<1> QED
  BY <1>3 DEF x, y

-----------------------------------------------------------------------------
(***************************************************************************)
(* Sums over sequences.                                                    *)
(***************************************************************************)
\* A sequence of n numbers.
Numbers(f, n) == f \in [1 .. n -> Nat]

\* An interval is finite.
LEMMA IntervalFinite ==
  ASSUME NEW n \in Nat
  PROVE  IsFiniteSet(1 .. n)
BY FS_Interval

\* The sum of a sequence of numbers is a number.
LEMMA SumOfNumbers ==
  ASSUME NEW n \in Nat, NEW f, Numbers(f, n)
  PROVE  SumFunction(f) = SumFunctionOnSet(f, 1 .. n) /\ SumFunction(f) \in Nat
<1>1. SumFunction(f) = SumFunctionOnSet(f, 1 .. n)
  BY Zenon DEF SumFunction, Numbers
<1>2. IsFiniteSet(1 .. n) /\ \A k \in 1 .. n : f[k] \in Nat
  BY IntervalFinite DEF Numbers
<1>3. SumFunctionOnSet(f, 1 .. n) \in Nat
  BY <1>2, SumNat
<1>4. QED
  BY <1>1, <1>3

\* The sum of no number.
LEMMA SumNone ==
  ASSUME NEW f, Numbers(f, 0)
  PROVE  SumFunction(f) = 0
<1>1. SumFunction(f) = SumFunctionOnSet(f, 1 .. 0)
  BY SumOfNumbers
<1>2. 1 .. 0 = {}
  OBVIOUS
<1>3. SumFunctionOnSet(f, 1 .. 0) = SumFunctionOnSet(f, {})
  BY <1>2, Zenon
<1>4. QED
  BY <1>1, <1>3, SumEmpty

\* One number more.
LEMMA SumOneMore ==
  ASSUME NEW n \in Nat, NEW f, Numbers(f, n), NEW g, Numbers(g, n + 1),
         \A k \in 1 .. n : g[k] = f[k]
  PROVE  SumFunction(g) = SumFunction(f) + g[n + 1]
<1> DEFINE K == 1 .. n
<1>1. /\ IsFiniteSet(1 .. n + 1) /\ \A k \in 1 .. n + 1 : g[k] \in Nat
      /\ n + 1 \in 1 .. n + 1 /\ n + 1 \notin K /\ K \in SUBSET (1 .. n + 1)
      /\ K \cup {n + 1} = 1 .. n + 1
  BY IntervalFinite DEF Numbers
<1>2. /\ IsFiniteSet(K) /\ \A k \in K : f[k] \in Nat /\ f[k] = g[k]
  BY IntervalFinite DEF Numbers
<1>3. SumFunction(f) = SumFunctionOnSet(f, K) /\ SumFunction(f) \in Nat
  BY SumOfNumbers
<1> HIDE DEF K
<1>4. /\ g[n + 1] \in Nat
      /\ SumFunctionOnSet(g, K \cup {n + 1}) = g[n + 1] + SumFunctionOnSet(g, K)
  BY <1>1, SumAddElement
<1>5. SumFunctionOnSet(f, K) = SumFunctionOnSet(g, K)
  BY <1>2, SumSame
<1>6. SumFunction(g) = SumFunctionOnSet(g, K \cup {n + 1})
  <2>1. SumFunction(g) = SumFunctionOnSet(g, 1 .. n + 1)
    BY SumOfNumbers
  <2>2. QED
    BY <1>1, <2>1, Zenon
<1>7. QED
  BY <1>3, <1>4, <1>5, <1>6

\* The numbers of a sequence behind those of another.
LEMMA SumBehind ==
  ASSUME NEW m \in Nat, NEW f, Numbers(f, m), NEW n \in Nat, NEW h, Numbers(h, n),
         NEW g, Numbers(g, m + n),
         \A k \in 1 .. m : g[k] = f[k], \A k \in 1 .. n : g[m + k] = h[k]
  PROVE  SumFunction(g) = SumFunction(f) + SumFunction(h)
<1> DEFINE G(k) == [j \in 1 .. m + k |-> g[j]]
           H(k) == [j \in 1 .. k |-> h[j]]
           S == {k \in Nat : k <= n =>
                   SumFunction(G(k)) = SumFunction(f) + SumFunction(H(k))}
<1>0. SumFunction(f) \in Nat
  BY SumOfNumbers
<1>g. \A k \in 0 .. n : Numbers(G(k), m + k) /\ Numbers(H(k), k)
  BY DEF Numbers
<1>1. 0 \in S
  <2>1. Numbers(H(0), 0)
    BY <1>g, 0 \in 0 .. n
  <2>2. G(0) = f
    BY DEF Numbers
  <2>3. SumFunction(H(0)) = 0
    BY <2>1, SumNone
  <2> HIDE DEF G, H
  <2>4. QED
    BY <1>0, <2>2, <2>3
<1>2. ASSUME NEW k \in Nat, k \in S
      PROVE  k + 1 \in S
  <2>1. SUFFICES ASSUME k + 1 <= n
                 PROVE  SumFunction(G(k + 1)) = SumFunction(f) + SumFunction(H(k + 1))
    OBVIOUS
  <2>2. k \in 0 .. n /\ k + 1 \in 0 .. n /\ k + 1 \in 1 .. n /\ k <= n
    BY <2>1
  <2>3. /\ Numbers(G(k), m + k) /\ Numbers(G(k + 1), m + (k + 1))
        /\ Numbers(H(k), k) /\ Numbers(H(k + 1), k + 1)
    BY <1>g, <2>2
  <2>4. /\ \A j \in 1 .. m + k : G(k + 1)[j] = G(k)[j]
        /\ \A j \in 1 .. k : H(k + 1)[j] = H(k)[j]
        /\ G(k + 1)[m + k + 1] = g[m + (k + 1)] /\ H(k + 1)[k + 1] = h[k + 1]
    OBVIOUS
  <2>5. SumFunction(G(k)) = SumFunction(f) + SumFunction(H(k))
    BY <1>2, <2>2
  <2>6. g[m + (k + 1)] = h[k + 1] /\ h[k + 1] \in Nat
    BY <2>2 DEF Numbers
  <2> HIDE DEF G, H
  <2>7. SumFunction(G(k + 1)) = SumFunction(G(k)) + G(k + 1)[m + k + 1]
    <3>1. m + k \in Nat /\ m + (k + 1) = (m + k) + 1
      OBVIOUS
    <3>2. Numbers(G(k + 1), (m + k) + 1)
      BY <2>3, <3>1
    <3>3. QED
      BY <2>3, <2>4, <3>1, <3>2, SumOneMore
  <2>8. SumFunction(H(k + 1)) = SumFunction(H(k)) + H(k + 1)[k + 1]
    BY <2>3, <2>4, SumOneMore
  <2>9. SumFunction(H(k)) \in Nat
    BY <2>3, SumOfNumbers
  <2>10. QED
    BY <1>0, <2>4, <2>5, <2>6, <2>7, <2>8, <2>9
<1> HIDE DEF S
<1>3. n \in S
  BY <1>1, <1>2, Induct
<1>4. SumFunction(G(n)) = SumFunction(f) + SumFunction(H(n))
  BY <1>3 DEF S
<1>5. G(n) = g /\ H(n) = h
  BY DEF Numbers
<1>6. QED
  BY <1>4, <1>5

-----------------------------------------------------------------------------
(***************************************************************************)
(* What the decoder reads of a block.                                      *)
(***************************************************************************)
\* The states of the decoder are a function.
LEMMA ReadExists ==
  ASSUME NEW kind, NEW pushed, NEW m \in Nat
  PROVE  \E f : f = [n \in 0 .. m |-> IF n = 0 THEN Start ELSE ReadOne(kind, f[n - 1], pushed[n])]
<1> DEFINE S == {l \in Nat : \E f : f = [n \in 0 .. l |-> IF n = 0 THEN Start ELSE ReadOne(kind, f[n - 1], pushed[n])]}
<1>1. 0 \in S
  <2>1. [n \in 0 .. 0 |-> Start] =
          [n \in 0 .. 0 |-> IF n = 0 THEN Start
                           ELSE ReadOne(kind, [k \in 0 .. 0 |-> Start][n - 1], pushed[n])]
    OBVIOUS
  <2> QED  BY <2>1
<1>2. ASSUME NEW l \in Nat, l \in S
      PROVE  l + 1 \in S
  <2>1. PICK f : f = [n \in 0 .. l |-> IF n = 0 THEN Start ELSE ReadOne(kind, f[n - 1], pushed[n])]
    BY <1>2
  <2> DEFINE longer == [n \in 0 .. l + 1 |-> IF n = 0 THEN Start ELSE ReadOne(kind, f[n - 1], pushed[n])]
             again == [n \in 0 .. l + 1 |-> IF n = 0 THEN Start ELSE ReadOne(kind, longer[n - 1], pushed[n])]
  <2>2. \A n \in 0 .. l : longer[n] = f[n]
    BY <2>1
  <2>3. \A n \in 0 .. l + 1 : n = 0 \/ n - 1 \in 0 .. l
    OBVIOUS
  <2>4. \A n \in 0 .. l + 1 : n = 0 \/ longer[n - 1] = f[n - 1]
    BY <2>2, <2>3, Zenon
  <2>5. \A n \in 0 .. l + 1 : longer[n] = again[n]
    BY <2>4
  <2>6. longer = [n \in 0 .. l + 1 |-> IF n = 0 THEN Start ELSE ReadOne(kind, longer[n - 1], pushed[n])]
    BY <2>5, Zenon
  <2> HIDE DEF longer
  <2>7. \E g : g = [n \in 0 .. l + 1 |-> IF n = 0 THEN Start ELSE ReadOne(kind, g[n - 1], pushed[n])]
    BY <2>6, Zenon
  <2>8. l + 1 \in Nat
    OBVIOUS
  <2> QED  BY <2>7, <2>8, Zenon
<1>3. m \in S
  <2> HIDE DEF S
  <2> QED  BY <1>1, <1>2, Induct
<1> QED
  BY <1>3

\* The state of the decoder behind each thing that was pushed.
States(d, kind, pushed, n) ==
  /\ d[0] = Start
  /\ \A k \in 1 .. n : d[k] = ReadOne(kind, d[k - 1], pushed[k])

\* Reading goes from state to state.
LEMMA ReadStates ==
  ASSUME NEW kind, NEW pushed, Len(pushed) \in Nat
  PROVE  \E d : States(d, kind, pushed, Len(pushed)) /\ Read(kind, pushed) = d[Len(pushed)]
<1>0. \A m \in Nat : \E g : g = [n \in 0 .. m |->
               IF n = 0 THEN Start ELSE ReadOne(kind, g[n - 1], pushed[n])]
  BY ReadExists
<1> DEFINE m == Len(pushed)
           d == CHOOSE g : g = [n \in 0 .. m |->
                  IF n = 0 THEN Start ELSE ReadOne(kind, g[n - 1], pushed[n])]
<1>1. d = [n \in 0 .. m |-> IF n = 0 THEN Start ELSE ReadOne(kind, d[n - 1], pushed[n])]
  BY <1>0, Zenon
<1>2. Read(kind, pushed) = d[m]
  BY Zenon DEF Read
<1> HIDE DEF d
<1>3. 0 \in 0 .. m /\ \A k \in 1 .. m : k \in 0 .. m /\ k # 0
  OBVIOUS
<1>4. States(d, kind, pushed, m)
  BY <1>1, <1>3, Zenon DEF States
<1> QED
  BY <1>2, <1>4, Zenon

\* Nothing is read of nothing.
LEMMA ReadNothing ==
  ASSUME NEW kind
  PROVE  Read(kind, <<>>) = Start
<1>1. Len(<<>>) = 0
  OBVIOUS
<1>2. PICK d : States(d, kind, <<>>, Len(<<>>)) /\ Read(kind, <<>>) = d[Len(<<>>)]
  BY <1>1, ReadStates
<1> QED
  BY <1>1, <1>2, Zenon DEF States

\* One thing more that is pushed is one step of the decoder.
LEMMA ReadAppend ==
  ASSUME NEW kind, NEW P, NEW s \in Seq(P), NEW p \in P
  PROVE  Read(kind, Append(s, p)) = ReadOne(kind, Read(kind, s), p)
<1> DEFINE t == Append(s, p)
           m == Len(s)
<1>1. /\ m \in Nat /\ Len(t) = m + 1 /\ t[m + 1] = p
      /\ \A k \in 1 .. m : t[k] = s[k]
  OBVIOUS
<1> HIDE DEF t, m
<1>2. PICK d : States(d, kind, s, m) /\ Read(kind, s) = d[m]
  BY <1>1, ReadStates DEF m
<1>3. PICK longer : States(longer, kind, t, m + 1) /\ Read(kind, t) = longer[m + 1]
  <2>1. Len(t) \in Nat
    BY <1>1
  <2>2. \E e : States(e, kind, t, Len(t)) /\ Read(kind, t) = e[Len(t)]
    BY <2>1, ReadStates, Zenon
  <2> QED  BY <1>1, <2>2
<1> DEFINE T == {n \in Nat : n <= m => longer[n] = d[n]}
<1>4. 0 \in T
  BY <1>2, <1>3 DEF States
<1>5. ASSUME NEW n \in Nat, n \in T
      PROVE  n + 1 \in T
  <2>1. SUFFICES ASSUME n + 1 <= m
                 PROVE  longer[n + 1] = d[n + 1]
    OBVIOUS
  <2>2. /\ n + 1 \in 1 .. m /\ n + 1 \in 1 .. m + 1 /\ (n + 1) - 1 = n
        /\ longer[n] = d[n]
    BY <1>1, <1>5, <2>1
  <2>3. /\ d[n + 1] = ReadOne(kind, d[n], s[n + 1])
        /\ longer[n + 1] = ReadOne(kind, longer[n], t[n + 1])
    BY <1>2, <1>3, <2>2 DEF States
  <2> QED  BY <1>1, <2>2, <2>3, Zenon
<1>6. m \in T
  <2> HIDE DEF T
  <2> QED  BY <1>1, <1>4, <1>5, Induct
<1>7. longer[m] = d[m] /\ m + 1 \in 1 .. m + 1 /\ (m + 1) - 1 = m
  BY <1>1, <1>6
<1>8. longer[m + 1] = ReadOne(kind, longer[m], t[m + 1])
  BY <1>3, <1>7 DEF States
<1> QED
  BY <1>1, <1>2, <1>3, <1>7, <1>8, Zenon DEF t

-----------------------------------------------------------------------------
(***************************************************************************)
(* The items read, and the matches they stand for.                         *)
(***************************************************************************)

\* What is read of a match: its literals, or its length and distance.
Item == Seq(Nat)

Readable(m) ==
  m.literals \in Seq(0 .. 255) /\ Len(m.literals) >= 1 /\ m.distance \in Nat

\* The items behind the first a, up to the first b, stand for m.
Between(items, a, b, m) ==
  \/ b = a + 1 /\ items[a + 1] = <<Len(m.literals), m.distance>>
  \/ /\ b = a + Len(m.literals)
     /\ \A j \in 1 .. Len(m.literals) : items[a + j] = <<m.literals[j]>>

\* The items are those of each match in turn, divided at these places.
Divides(items, n, ms, at) ==
  /\ at \in [0 .. n -> 0 .. Len(items)]
  /\ at[0] = 0 /\ at[n] = Len(items)
  /\ \A k \in 1 .. n : Between(items, at[k - 1], at[k], ms[k])

Splits(items, ms) == \E at : Divides(items, Len(ms), ms, at)

\* No item stands for no match.
LEMMA SplitsNothing == Splits(<<>>, <<>>)
<1> DEFINE at == [k \in 0 .. 0 |-> 0]
<1>1. Len(<<>>) = 0
  OBVIOUS
<1>2. Divides(<<>>, 0, <<>>, at)
  BY <1>1 DEF Divides
<1> QED
  BY <1>1, <1>2, Zenon DEF Splits

\* Items behind others that stand for one match more.
LEMMA SplitsMore ==
  ASSUME NEW M, NEW ms \in Seq(M), NEW m \in M,
         NEW items \in Seq(Item), NEW longer \in Seq(Item),
         Splits(items, ms), Len(longer) >= Len(items),
         \A j \in 1 .. Len(items) : longer[j] = items[j],
         \A k \in 1 .. Len(ms) : Readable(ms[k]),
         Readable(m),
         Between(longer, Len(items), Len(longer), m)
  PROVE  Splits(longer, Append(ms, m))
<1> DEFINE n == Len(ms)
           more == Append(ms, m)
<1>1. PICK at : Divides(items, n, ms, at)
  BY Zenon DEF Splits
<1> DEFINE bt == [k \in 0 .. n + 1 |-> IF k <= n THEN at[k] ELSE Len(longer)]
<1>2. /\ n \in Nat /\ Len(more) = n + 1 /\ more[n + 1] = m
      /\ \A k \in 1 .. n : more[k] = ms[k]
      /\ Len(items) \in Nat /\ Len(longer) \in Nat
  OBVIOUS
<1> HIDE DEF n, more
<1>3. /\ at \in [0 .. n -> 0 .. Len(items)]
      /\ at[0] = 0 /\ at[n] = Len(items)
  BY <1>1 DEF Divides
<1>4. /\ bt \in [0 .. n + 1 -> 0 .. Len(longer)]
      /\ bt[0] = 0 /\ bt[n + 1] = Len(longer) /\ bt[n] = Len(items)
      /\ \A k \in 0 .. n : bt[k] = at[k]
  BY <1>2, <1>3
<1> HIDE DEF bt
<1>5. ASSUME NEW k \in 1 .. n
      PROVE  Between(longer, bt[k - 1], bt[k], more[k])
  <2>1. /\ k \in 0 .. n /\ k - 1 \in 0 .. n /\ at[k - 1] \in 0 .. Len(items)
        /\ at[k] \in 0 .. Len(items) /\ bt[k] = at[k] /\ bt[k - 1] = at[k - 1]
        /\ more[k] = ms[k]
    <3>1. k \in 0 .. n /\ k - 1 \in 0 .. n
      BY <1>2
    <3> QED  BY <1>2, <1>3, <1>4, <3>1, Zenon
  <2>2. Between(items, at[k - 1], at[k], ms[k])
    BY <1>1 DEF Divides
  <2> DEFINE a == at[k - 1]
             b == at[k]
             l == ms[k].literals
  <2>3. Len(l) \in Nat
    BY <1>2 DEF Readable, n
  <2>4. CASE b = a + 1 /\ items[a + 1] = <<Len(l), ms[k].distance>>
    <3>1. a + 1 \in 1 .. Len(items)
      BY <1>2, <2>1, <2>4
    <3>2. longer[a + 1] = items[a + 1]
      BY <3>1
    <3> HIDE DEF a, b
    <3>3. Between(longer, a, b, ms[k])
      BY <2>4, <3>2, Zenon DEF Between
    <3> QED  BY <2>1, <3>3, Zenon DEF a, b
  <2>5. CASE b = a + Len(l) /\ \A j \in 1 .. Len(l) : items[a + j] = <<l[j]>>
    <3>1. \A j \in 1 .. Len(l) : a + j \in 1 .. Len(items)
      <4> HIDE DEF l
      <4> QED  BY <1>2, <2>1, <2>3, <2>5
    <3>2. \A j \in 1 .. Len(l) : longer[a + j] = <<l[j]>>
      BY <2>5, <3>1, Zenon
    <3> HIDE DEF a, b
    <3>3. Between(longer, a, b, ms[k])
      BY <2>5, <3>2, Zenon DEF Between
    <3> QED  BY <2>1, <3>3, Zenon DEF a, b
  <2> QED  BY <2>2, <2>4, <2>5, Zenon DEF Between
<1>6. Between(longer, bt[(n + 1) - 1], bt[n + 1], more[n + 1])
  <2>1. (n + 1) - 1 = n
    BY <1>2
  <2> QED  BY <1>2, <1>4, <2>1, Zenon
<1>7. \A k \in 1 .. n + 1 : k \in 1 .. n \/ k = n + 1
  BY <1>2
<1>8. \A k \in 1 .. n + 1 : Between(longer, bt[k - 1], bt[k], more[k])
  BY <1>5, <1>6, <1>7, Zenon
<1>9. Divides(longer, n + 1, more, bt)
  BY <1>4, <1>8, Zenon DEF Divides
<1> QED
  BY <1>2, <1>9, Zenon DEF Splits, more

\* A prefix is what its elements are.
LEMMA PrefixIs ==
  ASSUME NEW S, NEW s \in Seq(S), NEW t \in Seq(S)
  PROVE  IsPrefix(s, t) <=> Len(s) <= Len(t) /\ \A j \in 1 .. Len(s) : t[j] = s[j]
<1> DEFINE n == Len(s)
           u == SubSeq(s, 1, n)
           v == SubSeq(t, 1, n)
<1>1. n \in Nat /\ Len(t) \in Nat
  OBVIOUS
<1>2. u = s
  BY SubSeqFull
<1>3. ASSUME n <= Len(t)
      PROVE  u = v <=> \A j \in 1 .. n : t[j] = s[j]
  <2>1. v \in Seq(S) /\ Len(v) = n /\ \A j \in 1 .. n : v[j] = t[j]
    BY <1>1, <1>3
  <2> HIDE DEF u, v
  <2>2. ASSUME \A j \in 1 .. n : t[j] = s[j]
        PROVE  s = v
    <3>1. Len(s) = Len(v) /\ \A j \in 1 .. Len(s) : s[j] = v[j]
      BY <2>1, <2>2
    <3> QED  BY <2>1, <3>1, SeqEqual
  <2> QED  BY <1>2, <2>1, <2>2, Zenon
<1> HIDE DEF u, v
<1> QED
  BY <1>3, Zenon DEF IsPrefix, u, v

\* What is left behind a match.
LEMMA ConsumedIs ==
  ASSUME NEW items \in Seq(Item), NEW m, Readable(m),
         NEW a \in 0 .. Len(items), NEW b \in 0 .. Len(items),
         Between(items, a, b, m)
  PROVE  Consumed(SubSeq(items, a + 1, Len(items)), m) =
           SubSeq(items, b + 1, Len(items))
<1> DEFINE L == Len(items)
           left == SubSeq(items, a + 1, L)
           l == m.literals
<1>1. /\ L \in Nat /\ l \in Seq(0 .. 255) /\ Len(l) \in Nat /\ Len(l) >= 1
      /\ m.distance \in Nat
  BY DEF Readable
<1>d. DOMAIN l = 1 .. Len(l)
  BY <1>1, LenProperties
<1>2. /\ left \in Seq(Item) /\ Len(left) = L - a
      /\ \A j \in 1 .. L - a : left[j] = items[a + j]
  OBVIOUS
<1>r. ReferenceItems(m) \in Seq(Item)
  <2>1. <<Len(l), m.distance>> \in Seq(Nat)
    BY <1>1
  <2> QED  BY <2>1 DEF ReferenceItems, Item
<1>3. CASE b = a + 1 /\ items[a + 1] = <<Len(l), m.distance>>
  <2>1. /\ ReferenceItems(m) = << <<Len(l), m.distance>> >>
        /\ Len(ReferenceItems(m)) = 1
    BY DEF ReferenceItems
  <2>2. left[1] = <<Len(l), m.distance>> /\ Len(left) >= 1
    BY <1>1, <1>2, <1>3
  <2>3. IsPrefix(ReferenceItems(m), left)
    <3>1. /\ ReferenceItems(m)[1] = left[1]
          /\ \A j \in 1 .. 1 : j = 1
      BY <2>1, <2>2 DEF ReferenceItems
    <3> HIDE DEF left
    <3> QED  BY <1>r, <1>2, <2>1, <2>2, <3>1, PrefixIs
  <2>4. SubSeq(left, 2, Len(left)) = SubSeq(items, b + 1, L)
    <3>1. Len(left) = L - a /\ b = a + 1
      BY <1>2, <1>3
    <3>2. SubSeq(left, 2, L - a) = SubSeq(items, a + 2, L)
      OBVIOUS
    <3>3. a + 2 = b + 1
      BY <3>1
    <3> QED  BY <3>1, <3>2, <3>3, Zenon
  <2> QED  BY <2>3, <2>4, Zenon DEF Consumed
<1>4. CASE b = a + Len(l) /\ \A j \in 1 .. Len(l) : items[a + j] = <<l[j]>>
  <2>1. Len(left) >= Len(l) /\ \A j \in 1 .. Len(l) : left[j] = <<l[j]>>
    <3> DEFINE c == Len(l)
    <3> HIDE DEF left, l
    <3>1. c \in Nat /\ b = a + c /\ b <= L /\ Len(left) = L - a
      BY <1>1, <1>2, <1>4
    <3> HIDE DEF c
    <3>2. Len(left) >= c /\ \A j \in 1 .. c : j \in 1 .. L - a
      BY <1>1, <3>1
    <3> QED  BY <1>2, <1>4, <3>2, Zenon DEF c
  <2>2. ~ IsPrefix(ReferenceItems(m), left)
    <3>1. left[1] = <<l[1]>>
      <4>1. 1 \in 1 .. Len(l)
        BY <1>1
      <4> QED  BY <2>1, <4>1, Zenon
    <3>3. /\ Len(ReferenceItems(m)) = 1
          /\ ReferenceItems(m)[1] = <<Len(l), m.distance>>
      BY DEF ReferenceItems
    <3>4. <<l[1]>> # <<Len(l), m.distance>>
      <4>1. \A x, y, z : <<x>> # <<y, z>>
        OBVIOUS
      <4> QED  BY <4>1, Zenon
    <3>5. 1 \in 1 .. 1 /\ left[1] # ReferenceItems(m)[1]
      <4>1. 1 \in 1 .. 1
        OBVIOUS
      <4> QED  BY <3>1, <3>3, <3>4, <4>1, Zenon
    <3> HIDE DEF left
    <3>6. ~ \A j \in 1 .. Len(ReferenceItems(m)) : left[j] = ReferenceItems(m)[j]
      BY <3>3, <3>5
    <3>7. left \in Seq(Item)
      BY <1>2
    <3> QED  BY <1>r, <3>6, <3>7, PrefixIs, Zenon
  <2>3. IsPrefix(LiteralItems(m), left)
    <3>1. LiteralItems(m) = [k \in 1 .. Len(l) |-> <<l[k]>>]
      BY <1>d, Zenon DEF LiteralItems
    <3>2. \A k \in 1 .. Len(l) : <<l[k]>> \in Seq(Nat)
      <4> HIDE DEF l
      <4>1. \A k \in 1 .. Len(l) : l[k] \in 0 .. 255
        BY <1>1, ElementOfSeq
      <4>2. \A x \in 0 .. 255 : <<x>> \in Seq(Nat)
        OBVIOUS
      <4> QED  BY <4>1, <4>2, Zenon
    <3> DEFINE t == LiteralItems(m)
    <3>3. /\ t \in Seq(Item) /\ Len(t) = Len(l)
          /\ \A j \in 1 .. Len(l) : t[j] = <<l[j]>>
      <4> HIDE DEF l
      <4> QED  BY <1>1, <3>1, <3>2 DEF Item
    <3> HIDE DEF left, t, l
    <3>4. Len(t) <= Len(left) /\ \A j \in 1 .. Len(t) : left[j] = t[j]
      BY <2>1, <3>3
    <3>5. IsPrefix(t, left)
      BY <1>2, <3>3, <3>4, PrefixIs
    <3> QED  BY <3>5 DEF t
  <2>4. SubSeq(left, Len(l) + 1, Len(left)) = SubSeq(items, b + 1, L)
    <3> DEFINE c == Len(l)
    <3>1. Len(left) = L - a /\ b = a + c /\ c \in Nat /\ c >= 1
      BY <1>1, <1>2, <1>4
    <3> HIDE DEF c
    <3>2. SubSeq(left, c + 1, L - a) = SubSeq(items, a + c + 1, L)
      BY <3>1
    <3>3. a + c + 1 = b + 1
      BY <3>1
    <3> QED  BY <3>1, <3>2, <3>3, Zenon DEF c
  <2> QED  BY <2>2, <2>3, <2>4, Zenon DEF Consumed
<1> QED
  BY <1>3, <1>4, Zenon DEF Between

\* What is left behind each match.
Leaves(f, items, ms, n) ==
  f[0] = items /\ \A k \in 1 .. n : f[k] = Consumed(f[k - 1], ms[k])

Leave(f, items, ms) ==
  /\ Leaves(f, items, ms, Len(ms))
  /\ f[Len(ms)] = <<>> => StandFor(items, ms)

\* Taking matches away goes from state to state.
LEMMA StandForStates ==
  ASSUME NEW items, NEW ms, Len(ms) \in Nat
  PROVE  \E f : Leave(f, items, ms)
<1>e. \E f : f = [n \in 0 .. Len(ms) |-> IF n = 0 THEN items ELSE Consumed(f[n - 1], ms[n])]
  <2> DEFINE S == {l \in Nat : \E f : f = [n \in 0 .. l |-> IF n = 0 THEN items ELSE Consumed(f[n - 1], ms[n])]}
  <2>1. 0 \in S
    <3>1. [n \in 0 .. 0 |-> items] =
            [n \in 0 .. 0 |-> IF n = 0 THEN items
                             ELSE Consumed([k \in 0 .. 0 |-> items][n - 1], ms[n])]
      OBVIOUS
    <3> QED  BY <3>1
  <2>2. ASSUME NEW l \in Nat, l \in S
        PROVE  l + 1 \in S
    <3>1. PICK f : f = [n \in 0 .. l |-> IF n = 0 THEN items ELSE Consumed(f[n - 1], ms[n])]
      BY <2>2
    <3> DEFINE longer == [n \in 0 .. l + 1 |-> IF n = 0 THEN items ELSE Consumed(f[n - 1], ms[n])]
               again == [n \in 0 .. l + 1 |-> IF n = 0 THEN items ELSE Consumed(longer[n - 1], ms[n])]
    <3>2. \A n \in 0 .. l : longer[n] = f[n]
      BY <3>1
    <3>3. \A n \in 0 .. l + 1 : n = 0 \/ n - 1 \in 0 .. l
      OBVIOUS
    <3>4. \A n \in 0 .. l + 1 : n = 0 \/ longer[n - 1] = f[n - 1]
      BY <3>2, <3>3, Zenon
    <3>5. \A n \in 0 .. l + 1 : longer[n] = again[n]
      BY <3>4
    <3>6. longer = [n \in 0 .. l + 1 |-> IF n = 0 THEN items ELSE Consumed(longer[n - 1], ms[n])]
      BY <3>5, Zenon
    <3> HIDE DEF longer
    <3>7. \E g : g = [n \in 0 .. l + 1 |-> IF n = 0 THEN items ELSE Consumed(g[n - 1], ms[n])]
      BY <3>6, Zenon
    <3>8. l + 1 \in Nat
      OBVIOUS
    <3> QED  BY <3>7, <3>8, Zenon
  <2>3. Len(ms) \in S
    <3> HIDE DEF S
    <3> QED  BY <2>1, <2>2, Induct
  <2> QED
    BY <2>3
<1> DEFINE m == Len(ms)
           f == CHOOSE g : g = [n \in 0 .. m |->
                  IF n = 0 THEN items ELSE Consumed(g[n - 1], ms[n])]
<1>1. f = [n \in 0 .. m |-> IF n = 0 THEN items ELSE Consumed(f[n - 1], ms[n])]
  BY <1>e, Zenon
<1>2. StandFor(items, ms) <=> f[m] = <<>>
  BY Zenon DEF StandFor
<1> HIDE DEF f
<1>3. 0 \in 0 .. m /\ \A k \in 1 .. m : k \in 0 .. m /\ k # 0
  OBVIOUS
<1>4. Leaves(f, items, ms, m)
  BY <1>1, <1>3, Zenon DEF Leaves
<1> QED
  BY <1>2, <1>4, Zenon DEF Leave

\* Items that can be divided among the matches stand for them: nothing is left.
LEMMA SplitsStandFor ==
  ASSUME NEW items \in Seq(Item), NEW M, NEW ms \in Seq(M),
         \A k \in 1 .. Len(ms) : Readable(ms[k]), Splits(items, ms)
  PROVE  StandFor(items, ms)
<1> DEFINE n == Len(ms)
           L == Len(items)
<1>1. n \in Nat /\ L \in Nat
  OBVIOUS
<1>2. PICK f : Leave(f, items, ms)
  BY StandForStates, <1>1
<1>3. Leaves(f, items, ms, n) /\ (f[n] = <<>> => StandFor(items, ms))
  BY <1>2 DEF Leave
<1>4. PICK at : Divides(items, n, ms, at)
  BY Zenon DEF Splits
<1> HIDE DEF n
<1>6. f[0] = items /\ \A k \in 1 .. n : f[k] = Consumed(f[k - 1], ms[k])
  BY <1>3, Zenon DEF Leaves
<1>7. /\ at \in [0 .. n -> 0 .. L] /\ at[0] = 0 /\ at[n] = L
      /\ \A k \in 1 .. n : Between(items, at[k - 1], at[k], ms[k])
  BY <1>4, Zenon DEF Divides
<1> DEFINE S == {k \in Nat : k <= n => f[k] = SubSeq(items, at[k] + 1, L)}
<1>8. 0 \in S
  <2>1. SubSeq(items, 0 + 1, L) = items
    OBVIOUS
  <2> QED  BY <1>6, <1>7, <2>1
<1>9. ASSUME NEW k \in Nat, k \in S
      PROVE  k + 1 \in S
  <2>1. SUFFICES ASSUME k + 1 <= n
                 PROVE  f[k + 1] = SubSeq(items, at[k + 1] + 1, L)
    OBVIOUS
  <2>2. k \in 0 .. n /\ k + 1 \in 1 .. n /\ k + 1 \in 0 .. n /\ (k + 1) - 1 = k
    BY <1>1, <2>1
  <2>3. at[k] \in 0 .. L /\ at[k + 1] \in 0 .. L
    BY <1>7, <2>2
  <2>4. f[k] = SubSeq(items, at[k] + 1, L)
    BY <1>9, <2>2
  <2>5. Between(items, at[k], at[k + 1], ms[k + 1])
    BY <1>7, <2>2, Zenon
  <2>6. Readable(ms[k + 1])
    BY <2>2 DEF n
  <2>7. Consumed(SubSeq(items, at[k] + 1, L), ms[k + 1]) =
          SubSeq(items, at[k + 1] + 1, L)
    BY <2>3, <2>5, <2>6, ConsumedIs
  <2>8. f[k + 1] = Consumed(f[k], ms[k + 1])
    BY <1>6, <2>2, Zenon
  <2> QED  BY <2>4, <2>7, <2>8, Zenon
<1>10. n \in S
  <2> HIDE DEF S
  <2> QED  BY <1>1, <1>8, <1>9, Induct
<1>11. f[n] = SubSeq(items, L + 1, L)
  BY <1>1, <1>7, <1>10
<1>12. SubSeq(items, L + 1, L) = <<>>
  OBVIOUS
<1> QED
  BY <1>3, <1>11, <1>12, Zenon

-----------------------------------------------------------------------------
(***************************************************************************)
(* What is taken, and the states of the decoder.                           *)
(***************************************************************************)
\* What a block takes from a match finder.
MatchTaken ==
  {m \in [literals : Seq(0 .. 255), distance : 0 .. maximum_look_back_size] :
     IsMatch(m)}

\* The parts of a match that is taken.
LEMMA MatchTakenIs ==
  ASSUME NEW m \in MatchTaken
  PROVE  /\ m.literals \in Seq(0 .. 255) /\ Len(m.literals) \in 1 .. 258
         /\ m.distance \in Nat
         /\ Len(m.literals) >= 3 => m.distance \in Distance
<1>1. m.literals \in Seq(0 .. 255) /\ m.distance \in 0 .. maximum_look_back_size
  BY Zenon DEF MatchTaken
<1>2. /\ Len(m.literals) \in 1 .. maximum_look_ahead_size
      /\ Len(m.literals) >= minimum_back_reference_length
           => m.distance >= minimum_back_reference_distance
  BY Zenon DEF MatchTaken, IsMatch
<1>3. /\ Len(m.literals) \in 1 .. 258
      /\ Len(m.literals) >= 3 => m.distance >= 1
  BY <1>2 DEF maximum_look_ahead_size, minimum_back_reference_length,
              minimum_back_reference_distance
<1>4. m.distance \in Nat
  <2>1. 2 ^ 15 \in Nat
    OBVIOUS
  <2> QED  BY <1>1, <2>1 DEF maximum_look_back_size
<1>5. m.distance >= 1 => m.distance \in Distance
  <2>1. 2 ^ 15 \in Nat
    OBVIOUS
  <2> QED  BY <1>1, <2>1 DEF maximum_look_back_size, Distance
<1> QED
  BY <1>1, <1>3, <1>4, <1>5

\* A match that is taken is of the kind that items can stand for.
LEMMA MatchTakenReadable ==
  ASSUME NEW ms \in Seq(MatchTaken)
  PROVE  \A k \in 1 .. Len(ms) : Readable(ms[k])
<1>1. \A m \in MatchTaken : Readable(m)
  <2> TAKE m \in MatchTaken
  <2>1. Len(m.literals) \in 1 .. 258 /\ \A n \in 1 .. 258 : n >= 1
    BY MatchTakenIs
  <2> QED  BY <2>1, MatchTakenIs, Zenon DEF Readable
<1> QED
  BY <1>1, ElementOfSeq

-----------------------------------------------------------------------------
Expected ==
  {"literal_length", "distance", "length offset", "distance offset", "end",
   "nothing"}

Decoder == [items : Seq(Item), expects : Expected, symbol : Int, length : Nat]

\* The decoder begins at a literal or a length.
LEMMA StartIs ==
  /\ Start \in Decoder /\ Start.items = <<>>
  /\ Start.expects = "literal_length"
<1>1. NoSymbol \in Int /\ <<>> \in Seq(Item) /\ 0 \in Nat
  BY DEF NoSymbol
<1> QED
  BY <1>1 DEF Start, Decoder, Expected

\* The decoder reads a literal.
LEMMA ReadsLiteral ==
  ASSUME NEW d \in Decoder, d.expects = "literal_length", NEW s \in 0 .. 255
  PROVE  LET e == ReadSymbol(d, s)
         IN /\ e \in Decoder /\ e.expects = "literal_length"
            /\ e.items = Append(d.items, <<s>>)
<1>1. ReadSymbol(d, s) = WithLiteral(d, s)
  BY SMTT(30) DEF ReadSymbol
<1>2. <<s>> \in Item
  BY DEF Item
<1>3. Append(d.items, <<s>>) \in Seq(Item)
  BY <1>2 DEF Decoder
<1> QED
  BY <1>1, <1>3, Zenon DEF Decoder, WithLiteral

\* The decoder reads the end of the block.
LEMMA ReadsEnd ==
  ASSUME NEW d \in Decoder, d.expects = "literal_length"
  PROVE  LET e == ReadSymbol(d, 256)
         IN e \in Decoder /\ e.expects = "end" /\ e.items = d.items
<1>1. ReadSymbol(d, 256) = [d EXCEPT !.expects = "end"]
  BY DEF ReadSymbol
<1>2. "end" \in Expected
  BY DEF Expected
<1> QED
  BY <1>1, <1>2, ZenonT(60) DEF Decoder

\* The decoder behind the offset of a symbol, which is not pushed without bits.
AfterOffset(d, s) ==
  IF s.num_bits = 0 THEN d
  ELSE ReadOffset(d, s.bits % 2 ^ s.num_bits, s.num_bits)

\* An offset fits in its bits, so that pushing only these loses nothing.
LEMMA OffsetKept ==
  ASSUME NEW n \in 0 .. 13, NEW b \in Nat, b < 2 ^ n
  PROVE  b % 2 ^ n = b /\ (n = 0 => b = 0)
<1> DEFINE p == 2 ^ n
<1>1. p \in Nat \ {0}
  BY PowerSuccessor
<1>2. n = 0 => p = 1
  OBVIOUS
<1> HIDE DEF p
<1>3. b < p
  BY DEF p
<1>4. b % p = b
  BY <1>1, <1>3
<1> QED
  BY <1>1, <1>2, <1>3, <1>4 DEF p

\* The decoder reads a length as the one that was meant.
LEMMA ReadsLength ==
  ASSUME NEW d \in Decoder, d.expects = "literal_length", NEW n \in 3 .. 258
  PROVE  LET s == FromLength(n)
             e == AfterOffset(ReadSymbol(d, s.symbol), s)
         IN /\ e \in Decoder /\ e.expects = "distance" /\ e.length = n
            /\ e.items = d.items
<1> DEFINE s == FromLength(n)
           x == s.symbol
           b == s.bits
           w == s.num_bits
           d1 == ReadSymbol(d, x)
           e == AfterOffset(d1, s)
<1>1. /\ x \in 257 .. 285 /\ b \in Nat /\ w \in 0 .. 13
      /\ w = LengthOffsetBits(x) /\ b < 2 ^ w
  BY FromLengthReads
<1>l. LengthOf(x, b) = n
  BY FromLengthReads
<1>2. b % 2 ^ w = b /\ (w = 0 => b = 0)
  BY <1>1, OffsetKept
<1>3. n \in Nat /\ x \in Int
  BY <1>1
<1> HIDE DEF x, b, w
<1>4. d1 = IF LengthOffsetBits(x) = 0 THEN WithLength(d, LengthOf(x, 0))
           ELSE [d EXCEPT !.symbol = x, !.expects = "length offset"]
  <2>1. x \notin 0 .. 255 /\ x # 256 /\ x \in 257 .. 285 /\ d.expects # "distance"
    BY <1>1
  <2> QED  BY <2>1, SMTT(30) DEF ReadSymbol
<1>5. CASE w = 0
  <2>1. d1 = WithLength(d, n)
    BY <1>1, <1>2, <1>4, <1>5, <1>l, Zenon
  <2>2. e = d1
    BY <1>5, Zenon DEF AfterOffset, w
  <2>3. e = [d EXCEPT !.length = n, !.expects = "distance"]
    BY <2>1, <2>2, Zenon DEF WithLength
  <2>4. "distance" \in Expected
    BY DEF Expected
  <2> HIDE DEF e
  <2>5. /\ e \in Decoder /\ e.expects = "distance" /\ e.length = n
        /\ e.items = d.items
    BY <1>3, <2>3, <2>4, Zenon DEF Decoder
  <2> QED  BY <2>5, Zenon DEF e, d1, x, s
<1>6. CASE w # 0
  <2>1. d1 = [d EXCEPT !.symbol = x, !.expects = "length offset"]
    BY <1>1, <1>4, <1>6, Zenon
  <2>2. "length offset" \in Expected /\ "distance" \in Expected
    BY DEF Expected
  <2>3. /\ d1 \in Decoder /\ d1.symbol = x /\ d1.expects = "length offset"
        /\ d1.items = d.items
    <3> HIDE DEF d1
    <3> QED  BY <1>3, <2>1, <2>2, Zenon DEF Decoder
  <2>4. e = ReadOffset(d1, b, w)
    BY <1>2, <1>6, Zenon DEF AfterOffset, b, w
  <2> HIDE DEF d1, e
  <2>5. ReadOffset(d1, b, w) = WithLength(d1, LengthOf(x, b))
    BY <1>1, <2>3, Zenon DEF ReadOffset
  <2>6. e = [d1 EXCEPT !.length = n, !.expects = "distance"]
    BY <1>l, <2>4, <2>5, Zenon DEF WithLength
  <2>7. /\ e \in Decoder /\ e.expects = "distance" /\ e.length = n
        /\ e.items = d.items
    BY <1>3, <2>2, <2>3, <2>6, Zenon DEF Decoder
  <2> QED  BY <2>7, Zenon DEF e, d1, x, s
<1> QED
  BY <1>5, <1>6

\* The decoder reads a distance as the one that was meant.
LEMMA ReadsDistance ==
  ASSUME NEW d \in Decoder, d.expects = "distance", NEW n \in Distance
  PROVE  LET s == FromDistance(n)
             e == AfterOffset(ReadSymbol(d, s.symbol), s)
         IN /\ e \in Decoder /\ e.expects = "literal_length"
            /\ e.items = Append(d.items, <<d.length, n>>)
<1> DEFINE s == FromDistance(n)
           x == s.symbol
           b == s.bits
           w == s.num_bits
           d1 == ReadSymbol(d, x)
           e == AfterOffset(d1, s)
<1>1. /\ x \in 0 .. 29 /\ b \in Nat /\ w \in 0 .. 13
      /\ w = DistanceOffsetBits(x) /\ b < 2 ^ w
  BY FromDistanceReads
<1>l. DistanceOf(x, b) = n
  BY FromDistanceReads
<1>2. b % 2 ^ w = b /\ (w = 0 => b = 0)
  BY <1>1, OffsetKept
<1>3. x \in Int
  BY <1>1
<1>n. n \in Nat
  BY DEF Distance
<1>i. /\ <<d.length, n>> \in Item /\ d.items \in Seq(Item)
      /\ d.length \in Nat
  <2>1. d.length \in Nat /\ d.items \in Seq(Item)
    BY Zenon DEF Decoder
  <2> QED  BY <1>n, <2>1 DEF Item
<1> DEFINE more == Append(d.items, <<d.length, n>>)
<1>m. more \in Seq(Item)
  BY <1>i
<1> HIDE DEF x, b, w, more
<1>4. d1 = IF DistanceOffsetBits(x) = 0 THEN WithDistance(d, DistanceOf(x, 0))
           ELSE [d EXCEPT !.symbol = x, !.expects = "distance offset"]
  <2>1. d.expects # "literal_length" /\ x \in 0 .. 29
    BY <1>1
  <2> QED  BY <2>1, Zenon DEF ReadSymbol
<1>x. "literal_length" \in Expected /\ "distance offset" \in Expected
  BY DEF Expected
<1>5. CASE w = 0
  <2>1. d1 = WithDistance(d, n)
    BY <1>1, <1>2, <1>4, <1>5, <1>l, Zenon
  <2>2. e = d1
    BY <1>5, Zenon DEF AfterOffset, w
  <2>3. e = [d EXCEPT !.items = more, !.expects = "literal_length"]
    BY <2>1, <2>2, Zenon DEF WithDistance, more
  <2> HIDE DEF e
  <2>5. e \in Decoder /\ e.expects = "literal_length" /\ e.items = more
    BY <1>m, <1>x, <2>3, Zenon DEF Decoder
  <2> QED  BY <2>5, Zenon DEF e, d1, x, s, more
<1>6. CASE w # 0
  <2>1. d1 = [d EXCEPT !.symbol = x, !.expects = "distance offset"]
    BY <1>1, <1>4, <1>6, Zenon
  <2>3. /\ d1 \in Decoder /\ d1.symbol = x /\ d1.expects = "distance offset"
        /\ d1.items = d.items /\ d1.length = d.length
    <3> HIDE DEF d1
    <3> QED  BY <1>3, <1>x, <2>1, Zenon DEF Decoder
  <2>4. e = ReadOffset(d1, b, w)
    BY <1>2, <1>6, Zenon DEF AfterOffset, b, w
  <2> HIDE DEF d1, e
  <2>5. ReadOffset(d1, b, w) = WithDistance(d1, DistanceOf(x, b))
    <3>1. d1.expects # "length offset"
      BY <2>3, Zenon
    <3> QED  BY <1>1, <2>3, <3>1, Zenon DEF ReadOffset
  <2>6. e = [d1 EXCEPT !.items = more, !.expects = "literal_length"]
    BY <1>l, <2>3, <2>4, <2>5, Zenon DEF WithDistance, more
  <2>7. e \in Decoder /\ e.expects = "literal_length" /\ e.items = more
    BY <1>m, <1>x, <2>3, <2>6, Zenon DEF Decoder
  <2> QED  BY <2>7, Zenon DEF e, d1, x, s, more
<1> QED
  BY <1>5, <1>6

-----------------------------------------------------------------------------
(***************************************************************************)
(* What the decoder makes of what is pushed, for both block types.         *)
(***************************************************************************)
\* The offset of a symbol, as both blocks push it.
OffsetOf(s) ==
  IF s.num_bits = 0 THEN <<>>
  ELSE << <<"offset", s.bits % 2 ^ s.num_bits, s.num_bits>> >>

\* What the decoder has read of pushed are these matches, and a literal or a
\* length comes next.
HasRead(kind, pushed, ms) ==
  LET d == Read(kind, pushed)
  IN d \in Decoder /\ d.expects = "literal_length" /\ Splits(d.items, ms)

IsCode(c) == c[1] = "code"

\* Nothing that is pushed is read as no match.
LEMMA HasReadNothing ==
  ASSUME NEW kind
  PROVE  HasRead(kind, <<>>, <<>>)
BY ReadNothing, StartIs, SplitsNothing, Zenon DEF HasRead

\* A code that is pushed is read as its symbol.
LEMMA ReadCode ==
  ASSUME NEW kind, NEW P, NEW s \in Seq(P), NEW c \in P, IsCode(c)
  PROVE  /\ Append(s, c) \in Seq(P)
         /\ Read(kind, Append(s, c)) =
              ReadSymbol(Read(kind, s), SymbolOf(kind, Read(kind, s).expects, c))
<1>1. Append(s, c) \in Seq(P)
  OBVIOUS
<1>2. Read(kind, Append(s, c)) = ReadOne(kind, Read(kind, s), c)
  BY ReadAppend
<1>3. c[1] # "offset"
  BY DEF IsCode
<1> QED
  BY <1>1, <1>2, <1>3, Zenon DEF ReadOne

\* The offset that is pushed is read behind its symbol, or is not there.
LEMMA ReadOffsetOf ==
  ASSUME NEW kind, NEW P, NEW s \in Seq(P), NEW x, \A o \in Range(OffsetOf(x)) : o \in P
  PROVE  /\ OffsetOf(x) \in Seq(P) /\ s \o OffsetOf(x) \in Seq(P)
         /\ Read(kind, s \o OffsetOf(x)) = AfterOffset(Read(kind, s), x)
<1>1. CASE x.num_bits = 0
  <2>1. OffsetOf(x) = <<>>
    BY <1>1 DEF OffsetOf
  <2>2. <<>> \in Seq(P) /\ s \o <<>> = s
    OBVIOUS
  <2>3. AfterOffset(Read(kind, s), x) = Read(kind, s)
    BY <1>1, Zenon DEF AfterOffset
  <2> QED  BY <2>1, <2>2, <2>3, Zenon
<1>2. CASE x.num_bits # 0
  <2> DEFINE b == x.bits % 2 ^ x.num_bits
             w == x.num_bits
             o == <<"offset", b, w>>
  <2>1. OffsetOf(x) = <<o>>
    BY <1>2, Zenon DEF OffsetOf
  <2>o. o[1] = "offset" /\ o[2] = b /\ o[3] = w
    <3> HIDE DEF b, w
    <3> QED  OBVIOUS
  <2> HIDE DEF o, b
  <2>2. o \in P
    <3>1. o \in Range(<<o>>)
      BY DEF Range
    <3> QED  BY <2>1, <3>1, Zenon
  <2>3. <<o>> \in Seq(P) /\ s \o <<o>> = Append(s, o) /\ Append(s, o) \in Seq(P)
    BY <2>2
  <2>4. Read(kind, Append(s, o)) = ReadOne(kind, Read(kind, s), o)
    BY <2>2, ReadAppend
  <2>5. ReadOne(kind, Read(kind, s), o) = ReadOffset(Read(kind, s), b, w)
    BY <2>o, Zenon DEF ReadOne
  <2>6. AfterOffset(Read(kind, s), x) = ReadOffset(Read(kind, s), b, w)
    BY <1>2, Zenon DEF AfterOffset, b, w
  <2> QED  BY <2>1, <2>3, <2>4, <2>5, <2>6, Zenon
<1> QED
  BY <1>1, <1>2

\* A literal that is pushed is read as a step of the block.
LEMMA HasReadLiteral ==
  ASSUME NEW kind, NEW P, NEW s \in Seq(P), NEW ms \in Seq(MatchTaken),
         HasRead(kind, s, ms),
         NEW m \in MatchTaken, Len(m.literals) = 1,
         NEW c \in P, IsCode(c), SymbolOf(kind, "literal_length", c) = m.literals[1]
  PROVE  HasRead(kind, Append(s, c), Append(ms, m))
<1> DEFINE d == Read(kind, s)
           x == m.literals[1]
           e == Read(kind, Append(s, c))
<1>1. d \in Decoder /\ d.expects = "literal_length" /\ Splits(d.items, ms)
  BY DEF HasRead
<1>2. x \in 0 .. 255
  <2>1. m.literals \in Seq(0 .. 255) /\ 1 \in 1 .. Len(m.literals)
    BY MatchTakenIs
  <2> QED  BY <2>1, ElementOfSeq
<1> HIDE DEF x
<1>3. e = ReadSymbol(d, x)
  <2>1. e = ReadSymbol(d, SymbolOf(kind, d.expects, c))
    BY ReadCode
  <2> HIDE DEF d, e
  <2> QED  BY <1>1, <2>1, Zenon DEF x
<1> HIDE DEF d, e
<1>4. /\ e \in Decoder /\ e.expects = "literal_length"
      /\ e.items = Append(d.items, <<x>>)
  BY <1>1, <1>2, <1>3, ReadsLiteral, Zenon
<1>5. d.items \in Seq(Item) /\ e.items \in Seq(Item)
  BY <1>1, <1>4, Zenon DEF Decoder
<1> DEFINE old == d.items
           new == e.items
<1> HIDE DEF old, new
<1>6. /\ Len(new) = Len(old) + 1 /\ new[Len(old) + 1] = <<x>>
      /\ \A j \in 1 .. Len(old) : new[j] = old[j]
  <2>1. old \in Seq(Item) /\ new = Append(old, <<x>>)
    BY <1>4, <1>5 DEF old, new
  <2> QED  BY <2>1
<1>7. Between(new, Len(old), Len(new), m)
  <2>1. \A j \in 1 .. Len(m.literals) : j = 1
    OBVIOUS
  <2> QED  BY <1>6, <2>1, Zenon DEF Between, x
<1>8. Splits(new, Append(ms, m))
  <2>1. \A k \in 1 .. Len(ms) : Readable(ms[k])
    BY MatchTakenReadable
  <2>2. Readable(m)
    <3>1. <<m>> \in Seq(MatchTaken) /\ Len(<<m>>) = 1 /\ <<m>>[1] = m /\ 1 \in 1 .. 1
      OBVIOUS
    <3> QED  BY <3>1, MatchTakenReadable, Zenon
  <2>3. old \in Seq(Item) /\ new \in Seq(Item) /\ Splits(old, ms)
    BY <1>1, <1>5 DEF old, new
  <2>4. Len(new) >= Len(old)
    BY <1>6, <2>3
  <2> QED  BY <1>6, <1>7, <2>1, <2>2, <2>3, <2>4, SplitsMore
<1> QED
  BY <1>4, <1>8, Zenon DEF HasRead, new, e

\* What is pushed for a match, with these codes of its length and distance.
ReferenceWith(c1, s1, c2, s2) ==
  <<c1>> \o OffsetOf(s1) \o <<c2>> \o OffsetOf(s2)

\* A match that is pushed is read as a step of the block.
LEMMA HasReadReference ==
  ASSUME NEW kind, NEW P, NEW s \in Seq(P), NEW ms \in Seq(MatchTaken),
         HasRead(kind, s, ms),
         NEW m \in MatchTaken, Len(m.literals) >= 3,
         NEW s1, s1 = FromLength(Len(m.literals)),
         NEW s2, s2 = FromDistance(m.distance),
         \A o \in Range(OffsetOf(s1)) : o \in P, \A o \in Range(OffsetOf(s2)) : o \in P,
         NEW c1 \in P, IsCode(c1), SymbolOf(kind, "literal_length", c1) = s1.symbol,
         NEW c2 \in P, IsCode(c2), SymbolOf(kind, "distance", c2) = s2.symbol
  PROVE  /\ ReferenceWith(c1, s1, c2, s2) \in Seq(P)
         /\ HasRead(kind, s \o ReferenceWith(c1, s1, c2, s2), Append(ms, m))
<1> DEFINE n == Len(m.literals)
           t1 == Append(s, c1)
           t2 == t1 \o OffsetOf(s1)
           t3 == Append(t2, c2)
           t4 == t3 \o OffsetOf(s2)
           d == Read(kind, s)
<1>1. d \in Decoder /\ d.expects = "literal_length" /\ Splits(d.items, ms)
  BY DEF HasRead
<1>2. n \in 3 .. 258 /\ m.distance \in Distance
  <2>1. n \in 1 .. 258 /\ m.distance \in Distance
    BY MatchTakenIs
  <2>2. n >= 3
    OBVIOUS
  <2> HIDE DEF n
  <2> QED  BY <2>1, <2>2
<1> HIDE DEF n
<1>3. t1 \in Seq(P) /\ Read(kind, t1) = ReadSymbol(d, s1.symbol)
  <2>1. /\ t1 \in Seq(P)
        /\ Read(kind, t1) = ReadSymbol(d, SymbolOf(kind, d.expects, c1))
    BY ReadCode
  <2> HIDE DEF d, t1
  <2> QED  BY <1>1, <2>1, Zenon
<1> HIDE DEF d, t1
<1>4. /\ OffsetOf(s1) \in Seq(P) /\ t2 \in Seq(P)
      /\ Read(kind, t2) = AfterOffset(Read(kind, t1), s1)
  BY <1>3, ReadOffsetOf
<1> HIDE DEF t2
<1> DEFINE d2 == Read(kind, t2)
<1>5. /\ d2 \in Decoder /\ d2.expects = "distance" /\ d2.length = n
      /\ d2.items = d.items
  <2>1. d2 = AfterOffset(ReadSymbol(d, FromLength(n).symbol), FromLength(n))
    BY <1>3, <1>4, Zenon DEF n
  <2> DEFINE r == AfterOffset(ReadSymbol(d, FromLength(n).symbol), FromLength(n))
  <2>2. /\ r \in Decoder /\ r.expects = "distance" /\ r.length = n
        /\ r.items = d.items
    BY <1>1, <1>2, ReadsLength
  <2> HIDE DEF d2
  <2> QED  BY <2>1, <2>2, Zenon
<1> HIDE DEF d2
<1>6. t3 \in Seq(P) /\ Read(kind, t3) = ReadSymbol(d2, s2.symbol)
  <2>1. /\ t3 \in Seq(P)
        /\ Read(kind, t3) = ReadSymbol(d2, SymbolOf(kind, d2.expects, c2))
    BY <1>4, ReadCode DEF d2
  <2> HIDE DEF t3
  <2> QED  BY <1>5, <2>1, Zenon
<1> HIDE DEF t3
<1>7. /\ OffsetOf(s2) \in Seq(P) /\ t4 \in Seq(P)
      /\ Read(kind, t4) = AfterOffset(Read(kind, t3), s2)
  BY <1>6, ReadOffsetOf
<1> HIDE DEF t4
<1> DEFINE e == Read(kind, t4)
<1>8. /\ e \in Decoder /\ e.expects = "literal_length"
      /\ e.items = Append(d.items, <<n, m.distance>>)
  <2>1. e = AfterOffset(ReadSymbol(d2, FromDistance(m.distance).symbol),
                        FromDistance(m.distance))
    BY <1>6, <1>7, Zenon
  <2> DEFINE r == AfterOffset(ReadSymbol(d2, FromDistance(m.distance).symbol),
                              FromDistance(m.distance))
  <2>2. /\ r \in Decoder /\ r.expects = "literal_length"
        /\ r.items = Append(d2.items, <<d2.length, m.distance>>)
    BY <1>2, <1>5, ReadsDistance
  <2> HIDE DEF e
  <2> QED  BY <1>5, <2>1, <2>2, Zenon
<1>9. t4 = s \o ReferenceWith(c1, s1, c2, s2) /\ ReferenceWith(c1, s1, c2, s2) \in Seq(P)
  <2> DEFINE o1 == OffsetOf(s1)
             o2 == OffsetOf(s2)
             u1 == <<c1>>
             u2 == u1 \o o1
             u3 == u2 \o <<c2>>
             u4 == u3 \o o2
  <2>1. o1 \in Seq(P) /\ o2 \in Seq(P) /\ u1 \in Seq(P) /\ <<c2>> \in Seq(P)
    BY <1>4, <1>7
  <2> HIDE DEF o1, o2
  <2>2. u2 \in Seq(P)
    BY <2>1
  <2>3. u3 \in Seq(P)
    <3> HIDE DEF u2
    <3> QED  BY <2>1, <2>2
  <2>4. u4 \in Seq(P)
    <3> HIDE DEF u3
    <3> QED  BY <2>1, <2>3
  <2>5. t1 = s \o u1
    BY <2>1 DEF t1
  <2>6. t1 \o o1 = s \o u2
    <3> HIDE DEF u1
    <3>1. (s \o u1) \o o1 = s \o (u1 \o o1)
      BY <2>1, ConcatAssociative
    <3> QED  BY <2>5, <3>1, Zenon DEF u2
  <2>7. t3 = s \o u3
    <3>1. t3 = t2 \o <<c2>>
      BY <1>4, AppendIsConcat DEF t3
    <3>2. t2 = s \o u2
      BY <2>6, Zenon DEF o1, t2
    <3> HIDE DEF u2
    <3>3. (s \o u2) \o <<c2>> = s \o (u2 \o <<c2>>)
      BY <2>1, <2>2, ConcatAssociative
    <3> QED  BY <3>1, <3>2, <3>3, Zenon DEF u3
  <2>8. t4 = s \o u4
    <3>1. t4 = t3 \o o2
      BY Zenon DEF o2, t4
    <3> HIDE DEF u3
    <3>2. (s \o u3) \o o2 = s \o (u3 \o o2)
      BY <2>1, <2>3, ConcatAssociative
    <3> QED  BY <2>7, <3>1, <3>2, Zenon DEF u4
  <2>9. ReferenceWith(c1, s1, c2, s2) = u4
    BY Zenon DEF ReferenceWith, o1, o2
  <2> QED  BY <2>4, <2>8, <2>9, Zenon
<1> DEFINE x == <<n, m.distance>>
           old == d.items
           new == e.items
<1>10. old \in Seq(Item) /\ new \in Seq(Item) /\ new = Append(old, x)
  BY <1>1, <1>8, Zenon DEF Decoder
<1> HIDE DEF old, new, e, x
<1>11. /\ Len(new) = Len(old) + 1 /\ new[Len(old) + 1] = x
       /\ \A j \in 1 .. Len(old) : new[j] = old[j]
  BY <1>10
<1>12. Between(new, Len(old), Len(new), m)
  BY <1>11, Zenon DEF Between, x, n
<1>13. Splits(new, Append(ms, m))
  <2>1. \A k \in 1 .. Len(ms) : Readable(ms[k])
    BY MatchTakenReadable
  <2>2. Readable(m)
    <3>1. <<m>> \in Seq(MatchTaken) /\ Len(<<m>>) = 1 /\ <<m>>[1] = m /\ 1 \in 1 .. 1
      OBVIOUS
    <3> QED  BY <3>1, MatchTakenReadable, Zenon
  <2>3. Splits(old, ms)
    BY <1>1 DEF old
  <2>4. Len(new) >= Len(old)
    BY <1>10, <1>11
  <2> QED  BY <1>10, <1>11, <1>12, <2>1, <2>2, <2>3, <2>4, SplitsMore
<1>14. HasRead(kind, t4, Append(ms, m))
  BY <1>8, <1>13, Zenon DEF HasRead, new, e
<1> QED
  BY <1>9, <1>14, Zenon

-----------------------------------------------------------------------------
(***************************************************************************)
(* The fixed codes of block type 1.                                        *)
(***************************************************************************)
\* The operators of the library that the instances have of their own.
LEMMA SameSize ==
  ASSUME NEW S
  PROVE  /\ Fixed!Cardinality(S) = Cardinality(S)
         /\ Fixed!PrefixCodesOf!Cardinality(S) = Cardinality(S)
         /\ Dynamic!Cardinality(S) = Cardinality(S)
<1>1. Fixed!Cardinality(S) = Cardinality(S)
  BY Zenon DEF Fixed!Cardinality, Cardinality
<1>2. Fixed!PrefixCodesOf!Cardinality(S) = Cardinality(S)
  BY Zenon DEF Fixed!PrefixCodesOf!Cardinality, Cardinality
<1>3. Dynamic!Cardinality(S) = Cardinality(S)
  BY Zenon DEF Dynamic!Cardinality, Cardinality
<1> QED
  BY <1>1, <1>2, <1>3

\* The sums of the instances are the sums.
LEMMA SameSum ==
  ASSUME NEW f
  PROVE  Fixed!SumFunction(f) = SumFunction(f) /\ Dynamic!SumFunction(f) = SumFunction(f)
<1>1. Fixed!SumFunction(f) = SumFunction(f)
  BY Zenon DEF Fixed!SumFunction, SumFunction, Fixed!SumFunctionOnSet, SumFunctionOnSet,
               Fixed!FoldFunctionOnSet, FoldFunctionOnSet,
               Fixed!MapThenFoldSet, MapThenFoldSet
<1>2. Dynamic!SumFunction(f) = SumFunction(f)
  BY Zenon DEF Dynamic!SumFunction, SumFunction, Dynamic!SumFunctionOnSet, SumFunctionOnSet,
               Dynamic!FoldFunctionOnSet, FoldFunctionOnSet,
               Dynamic!MapThenFoldSet, MapThenFoldSet
<1> QED
  BY <1>1, <1>2

\* The size of an interval.
LEMMA IntervalSize ==
  ASSUME NEW a \in Int, NEW b \in Int, a <= b + 1
  PROVE  IsFiniteSet(a .. b) /\ Cardinality(a .. b) = b + 1 - a
<1>1. IsFiniteSet(a .. b) /\ Cardinality(a .. b) = IF a > b THEN 0 ELSE b - a + 1
  BY FS_Interval
<1>2. (IF a > b THEN 0 ELSE b - a + 1) = b + 1 - a
  OBVIOUS
<1> QED
  BY <1>1, <1>2

\* Two intervals with something between them.
TwoIntervals(a, b, c, d) == (a .. b) \cup (c .. d)

\* The size of two intervals.
LEMMA IntervalsSize ==
  ASSUME NEW a \in Int, NEW b \in Int, NEW c \in Int, NEW d \in Int,
         a <= b + 1, b < c, c <= d + 1
  PROVE  Cardinality(TwoIntervals(a, b, c, d)) = (b + 1 - a) + (d + 1 - c)
<1>1. /\ IsFiniteSet(a .. b) /\ Cardinality(a .. b) = b + 1 - a
      /\ IsFiniteSet(c .. d) /\ Cardinality(c .. d) = d + 1 - c
  BY IntervalSize
<1>2. (a .. b) \cap (c .. d) = {}
  OBVIOUS
<1>3. Cardinality((a .. b) \cup (c .. d)) =
        Cardinality(a .. b) + Cardinality(c .. d) - Cardinality((a .. b) \cap (c .. d))
  BY <1>1, FS_Union
<1>4. Cardinality((a .. b) \cap (c .. d)) = 0
  BY <1>2, FS_EmptySet
<1> QED
  BY <1>1, <1>3, <1>4 DEF TwoIntervals

\* The lengths of the fixed codes.
LEMMA FixedLengths ==
  /\ \A s \in 0 .. 143 : Fixed!FixedLength(s) = 8
  /\ \A s \in 144 .. 255 : Fixed!FixedLength(s) = 9
  /\ \A s \in 256 .. 279 : Fixed!FixedLength(s) = 7
  /\ \A s \in 280 .. 287 : Fixed!FixedLength(s) = 8
BY DEF Fixed!FixedLength

\* How many fixed codes have each length.
LEMMA FixedCounts ==
  /\ \A n \in 0 .. 6 : Fixed!PrefixCodesOf!CountByLength(n) = 0
  /\ Fixed!PrefixCodesOf!CountByLength(7) = 24
  /\ Fixed!PrefixCodesOf!CountByLength(8) = 152
<1> DEFINE L(s) == Fixed!FixedLength(s - 1)
           Of(n) == {s \in 1 .. 288 : L(s) = n}
<1>1. /\ \A s \in 1 .. 144 : L(s) = 8
      /\ \A s \in 145 .. 256 : L(s) = 9
      /\ \A s \in 257 .. 280 : L(s) = 7
      /\ \A s \in 281 .. 288 : L(s) = 8
  <2>1. /\ \A s \in 1 .. 144 : s - 1 \in 0 .. 143
        /\ \A s \in 145 .. 256 : s - 1 \in 144 .. 255
        /\ \A s \in 257 .. 280 : s - 1 \in 256 .. 279
        /\ \A s \in 281 .. 288 : s - 1 \in 280 .. 287
    OBVIOUS
  <2> QED  BY <2>1, FixedLengths
<1>2. \A n \in 0 .. 9 : n # 0 =>
        Fixed!PrefixCodesOf!CountByLength(n) = Cardinality(Of(n))
  <2> TAKE n \in 0 .. 9
  <2>1. \A s \in 1 .. 288 :
          [t \in 1 .. 288 |-> Fixed!FixedLength(t - 1)][s] = Fixed!FixedLength(s - 1)
    OBVIOUS
  <2> HAVE n # 0
  <2> DEFINE N == Fixed!num_literal_length_symbols
  <2>3. N = 288
    BY DEF Fixed!num_literal_length_symbols
  <2>4. Fixed!PrefixCodesOf!CountByLength(n) =
          Cardinality({s \in 1 .. N : [t \in 1 .. N |-> Fixed!FixedLength(t - 1)][s] = n})
    <3> DEFINE Those == {s \in 1 .. N : [t \in 1 .. N |-> Fixed!FixedLength(t - 1)][s] = n}
    <3>1. Fixed!PrefixCodesOf!CountByLength(n) = Fixed!PrefixCodesOf!Cardinality(Those)
      BY Zenon DEF Fixed!PrefixCodesOf!CountByLength, Fixed!PrefixCodesOf!Symbol
    <3> HIDE DEF Those
    <3>2. Fixed!PrefixCodesOf!Cardinality(Those) = Cardinality(Those)
      BY SameSize
    <3> QED  BY <3>1, <3>2 DEF Those
  <2> HIDE DEF N
  <2>5. {s \in 1 .. N : [t \in 1 .. N |-> Fixed!FixedLength(t - 1)][s] = n} = Of(n)
    BY <2>1, <2>3
  <2> QED  BY <2>4, <2>5, Zenon
<1> HIDE DEF L
<1>3. ASSUME NEW n \in 0 .. 6
      PROVE  Fixed!PrefixCodesOf!CountByLength(n) = 0
  <2>1. CASE n = 0
    BY <2>1 DEF Fixed!PrefixCodesOf!CountByLength
  <2>2. CASE n # 0
    <3>1. \A s \in 1 .. 288 : s \in 1 .. 144 \/ s \in 145 .. 256 \/ s \in 257 .. 280
                              \/ s \in 281 .. 288
      OBVIOUS
    <3>2. Of(n) = {}
      BY <1>1, <3>1
    <3>3. Cardinality(Of(n)) = 0
      BY <3>2, FS_EmptySet
    <3>4. n \in 0 .. 9
      OBVIOUS
    <3> QED  BY <1>2, <2>2, <3>3, <3>4
  <2> QED  BY <2>1, <2>2
<1>4. Fixed!PrefixCodesOf!CountByLength(7) = 24
  <2>1. Of(7) = 257 .. 280
    BY <1>1
  <2>2. Cardinality(257 .. 280) = 24
    <3>1. 257 \in Int /\ 280 \in Int /\ 257 <= 280 + 1
      OBVIOUS
    <3>2. Cardinality(257 .. 280) = 280 + 1 - 257
      BY <3>1, IntervalSize
    <3> QED  BY <3>2
  <2>3. 7 \in 0 .. 9
    OBVIOUS
  <2> HIDE DEF Of
  <2> QED  BY <1>2, <2>1, <2>2, <2>3
<1>5. Fixed!PrefixCodesOf!CountByLength(8) = 152
  <2>1. Of(8) = TwoIntervals(1, 144, 281, 288)
    BY <1>1 DEF TwoIntervals
  <2>2. Cardinality(TwoIntervals(1, 144, 281, 288)) = 152
    <3>1. /\ 1 \in Int /\ 144 \in Int /\ 281 \in Int /\ 288 \in Int
          /\ 1 <= 144 + 1 /\ 144 < 281 /\ 281 <= 288 + 1
      OBVIOUS
    <3>2. Cardinality(TwoIntervals(1, 144, 281, 288)) = (144 + 1 - 1) + (288 + 1 - 281)
      BY <3>1, IntervalsSize
    <3> QED  BY <3>2
  <2>3. 8 \in 0 .. 9
    OBVIOUS
  <2> HIDE DEF Of
  <2> QED  BY <1>2, <2>1, <2>2, <2>3
<1> QED
  BY <1>3, <1>4, <1>5

\* The first fixed code of each length is the one of RFC 1951, 3.2.6.
LEMMA FixedFirstCodes ==
  /\ Fixed!PrefixCodesOf!FirstCodeBits[7] = 0
  /\ Fixed!PrefixCodesOf!FirstCodeBits[8] = 48
  /\ Fixed!PrefixCodesOf!FirstCodeBits[9] = 400
<1> DEFINE Count(n) == Fixed!PrefixCodesOf!CountByLength(n)
           next(f) == [n \in 0 .. 9 |-> IF n = 0 THEN 0
                         ELSE (((f[n - 1] + Count(n - 1)) % (2 ^ 16)) * 2) % (2 ^ 16)]
           c == [n \in 0 .. 9 |-> IF n <= 7 THEN 0 ELSE IF n = 8 THEN 48 ELSE 400]
           g == CHOOSE f : f = next(f)
<1>1. \A n \in 0 .. 6 : Count(n) = 0
  BY FixedCounts
<1>2. Count(7) = 24 /\ Count(8) = 152
  BY FixedCounts
<1> HIDE DEF Count
<1>3. 2 ^ 16 = 65536
  OBVIOUS
<1>4. c = next(c)
  <2>1. ASSUME NEW n \in 0 .. 9
        PROVE  c[n] = next(c)[n]
    <3>1. CASE n = 0
      BY <3>1
    <3>2. CASE n \in 1 .. 7
      BY <1>1, <1>3, <3>2
    <3>3. CASE n = 8
      BY <1>2, <1>3, <3>3
    <3>4. CASE n = 9
      BY <1>2, <1>3, <3>4
    <3> QED  BY <3>1, <3>2, <3>3, <3>4
  <2> HIDE DEF c
  <2>2. c = [n \in 0 .. 9 |-> c[n]] /\ next(c) = [n \in 0 .. 9 |-> next(c)[n]]
    BY DEF c
  <2> QED  BY <2>1, <2>2
<1>5. g = next(g)
  <2> HIDE DEF next, c
  <2> QED  BY <1>4, Zenon
<1>6. Fixed!PrefixCodesOf!FirstCodeBits = g
  BY Zenon DEF Fixed!PrefixCodesOf!FirstCodeBits, Count
<1> HIDE DEF g
<1>7. /\ g[0] = 0
      /\ \A n \in 1 .. 9 : g[n] = (((g[n - 1] + Count(n - 1)) % 65536) * 2) % 65536
  <2>1. g = [n \in 0 .. 9 |-> IF n = 0 THEN 0
               ELSE (((g[n - 1] + Count(n - 1)) % 65536) * 2) % 65536]
    BY <1>3, <1>5
  <2> QED  BY <2>1
<1>8. \A n \in 1 .. 7 : g[n - 1] = 0 => g[n] = 0
  <2> TAKE n \in 1 .. 7
  <2> HAVE g[n - 1] = 0
  <2>1. n \in 1 .. 9 /\ n - 1 \in 0 .. 6 /\ Count(n - 1) = 0
    BY <1>1
  <2> QED  BY <1>7, <2>1
<1>9. g[7] = 0
  <2>1. g[1] = 0
    BY <1>7, <1>8, 1 \in 1 .. 7, 1 - 1 = 0
  <2>2. g[2] = 0
    BY <1>8, <2>1, 2 \in 1 .. 7, 2 - 1 = 1
  <2>3. g[3] = 0
    BY <1>8, <2>2, 3 \in 1 .. 7, 3 - 1 = 2
  <2>4. g[4] = 0
    BY <1>8, <2>3, 4 \in 1 .. 7, 4 - 1 = 3
  <2>5. g[5] = 0
    BY <1>8, <2>4, 5 \in 1 .. 7, 5 - 1 = 4
  <2>6. g[6] = 0
    BY <1>8, <2>5, 6 \in 1 .. 7, 6 - 1 = 5
  <2> QED
    BY <1>8, <2>6, 7 \in 1 .. 7, 7 - 1 = 6
<1>10. g[8] = 48
  BY <1>2, <1>7, <1>9, 8 \in 1 .. 9, 8 - 1 = 7
<1>11. g[9] = 400
  BY <1>2, <1>7, <1>10, 9 \in 1 .. 9, 9 - 1 = 8
<1> QED
  BY <1>6, <1>9, <1>10, <1>11

\* The decoder finds the symbol that was meant.
LEMMA FixedCodeReads ==
  ASSUME NEW s \in 0 .. 285
  PROVE  LET c == Fixed!Code(s)
         IN /\ c[1] = "code" /\ c[2] \in Nat /\ c[3] = Fixed!FixedLength(s)
            /\ FixedLiteralLength(c[2], c[3]) = s
<1> DEFINE L == Fixed!FixedLength(s)
           Before == {t \in 0 .. s - 1 : Fixed!FixedLength(t) = L}
           bits == Fixed!PrefixCodesOf!FirstCodeBits[L] + Cardinality(Before)
           c == Fixed!Code(s)
<1>1. c = <<"code", bits, L>>
  <2>1. s \in 0 .. Fixed!num_literal_length_symbols - 1
    BY DEF Fixed!num_literal_length_symbols
  <2>2. Fixed!literal_length_prefix_codes_[s] = [bits |-> bits, length |-> L]
    <3>1. Fixed!literal_length_prefix_codes_[s] =
            [bits |-> Fixed!PrefixCodesOf!FirstCodeBits[L] + Fixed!Cardinality(Before),
             length |-> L]
      BY <2>1, Zenon DEF Fixed!literal_length_prefix_codes_
    <3>2. Fixed!Cardinality(Before) = Cardinality(Before)
      BY SameSize
    <3> QED  BY <3>1, <3>2, Zenon
  <2> HIDE DEF bits, L
  <2> QED  BY <2>2 DEF Fixed!Code
<1>2. c[1] = "code" /\ c[2] = bits /\ c[3] = L
  <2> HIDE DEF bits, L
  <2> QED  BY <1>1
<1> SUFFICES bits \in Nat /\ FixedLiteralLength(bits, L) = s
  <2> HIDE DEF bits, L, c
  <2> QED  BY <1>2, Zenon DEF c, L
<1> DEFINE lengths(t) == Fixed!FixedLength(t)
<1>3. CASE s \in 0 .. 143
  <2>1. L = 8 /\ \A t \in 0 .. s - 1 : lengths(t) = 8
    BY <1>3, FixedLengths
  <2>2. Before = 0 .. s - 1
    BY <2>1
  <2>3. Cardinality(0 .. s - 1) = s
    BY IntervalSize
  <2>4. bits = 48 + s
    <3> HIDE DEF L, Before
    <3> QED  BY <2>1, <2>2, <2>3, FixedFirstCodes
  <2>5. FixedLiteralLength(48 + s, 8) = s
    BY <1>3 DEF FixedLiteralLength
  <2> HIDE DEF L, bits
  <2> QED  BY <1>3, <2>1, <2>4, <2>5
<1>4. CASE s \in 144 .. 255
  <2>1. /\ L = 9 /\ \A t \in 0 .. 143 : lengths(t) = 8
        /\ \A t \in 144 .. s - 1 : lengths(t) = 9
    BY <1>4, FixedLengths
  <2>2. Before = 144 .. s - 1
    BY <1>4, <2>1
  <2>3. Cardinality(144 .. s - 1) = s - 144
    BY <1>4, IntervalSize
  <2>4. bits = 400 + (s - 144)
    <3> HIDE DEF L, Before
    <3> QED  BY <2>1, <2>2, <2>3, FixedFirstCodes
  <2>5. FixedLiteralLength(400 + (s - 144), 9) = s
    BY <1>4 DEF FixedLiteralLength
  <2> HIDE DEF L, bits
  <2> QED  BY <1>4, <2>1, <2>4, <2>5
<1>5. CASE s \in 256 .. 279
  <2>1. /\ L = 7 /\ \A t \in 0 .. 143 : lengths(t) = 8
        /\ \A t \in 144 .. 255 : lengths(t) = 9
        /\ \A t \in 256 .. s - 1 : lengths(t) = 7
    BY <1>5, FixedLengths
  <2>2. Before = 256 .. s - 1
    BY <1>5, <2>1
  <2>3. Cardinality(256 .. s - 1) = s - 256
    BY <1>5, IntervalSize
  <2>4. bits = s - 256
    <3> HIDE DEF L, Before
    <3> QED  BY <1>5, <2>1, <2>2, <2>3, FixedFirstCodes
  <2>5. FixedLiteralLength(s - 256, 7) = s
    BY <1>5 DEF FixedLiteralLength
  <2> HIDE DEF L, bits
  <2> QED  BY <1>5, <2>1, <2>4, <2>5
<1>6. CASE s \in 280 .. 285
  <2>1. /\ L = 8 /\ \A t \in 0 .. 143 : lengths(t) = 8
        /\ \A t \in 144 .. 255 : lengths(t) = 9
        /\ \A t \in 256 .. 279 : lengths(t) = 7
        /\ \A t \in 280 .. s - 1 : lengths(t) = 8
    BY <1>6, FixedLengths
  <2>2. Before = TwoIntervals(0, 143, 280, s - 1)
    BY <1>6, <2>1 DEF TwoIntervals
  <2>3. Cardinality(TwoIntervals(0, 143, 280, s - 1)) = 144 + (s - 280)
    <3>1. /\ 0 \in Int /\ 143 \in Int /\ 280 \in Int /\ s - 1 \in Int
          /\ 0 <= 143 + 1 /\ 143 < 280 /\ 280 <= (s - 1) + 1
      BY <1>6
    <3>2. Cardinality(TwoIntervals(0, 143, 280, s - 1)) =
            (143 + 1 - 0) + ((s - 1) + 1 - 280)
      BY <3>1, IntervalsSize
    <3> QED  BY <3>1, <3>2
  <2>4. bits = 48 + 144 + (s - 280)
    <3> HIDE DEF L, Before
    <3> QED  BY <1>6, <2>1, <2>2, <2>3, FixedFirstCodes
  <2>5. FixedLiteralLength(48 + 144 + (s - 280), 8) = s
    BY <1>6 DEF FixedLiteralLength
  <2> HIDE DEF L, bits
  <2> QED  BY <1>6, <2>1, <2>4, <2>5
<1>7. s \in 0 .. 143 \/ s \in 144 .. 255 \/ s \in 256 .. 279 \/ s \in 280 .. 285
  OBVIOUS
<1> QED
  BY <1>3, <1>4, <1>5, <1>6, <1>7

-----------------------------------------------------------------------------
(***************************************************************************)
(* The bits of what is pushed.                                             *)
(***************************************************************************)
\* The sum of the weights of the elements of a sequence.
Total(w, s) == SumFunction([k \in DOMAIN s |-> w[s[k]]])

\* The weights of a sequence are a sequence of numbers.
LEMMA Weights ==
  ASSUME NEW P, NEW w \in [P -> Nat], NEW s \in Seq(P)
  PROVE  /\ Numbers([k \in DOMAIN s |-> w[s[k]]], Len(s))
         /\ Len(s) \in Nat /\ DOMAIN s = 1 .. Len(s)
         /\ \A k \in 1 .. Len(s) : [l \in DOMAIN s |-> w[s[l]]][k] = w[s[k]]
<1>1. Len(s) \in Nat /\ DOMAIN s = 1 .. Len(s)
  BY LenProperties
<1>2. \A k \in 1 .. Len(s) : s[k] \in P
  BY ElementOfSeq
<1>3. \A k \in 1 .. Len(s) : w[s[k]] \in Nat
  BY <1>2
<1> DEFINE f == [k \in DOMAIN s |-> w[s[k]]]
<1>4. f = [k \in 1 .. Len(s) |-> w[s[k]]]
  BY <1>1, Zenon
<1>5. f \in [1 .. Len(s) -> Nat] /\ \A k \in 1 .. Len(s) : f[k] = w[s[k]]
  <2> HIDE DEF f
  <2> QED  BY <1>3, <1>4, Zenon
<1> QED
  BY <1>1, <1>5, Zenon DEF Numbers

\* A total is a number.
LEMMA TotalNat ==
  ASSUME NEW P, NEW w \in [P -> Nat], NEW s \in Seq(P)
  PROVE  Total(w, s) \in Nat
<1> DEFINE f == [k \in DOMAIN s |-> w[s[k]]]
<1>1. Numbers(f, Len(s)) /\ Len(s) \in Nat
  BY Weights
<1> HIDE DEF f
<1>2. SumFunction(f) \in Nat
  BY <1>1, SumOfNumbers
<1> QED
  BY <1>2, Zenon DEF Total, f

\* The total of nothing.
LEMMA TotalNone ==
  ASSUME NEW w
  PROVE  Total(w, <<>>) = 0
<1> DEFINE f == [k \in DOMAIN <<>> |-> w[<<>>[k]]]
<1>1. DOMAIN <<>> = 1 .. 0
  OBVIOUS
<1>2. f \in [1 .. 0 -> Nat]
  BY <1>1
<1> HIDE DEF f
<1>3. SumFunction(f) = 0
  BY <1>2, SumNone DEF Numbers
<1> QED
  BY <1>3, Zenon DEF Total, f

\* The total of a sequence behind another.
LEMMA TotalBehind ==
  ASSUME NEW P, NEW w \in [P -> Nat], NEW s \in Seq(P), NEW t \in Seq(P)
  PROVE  s \o t \in Seq(P) /\ Total(w, s \o t) = Total(w, s) + Total(w, t)
<1> DEFINE u == s \o t
           f == [k \in DOMAIN s |-> w[s[k]]]
           h == [k \in DOMAIN t |-> w[t[k]]]
           g == [k \in DOMAIN u |-> w[u[k]]]
           m == Len(s)
           n == Len(t)
<1>1. /\ u \in Seq(P) /\ Len(u) = m + n /\ m \in Nat /\ n \in Nat
      /\ \A k \in 1 .. m : u[k] = s[k]
      /\ \A k \in 1 .. n : u[m + k] = t[k]
  OBVIOUS
<1> HIDE DEF u
<1>2. Numbers(f, m) /\ \A k \in 1 .. m : f[k] = w[s[k]]
  BY Weights, Zenon
<1>3. Numbers(h, n) /\ \A k \in 1 .. n : h[k] = w[t[k]]
  BY Weights, Zenon
<1>4. Numbers(g, Len(u)) /\ \A k \in 1 .. Len(u) : g[k] = w[u[k]]
  BY <1>1, Weights, Zenon
<1> HIDE DEF f, g, h, m, n
<1>5. Numbers(g, m + n) /\ \A k \in 1 .. m + n : g[k] = w[u[k]]
  BY <1>1, <1>4
<1>6. ASSUME NEW k \in 1 .. m
      PROVE  g[k] = f[k]
  <2>1. k \in 1 .. m + n
    BY <1>1
  <2>2. g[k] = w[u[k]]
    BY <1>5, <2>1, Zenon
  <2>3. f[k] = w[s[k]]
    BY <1>2, Zenon
  <2>4. u[k] = s[k]
    BY <1>1, Zenon
  <2> QED  BY <2>2, <2>3, <2>4, Zenon
<1>7. ASSUME NEW k \in 1 .. n
      PROVE  g[m + k] = h[k]
  <2>1. m + k \in 1 .. m + n
    BY <1>1
  <2>2. g[m + k] = w[u[m + k]]
    BY <1>5, <2>1, Zenon
  <2>3. h[k] = w[t[k]]
    BY <1>3, Zenon
  <2>4. u[m + k] = t[k]
    BY <1>1, Zenon
  <2> QED  BY <2>2, <2>3, <2>4, Zenon
<1>8. SumFunction(g) = SumFunction(f) + SumFunction(h)
  BY <1>1, <1>2, <1>3, <1>5, <1>6, <1>7, SumBehind
<1> QED
  BY <1>1, <1>8, Zenon DEF Total, f, g, h, u

\* The total of one element.
LEMMA TotalOne ==
  ASSUME NEW P, NEW w \in [P -> Nat], NEW p \in P
  PROVE  <<p>> \in Seq(P) /\ Total(w, <<p>>) = w[p]
<1> DEFINE s == <<p>>
           f == [k \in DOMAIN s |-> w[s[k]]]
           z == [k \in 1 .. 0 |-> 0]
<1>1. s \in Seq(P) /\ Len(s) = 1 /\ s[1] = p
  OBVIOUS
<1> HIDE DEF s
<1>2. Numbers(f, Len(s)) /\ \A k \in 1 .. Len(s) : f[k] = w[s[k]]
  BY <1>1, Weights, Zenon
<1>3. f[1] = w[p]
  <2>1. 1 \in 1 .. 1
    OBVIOUS
  <2> QED  BY <1>1, <1>2, <2>1, Zenon
<1> HIDE DEF f
<1>4. Numbers(z, 0) /\ \A k \in 1 .. 0 : f[k] = z[k]
  BY DEF Numbers
<1>5. SumFunction(z) = 0
  BY <1>4, SumNone
<1>6. Numbers(f, 0 + 1)
  BY <1>1, <1>2
<1> HIDE DEF z
<1>7. SumFunction(f) = SumFunction(z) + f[0 + 1]
  BY <1>4, <1>6, SumOneMore
<1>8. w[p] \in Nat
  OBVIOUS
<1>9. SumFunction(f) = w[p]
  BY <1>3, <1>5, <1>7, <1>8
<1> QED
  BY <1>1, <1>9, Zenon DEF Total, f, s

\* The total of a sequence with one element more.
LEMMA TotalAppend ==
  ASSUME NEW P, NEW w \in [P -> Nat], NEW s \in Seq(P), NEW p \in P
  PROVE  Append(s, p) \in Seq(P) /\ Total(w, Append(s, p)) = Total(w, s) + w[p]
<1>1. <<p>> \in Seq(P) /\ Total(w, <<p>>) = w[p]
  BY TotalOne
<1>2. Append(s, p) = s \o <<p>>
  BY AppendIsConcat
<1>3. s \o <<p>> \in Seq(P) /\ Total(w, s \o <<p>>) = Total(w, s) + Total(w, <<p>>)
  BY <1>1, TotalBehind
<1> QED
  BY <1>1, <1>2, <1>3, Zenon

\* The weight of what is pushed for a match.
LEMMA TotalReference ==
  ASSUME NEW P, NEW w \in [P -> Nat], NEW c1 \in P, NEW c2 \in P, NEW s1, NEW s2,
         s1.num_bits \in Nat, s2.num_bits \in Nat,
         \A o \in Range(OffsetOf(s1)) : o \in P /\ w[o] = s1.num_bits,
         \A o \in Range(OffsetOf(s2)) : o \in P /\ w[o] = s2.num_bits
  PROVE  /\ ReferenceWith(c1, s1, c2, s2) \in Seq(P)
         /\ Total(w, ReferenceWith(c1, s1, c2, s2)) =
              w[c1] + s1.num_bits + w[c2] + s2.num_bits
<1>1. ASSUME NEW s, s.num_bits \in Nat,
             \A o \in Range(OffsetOf(s)) : o \in P /\ w[o] = s.num_bits
      PROVE  OffsetOf(s) \in Seq(P) /\ Total(w, OffsetOf(s)) = s.num_bits
  <2>1. CASE s.num_bits = 0
    <3>1. OffsetOf(s) = <<>> /\ <<>> \in Seq(P)
      BY <2>1 DEF OffsetOf
    <3> QED  BY <2>1, <3>1, TotalNone, Zenon
  <2>2. CASE s.num_bits # 0
    <3> DEFINE o == <<"offset", s.bits % 2 ^ s.num_bits, s.num_bits>>
    <3>1. OffsetOf(s) = <<o>>
      BY <2>2, Zenon DEF OffsetOf
    <3> HIDE DEF o
    <3>2. o \in Range(<<o>>)
      BY DEF Range
    <3>3. o \in P /\ w[o] = s.num_bits
      BY <1>1, <3>1, <3>2, Zenon
    <3>4. <<o>> \in Seq(P) /\ Total(w, <<o>>) = w[o]
      BY <3>3, TotalOne
    <3> QED  BY <3>1, <3>3, <3>4, Zenon
  <2> QED  BY <2>1, <2>2
<1> DEFINE o1 == OffsetOf(s1)
           o2 == OffsetOf(s2)
           u1 == <<c1>>
           u2 == u1 \o o1
           v == <<c2>>
           u3 == u2 \o v
           u4 == u3 \o o2
<1>2. /\ o1 \in Seq(P) /\ Total(w, o1) = s1.num_bits
      /\ o2 \in Seq(P) /\ Total(w, o2) = s2.num_bits
  BY <1>1
<1>3. /\ u1 \in Seq(P) /\ Total(w, u1) = w[c1]
      /\ v \in Seq(P) /\ Total(w, v) = w[c2]
  BY TotalOne
<1> HIDE DEF o1, o2, u1, v
<1>4. u2 \in Seq(P) /\ Total(w, u2) = Total(w, u1) + Total(w, o1)
  <2>1. w \in [P -> Nat] /\ u1 \in Seq(P) /\ o1 \in Seq(P)
    BY <1>2, <1>3
  <2> QED  BY <2>1, TotalBehind, Zenon
<1> HIDE DEF u2
<1>5. u3 \in Seq(P) /\ Total(w, u3) = Total(w, u2) + Total(w, v)
  <2>1. w \in [P -> Nat] /\ u2 \in Seq(P) /\ v \in Seq(P)
    BY <1>3, <1>4
  <2> QED  BY <2>1, TotalBehind, Zenon
<1> HIDE DEF u3
<1>6. u4 \in Seq(P) /\ Total(w, u4) = Total(w, u3) + Total(w, o2)
  <2>1. w \in [P -> Nat] /\ u3 \in Seq(P) /\ o2 \in Seq(P)
    BY <1>2, <1>5
  <2> QED  BY <2>1, TotalBehind, Zenon
<1> HIDE DEF u4
<1>7. ReferenceWith(c1, s1, c2, s2) = u4
  BY Zenon DEF ReferenceWith, o1, o2, u1, u2, u3, u4, v
<1>8. w[c1] \in Nat /\ w[c2] \in Nat
  OBVIOUS
<1>9. Total(w, u4) = w[c1] + s1.num_bits + w[c2] + s2.num_bits
  BY <1>2, <1>3, <1>4, <1>5, <1>6, <1>8
<1> QED
  BY <1>6, <1>7, <1>9, Zenon

-----------------------------------------------------------------------------
(***************************************************************************)
(* Block type 1: what it holds back, and its invariant.                    *)
(***************************************************************************)
\* The tables of block type 1 are the tables.
LEMMA FixedTables ==
  /\ \A n : Fixed!FromLength(n) = FromLength(n)
  /\ \A n : Fixed!FromDistance(n) = FromDistance(n)
<1>1. \A n : Fixed!FromLength(n) = FromLength(n)
  BY DEF Fixed!FromLength, FromLength, Fixed!SymbolWithOffset, SymbolWithOffset,
         Fixed!length_ranges, length_ranges, Fixed!first_length_symbol,
         first_length_symbol, Fixed!Max, Max
<1>2. \A n : Fixed!FromDistance(n) = FromDistance(n)
  BY DEF Fixed!FromDistance, FromDistance, Fixed!SymbolWithOffset, SymbolWithOffset,
         Fixed!distance_ranges, distance_ranges, Fixed!first_distance_symbol,
         first_distance_symbol, Fixed!Max, Max
<1> QED
  BY <1>1, <1>2

\* What block type 1 pushes, and the bits of each.
FixedThing == {"code", "offset"} \X Nat \X Nat

third == [p \in FixedThing |-> p[3]]

\* What block type 1 pushes has its bits in the third place.
LEMMA FixedThings ==
  ASSUME NEW kind \in {"code", "offset"}, NEW x \in Nat, NEW y \in Nat
  PROVE  <<kind, x, y>> \in FixedThing /\ third[<<kind, x, y>>] = y
<1>1. <<kind, x, y>> \in FixedThing
  BY DEF FixedThing
<1> DEFINE p == <<kind, x, y>>
<1>2. p[3] = y
  OBVIOUS
<1> HIDE DEF p
<1>3. p \in FixedThing
  BY <1>1 DEF p
<1>4. third[p] = p[3]
  BY <1>3, Zenon DEF third
<1> QED
  BY <1>2, <1>3, <1>4 DEF p

\* The bits of what is pushed are numbers.
LEMMA ThirdWeight == third \in [FixedThing -> Nat]
BY DEF third, FixedThing

\* The length of a fixed code is a number.
LEMMA FixedLengthNat ==
  ASSUME NEW s \in 0 .. 287
  PROVE  Fixed!FixedLength(s) \in Nat
<1>1. \/ s \in 0 .. 143 \/ s \in 144 .. 255 \/ s \in 256 .. 279 \/ s \in 280 .. 287
  OBVIOUS
<1> QED
  BY <1>1, FixedLengths

\* A fixed code is pushed with its length, and read as its symbol.
LEMMA FixedCodeThing ==
  ASSUME NEW s \in 0 .. 285
  PROVE  /\ Fixed!Code(s) \in FixedThing /\ IsCode(Fixed!Code(s))
         /\ third[Fixed!Code(s)] = Fixed!FixedLength(s)
         /\ Fixed!FixedLength(s) \in Nat
         /\ SymbolOf(1, "literal_length", Fixed!Code(s)) = s
<1> DEFINE c == Fixed!Code(s)
<1>1. /\ c[1] = "code" /\ c[2] \in Nat /\ c[3] = Fixed!FixedLength(s)
      /\ FixedLiteralLength(c[2], c[3]) = s
  BY FixedCodeReads
<1>2. Fixed!FixedLength(s) \in Nat
  BY FixedLengthNat
<1>3. c = <<"code", c[2], c[3]>>
  BY <1>1 DEF Fixed!Code
<1>4. c \in FixedThing /\ third[c] = c[3]
  <2> HIDE DEF c
  <2>1. \A x, y \in Nat : <<"code", x, y>> \in FixedThing
    BY FixedThings, Zenon
  <2>2. c[2] \in Nat /\ c[3] \in Nat
    BY <1>1, <1>2
  <2>3. <<"code", c[2], c[3]>> \in FixedThing
    BY <2>1, <2>2
  <2>4. c \in FixedThing
    BY <1>3, <2>3, Zenon
  <2> QED  BY <2>4, Zenon DEF third
<1>5. SymbolOf(1, "literal_length", c) = FixedLiteralLength(c[2], c[3])
  <2> HIDE DEF c
  <2> QED  BY DEF SymbolOf
<1> HIDE DEF c
<1>6. c \in FixedThing /\ IsCode(c) /\ third[c] = Fixed!FixedLength(s)
      /\ SymbolOf(1, "literal_length", c) = s
  BY <1>1, <1>4, <1>5, Zenon DEF IsCode
<1> QED
  BY <1>2, <1>6 DEF c

\* The offset of a length or of a distance.
LEMMA OffsetThing ==
  ASSUME NEW s, s.bits \in Nat, s.num_bits \in 0 .. 13
  PROVE  \A o \in Range(OffsetOf(s)) : o \in FixedThing /\ third[o] = s.num_bits
<1>1. CASE s.num_bits = 0
  <2>1. Range(<<>>) = {}
    BY DEF Range
  <2> QED  BY <1>1, <2>1 DEF OffsetOf
<1>2. CASE s.num_bits # 0
  <2> DEFINE b == s.bits % 2 ^ s.num_bits
             w == s.num_bits
             o == <<"offset", b, w>>
  <2>1. OffsetOf(s) = <<o>>
    BY <1>2, Zenon DEF OffsetOf
  <2>2. b \in Nat /\ w \in Nat
    <3> DEFINE p == 2 ^ s.num_bits
    <3>1. s.num_bits \in Nat
      OBVIOUS
    <3>2. p \in Nat \ {0}
      BY <3>1, PowerSuccessor
    <3> HIDE DEF p
    <3>3. s.bits % p \in Nat
      BY <3>2
    <3> QED  BY <3>1, <3>3 DEF p
  <2> HIDE DEF b, w
  <2>3. o \in FixedThing /\ third[o] = w
    BY <2>2, FixedThings
  <2> HIDE DEF o
  <2>4. Range(<<o>>) = {o}
    BY DEF Range
  <2> QED  BY <2>1, <2>3, <2>4, Zenon DEF w
<1> QED
  BY <1>1, <1>2

\* What is pushed for a match, and its bits.
LEMMA FixedPushes ==
  ASSUME NEW m \in MatchTaken, Len(m.literals) >= 3
  PROVE  LET s1 == FromLength(Len(m.literals))
             s2 == FromDistance(m.distance)
         IN /\ Fixed!PushedBackReference(m) =
                 ReferenceWith(Fixed!Code(s1.symbol), s1,
                               <<"code", s2.symbol, 5>>, s2)
            /\ Fixed!BackReferenceBits(m) =
                 Fixed!FixedLength(s1.symbol) + s1.num_bits + 5 + s2.num_bits
<1>1. \A s : Fixed!Offset(s) = OffsetOf(s)
  BY Zenon DEF Fixed!Offset, OffsetOf
<1>2. Fixed!distance_prefix_code_length = 5
  BY DEF Fixed!distance_prefix_code_length
<1> QED
  BY <1>1, <1>2, FixedTables, Zenon
     DEF Fixed!PushedBackReference, Fixed!BackReferenceBits, ReferenceWith

\* The bits of the literals of a match.
litbits == [m \in MatchTaken |-> Fixed!LiteralBits(m)]

\* The bits of the literals of a match are a number.
LEMMA LiteralWeight == litbits \in [MatchTaken -> Nat]
<1> SUFFICES ASSUME NEW m \in MatchTaken
             PROVE  Fixed!LiteralBits(m) \in Nat
  BY DEF litbits
<1> DEFINE l == m.literals
           f == [k \in DOMAIN l |-> Fixed!FixedLength(l[k])]
<1>1. l \in Seq(0 .. 255)
  BY MatchTakenIs
<1>2. Len(l) \in Nat /\ DOMAIN l = 1 .. Len(l)
  BY <1>1, LenProperties
<1>3. \A k \in 1 .. Len(l) : Fixed!FixedLength(l[k]) \in Nat
  <2>1. \A k \in 1 .. Len(l) : l[k] \in 0 .. 255
    BY <1>1, ElementOfSeq
  <2>2. \A x \in 0 .. 255 : x \in 0 .. 287
    OBVIOUS
  <2>3. \A x \in 0 .. 287 : Fixed!FixedLength(x) \in Nat
    BY FixedLengthNat
  <2> DEFINE fixed(x) == Fixed!FixedLength(x)
  <2> HIDE DEF l, fixed
  <2>4. \A x \in 0 .. 255 : fixed(x) \in Nat
    BY <2>2, <2>3 DEF fixed
  <2>5. \A k \in 1 .. Len(l) : fixed(l[k]) \in Nat
    BY <2>1, <2>4
  <2> QED  BY <2>5 DEF fixed
<1>4. Numbers(f, Len(l))
  <2>1. f = [k \in 1 .. Len(l) |-> Fixed!FixedLength(l[k])]
    BY <1>2, Zenon
  <2> HIDE DEF f
  <2> QED  BY <1>3, <2>1, Zenon DEF Numbers
<1>5. Fixed!LiteralBits(m) = Fixed!SumFunction(f)
  BY Zenon DEF Fixed!LiteralBits
<1> HIDE DEF f
<1>6. Fixed!SumFunction(f) = SumFunction(f)
  BY SameSum
<1>7. SumFunction(f) \in Nat
  BY <1>2, <1>4, SumOfNumbers
<1> QED
  BY <1>5, <1>6, <1>7, Zenon

\* The bits of a single literal.
LEMMA LiteralOfOne ==
  ASSUME NEW m \in MatchTaken, Len(m.literals) = 1
  PROVE  litbits[m] = Fixed!FixedLength(m.literals[1])
<1> DEFINE l == m.literals
           f == [k \in DOMAIN l |-> Fixed!FixedLength(l[k])]
           z == [k \in 1 .. 0 |-> 0]
<1>1. l \in Seq(0 .. 255)
  BY MatchTakenIs
<1>2. DOMAIN l = 1 .. 1 /\ l[1] \in 0 .. 255
  <2>1. DOMAIN l = 1 .. Len(l)
    BY <1>1, LenProperties
  <2>2. 1 \in 1 .. Len(l)
    OBVIOUS
  <2> QED  BY <1>1, <2>1, <2>2, ElementOfSeq
<1>3. Fixed!FixedLength(l[1]) \in Nat
  <2>1. \A x \in 0 .. 255 : x \in 0 .. 287
    OBVIOUS
  <2> QED  BY <1>2, <2>1, FixedLengthNat
<1>4. f = [k \in 1 .. 1 |-> Fixed!FixedLength(l[k])]
  BY <1>2, Zenon
<1>5. f \in [1 .. 1 -> Nat] /\ f[1] = Fixed!FixedLength(l[1])
  <2>1. \A k \in 1 .. 1 : k = 1
    OBVIOUS
  <2>2. 1 \in 1 .. 1
    OBVIOUS
  <2> HIDE DEF f, l
  <2> QED  BY <1>3, <1>4, <2>1, <2>2, Zenon
<1>6. Fixed!LiteralBits(m) = Fixed!SumFunction(f)
  BY Zenon DEF Fixed!LiteralBits
<1> HIDE DEF f
<1>7. Fixed!SumFunction(f) = SumFunction(f)
  BY SameSum
<1>8. Numbers(z, 0) /\ \A k \in 1 .. 0 : f[k] = z[k]
  BY DEF Numbers
<1>9. SumFunction(z) = 0
  BY <1>8, SumNone
<1>10. Numbers(f, 0 + 1)
  BY <1>5 DEF Numbers
<1> HIDE DEF z, l
<1>11. SumFunction(f) = SumFunction(z) + f[0 + 1]
  BY <1>8, <1>10, SumOneMore
<1>12. SumFunction(f) = Fixed!FixedLength(l[1])
  BY <1>3, <1>5, <1>9, <1>11
<1>13. litbits[m] = Fixed!LiteralBits(m)
  BY Zenon DEF litbits
<1> QED
  BY <1>6, <1>7, <1>12, <1>13, Zenon DEF l

\* A step with only the first literal of a match is a match that is taken.
LEMMA AsLiteralTaken ==
  ASSUME NEW m \in MatchTaken
  PROVE  /\ Fixed!AsLiteral(m) \in MatchTaken /\ Dynamic!AsLiteral(m) \in MatchTaken
         /\ Fixed!AsLiteral(m).literals = <<m.literals[1]>>
         /\ Dynamic!AsLiteral(m).literals = <<m.literals[1]>>
         /\ m.literals[1] \in 0 .. 255 /\ Head(m.literals) = m.literals[1]
<1> DEFINE x == m.literals[1]
           a == [literals |-> <<x>>, distance |-> 0]
<1>1. m.literals \in Seq(0 .. 255) /\ Len(m.literals) \in 1 .. 258
  BY MatchTakenIs
<1>2. x \in 0 .. 255
  <2> DEFINE n == Len(m.literals)
  <2>0. n \in 1 .. 258
    BY <1>1
  <2> HIDE DEF n
  <2>1. 1 \in 1 .. n
    BY <2>0
  <2> QED  BY <1>1, <2>1, ElementOfSeq DEF n
<1>3. Head(m.literals) = x
  BY <1>1
<1> HIDE DEF x
<1>4. a \in MatchTaken
  <2>0. 2 ^ 15 \in Nat
    OBVIOUS
  <2>1. a \in [literals : Seq(0 .. 255), distance : 0 .. maximum_look_back_size]
    BY <1>2, <2>0 DEF maximum_look_back_size
  <2>2. a.literals = <<x>> /\ Len(a.literals) = 1
    OBVIOUS
  <2> HIDE DEF a
  <2>3. /\ Len(a.literals) \in 1 .. maximum_look_ahead_size
        /\ ~ (Len(a.literals) >= minimum_back_reference_length)
    BY <2>2 DEF maximum_look_ahead_size, minimum_back_reference_length
  <2> QED  BY <2>1, <2>3, Zenon DEF MatchTaken, IsMatch
<1>5. Fixed!AsLiteral(m) = a /\ Dynamic!AsLiteral(m) = a
  BY <1>3 DEF Fixed!AsLiteral, Dynamic!AsLiteral
<1>6. a.literals = <<x>>
  OBVIOUS
<1> QED
  BY <1>2, <1>3, <1>4, <1>5, <1>6, Zenon DEF x

\* What is held back of block type 1 is read as what the block took, and has
\* no more bits than its bytes have as literals.
FixedKept(b, t) ==
  /\ b \in Seq(FixedThing)
  /\ t \in Seq(MatchTaken)
  /\ HasRead(1, b, t)
  /\ Total(third, b) <= Total(litbits, t)

\* Nothing is held back at first.
LEMMA FixedKeptNothing == FixedKept(<<>>, <<>>)
<1>1. Total(third, <<>>) = 0 /\ Total(litbits, <<>>) = 0
  BY TotalNone
<1>2. <<>> \in Seq(FixedThing) /\ <<>> \in Seq(MatchTaken)
  OBVIOUS
<1> QED
  BY <1>1, <1>2, HasReadNothing DEF FixedKept

\* A match is taken only if its literals are not shorter, and is read as
\* itself.
LEMMA FixedTakesReference ==
  ASSUME NEW b, NEW t, FixedKept(b, t), NEW m \in MatchTaken, Fixed!TakesReference(m)
  PROVE  FixedKept(b \o Fixed!PushedBackReference(m), Append(t, m))
<1> DEFINE s1 == FromLength(Len(m.literals))
           s2 == FromDistance(m.distance)
           c1 == Fixed!Code(s1.symbol)
           c2 == <<"code", s2.symbol, 5>>
           r == ReferenceWith(c1, s1, c2, s2)
<1>1. Len(m.literals) >= 3 /\ Fixed!LiteralBits(m) >= Fixed!BackReferenceBits(m)
  BY DEF Fixed!TakesReference, Fixed!IsReference, Fixed!minimum_back_reference_length
<1>2. /\ Len(m.literals) \in 3 .. 258 /\ m.distance \in Distance
  <2> DEFINE n == Len(m.literals)
  <2>1. n \in 1 .. 258 /\ m.distance \in Distance
    BY <1>1, MatchTakenIs
  <2>2. n >= 3
    BY <1>1
  <2> HIDE DEF n
  <2>3. n \in 3 .. 258
    BY <2>1, <2>2
  <2> QED  BY <2>1, <2>3 DEF n
<1>3. /\ Fixed!PushedBackReference(m) = r
      /\ Fixed!BackReferenceBits(m) =
           Fixed!FixedLength(s1.symbol) + s1.num_bits + 5 + s2.num_bits
  BY <1>1, FixedPushes, SMTT(30)
<1>4. /\ s1.symbol \in 257 .. 285 /\ s1.bits \in Nat /\ s1.num_bits \in 0 .. 13
  BY <1>2, FromLengthReads
<1>5. /\ s2.symbol \in 0 .. 29 /\ s2.bits \in Nat /\ s2.num_bits \in 0 .. 13
  BY <1>2, FromDistanceReads
<1> DEFINE x1 == s1.symbol
           x2 == s2.symbol
<1>6. /\ c1 \in FixedThing /\ IsCode(c1) /\ third[c1] = Fixed!FixedLength(s1.symbol)
      /\ Fixed!FixedLength(s1.symbol) \in Nat
      /\ SymbolOf(1, "literal_length", c1) = s1.symbol
  <2>1. s1.symbol \in 0 .. 285
    <3> HIDE DEF s1
    <3> QED  BY <1>4
  <2> HIDE DEF s1
  <2> QED  BY <2>1, FixedCodeThing
<1> HIDE DEF s1, s2, c1
<1>7. /\ c2 \in FixedThing /\ IsCode(c2) /\ third[c2] = 5
      /\ SymbolOf(1, "distance", c2) = s2.symbol
  <2>1. x2 \in Nat /\ x2 < 30 /\ 5 \in Nat
    BY <1>5
  <2> HIDE DEF x2
  <2> DEFINE c == <<"code", x2, 5>>
  <2>2. c \in FixedThing /\ third[c] = 5
    BY <2>1, FixedThings
  <2>3. c[1] = "code" /\ c[2] = x2 /\ c[3] = 5
    OBVIOUS
  <2> HIDE DEF c
  <2>4. SymbolOf(1, "distance", c) = FixedDistance(c[2], c[3])
    BY DEF SymbolOf
  <2>5. FixedDistance(c[2], c[3]) = x2
    BY <2>1, <2>3 DEF FixedDistance
  <2>6. c \in FixedThing /\ IsCode(c) /\ third[c] = 5 /\ SymbolOf(1, "distance", c) = x2
    BY <2>2, <2>3, <2>4, <2>5, Zenon DEF IsCode
  <2> QED  BY <2>6 DEF c, x2
<1> HIDE DEF c2
<1>8. /\ \A o \in Range(OffsetOf(s1)) : o \in FixedThing /\ third[o] = s1.num_bits
      /\ \A o \in Range(OffsetOf(s2)) : o \in FixedThing /\ third[o] = s2.num_bits
  BY <1>4, <1>5, OffsetThing
<1>9. /\ b \in Seq(FixedThing) /\ t \in Seq(MatchTaken)
      /\ HasRead(1, b, t) /\ Total(third, b) <= Total(litbits, t)
  BY DEF FixedKept
<1>10. r \in Seq(FixedThing) /\ HasRead(1, b \o r, Append(t, m))
  <2>1. /\ s1 = FromLength(Len(m.literals)) /\ s2 = FromDistance(m.distance)
    BY DEF s1, s2
  <2> QED  BY <1>1, <1>6, <1>7, <1>8, <1>9, <2>1, HasReadReference
<1>11. Total(third, r) = third[c1] + s1.num_bits + third[c2] + s2.num_bits
  <2>1. s1.num_bits \in Nat /\ s2.num_bits \in Nat
    BY <1>4, <1>5
  <2> QED  BY <1>6, <1>7, <1>8, <2>1, ThirdWeight, TotalReference
<1> HIDE DEF r
<1>12. b \o r \in Seq(FixedThing) /\ Total(third, b \o r) = Total(third, b) + Total(third, r)
  BY <1>9, <1>10, ThirdWeight, TotalBehind
<1>13. /\ Append(t, m) \in Seq(MatchTaken)
       /\ Total(litbits, Append(t, m)) = Total(litbits, t) + litbits[m]
  BY <1>9, LiteralWeight, TotalAppend
<1>14. Total(third, b) \in Nat /\ Total(litbits, t) \in Nat
  BY <1>9, ThirdWeight, LiteralWeight, TotalNat
<1>15. litbits[m] \in Nat /\ litbits[m] = Fixed!LiteralBits(m)
  <2>1. litbits[m] \in Nat
    BY LiteralWeight
  <2>2. litbits[m] = Fixed!LiteralBits(m)
    BY Zenon DEF litbits
  <2> QED  BY <2>1, <2>2
<1>16. Total(third, r) \in Nat /\ Total(third, r) <= litbits[m]
  <2>1. Total(third, r) \in Nat
    BY <1>10, ThirdWeight, TotalNat
  <2>2. Total(third, r) = Fixed!BackReferenceBits(m)
    BY <1>3, <1>6, <1>7, <1>11
  <2> QED  BY <1>1, <1>15, <2>1, <2>2
<1>17. Total(third, b \o r) <= Total(litbits, Append(t, m))
  BY <1>9, <1>12, <1>13, <1>14, <1>15, <1>16
<1> QED
  BY <1>3, <1>10, <1>12, <1>13, <1>17, Zenon DEF FixedKept

\* A literal is read as itself.
LEMMA FixedTakesLiteral ==
  ASSUME NEW b, NEW t, FixedKept(b, t), NEW m \in MatchTaken
  PROVE  FixedKept(Append(b, Fixed!Code(Head(m.literals))),
                   Append(t, Fixed!AsLiteral(m)))
<1> DEFINE x == m.literals[1]
           a == Fixed!AsLiteral(m)
           c == Fixed!Code(x)
<1>1. /\ a \in MatchTaken /\ a.literals = <<x>> /\ x \in 0 .. 255
      /\ Head(m.literals) = x
  BY AsLiteralTaken
<1> HIDE DEF x, a
<1>2. a.literals[1] = x /\ Len(a.literals) = 1 /\ x \in 0 .. 285
  BY <1>1
<1>3. /\ c \in FixedThing /\ IsCode(c) /\ third[c] = Fixed!FixedLength(x)
      /\ Fixed!FixedLength(x) \in Nat
      /\ SymbolOf(1, "literal_length", c) = x
  BY <1>2, FixedCodeThing
<1> HIDE DEF c
<1>4. /\ b \in Seq(FixedThing) /\ t \in Seq(MatchTaken)
      /\ HasRead(1, b, t) /\ Total(third, b) <= Total(litbits, t)
  BY DEF FixedKept
<1>5. HasRead(1, Append(b, c), Append(t, a))
  BY <1>1, <1>2, <1>3, <1>4, HasReadLiteral
<1>6. /\ Append(b, c) \in Seq(FixedThing)
      /\ Total(third, Append(b, c)) = Total(third, b) + third[c]
  BY <1>3, <1>4, ThirdWeight, TotalAppend
<1>7. /\ Append(t, a) \in Seq(MatchTaken)
      /\ Total(litbits, Append(t, a)) = Total(litbits, t) + litbits[a]
  BY <1>1, <1>4, LiteralWeight, TotalAppend
<1>8. litbits[a] = Fixed!FixedLength(x)
  BY <1>1, <1>2, LiteralOfOne
<1>9. Total(third, b) \in Nat /\ Total(litbits, t) \in Nat
  BY <1>4, ThirdWeight, LiteralWeight, TotalNat
<1>10. Total(third, Append(b, c)) <= Total(litbits, Append(t, a))
  BY <1>3, <1>4, <1>6, <1>7, <1>8, <1>9
<1>11. FixedKept(Append(b, c), Append(t, a))
  BY <1>5, <1>6, <1>7, <1>10, Zenon DEF FixedKept
<1> QED
  BY <1>1, <1>11, Zenon DEF c, a

FixedHeader == << <<"type", 1>> >>

FixedState(p, t, b, o) ==
  /\ p \in {"filling", "draining", "committed"}
  /\ FixedKept(b, t)
  /\ p = "draining" => o = FixedHeader
  /\ p = "committed" => o = FixedHeader \o b \o <<Fixed!Code(256)>>

FixedInv == FixedState(pc, taken, buffered_out_, out)

\* The matches of the model are ones that can be taken.
LEMMA MatchesTaken ==
  ASSUME NEW m \in Matches \cup LoneMatches
  PROVE  m \in MatchTaken
<1>1. IsMatch(m)
  BY MatchAssumption
<1>2. m \in [literals : Seq(0 .. 255), distance : 0 .. maximum_look_back_size]
  BY <1>1, Zenon DEF IsMatch
<1> QED
  BY <1>1, <1>2, Zenon DEF MatchTaken

\* The next match is one that can be taken.
LEMMA FoundTaken ==
  ASSUME NEW m \in Found
  PROVE  m \in MatchTaken
<1>1. m \in Matches \cup LoneMatches
  BY DEF Found
<1> QED
  BY <1>1, MatchesTaken

\* The invariant of block type 1 holds at first.
LEMMA FixedInitial == Fixed!Init => FixedInv
<1> SUFFICES ASSUME Fixed!Init
             PROVE  FixedInv
  OBVIOUS
<1>1. pc = "filling" /\ taken = <<>> /\ buffered_out_ = <<>>
  BY DEF Fixed!Init
<1>2. pc \in {"filling", "draining", "committed"} /\ pc # "draining" /\ pc # "committed"
  BY <1>1
<1>3. FixedKept(buffered_out_, taken)
  BY <1>1, FixedKeptNothing
<1> QED
  BY <1>2, <1>3, Zenon DEF FixedInv, FixedState

\* Every action of block type 1 keeps its invariant.
LEMMA FixedStepKeeps ==
  ASSUME FixedInv, FixedStep
  PROVE  FixedInv'
<1>1. /\ pc \in {"filling", "draining", "committed"}
      /\ FixedKept(buffered_out_, taken)
      /\ pc = "draining" => out = FixedHeader
      /\ pc = "committed" => out = FixedHeader \o buffered_out_ \o <<Fixed!Code(256)>>
  BY Zenon DEF FixedInv, FixedState
<1>2. ASSUME NEW m \in Found, Fixed!Step(m)
      PROVE  FixedInv'
  <2>1. /\ pc \in {"filling", "draining"} /\ pc' = pc /\ out' = out
        /\ IF Fixed!TakesReference(m)
           THEN /\ buffered_out_' = buffered_out_ \o Fixed!PushedBackReference(m)
                /\ taken' = Append(taken, m)
           ELSE /\ buffered_out_' = Append(buffered_out_, Fixed!Code(Head(m.literals)))
                /\ taken' = Append(taken, Fixed!AsLiteral(m))
    BY <1>2 DEF Fixed!Step
  <2>2. m \in MatchTaken
    BY FoundTaken
  <2>3. FixedKept(buffered_out_', taken')
    <3>1. CASE Fixed!TakesReference(m)
      <4>1. FixedKept(buffered_out_ \o Fixed!PushedBackReference(m), Append(taken, m))
        BY <1>1, <2>2, <3>1, FixedTakesReference
      <4> QED  BY <2>1, <3>1, <4>1, Zenon
    <3>2. CASE ~Fixed!TakesReference(m)
      <4>1. FixedKept(Append(buffered_out_, Fixed!Code(Head(m.literals))),
                      Append(taken, Fixed!AsLiteral(m)))
        BY <1>1, <2>2, FixedTakesLiteral
      <4> QED  BY <2>1, <3>2, <4>1, Zenon
    <3> QED  BY <3>1, <3>2
  <2>4. pc # "committed"
    BY <2>1
  <2> QED  BY <1>1, <2>1, <2>3, <2>4, Zenon DEF FixedInv, FixedState
<1>3. ASSUME Fixed!BeginCommit
      PROVE  FixedInv'
  <2>1. /\ pc' = "draining" /\ out' = FixedHeader
        /\ taken' = taken /\ buffered_out_' = buffered_out_
    BY <1>3 DEF Fixed!BeginCommit, FixedHeader
  <2>2. pc' \in {"filling", "draining", "committed"} /\ pc' # "committed"
    BY <2>1
  <2> QED  BY <1>1, <2>1, <2>2, Zenon DEF FixedInv, FixedState
<1>4. ASSUME Fixed!EndCommit
      PROVE  FixedInv'
  <2>1. /\ pc = "draining" /\ pc' = "committed"
        /\ out' = out \o buffered_out_ \o <<Fixed!Code(Fixed!eob_symbol)>>
        /\ taken' = taken /\ buffered_out_' = buffered_out_
    BY <1>4, Zenon DEF Fixed!EndCommit
  <2>2. pc' \in {"filling", "draining", "committed"} /\ pc' # "draining"
    BY <2>1
  <2>3. Fixed!eob_symbol = 256
    BY DEF Fixed!eob_symbol
  <2>4. out' = FixedHeader \o buffered_out_' \o <<Fixed!Code(256)>>
    <3> DEFINE z == 256
    <3>1. Fixed!eob_symbol = z
      BY <2>3
    <3> HIDE DEF z
    <3>2. out' = FixedHeader \o buffered_out_' \o <<Fixed!Code(z)>>
      BY <1>1, <2>1, <3>1, Zenon
    <3> QED  BY <3>2 DEF z
  <2> QED  BY <1>1, <2>1, <2>2, <2>4 DEF FixedInv, FixedState
<1>5. ASSUME Fixed!Reset
      PROVE  FixedInv'
  <2>1. pc' = "filling" /\ taken' = <<>> /\ buffered_out_' = <<>>
    BY <1>5 DEF Fixed!Reset
  <2>2. /\ pc' \in {"filling", "draining", "committed"}
        /\ pc' # "draining" /\ pc' # "committed"
    BY <2>1
  <2>3. FixedKept(buffered_out_', taken')
    BY <2>1, FixedKeptNothing
  <2> QED  BY <2>2, <2>3, Zenon DEF FixedInv, FixedState
<1> QED
  BY <1>2, <1>3, <1>4, <1>5 DEF FixedStep

-----------------------------------------------------------------------------
(***************************************************************************)
(* Block type 1: what the invariant implies.                               *)
(***************************************************************************)
\* What is behind the first element.
LEMMA Behind ==
  ASSUME NEW P, NEW h \in P, NEW s \in Seq(P)
  PROVE  /\ <<h>> \o s \in Seq(P) /\ (<<h>> \o s)[1] = h
         /\ Len(<<h>> \o s) = Len(s) + 1
         /\ SubSeq(<<h>> \o s, 2, Len(<<h>> \o s)) = s
<1> DEFINE u == <<h>> \o s
<1>1. /\ u \in Seq(P) /\ u[1] = h /\ Len(u) = Len(s) + 1 /\ Len(s) \in Nat
      /\ \A k \in 1 .. Len(s) : u[k + 1] = s[k]
  OBVIOUS
<1> HIDE DEF u
<1> DEFINE v == SubSeq(u, 2, Len(u))
<1>2. v \in Seq(P) /\ Len(v) = Len(s) /\ \A k \in 1 .. Len(s) : v[k] = u[k + 1]
  BY <1>1
<1> HIDE DEF v
<1>3. v = s
  <2>1. Len(v) = Len(s) /\ \A k \in 1 .. Len(v) : v[k] = s[k]
    BY <1>1, <1>2
  <2> QED  BY <1>2, <2>1, SeqEqual
<1> QED
  BY <1>1, <1>3 DEF u, v

\* The end of a block is read behind its symbols.
LEMMA ReadsToEnd ==
  ASSUME NEW kind, NEW P, NEW s \in Seq(P), NEW ms \in Seq(MatchTaken),
         HasRead(kind, s, ms),
         NEW c \in P, IsCode(c), SymbolOf(kind, "literal_length", c) = 256
  PROVE  LET e == Read(kind, Append(s, c))
         IN e.expects = "end" /\ StandFor(e.items, ms)
<1> DEFINE d == Read(kind, s)
           e == Read(kind, Append(s, c))
<1>1. d \in Decoder /\ d.expects = "literal_length" /\ Splits(d.items, ms)
  BY DEF HasRead
<1>2. e = ReadSymbol(d, SymbolOf(kind, d.expects, c))
  BY ReadCode
<1> HIDE DEF d, e
<1>3. e = ReadSymbol(d, 256)
  <2> DEFINE z == 256
  <2>1. SymbolOf(kind, "literal_length", c) = z
    OBVIOUS
  <2> HIDE DEF z
  <2>2. e = ReadSymbol(d, z)
    BY <1>1, <1>2, <2>1, Zenon
  <2> QED  BY <2>2 DEF z
<1>4. e.expects = "end" /\ e.items = d.items
  BY <1>1, <1>3, ReadsEnd
<1>5. d.items \in Seq(Item)
  BY <1>1, Zenon DEF Decoder
<1>6. StandFor(d.items, ms)
  BY <1>1, <1>5, MatchTakenReadable, SplitsStandFor
<1>7. e.expects = "end" /\ StandFor(e.items, ms)
  BY <1>4, <1>6, Zenon
<1> QED
  BY <1>7 DEF e

\* What block type 1 holds back are codes and offsets.
LEMMA FixedTypes == FixedInv => Fixed!TypeOK
<1>1. ASSUME FixedInv
      PROVE  /\ pc \in {"filling", "draining", "committed"}
             /\ buffered_out_ \in Seq(FixedThing)
  BY <1>1, Zenon DEF FixedInv, FixedState, FixedKept
<1> QED
  BY <1>1, Zenon DEF Fixed!TypeOK, FixedThing

\* Block type 1 has no more bits than its bytes as literals.
LEMMA FixedNeverLonger == FixedInv => Fixed!NeverLonger
<1> SUFFICES ASSUME FixedInv
             PROVE  Fixed!NeverLonger
  OBVIOUS
<1>1. /\ buffered_out_ \in Seq(FixedThing) /\ taken \in Seq(MatchTaken)
      /\ Total(third, buffered_out_) <= Total(litbits, taken)
  BY Zenon DEF FixedInv, FixedState, FixedKept
<1> DEFINE f == [k \in DOMAIN buffered_out_ |-> buffered_out_[k][3]]
           g == [k \in DOMAIN taken |-> Fixed!LiteralBits(taken[k])]
<1>2. f = [k \in DOMAIN buffered_out_ |-> third[buffered_out_[k]]]
  <2>1. \A k \in DOMAIN buffered_out_ : buffered_out_[k] \in FixedThing
    BY <1>1, LenProperties, ElementOfSeq
  <2>2. \A k \in DOMAIN buffered_out_ : third[buffered_out_[k]] = buffered_out_[k][3]
    BY <2>1, Zenon DEF third
  <2> QED  BY <2>2, Zenon
<1>3. g = [k \in DOMAIN taken |-> litbits[taken[k]]]
  <2>1. \A k \in DOMAIN taken : taken[k] \in MatchTaken
    BY <1>1, LenProperties, ElementOfSeq
  <2>2. \A k \in DOMAIN taken : litbits[taken[k]] = Fixed!LiteralBits(taken[k])
    BY <2>1, Zenon DEF litbits
  <2> QED  BY <2>2, Zenon
<1> HIDE DEF f, g
<1>4. SumFunction(f) = Total(third, buffered_out_) /\ SumFunction(g) = Total(litbits, taken)
  BY <1>2, <1>3, Zenon DEF Total
<1>5. /\ Fixed!SumFunction(f) = SumFunction(f)
      /\ Fixed!SumFunction(g) = SumFunction(g)
  BY SameSum
<1>6. Fixed!SumFunction(f) <= Fixed!SumFunction(g)
  BY <1>1, <1>4, <1>5, Zenon
<1> QED
  BY <1>6, Zenon DEF Fixed!NeverLonger, Fixed!NumBits, f, g

\* A committed block of type 1 is read to its end as what it took.
LEMMA FixedBlockReads == FixedInv => BlockReads
<1> SUFFICES ASSUME FixedInv, pc = "committed"
             PROVE  Inflated.expects = "end" /\ StandFor(Inflated.items, taken)
  BY DEF BlockReads
<1> DEFINE c == Fixed!Code(256)
           h == <<"type", 1>>
           P == FixedThing \cup {h}
           s == Append(buffered_out_, c)
<1>1. /\ buffered_out_ \in Seq(FixedThing) /\ taken \in Seq(MatchTaken)
      /\ HasRead(1, buffered_out_, taken)
      /\ out = FixedHeader \o buffered_out_ \o <<c>>
  BY DEF FixedInv, FixedState, FixedKept
<1>2. /\ c \in FixedThing /\ IsCode(c)
      /\ SymbolOf(1, "literal_length", c) = 256
  <2>1. 256 \in 0 .. 285
    OBVIOUS
  <2> QED  BY <2>1, FixedCodeThing
<1> HIDE DEF c, h
<1>3. h \in P /\ buffered_out_ \in Seq(P) /\ <<c>> \in Seq(P) /\ s \in Seq(P)
  <2>1. FixedThing \subseteq P
    OBVIOUS
  <2>2. buffered_out_ \in Seq(P)
    BY <1>1, <2>1, SeqMonotonic
  <2>3. c \in P
    BY <1>2, <2>1
  <2> HIDE DEF P
  <2> QED  BY <2>2, <2>3 DEF P
<1>4. out = <<h>> \o s
  <2>1. <<h>> \in Seq(P)
    BY <1>3
  <2> HIDE DEF P
  <2>2. (<<h>> \o buffered_out_) \o <<c>> = <<h>> \o (buffered_out_ \o <<c>>)
    BY <1>3, <2>1, ConcatAssociative
  <2>3. s = buffered_out_ \o <<c>>
    BY <1>1, <1>2, AppendIsConcat
  <2>4. FixedHeader = <<h>>
    BY DEF FixedHeader, h
  <2> HIDE DEF s
  <2> QED  BY <1>1, <2>2, <2>3, <2>4, Zenon
<1>5. out[1] = h /\ SubSeq(out, 2, Len(out)) = s
  <2> HIDE DEF P, s
  <2>1. (<<h>> \o s)[1] = h /\ SubSeq(<<h>> \o s, 2, Len(<<h>> \o s)) = s
    BY <1>3, Behind
  <2> QED  BY <1>4, <2>1, Zenon
<1>6. Inflated = Read(1, s)
  <2> HIDE DEF s
  <2> QED  BY <1>5, Zenon DEF Inflated, h
<1>7. Read(1, s).expects = "end" /\ StandFor(Read(1, s).items, taken)
  BY <1>1, <1>2, ReadsToEnd
<1> HIDE DEF s
<1> QED
  BY <1>6, <1>7, Zenon

-----------------------------------------------------------------------------
(***************************************************************************)
(* Block type 2: the matches that are taken.                               *)
(***************************************************************************)
\* The tables of block type 2 are the tables.
LEMMA DynamicTables ==
  /\ \A n : Dynamic!FromLength(n) = FromLength(n)
  /\ \A n : Dynamic!FromDistance(n) = FromDistance(n)
  /\ \A s, b : Dynamic!ToLength(s, b) = ToLength(s, b)
<1>1. \A n : Dynamic!FromLength(n) = FromLength(n)
  BY DEF Dynamic!FromLength, FromLength, Dynamic!SymbolWithOffset, SymbolWithOffset,
         Dynamic!length_ranges, length_ranges, Dynamic!first_length_symbol,
         first_length_symbol, Dynamic!Max, Max
<1>2. \A n : Dynamic!FromDistance(n) = FromDistance(n)
  BY DEF Dynamic!FromDistance, FromDistance, Dynamic!SymbolWithOffset, SymbolWithOffset,
         Dynamic!distance_ranges, distance_ranges, Dynamic!first_distance_symbol,
         first_distance_symbol, Dynamic!Max, Max
<1>3. \A s, b : Dynamic!ToLength(s, b) = ToLength(s, b)
  BY DEF Dynamic!ToLength, ToLength, Dynamic!length_ranges, length_ranges,
         Dynamic!first_length_symbol, first_length_symbol
<1> QED
  BY <1>1, <1>2, <1>3

\* A match that is taken is a match or a single literal.
LEMMA DynamicMatch ==
  ASSUME NEW m \in MatchTaken
  PROVE  /\ Dynamic!IsReference(m) <=> Len(m.literals) >= 3
         /\ Head(m.literals) = m.literals[1] /\ m.literals[1] \in 0 .. 255
         /\ Dynamic!IsReference(m) =>
              /\ Len(m.literals) \in 3 .. 258
              /\ FromLength(Len(m.literals)).symbol \in 257 .. 285
              /\ FromDistance(m.distance).symbol \in 0 .. 29
              /\ m.distance \in Distance
<1>1. Dynamic!IsReference(m) <=> Len(m.literals) >= 3
  BY DEF Dynamic!IsReference, Dynamic!minimum_back_reference_length
<1>2. Head(m.literals) = m.literals[1] /\ m.literals[1] \in 0 .. 255
  BY AsLiteralTaken
<1>3. ASSUME Dynamic!IsReference(m)
      PROVE  Len(m.literals) \in 3 .. 258 /\ m.distance \in Distance
  <2> DEFINE n == Len(m.literals)
  <2>1. n \in 1 .. 258 /\ m.distance \in Distance
    BY <1>1, <1>3, MatchTakenIs
  <2>2. n >= 3
    BY <1>1, <1>3
  <2> HIDE DEF n
  <2>3. n \in 3 .. 258
    BY <2>1, <2>2
  <2> QED  BY <2>1, <2>3 DEF n
<1>4. \A n \in 3 .. 258 : FromLength(n).symbol \in 257 .. 285
  BY FromLengthReads
<1>5. \A n \in Distance : FromDistance(n).symbol \in 0 .. 29
  BY FromDistanceReads
<1>6. ASSUME Dynamic!IsReference(m)
      PROVE  /\ FromLength(Len(m.literals)).symbol \in 257 .. 285
             /\ FromDistance(m.distance).symbol \in 0 .. 29
  <2> DEFINE n == Len(m.literals)
  <2>1. n \in 3 .. 258 /\ m.distance \in Distance
    BY <1>3, <1>6
  <2> HIDE DEF n
  <2>2. FromLength(n).symbol \in 257 .. 285 /\ FromDistance(m.distance).symbol \in 0 .. 29
    BY <1>4, <1>5, <2>1
  <2> QED  BY <2>2 DEF n
<1> QED
  BY <1>1, <1>2, <1>3, <1>6

\* The symbols of block type 2, distances behind literals and lengths.
LEMMA SymbolIs == Dynamic!Symbol = 0 .. 317 /\ Dynamic!eob_symbol = 256
BY DEF Dynamic!Symbol, Dynamic!num_literal_length_symbols,
       Dynamic!num_distance_symbols, Dynamic!eob_symbol

\* The symbols of a step are symbols.
LEMMA StandsIs ==
  ASSUME NEW m \in MatchTaken
  PROVE  /\ Dynamic!IsReference(m) =>
              Dynamic!Stands(m) = {FromLength(Len(m.literals)).symbol,
                                   FromDistance(m.distance).symbol + 288}
         /\ ~Dynamic!IsReference(m) => Dynamic!Stands(m) = {m.literals[1]}
         /\ Dynamic!Stands(m) \subseteq 0 .. 317
<1>1. Dynamic!num_literal_length_symbols = 288
  BY DEF Dynamic!num_literal_length_symbols
<1>2. Dynamic!IsReference(m) =>
        Dynamic!Stands(m) = {FromLength(Len(m.literals)).symbol,
                             FromDistance(m.distance).symbol + 288}
  <2> DEFINE z == 288
  <2>1. Dynamic!num_literal_length_symbols = z
    BY <1>1
  <2> HIDE DEF z
  <2>2. Dynamic!IsReference(m) =>
          Dynamic!Stands(m) = {FromLength(Len(m.literals)).symbol,
                               FromDistance(m.distance).symbol + z}
    BY <2>1, DynamicTables, Zenon DEF Dynamic!Stands
  <2> QED  BY <2>2 DEF z
<1>3. ~Dynamic!IsReference(m) => Dynamic!Stands(m) = {m.literals[1]}
  <2>1. Head(m.literals) = m.literals[1]
    BY DynamicMatch
  <2> QED  BY <2>1, Zenon DEF Dynamic!Stands
<1>4. Dynamic!Stands(m) \subseteq 0 .. 317
  <2> DEFINE x == FromLength(Len(m.literals)).symbol
             y == FromDistance(m.distance).symbol
             w == m.literals[1]
             S == Dynamic!Stands(m)
  <2>1. /\ w \in 0 .. 255
        /\ Dynamic!IsReference(m) => x \in 257 .. 285 /\ y \in 0 .. 29
    BY DynamicMatch
  <2>2. (S = {x, y + 288} /\ Dynamic!IsReference(m)) \/ S = {w}
    BY <1>2, <1>3
  <2> HIDE DEF x, y, w, S
  <2>3. S \subseteq 0 .. 317
    BY <2>1, <2>2
  <2> QED  BY <2>3 DEF S
<1> QED
  BY <1>2, <1>3, <1>4

-----------------------------------------------------------------------------
\* The steps that a symbol stands for.
At(t, s) == {p \in UNION {{k} \X Dynamic!Stands(t[k]) : k \in DOMAIN t} : p[2] = s}

\* A symbol is counted at the steps that it stands for.
LEMMA AtIs ==
  ASSUME NEW M, NEW t \in Seq(M), NEW s
  PROVE  \A p : p \in At(t, s) <=>
                  \E k \in 1 .. Len(t) : s \in Dynamic!Stands(t[k]) /\ p = <<k, s>>
<1>1. DOMAIN t = 1 .. Len(t)
  BY LenProperties
<1> DEFINE St(k) == Dynamic!Stands(t[k])
           D == DOMAIN t
<1>2. At(t, s) = {p \in UNION {{k} \X St(k) : k \in D} : p[2] = s}
  BY Zenon DEF At
<1> HIDE DEF St, D
<1>3. \A p : p \in At(t, s) <=> \E k \in D : s \in St(k) /\ p = <<k, s>>
  BY <1>2
<1> QED
  BY <1>1, <1>3, Zenon DEF St, D

Ones(b) == IF b THEN 1 ELSE 0

\* One step more is one place more for each of its symbols.
LEMMA AtMore ==
  ASSUME NEW t \in Seq(MatchTaken), NEW m \in MatchTaken, NEW s,
         IsFiniteSet(At(t, s))
  PROVE  /\ IsFiniteSet(At(Append(t, m), s))
         /\ Cardinality(At(Append(t, m), s)) =
              Cardinality(At(t, s)) + Ones(s \in Dynamic!Stands(m))
<1> DEFINE u == Append(t, m)
           n == Len(t)
           new == <<n + 1, s>>
<1>1. /\ u \in Seq(MatchTaken) /\ n \in Nat /\ Len(u) = n + 1 /\ u[n + 1] = m
      /\ \A k \in 1 .. n : u[k] = t[k]
  OBVIOUS
<1> HIDE DEF u
<1>2. \A p : p \in At(t, s) <=>
               \E k \in 1 .. n : s \in Dynamic!Stands(t[k]) /\ p = <<k, s>>
  BY AtIs
<1>3. \A p : p \in At(u, s) <=>
               \E k \in 1 .. n + 1 : s \in Dynamic!Stands(u[k]) /\ p = <<k, s>>
  <2>1. \A p : p \in At(u, s) <=>
               \E k \in 1 .. Len(u) : s \in Dynamic!Stands(u[k]) /\ p = <<k, s>>
    BY <1>1, AtIs
  <2> QED  BY <1>1, <2>1
<1> HIDE DEF n
<1>4. \A k : k \in 1 .. n + 1 <=> k \in 1 .. n \/ k = n + 1
  BY <1>1
<1>5. CASE s \in Dynamic!Stands(m)
  <2>1. At(u, s) = At(t, s) \cup {new}
    <3>1. \A p : p \in At(u, s) <=> p \in At(t, s) \/ p = new
      BY <1>1, <1>2, <1>3, <1>4, <1>5, Zenon
    <3> QED  BY <3>1, Zenon
  <2>2. new \notin At(t, s)
    <3>1. \A k \in 1 .. n : <<k, s>> # new
      <4>1. \A k \in 1 .. n : k # n + 1
        BY <1>1
      <4> QED  BY <4>1
    <3> QED  BY <1>2, <3>1, Zenon
  <2>3. /\ IsFiniteSet(At(t, s) \cup {new})
        /\ Cardinality(At(t, s) \cup {new}) = Cardinality(At(t, s)) + 1
    BY <2>2, FS_AddElement
  <2> QED  BY <1>5, <2>1, <2>3, Zenon DEF Ones, u
<1>6. CASE s \notin Dynamic!Stands(m)
  <2>1. At(u, s) = At(t, s)
    <3>1. \A p : p \in At(u, s) <=> p \in At(t, s)
      BY <1>1, <1>2, <1>3, <1>4, <1>6, Zenon
    <3> QED  BY <3>1, Zenon
  <2>2. Cardinality(At(t, s)) \in Nat
    BY FS_CardinalityType
  <2>3. Cardinality(At(t, s)) = Cardinality(At(t, s)) + Ones(s \in Dynamic!Stands(m))
    BY <1>6, <2>2 DEF Ones
  <2> QED  BY <2>1, <2>3, Zenon DEF u
<1> QED
  BY <1>5, <1>6

\* The counts are those of the steps, and of the end if it is counted.
Counted(c, t, ended) ==
  /\ c \in [0 .. 317 -> Nat]
  /\ \A s \in 0 .. 317 :
       /\ IsFiniteSet(At(t, s))
       /\ c[s] = Cardinality(At(t, s)) + Ones(ended /\ s = 256)

\* Nothing is counted at first.
LEMMA CountedNothing == Counted([s \in 0 .. 317 |-> 0], <<>>, FALSE)
<1> DEFINE c == [s \in 0 .. 317 |-> 0]
<1>1. \A s : At(<<>>, s) = {}
  <2>1. <<>> \in Seq(Nat) /\ Len(<<>>) = 0 /\ \A k : k \notin 1 .. 0
    OBVIOUS
  <2>2. \A s : \A p : p \in At(<<>>, s) <=>
          \E k \in 1 .. Len(<<>>) : s \in Dynamic!Stands(<<>>[k]) /\ p = <<k, s>>
    BY <2>1, AtIs
  <2> QED  BY <2>1, <2>2, Zenon
<1>2. IsFiniteSet({}) /\ Cardinality({}) = 0
  BY FS_EmptySet
<1>3. c \in [0 .. 317 -> Nat] /\ \A s \in 0 .. 317 : c[s] = 0
  OBVIOUS
<1> HIDE DEF c
<1>4. \A s : Ones(FALSE /\ s = 256) = 0
  BY DEF Ones
<1>5. ASSUME NEW s \in 0 .. 317
      PROVE  c[s] = Cardinality(At(<<>>, s)) + Ones(FALSE /\ s = 256)
  <2>1. Cardinality(At(<<>>, s)) = 0
    BY <1>1, <1>2, Zenon
  <2>2. c[s] = 0 /\ Ones(FALSE /\ s = 256) = 0
    BY <1>3, <1>4
  <2> HIDE DEF c
  <2> DEFINE a == Cardinality(At(<<>>, s))
  <2> HIDE DEF a
  <2>3. a = 0
    BY <2>1 DEF a
  <2>4. c[s] = a + Ones(FALSE /\ s = 256)
    BY <2>2, <2>3
  <2> QED  BY <2>4 DEF a
<1>6. \A s \in 0 .. 317 : IsFiniteSet(At(<<>>, s))
  BY <1>1, <1>2
<1>7. Counted(c, <<>>, FALSE)
  BY <1>3, <1>5, <1>6, Zenon DEF Counted
<1> QED
  BY <1>7 DEF c

\* The symbols of one step more are counted once more.
LEMMA CountedMore ==
  ASSUME NEW t \in Seq(MatchTaken), NEW m \in MatchTaken, NEW c, Counted(c, t, FALSE),
         NEW d \in [0 .. 317 -> Nat],
         \A s \in 0 .. 317 : d[s] = c[s] + Ones(s \in Dynamic!Stands(m))
  PROVE  Counted(d, Append(t, m), FALSE)
<1>1. ASSUME NEW s \in 0 .. 317
      PROVE  /\ IsFiniteSet(At(Append(t, m), s))
             /\ d[s] = Cardinality(At(Append(t, m), s)) + Ones(FALSE /\ s = 256)
  <2>1. /\ IsFiniteSet(At(t, s))
        /\ c[s] = Cardinality(At(t, s)) + Ones(FALSE /\ s = 256)
    BY Zenon DEF Counted
  <2>2. /\ IsFiniteSet(At(Append(t, m), s))
        /\ Cardinality(At(Append(t, m), s)) =
             Cardinality(At(t, s)) + Ones(s \in Dynamic!Stands(m))
    BY <2>1, AtMore
  <2> DEFINE a == Cardinality(At(t, s))
             b == Cardinality(At(Append(t, m), s))
             o == Ones(s \in Dynamic!Stands(m))
  <2>3. a \in Nat /\ b \in Nat
    BY <2>1, <2>2, FS_CardinalityType
  <2>4. Ones(FALSE /\ s = 256) = 0 /\ o \in Nat
    BY DEF Ones
  <2>5. c[s] = a + 0 /\ b = a + o /\ d[s] = c[s] + o
    BY <2>1, <2>2, <2>4
  <2> HIDE DEF a, b, o
  <2>6. d[s] = b + 0
    BY <2>3, <2>4, <2>5
  <2> QED  BY <2>2, <2>4, <2>6 DEF b
<1> QED
  BY <1>1, Zenon DEF Counted

\* A symbol that stands for a step is counted.
LEMMA CountedStands ==
  ASSUME NEW t \in Seq(MatchTaken), NEW c, NEW ended \in BOOLEAN, Counted(c, t, ended)
  PROVE  /\ \A k \in 1 .. Len(t) : \A s \in Dynamic!Stands(t[k]) :
              s \in 0 .. 317 /\ c[s] > 0
         /\ ended => c[256] > 0
<1>1. \A s \in 0 .. 317 :
        /\ IsFiniteSet(At(t, s)) /\ Cardinality(At(t, s)) \in Nat
        /\ c[s] = Cardinality(At(t, s)) + Ones(ended /\ s = 256)
  BY FS_CardinalityType, Zenon DEF Counted
<1>o. \A b \in BOOLEAN : Ones(b) \in Nat
  BY DEF Ones
<1>2. ASSUME NEW k \in 1 .. Len(t), NEW s \in Dynamic!Stands(t[k])
      PROVE  s \in 0 .. 317 /\ c[s] > 0
  <2>1. t[k] \in MatchTaken
    BY ElementOfSeq
  <2>2. s \in 0 .. 317
    BY <2>1, StandsIs, Zenon
  <2>3. At(t, s) # {}
    <3>1. <<k, s>> \in At(t, s)
      BY AtIs
    <3> QED  BY <3>1
  <2>4. Cardinality(At(t, s)) # 0
    BY <1>1, <2>2, <2>3, FS_EmptySet
  <2> DEFINE a == Cardinality(At(t, s))
             o == Ones(ended /\ s = 256)
  <2>5. a \in Nat /\ a # 0 /\ c[s] = a + o /\ o \in Nat
    <3>1. o \in Nat
      BY DEF Ones
    <3> QED  BY <1>1, <2>2, <2>4, <3>1
  <2> HIDE DEF a, o
  <2> QED  BY <2>2, <2>5
<1>3. ASSUME ended
      PROVE  c[256] > 0
  <2>1. 256 \in 0 .. 317
    OBVIOUS
  <2> DEFINE z == 256
             a == Cardinality(At(t, z))
  <2>2. Ones(ended /\ z = 256) = 1
    BY <1>3 DEF Ones
  <2>3. a \in Nat /\ c[z] = a + Ones(ended /\ z = 256)
    BY <1>1, <2>1
  <2> HIDE DEF z, a
  <2>4. c[z] > 0
    BY <2>2, <2>3
  <2> QED  BY <2>4 DEF z
<1> QED
  BY <1>2, <1>3

-----------------------------------------------------------------------------
(***************************************************************************)
(* Block type 2: what is collected.                                        *)
(***************************************************************************)
\* What is collected: symbols, and offsets with their numbers of bits.
DynamicEntry == ({"symbol"} \X Nat) \cup ({"offset"} \X Nat \X Nat)

\* The entries behind the first a, up to the first b, are those of m.
EntriesOf(B, a, b, m) ==
  IF Dynamic!IsReference(m)
  THEN LET s1 == FromLength(Len(m.literals))
           s2 == FromDistance(m.distance)
       IN /\ b = a + 4 + Len(m.literals)
          /\ B[a + 1] = Dynamic!SymbolEntry(s1.symbol)
          /\ B[a + 2] = Dynamic!OffsetEntry(s1)
          /\ B[a + 3] = Dynamic!SymbolEntry(s2.symbol + 288)
          /\ B[a + 4] = Dynamic!OffsetEntry(s2)
          /\ \A j \in 1 .. Len(m.literals) :
               B[a + 4 + j] = Dynamic!SymbolEntry(m.literals[j])
  ELSE /\ Len(m.literals) = 1
       /\ b = a + 1 /\ B[a + 1] = Dynamic!SymbolEntry(m.literals[1])

\* The first N entries are those of each step in turn, divided at these places.
Laid(B, N, t, at) ==
  /\ at \in [0 .. Len(t) -> 0 .. N]
  /\ at[0] = 0 /\ at[Len(t)] = N
  /\ \A k \in 1 .. Len(t) : EntriesOf(B, at[k - 1], at[k], t[k])

\* Entries do not change when others are collected behind them.
LEMMA EntriesSame ==
  ASSUME NEW N \in Nat, NEW B, NEW C, \A j \in 1 .. N : C[j] = B[j],
         NEW m \in MatchTaken, NEW a \in 0 .. N, NEW b \in 0 .. N, EntriesOf(B, a, b, m)
  PROVE  EntriesOf(C, a, b, m)
<1> DEFINE n == Len(m.literals)
<1>1. CASE Dynamic!IsReference(m)
  <2>1. n \in 3 .. 258
    BY <1>1, DynamicMatch
  <2>2. b = a + 4 + n
    BY <1>1, Zenon DEF EntriesOf
  <2> HIDE DEF n
  <2>3. /\ a + 1 \in 1 .. N /\ a + 2 \in 1 .. N /\ a + 3 \in 1 .. N /\ a + 4 \in 1 .. N
        /\ \A j \in 1 .. n : a + 4 + j \in 1 .. N
    BY <2>1, <2>2
  <2>4. /\ C[a + 1] = B[a + 1] /\ C[a + 2] = B[a + 2] /\ C[a + 3] = B[a + 3]
        /\ C[a + 4] = B[a + 4] /\ \A j \in 1 .. n : C[a + 4 + j] = B[a + 4 + j]
    BY <2>3
  <2> DEFINE z == 288
             s1 == FromLength(n)
             s2 == FromDistance(m.distance)
  <2>5. /\ B[a + 1] = Dynamic!SymbolEntry(s1.symbol)
        /\ B[a + 2] = Dynamic!OffsetEntry(s1)
        /\ B[a + 3] = Dynamic!SymbolEntry(s2.symbol + z)
        /\ B[a + 4] = Dynamic!OffsetEntry(s2)
        /\ \A j \in 1 .. n : B[a + 4 + j] = Dynamic!SymbolEntry(m.literals[j])
    BY <1>1 DEF EntriesOf, n
  <2> HIDE DEF z, s1, s2
  <2>6. /\ C[a + 1] = Dynamic!SymbolEntry(s1.symbol)
        /\ C[a + 2] = Dynamic!OffsetEntry(s1)
        /\ C[a + 3] = Dynamic!SymbolEntry(s2.symbol + z)
        /\ C[a + 4] = Dynamic!OffsetEntry(s2)
        /\ \A j \in 1 .. n : C[a + 4 + j] = Dynamic!SymbolEntry(m.literals[j])
    BY <2>4, <2>5, Zenon
  <2> QED  BY <1>1, <2>2, <2>6 DEF EntriesOf, z, s1, s2, n
<1>2. CASE ~Dynamic!IsReference(m)
  <2>1. /\ Len(m.literals) = 1
        /\ b = a + 1 /\ B[a + 1] = Dynamic!SymbolEntry(m.literals[1])
    BY <1>2, Zenon DEF EntriesOf
  <2>2. a + 1 \in 1 .. N
    BY <2>1
  <2>3. C[a + 1] = B[a + 1]
    BY <2>2
  <2> QED  BY <1>2, <2>1, <2>3, Zenon DEF EntriesOf
<1> QED
  BY <1>1, <1>2

\* Nor does how they are divided.
LEMMA LaidSame ==
  ASSUME NEW N \in Nat, NEW B, NEW C, \A j \in 1 .. N : C[j] = B[j],
         NEW t \in Seq(MatchTaken), NEW at, Laid(B, N, t, at)
  PROVE  Laid(C, N, t, at)
<1> DEFINE n == Len(t)
<1>1. n \in Nat
  OBVIOUS
<1>2. /\ at \in [0 .. n -> 0 .. N] /\ at[0] = 0 /\ at[n] = N
      /\ \A k \in 1 .. n : EntriesOf(B, at[k - 1], at[k], t[k])
  BY Zenon DEF Laid
<1>3. ASSUME NEW k \in 1 .. n
      PROVE  EntriesOf(C, at[k - 1], at[k], t[k])
  <2>1. t[k] \in MatchTaken
    BY ElementOfSeq
  <2> HIDE DEF n
  <2>2. k - 1 \in 0 .. n /\ k \in 0 .. n
    BY <1>1
  <2>3. at[k - 1] \in 0 .. N /\ at[k] \in 0 .. N
    BY <1>2, <2>2
  <2>4. EntriesOf(B, at[k - 1], at[k], t[k])
    BY <1>2, Zenon
  <2> QED  BY <2>1, <2>3, <2>4, EntriesSame
<1> QED
  BY <1>2, <1>3, Zenon DEF Laid

\* No entry is divided among no step.
LEMMA LaidNothing == \E at : Laid(<<>>, 0, <<>>, at)
<1> DEFINE at == [k \in 0 .. 0 |-> 0]
<1>1. Len(<<>>) = 0
  OBVIOUS
<1>2. /\ at \in [0 .. 0 -> 0 .. 0] /\ at[0] = 0 /\ at[0] = 0
      /\ \A k \in 1 .. 0 : EntriesOf(<<>>, at[k - 1], at[k], <<>>[k])
  OBVIOUS
<1> HIDE DEF at
<1>3. Laid(<<>>, 0, <<>>, at)
  BY <1>1, <1>2, Zenon DEF Laid
<1> QED
  BY <1>3, Zenon

\* The entries of one step more, behind the others.
LEMMA LaidMore ==
  ASSUME NEW N \in Nat, NEW B, NEW M \in Nat, N <= M,
         NEW C, \A j \in 1 .. N : C[j] = B[j],
         NEW t \in Seq(MatchTaken), NEW at, Laid(B, N, t, at),
         NEW m \in MatchTaken, EntriesOf(C, N, M, m)
  PROVE  \E bt : Laid(C, M, Append(t, m), bt)
<1> DEFINE n == Len(t)
           more == Append(t, m)
           bt == [k \in 0 .. n + 1 |-> IF k <= n THEN at[k] ELSE M]
<1>1. /\ n \in Nat /\ Len(more) = n + 1 /\ more[n + 1] = m
      /\ \A k \in 1 .. n : more[k] = t[k]
  OBVIOUS
<1>2. Laid(C, N, t, at)
  BY LaidSame
<1>3. /\ at \in [0 .. n -> 0 .. N] /\ at[0] = 0 /\ at[n] = N
      /\ \A k \in 1 .. n : EntriesOf(C, at[k - 1], at[k], t[k])
  BY <1>2, Zenon DEF Laid
<1> HIDE DEF n, more
<1>4. /\ bt \in [0 .. n + 1 -> 0 .. M]
      /\ bt[0] = 0 /\ bt[n + 1] = M /\ bt[n] = N
      /\ \A k \in 0 .. n : bt[k] = at[k]
  BY <1>1, <1>3
<1> HIDE DEF bt
<1>5. ASSUME NEW k \in 1 .. n
      PROVE  EntriesOf(C, bt[k - 1], bt[k], more[k])
  <2>1. k \in 0 .. n /\ k - 1 \in 0 .. n
    BY <1>1
  <2> QED  BY <1>1, <1>3, <1>4, <2>1, Zenon
<1>6. EntriesOf(C, bt[(n + 1) - 1], bt[n + 1], more[n + 1])
  <2>1. (n + 1) - 1 = n
    BY <1>1
  <2> QED  BY <1>1, <1>4, <2>1, Zenon
<1>7. \A k \in 1 .. n + 1 : k \in 1 .. n \/ k = n + 1
  BY <1>1
<1>8. \A k \in 1 .. n + 1 : EntriesOf(C, bt[k - 1], bt[k], more[k])
  BY <1>5, <1>6, <1>7, Zenon
<1>9. Laid(C, M, more, bt)
  BY <1>1, <1>4, <1>8, Zenon DEF Laid
<1> QED
  BY <1>9, Zenon DEF more

\* u is s with t behind it.
Joined(u, s, t) ==
  /\ Len(u) = Len(s) + Len(t) /\ Len(s) \in Nat /\ Len(t) \in Nat
  /\ \A j \in 1 .. Len(s) : u[j] = s[j]
  /\ \A j \in 1 .. Len(t) : u[Len(s) + j] = t[j]

\* What two sequences are, one behind the other.
LEMMA ConcatIs ==
  ASSUME NEW P, NEW s \in Seq(P), NEW t \in Seq(P)
  PROVE  s \o t \in Seq(P) /\ Joined(s \o t, s, t)
BY DEF Joined

\* A literal or the end is collected as a symbol.
LEMMA CollectsSymbol ==
  ASSUME NEW B \in Seq(DynamicEntry), NEW s \in 0 .. 317
  PROVE  LET C == Append(B, Dynamic!SymbolEntry(s))
         IN /\ C \in Seq(DynamicEntry) /\ Len(C) = Len(B) + 1 /\ Len(B) \in Nat
            /\ \A j \in 1 .. Len(B) : C[j] = B[j]
            /\ C[Len(B) + 1] = Dynamic!SymbolEntry(s)
<1> DEFINE e == Dynamic!SymbolEntry(s)
<1>1. e \in DynamicEntry
  BY DEF DynamicEntry, Dynamic!SymbolEntry
<1> HIDE DEF e
<1>2. LET C == Append(B, e)
      IN /\ C \in Seq(DynamicEntry) /\ Len(C) = Len(B) + 1 /\ Len(B) \in Nat
         /\ \A j \in 1 .. Len(B) : C[j] = B[j] /\ C[Len(B) + 1] = e
         /\ C[Len(B) + 1] = e
  BY <1>1
<1> QED
  BY <1>2, Zenon DEF e

\* A match is collected with its literals behind it.
LEMMA CollectsReference ==
  ASSUME NEW B \in Seq(DynamicEntry), NEW m \in MatchTaken, Dynamic!IsReference(m)
  PROVE  LET length == Dynamic!FromLength(Len(m.literals))
             distance == Dynamic!FromDistance(m.distance)
             distance_symbol == distance.symbol + Dynamic!num_literal_length_symbols
             C == B
               \o <<Dynamic!SymbolEntry(length.symbol), Dynamic!OffsetEntry(length),
                    Dynamic!SymbolEntry(distance_symbol), Dynamic!OffsetEntry(distance)>>
               \o [k \in DOMAIN m.literals |-> Dynamic!SymbolEntry(m.literals[k])]
         IN /\ C \in Seq(DynamicEntry) /\ Len(C) = Len(B) + 4 + Len(m.literals)
            /\ Len(B) \in Nat /\ \A j \in 1 .. Len(B) : C[j] = B[j]
            /\ EntriesOf(C, Len(B), Len(C), m)
<1> DEFINE l == m.literals
           n == Len(l)
           s1 == FromLength(n)
           s2 == FromDistance(m.distance)
           x2 == s2.symbol + 288
           e1 == Dynamic!SymbolEntry(s1.symbol)
           e2 == Dynamic!OffsetEntry(s1)
           e3 == Dynamic!SymbolEntry(x2)
           e4 == Dynamic!OffsetEntry(s2)
           h == <<e1, e2, e3, e4>>
           g == [k \in 1 .. n |-> Dynamic!SymbolEntry(l[k])]
           C == B \o h \o g
<1>1. l \in Seq(0 .. 255) /\ n \in 3 .. 258 /\ m.distance \in Distance
  BY MatchTakenIs, DynamicMatch
<1>d. DOMAIN l = 1 .. n
  BY <1>1, LenProperties
<1>2. \A k \in 1 .. n : l[k] \in 0 .. 255
  BY <1>1, ElementOfSeq
<1> HIDE DEF l, n
<1>3. /\ s1.symbol \in 257 .. 285 /\ s1.bits \in Nat /\ s1.num_bits \in 0 .. 13
      /\ s2.symbol \in 0 .. 29 /\ s2.bits \in Nat /\ s2.num_bits \in 0 .. 13
  <2>1. Symbols(s1, s2)
    BY <1>1, SymbolsExist
  <2> HIDE DEF s1, s2
  <2> QED  BY <2>1 DEF Symbols
<1> DEFINE y1 == s1.symbol
           b1 == s1.bits
           w1 == s1.num_bits
           b2 == s2.bits
           w2 == s2.num_bits
<1>4. y1 \in Nat /\ b1 \in Nat /\ w1 \in Nat /\ x2 \in Nat /\ b2 \in Nat /\ w2 \in Nat
  <2> HIDE DEF s1, s2
  <2>1. /\ \A x \in 257 .. 285 : x \in Nat
        /\ \A x \in 0 .. 13 : x \in Nat
        /\ \A x \in 0 .. 29 : x + 288 \in Nat
    OBVIOUS
  <2>2. y1 \in Nat /\ b1 \in Nat /\ w1 \in Nat
    BY <1>3, <2>1
  <2>3. b2 \in Nat /\ w2 \in Nat
    BY <1>3, <2>1
  <2>4. x2 \in Nat
    BY <1>3, <2>1
  <2> QED  BY <2>2, <2>3, <2>4
<1>5. /\ e1 = <<"symbol", y1>> /\ e2 = <<"offset", b1, w1>>
      /\ e3 = <<"symbol", x2>> /\ e4 = <<"offset", b2, w2>>
  BY Zenon DEF Dynamic!SymbolEntry, Dynamic!OffsetEntry
<1> HIDE DEF y1, b1, w1, x2, b2, w2, e1, e2, e3, e4
<1>6. e1 \in DynamicEntry /\ e2 \in DynamicEntry /\ e3 \in DynamicEntry /\ e4 \in DynamicEntry
  BY <1>4, <1>5 DEF DynamicEntry
<1>7. h \in Seq(DynamicEntry) /\ Len(h) = 4 /\ h[1] = e1 /\ h[2] = e2 /\ h[3] = e3 /\ h[4] = e4
  BY <1>6
<1>8. \A k \in 1 .. n : Dynamic!SymbolEntry(l[k]) \in DynamicEntry
  <2>1. \A x \in 0 .. 255 : Dynamic!SymbolEntry(x) \in DynamicEntry
    BY DEF DynamicEntry, Dynamic!SymbolEntry
  <2> QED  BY <1>2, <2>1, Zenon
<1>9. /\ g \in Seq(DynamicEntry) /\ Len(g) = n
      /\ \A k \in 1 .. n : g[k] = Dynamic!SymbolEntry(l[k])
  <2>1. n \in Nat
    BY <1>1
  <2> DEFINE E(k) == Dynamic!SymbolEntry(l[k])
  <2> HIDE DEF E
  <2>2. \A k \in 1 .. n : E(k) \in DynamicEntry
    BY <1>8 DEF E
  <2>3. LET f == [k \in 1 .. n |-> E(k)]
        IN f \in Seq(DynamicEntry) /\ Len(f) = n /\ \A k \in 1 .. n : f[k] = E(k)
    BY <2>1, <2>2
  <2> QED  BY <2>3, Zenon DEF E
<1> HIDE DEF h, g
<1>10. /\ C \in Seq(DynamicEntry) /\ Len(C) = Len(B) + 4 + n /\ Len(B) \in Nat
       /\ \A j \in 1 .. Len(B) : C[j] = B[j]
       /\ \A j \in 1 .. 4 : C[Len(B) + j] = h[j]
       /\ \A j \in 1 .. n : C[Len(B) + 4 + j] = g[j]
  <2> DEFINE D == B \o h
  <2>1. /\ D \in Seq(DynamicEntry) /\ Len(D) = Len(B) + 4 /\ Len(B) \in Nat
        /\ \A j \in 1 .. Len(B) : D[j] = B[j]
        /\ \A j \in 1 .. 4 : D[Len(B) + j] = h[j]
    <3>1. D \in Seq(DynamicEntry) /\ Joined(D, B, h)
      BY <1>7, ConcatIs
    <3> HIDE DEF D
    <3> QED  BY <1>7, <3>1, Zenon DEF Joined
  <2> HIDE DEF D
  <2>2. /\ D \o g \in Seq(DynamicEntry) /\ Len(D \o g) = Len(D) + n
        /\ \A j \in 1 .. Len(D) : (D \o g)[j] = D[j]
        /\ \A j \in 1 .. n : (D \o g)[Len(D) + j] = g[j]
    <3>1. D \o g \in Seq(DynamicEntry) /\ Joined(D \o g, D, g)
      BY <1>9, <2>1, ConcatIs
    <3> QED  BY <1>9, <3>1, Zenon DEF Joined
  <2>3. C = D \o g
    BY Zenon DEF D
  <2> HIDE DEF C
  <2>n. n \in Nat
    BY <1>1
  <2>4. /\ \A j \in 1 .. Len(B) : j \in 1 .. Len(D)
        /\ \A j \in 1 .. 4 : Len(B) + j \in 1 .. Len(D)
        /\ Len(D) + n = Len(B) + 4 + n
        /\ \A j \in 1 .. n : Len(D) + j = Len(B) + 4 + j
    BY <2>1, <2>n
  <2> QED  BY <2>1, <2>2, <2>3, <2>4, Zenon
<1> HIDE DEF C
<1>11. 1 \in 1 .. 4 /\ 2 \in 1 .. 4 /\ 3 \in 1 .. 4 /\ 4 \in 1 .. 4
  OBVIOUS
<1>12. /\ C[Len(B) + 1] = e1 /\ C[Len(B) + 2] = e2 /\ C[Len(B) + 3] = e3
       /\ C[Len(B) + 4] = e4
       /\ \A j \in 1 .. n : C[Len(B) + 4 + j] = Dynamic!SymbolEntry(l[j])
  BY <1>7, <1>9, <1>10, <1>11, Zenon
<1>13. EntriesOf(C, Len(B), Len(C), m)
  BY <1>10, <1>12 DEF EntriesOf, e1, e2, e3, e4, x2, n, l
<1>14. Dynamic!num_literal_length_symbols = 288
  BY DEF Dynamic!num_literal_length_symbols
<1>15. LET length == Dynamic!FromLength(Len(m.literals))
           distance == Dynamic!FromDistance(m.distance)
           distance_symbol == distance.symbol + Dynamic!num_literal_length_symbols
       IN C = B
               \o <<Dynamic!SymbolEntry(length.symbol), Dynamic!OffsetEntry(length),
                    Dynamic!SymbolEntry(distance_symbol), Dynamic!OffsetEntry(distance)>>
               \o [k \in DOMAIN m.literals |-> Dynamic!SymbolEntry(m.literals[k])]
  <2> DEFINE z == 288
  <2>1. Dynamic!num_literal_length_symbols = z /\ x2 = s2.symbol + z
    BY <1>14 DEF x2
  <2> HIDE DEF z
  <2> QED  BY <1>d, <2>1, DynamicTables, Zenon DEF C, h, g, e1, e2, e3, e4, n, l
<1> QED
  BY <1>10, <1>13, <1>15, Zenon DEF n, l

-----------------------------------------------------------------------------
(***************************************************************************)
(* Block type 2: what is held back, and its bits.                          *)
(***************************************************************************)
\* What block type 2 holds back with codes of these lengths, and its bits.
Thing(K) ==
  ({"code"} \X DOMAIN K) \cup ({"offset"} \X Nat \X Nat)
    \cup {<<"type", 2>>, <<"lengths", K>>}

weight(K) == [p \in Thing(K) |-> Dynamic!BitsOf(K, p)]

AreLengths(K) == K \in [DOMAIN K -> Nat] /\ DOMAIN K \subseteq 0 .. 317

\* The bits of a code are its length; the header is not counted.
LEMMA BitsOfThings ==
  ASSUME NEW K
  PROVE  /\ \A s : Dynamic!BitsOf(K, <<"code", s>>) = K[s]
         /\ Dynamic!BitsOf(K, <<"type", 2>>) = 0
         /\ Dynamic!BitsOf(K, <<"lengths", K>>) = 0
<1>1. /\ \A s : <<"code", s>>[1] = "code" /\ <<"code", s>>[2] = s
      /\ <<"type", 2>>[1] = "type"
      /\ <<"lengths", K>>[1] = "lengths"
  OBVIOUS
<1>2. \A s : Dynamic!BitsOf(K, <<"code", s>>) = K[s]
  BY DEF Dynamic!BitsOf
<1>3. /\ Dynamic!BitsOf(K, <<"type", 2>>) = 0
      /\ Dynamic!BitsOf(K, <<"lengths", K>>) = 0
  BY DEF Dynamic!BitsOf
<1> QED
  BY <1>2, <1>3

\* The bits of an offset.
LEMMA BitsOfOffset ==
  ASSUME NEW K, NEW x, NEW y
  PROVE  Dynamic!BitsOf(K, <<"offset", x, y>>) = y
<1>1. <<"offset", x, y>>[1] = "offset" /\ <<"offset", x, y>>[3] = y
  OBVIOUS
<1> QED
  BY <1>1 DEF Dynamic!BitsOf

\* A code is pushed with its length, and read as its symbol.
LEMMA CodeThing ==
  ASSUME NEW K, AreLengths(K), NEW s \in DOMAIN K
  PROVE  LET c == <<"code", s>>
         IN /\ c \in Thing(K) /\ weight(K)[c] = K[s] /\ IsCode(c) /\ K[s] \in Nat
            /\ s < 288 => SymbolOf(2, "literal_length", c) = s
            /\ s >= 288 => SymbolOf(2, "distance", c) = s - 288
<1> DEFINE c == <<"code", s>>
<1>1. c \in Thing(K)
  BY Zenon DEF Thing
<1>2. c[1] = "code" /\ c[2] = s
  OBVIOUS
<1>3. s \in 0 .. 317 /\ K[s] \in Nat
  BY DEF AreLengths
<1>4. Dynamic!BitsOf(K, c) = K[s]
  BY BitsOfThings
<1>5. SymbolOf(2, "literal_length", c) =
        IF "literal_length" = "distance" /\ c[2] >= 288 THEN 0
        ELSE IF c[2] < 288 THEN c[2] % 288 ELSE NoSymbol
  BY <1>2, <1>3 DEF SymbolOf
<1>6. s >= 288 => SymbolOf(2, "distance", c) = c[2] % 288
  BY <1>2, <1>3 DEF SymbolOf
<1> HIDE DEF c
<1>7. weight(K)[c] = K[s]
  BY <1>1, <1>4, Zenon DEF weight
<1>8. s < 288 => s % 288 = s
  BY <1>3
<1>9. s >= 288 => s % 288 = s - 288
  BY <1>3
<1>10. IsCode(c)
  BY <1>2 DEF IsCode
<1>11. s < 288 => SymbolOf(2, "literal_length", c) = s
  BY <1>2, <1>5, <1>8
<1>12. s >= 288 => SymbolOf(2, "distance", c) = s - 288
  BY <1>2, <1>6, <1>9
<1> QED
  BY <1>1, <1>3, <1>7, <1>10, <1>11, <1>12 DEF c

\* The bits of what is held back are numbers.
LEMMA WeightNat ==
  ASSUME NEW K, AreLengths(K)
  PROVE  weight(K) \in [Thing(K) -> Nat]
<1> SUFFICES ASSUME NEW p \in Thing(K)
             PROVE  Dynamic!BitsOf(K, p) \in Nat
  BY Zenon DEF weight
<1>1. CASE p \in {"code"} \X DOMAIN K
  <2>1. PICK s \in DOMAIN K : p = <<"code", s>>
    BY <1>1
  <2>2. K[s] \in Nat
    BY DEF AreLengths
  <2>3. Dynamic!BitsOf(K, <<"code", s>>) = K[s]
    BY BitsOfThings
  <2> QED  BY <2>1, <2>2, <2>3, Zenon
<1>2. CASE p \in {"offset"} \X Nat \X Nat
  <2>1. PICK x \in Nat, y \in Nat : p = <<"offset", x, y>>
    BY <1>2
  <2>2. Dynamic!BitsOf(K, <<"offset", x, y>>) = y
    BY BitsOfOffset
  <2> QED  BY <2>1, <2>2, Zenon
<1>3. CASE p \in {<<"type", 2>>, <<"lengths", K>>}
  <2>1. 0 \in Nat
    OBVIOUS
  <2> QED  BY <1>3, <2>1, BitsOfThings, Zenon
<1> QED
  BY <1>1, <1>2, <1>3, Zenon DEF Thing

\* The offset of a length or of a distance.
LEMMA DynamicOffsetThing ==
  ASSUME NEW K, NEW s, s.bits \in Nat, s.num_bits \in 0 .. 13
  PROVE  \A o \in Range(OffsetOf(s)) : o \in Thing(K) /\ weight(K)[o] = s.num_bits
<1>1. \A o \in Range(OffsetOf(s)) : o \in FixedThing /\ third[o] = s.num_bits
  BY OffsetThing
<1> SUFFICES ASSUME NEW o \in Range(OffsetOf(s))
             PROVE  o \in Thing(K) /\ weight(K)[o] = s.num_bits
  OBVIOUS
<1>2. o[1] = "offset"
  <2>1. s.num_bits # 0
    <3>1. Range(<<>>) = {}
      BY DEF Range
    <3> QED  BY <3>1, Zenon DEF OffsetOf
  <2> DEFINE q == <<"offset", s.bits % 2 ^ s.num_bits, s.num_bits>>
  <2>2. OffsetOf(s) = <<q>>
    BY <2>1, Zenon DEF OffsetOf
  <2>3. q[1] = "offset"
    OBVIOUS
  <2> HIDE DEF q
  <2>4. Range(<<q>>) = {q}
    BY DEF Range
  <2> QED  BY <2>2, <2>3, <2>4, Zenon
<1>3. o \in FixedThing /\ third[o] = s.num_bits
  BY <1>1
<1>4. o[3] = s.num_bits
  BY <1>3, Zenon DEF third
<1>5. PICK x \in Nat, y \in Nat : o = <<o[1], x, y>>
  BY <1>3 DEF FixedThing
<1>6. o = <<"offset", x, y>>
  BY <1>2, <1>5, Zenon
<1>7. o[3] = y
  BY <1>6
<1>8. o \in Thing(K)
  BY <1>6, Zenon DEF Thing
<1>9. Dynamic!BitsOf(K, o) = y
  <2>1. Dynamic!BitsOf(K, <<"offset", x, y>>) = y
    BY BitsOfOffset
  <2> QED  BY <1>6, <2>1, Zenon
<1>10. weight(K)[o] = y
  BY <1>8, <1>9, Zenon DEF weight
<1> QED
  BY <1>4, <1>7, <1>8, <1>10, Zenon

-----------------------------------------------------------------------------
\* The bits of a match that is written as it is.
CodedMatch(K) == {m \in MatchTaken : Dynamic!Stands(m) \subseteq DOMAIN K}

stepweight(K) == [m \in CodedMatch(K) |-> Dynamic!StepBits(K, m)]

\* The bits of a step, written as it is.
LEMMA StepBitsIs ==
  ASSUME NEW K, AreLengths(K), NEW m \in CodedMatch(K)
  PROVE  /\ m \in MatchTaken
         /\ Dynamic!IsReference(m) =>
              LET s1 == FromLength(Len(m.literals))
                  s2 == FromDistance(m.distance)
              IN /\ s1.symbol \in DOMAIN K /\ s2.symbol + 288 \in DOMAIN K
                 /\ Dynamic!StepBits(K, m) =
                      K[s1.symbol] + s1.num_bits + K[s2.symbol + 288] + s2.num_bits
         /\ ~Dynamic!IsReference(m) =>
              /\ m.literals[1] \in DOMAIN K
              /\ Dynamic!StepBits(K, m) = K[m.literals[1]]
         /\ Dynamic!StepBits(K, m) \in Nat
<1>1. m \in MatchTaken /\ Dynamic!Stands(m) \subseteq DOMAIN K
  BY Zenon DEF CodedMatch
<1>z. Dynamic!num_literal_length_symbols = 288
  BY DEF Dynamic!num_literal_length_symbols
<1> DEFINE s1 == FromLength(Len(m.literals))
           s2 == FromDistance(m.distance)
           x2 == s2.symbol + 288
<1>2. ASSUME Dynamic!IsReference(m)
      PROVE  /\ s1.symbol \in DOMAIN K /\ x2 \in DOMAIN K
             /\ Dynamic!StepBits(K, m) =
                  K[s1.symbol] + s1.num_bits + K[x2] + s2.num_bits
             /\ Dynamic!StepBits(K, m) \in Nat
  <2>1. Dynamic!Stands(m) = {s1.symbol, x2}
    BY <1>1, <1>2, StandsIs
  <2>2. s1.symbol \in DOMAIN K /\ x2 \in DOMAIN K
    <3> HIDE DEF s1, x2
    <3> QED  BY <1>1, <2>1, Zenon
  <2>3. Dynamic!StepBits(K, m) = K[s1.symbol] + s1.num_bits + K[x2] + s2.num_bits
    <3> DEFINE z == 288
    <3>1. Dynamic!num_literal_length_symbols = z /\ x2 = s2.symbol + z
      BY <1>z
    <3> HIDE DEF z
    <3> QED  BY <1>2, <3>1, DynamicTables, Zenon DEF Dynamic!StepBits
  <2>4. s1.num_bits \in 0 .. 13 /\ s2.num_bits \in 0 .. 13
    <3> DEFINE n == Len(m.literals)
    <3>1. n \in 3 .. 258 /\ m.distance \in Distance
      BY <1>1, <1>2, DynamicMatch, SMTT(30)
    <3> HIDE DEF n
    <3>2. FromLength(n).num_bits \in 0 .. 13 /\ FromDistance(m.distance).num_bits \in 0 .. 13
      BY <3>1, FromLengthReads, FromDistanceReads
    <3> QED  BY <3>2 DEF n
  <2>5. K[s1.symbol] \in Nat /\ K[x2] \in Nat
    BY <2>2 DEF AreLengths
  <2> DEFINE k1 == K[s1.symbol]
             k2 == K[x2]
             n1 == s1.num_bits
             n2 == s2.num_bits
  <2>6. k1 + n1 + k2 + n2 \in Nat
    <3>1. k1 \in Nat /\ k2 \in Nat /\ n1 \in 0 .. 13 /\ n2 \in 0 .. 13
      BY <2>4, <2>5
    <3> HIDE DEF k1, k2, n1, n2
    <3> QED  BY <3>1
  <2> QED  BY <2>2, <2>3, <2>6
<1>3. ASSUME ~Dynamic!IsReference(m)
      PROVE  /\ m.literals[1] \in DOMAIN K
             /\ Dynamic!StepBits(K, m) = K[m.literals[1]]
             /\ Dynamic!StepBits(K, m) \in Nat
  <2>1. Dynamic!Stands(m) = {m.literals[1]} /\ Head(m.literals) = m.literals[1]
    BY <1>1, <1>3, StandsIs, DynamicMatch
  <2>2. m.literals[1] \in DOMAIN K
    BY <1>1, <2>1, Zenon
  <2>3. Dynamic!StepBits(K, m) = K[m.literals[1]]
    BY <1>3, <2>1, Zenon DEF Dynamic!StepBits
  <2>4. K[m.literals[1]] \in Nat
    BY <2>2 DEF AreLengths
  <2> QED  BY <2>2, <2>3, <2>4
<1> QED
  BY <1>1, <1>2, <1>3

\* They are a number.
LEMMA StepWeightNat ==
  ASSUME NEW K, AreLengths(K)
  PROVE  stepweight(K) \in [CodedMatch(K) -> Nat]
<1>1. \A m \in CodedMatch(K) : Dynamic!StepBits(K, m) \in Nat
  BY StepBitsIs
<1> QED
  BY <1>1, Zenon DEF stepweight

-----------------------------------------------------------------------------
(***************************************************************************)
(* Block type 2: the entries of a match.                                   *)
(***************************************************************************)
\* Two entries of a sequence.
LEMMA TwoEntries ==
  ASSUME NEW P, NEW B \in Seq(P), NEW i \in Nat \ {0}, i + 1 <= Len(B)
  PROVE  SubSeq(B, i, i + 1)[1] = B[i] /\ SubSeq(B, i, i + 1)[2] = B[i + 1]
OBVIOUS

\* What flush_block finds at the entries of a match.
LEMMA MatchAt ==
  ASSUME block_ \in Seq(DynamicEntry), NEW m \in MatchTaken, Dynamic!IsReference(m),
         NEW a \in Nat, NEW b \in Nat, it = a + 1, b <= Len(block_),
         EntriesOf(block_, a, b, m)
  PROVE  LET s1 == FromLength(Len(m.literals))
             s2 == FromDistance(m.distance)
         IN /\ block_[it] = Dynamic!SymbolEntry(s1.symbol)
            /\ Dynamic!LengthEntries[1][2] = s1.symbol
            /\ Dynamic!LengthEntries[2] = Dynamic!OffsetEntry(s1)
            /\ Dynamic!DistanceEntries[1][2] = s2.symbol + 288
            /\ Dynamic!DistanceEntries[2] = Dynamic!OffsetEntry(s2)
            /\ Dynamic!MatchLength = Len(m.literals)
            /\ Dynamic!MatchLiterals = [k \in 1 .. Len(m.literals) |-> m.literals[k]]
            /\ b = a + 4 + Len(m.literals)
<1> DEFINE n == Len(m.literals)
           s1 == FromLength(n)
           s2 == FromDistance(m.distance)
           x2 == s2.symbol + 288
           L == Dynamic!LengthEntries
           D == Dynamic!DistanceEntries
<1>1. n \in 3 .. 258
  BY DynamicMatch, SMTT(30)
<1>2. /\ b = a + 4 + n
      /\ block_[a + 1] = Dynamic!SymbolEntry(s1.symbol)
      /\ block_[a + 2] = Dynamic!OffsetEntry(s1)
      /\ block_[a + 3] = Dynamic!SymbolEntry(x2)
      /\ block_[a + 4] = Dynamic!OffsetEntry(s2)
      /\ \A j \in 1 .. n : block_[a + 4 + j] = Dynamic!SymbolEntry(m.literals[j])
  BY DEF EntriesOf
<1>3. ToLength(s1.symbol, s1.bits) = n
  BY <1>1, FromLengthReads
<1> HIDE DEF n, s1, s2, x2
<1>4. /\ L = SubSeq(block_, it, it + 1) /\ D = SubSeq(block_, it + 2, it + 2 + 1)
      /\ it \in Nat \ {0} /\ it + 2 \in Nat \ {0}
      /\ it + 1 <= Len(block_) /\ it + 2 + 1 <= Len(block_)
  <2>1. it + 2 + 1 = it + 3
    BY <1>1
  <2>2. /\ it \in Nat \ {0} /\ it + 2 \in Nat \ {0}
        /\ it + 1 <= Len(block_) /\ it + 2 + 1 <= Len(block_)
    BY <1>1, <1>2
  <2> QED  BY <2>1, <2>2 DEF Dynamic!LengthEntries, Dynamic!DistanceEntries
<1> HIDE DEF L, D
<1>5. /\ L[1] = block_[it] /\ L[2] = block_[it + 1]
      /\ D[1] = block_[it + 2] /\ D[2] = block_[it + 2 + 1]
  <2>1. /\ SubSeq(block_, it, it + 1)[1] = block_[it]
        /\ SubSeq(block_, it, it + 1)[2] = block_[it + 1]
    BY <1>4, TwoEntries
  <2>2. /\ SubSeq(block_, it + 2, it + 2 + 1)[1] = block_[it + 2]
        /\ SubSeq(block_, it + 2, it + 2 + 1)[2] = block_[it + 2 + 1]
    BY <1>4, TwoEntries
  <2> QED  BY <1>4, <2>1, <2>2, Zenon
<1>6. it + 1 = a + 2 /\ it + 2 = a + 3 /\ it + 2 + 1 = a + 4
  OBVIOUS
<1>7. /\ L[1] = Dynamic!SymbolEntry(s1.symbol) /\ L[2] = Dynamic!OffsetEntry(s1)
      /\ D[1] = Dynamic!SymbolEntry(x2) /\ D[2] = Dynamic!OffsetEntry(s2)
      /\ block_[it] = Dynamic!SymbolEntry(s1.symbol)
  BY <1>2, <1>5, <1>6, Zenon
<1>8. \A s : Dynamic!SymbolEntry(s)[2] = s
  BY DEF Dynamic!SymbolEntry
<1>9. \A s : Dynamic!OffsetEntry(s)[2] = s.bits
  BY DEF Dynamic!OffsetEntry
<1>10. L[1][2] = s1.symbol /\ L[2][2] = s1.bits /\ D[1][2] = x2
  BY <1>7, <1>8, <1>9, Zenon
<1>11. Dynamic!MatchLength = n
  BY <1>3, <1>10, DynamicTables, Zenon DEF Dynamic!MatchLength, L
<1>12. Dynamic!MatchLiterals = [k \in 1 .. n |-> m.literals[k]]
  <2>1. ASSUME NEW k \in 1 .. n
        PROVE  block_[it + 3 + k][2] = m.literals[k]
    <3>1. it + 3 + k = a + 4 + k
      BY <1>1
    <3> QED  BY <1>2, <1>8, <3>1, Zenon
  <2>2. Dynamic!MatchLiterals = [k \in 1 .. n |-> block_[it + 3 + k][2]]
    BY <1>11, Zenon DEF Dynamic!MatchLiterals
  <2> QED  BY <2>1, <2>2, Zenon
<1> QED
  BY <1>2, <1>7, <1>10, <1>11, <1>12, Zenon DEF L, D, x2, s1, s2, n

-----------------------------------------------------------------------------
\* The codes of literals are pushed one behind the other.
Pushes(f, n, literals) ==
  f[0] = <<>> /\ \A k \in 1 .. n : f[k] = f[k - 1] \o << <<"code", literals[k]>> >>

PushedAre(f, n, literals) ==
  Pushes(f, n, literals) /\ Dynamic!PushedLiterals = f[n]

\* The codes of literals are made one behind the other.
LEMMA PushedStates ==
  ASSUME NEW n \in Nat, Dynamic!MatchLength = n, NEW literals,
         \A k \in 1 .. n :
           Dynamic!Code(Dynamic!MatchLiterals[k]) = << <<"code", literals[k]>> >>
  PROVE  \E f : PushedAre(f, n, literals)
<1>e. \E f : f = [k \in 0 .. n |-> IF k = 0 THEN <<>> ELSE f[k - 1] \o Dynamic!Code(Dynamic!MatchLiterals[k])]
  <2> DEFINE S == {l \in Nat : \E f : f = [k \in 0 .. l |-> IF k = 0 THEN <<>> ELSE f[k - 1] \o Dynamic!Code(Dynamic!MatchLiterals[k])]}
  <2>1. 0 \in S
    <3>1. [k \in 0 .. 0 |-> <<>>] =
            [k \in 0 .. 0 |-> IF k = 0 THEN <<>>
                             ELSE [j \in 0 .. 0 |-> <<>>][k - 1] \o Dynamic!Code(Dynamic!MatchLiterals[k])]
      OBVIOUS
    <3> QED  BY <3>1
  <2>2. ASSUME NEW l \in Nat, l \in S
        PROVE  l + 1 \in S
    <3>1. PICK f : f = [k \in 0 .. l |-> IF k = 0 THEN <<>> ELSE f[k - 1] \o Dynamic!Code(Dynamic!MatchLiterals[k])]
      BY <2>2
    <3> DEFINE longer == [k \in 0 .. l + 1 |-> IF k = 0 THEN <<>> ELSE f[k - 1] \o Dynamic!Code(Dynamic!MatchLiterals[k])]
               again == [k \in 0 .. l + 1 |-> IF k = 0 THEN <<>> ELSE longer[k - 1] \o Dynamic!Code(Dynamic!MatchLiterals[k])]
    <3>2. \A k \in 0 .. l : longer[k] = f[k]
      BY <3>1
    <3>3. \A k \in 0 .. l + 1 : k = 0 \/ k - 1 \in 0 .. l
      OBVIOUS
    <3>4. \A k \in 0 .. l + 1 : k = 0 \/ longer[k - 1] = f[k - 1]
      BY <3>2, <3>3, Zenon
    <3>5. \A k \in 0 .. l + 1 : longer[k] = again[k]
      BY <3>4
    <3>6. longer = [k \in 0 .. l + 1 |-> IF k = 0 THEN <<>> ELSE longer[k - 1] \o Dynamic!Code(Dynamic!MatchLiterals[k])]
      BY <3>5, Zenon
    <3> HIDE DEF longer
    <3>7. \E g : g = [k \in 0 .. l + 1 |-> IF k = 0 THEN <<>> ELSE g[k - 1] \o Dynamic!Code(Dynamic!MatchLiterals[k])]
      BY <3>6, Zenon
    <3>8. l + 1 \in Nat
      OBVIOUS
    <3> QED  BY <3>7, <3>8, Zenon
  <2>3. n \in S
    <3> HIDE DEF S
    <3> QED  BY <2>1, <2>2, Induct
  <2> QED
    BY <2>3
<1> DEFINE f == CHOOSE g : g = [k \in 0 .. n |->
                  IF k = 0 THEN <<>> ELSE g[k - 1] \o Dynamic!Code(Dynamic!MatchLiterals[k])]
<1>1. f = [k \in 0 .. n |-> IF k = 0 THEN <<>> ELSE f[k - 1] \o Dynamic!Code(Dynamic!MatchLiterals[k])]
  BY <1>e, Zenon
<1>2. Dynamic!PushedLiterals = f[n]
  BY Zenon DEF Dynamic!PushedLiterals
<1> HIDE DEF f
<1>3. 0 \in 0 .. n /\ \A k \in 1 .. n : k \in 0 .. n /\ k # 0
  OBVIOUS
<1>4. Pushes(f, n, literals)
  BY <1>1, <1>3, Zenon DEF Pushes
<1> QED
  BY <1>2, <1>4, Zenon DEF PushedAre

-----------------------------------------------------------------------------
(***************************************************************************)
(* Block type 2: the literals of a match, read in its place.               *)
(***************************************************************************)
\* g is the codes of the first k literals, and is read as them.
LiteralsRead(K, body, g, literals, k) ==
  /\ g \in Seq(Thing(K)) /\ Len(g) = k
  /\ \A j \in 1 .. k : g[j] = <<"code", literals[j]>>
  /\ LET old == Read(2, body).items
         e == Read(2, body \o g)
     IN /\ e \in Decoder /\ e.expects = "literal_length"
        /\ Len(e.items) = Len(old) + k
        /\ \A j \in 1 .. Len(old) : e.items[j] = old[j]
        /\ \A j \in 1 .. k : e.items[Len(old) + j] = <<literals[j]>>

\* What is behind a sequence when one more is appended.
LEMMA OneMore ==
  ASSUME NEW P, NEW s \in Seq(P), NEW p \in P
  PROVE  /\ Append(s, p) \in Seq(P) /\ Len(Append(s, p)) = Len(s) + 1
         /\ Append(s, p)[Len(s) + 1] = p
         /\ \A j \in 1 .. Len(s) : Append(s, p)[j] = s[j]
OBVIOUS

\* One literal more.
LEMMA LiteralsReadMore ==
  ASSUME NEW K, AreLengths(K), NEW body \in Seq(Thing(K)), NEW g, NEW literals,
         NEW k \in Nat, LiteralsRead(K, body, g, literals, k),
         Read(2, body) \in Decoder,
         NEW x \in 0 .. 255, x = literals[k + 1], x \in DOMAIN K
  PROVE  LiteralsRead(K, body, g \o << <<"code", x>> >>, literals, k + 1)
<1> DEFINE c == <<"code", x>>
           old == Read(2, body).items
           e == Read(2, body \o g)
           h == Append(g, c)
           r == Read(2, body \o h)
           n == Len(old)
<1>x. \A y \in 0 .. 255 : y \in Nat /\ y < 288
  OBVIOUS
<1>1. /\ g \in Seq(Thing(K)) /\ Len(g) = k
      /\ \A j \in 1 .. k : g[j] = <<"code", literals[j]>>
      /\ e \in Decoder /\ e.expects = "literal_length"
      /\ Len(e.items) = n + k
      /\ \A j \in 1 .. n : e.items[j] = old[j]
      /\ \A j \in 1 .. k : e.items[n + j] = <<literals[j]>>
  BY Zenon DEF LiteralsRead
<1>2. c \in Thing(K) /\ IsCode(c) /\ SymbolOf(2, "literal_length", c) = x
  <2>1. x < 288
    BY <1>x, Zenon
  <2> QED  BY <2>1, CodeThing
<1>3. old \in Seq(Item) /\ n \in Nat
  <2>1. old \in Seq(Item)
    BY Zenon DEF Decoder
  <2> HIDE DEF old
  <2> QED  BY <2>1
<1> HIDE DEF c, old, n
<1>4. /\ h \in Seq(Thing(K)) /\ Len(h) = k + 1 /\ h[k + 1] = c
      /\ \A j \in 1 .. k : h[j] = g[j]
      /\ g \o <<c>> = h
  <2>1. /\ Append(g, c) \in Seq(Thing(K)) /\ Len(Append(g, c)) = Len(g) + 1
        /\ Append(g, c)[Len(g) + 1] = c
        /\ \A j \in 1 .. Len(g) : Append(g, c)[j] = g[j]
    BY <1>1, <1>2, OneMore
  <2>2. Append(g, c) = g \o <<c>>
    BY <1>1, <1>2, AppendIsConcat
  <2> QED  BY <1>1, <2>1, <2>2, Zenon
<1>5. body \o h = Append(body \o g, c) /\ body \o g \in Seq(Thing(K))
  <2>1. <<c>> \in Seq(Thing(K)) /\ body \o g \in Seq(Thing(K))
    BY <1>1, <1>2
  <2>2. (body \o g) \o <<c>> = body \o (g \o <<c>>)
    BY <1>1, <2>1, ConcatAssociative
  <2>3. Append(body \o g, c) = (body \o g) \o <<c>>
    <3> DEFINE b == body \o g
    <3> HIDE DEF b
    <3>1. b \in Seq(Thing(K))
      BY <2>1 DEF b
    <3>2. Append(b, c) = b \o <<c>>
      BY <1>2, <3>1, AppendIsConcat
    <3> QED  BY <3>2 DEF b
  <2> QED  BY <1>4, <2>1, <2>2, <2>3, Zenon
<1>6. r = ReadSymbol(e, SymbolOf(2, e.expects, c))
  <2>1. Read(2, Append(body \o g, c)) =
          ReadSymbol(Read(2, body \o g), SymbolOf(2, Read(2, body \o g).expects, c))
    <3> DEFINE b == body \o g
    <3>1. b \in Seq(Thing(K))
      BY <1>5
    <3> HIDE DEF b
    <3>2. Read(2, Append(b, c)) =
            ReadSymbol(Read(2, b), SymbolOf(2, Read(2, b).expects, c))
      BY <1>2, <3>1, ReadCode
    <3> QED  BY <3>2 DEF b
  <2> QED  BY <1>5, <2>1, Zenon
<1> HIDE DEF e, h, r
<1>7. r = ReadSymbol(e, x)
  BY <1>1, <1>2, <1>6, Zenon
<1>8. /\ r \in Decoder /\ r.expects = "literal_length"
      /\ r.items = Append(e.items, <<x>>)
  BY <1>1, <1>7, ReadsLiteral
<1> DEFINE new == r.items
           mid == e.items
<1>9. mid \in Seq(Item) /\ <<x>> \in Item
  <2>1. mid \in Seq(Item)
    BY <1>1, Zenon DEF Decoder
  <2>2. x \in Nat
    BY <1>x, Zenon
  <2>3. <<x>> \in Item
    BY <2>2 DEF Item
  <2> QED  BY <2>1, <2>3
<1>10. /\ Len(new) = Len(mid) + 1 /\ new[Len(mid) + 1] = <<x>>
       /\ \A j \in 1 .. Len(mid) : new[j] = mid[j]
  <2>1. new = Append(mid, <<x>>)
    BY <1>8
  <2> HIDE DEF new, mid
  <2>2. /\ Len(Append(mid, <<x>>)) = Len(mid) + 1
        /\ Append(mid, <<x>>)[Len(mid) + 1] = <<x>>
        /\ \A j \in 1 .. Len(mid) : Append(mid, <<x>>)[j] = mid[j]
    BY <1>9, OneMore
  <2> QED  BY <2>1, <2>2, Zenon
<1> HIDE DEF new, mid
<1>11. /\ Len(mid) = n + k
       /\ \A j \in 1 .. n : mid[j] = old[j]
       /\ \A j \in 1 .. k : mid[n + j] = <<literals[j]>>
  BY <1>1 DEF mid
<1>12. /\ \A j \in 1 .. n : j \in 1 .. n + k
       /\ \A j \in 1 .. k : n + j \in 1 .. n + k
       /\ \A j \in 1 .. k + 1 : j \in 1 .. k \/ j = k + 1
       /\ (n + k) + 1 = n + (k + 1)
  BY <1>3
<1>13. Len(new) = n + (k + 1) /\ \A j \in 1 .. n : new[j] = old[j]
  BY <1>10, <1>11, <1>12, Zenon
<1>14. \A j \in 1 .. k + 1 : new[n + j] = <<literals[j]>>
  BY <1>10, <1>11, <1>12, Zenon
<1>15. \A j \in 1 .. k + 1 : h[j] = <<"code", literals[j]>>
  BY <1>1, <1>4, <1>12, Zenon DEF c
<1>16. LiteralsRead(K, body, h, literals, k + 1)
  BY <1>4, <1>8, <1>13, <1>14, <1>15, Zenon DEF LiteralsRead, r, new, old, n
<1> QED
  BY <1>4, <1>16, Zenon DEF c

\* The literals of a match are read as a step of the block.
LEMMA PushedReads ==
  ASSUME NEW K, AreLengths(K), NEW m \in MatchTaken,
         NEW f, Pushes(f, Len(m.literals), m.literals),
         \A k \in 1 .. Len(m.literals) : m.literals[k] \in DOMAIN K,
         NEW body \in Seq(Thing(K)), NEW ts \in Seq(MatchTaken), HasRead(2, body, ts)
  PROVE  LET n == Len(m.literals)
         IN /\ f[n] \in Seq(Thing(K)) /\ Len(f[n]) = n
            /\ \A j \in 1 .. n : f[n][j] = <<"code", m.literals[j]>>
            /\ HasRead(2, body \o f[n], Append(ts, m))
<1> DEFINE l == m.literals
           n == Len(l)
           d == Read(2, body)
           old == d.items
<1>1. l \in Seq(0 .. 255) /\ n \in 1 .. 258
  BY MatchTakenIs
<1>2. \A k \in 1 .. n : l[k] \in 0 .. 255 /\ l[k] \in DOMAIN K
  BY <1>1, ElementOfSeq
<1>3. d \in Decoder /\ d.expects = "literal_length" /\ Splits(old, ts)
  BY DEF HasRead
<1>4. old \in Seq(Item)
  BY <1>3, Zenon DEF Decoder
<1>5. f[0] = <<>> /\ \A k \in 1 .. n : f[k] = f[k - 1] \o << <<"code", l[k]>> >>
  BY Zenon DEF Pushes
<1> DEFINE S == {k \in Nat : k <= n => LiteralsRead(K, body, f[k], l, k)}
<1> HIDE DEF l, n
<1>6. 0 \in S
  <2>1. /\ <<>> \in Seq(Thing(K)) /\ Len(<<>>) = 0 /\ body \o <<>> = body
        /\ \A j : j \notin 1 .. 0
    OBVIOUS
  <2>2. Len(old) + 0 = Len(old)
    <3> HIDE DEF old
    <3> QED  BY <1>4
  <2>3. LiteralsRead(K, body, <<>>, l, 0)
    BY <1>3, <2>1, <2>2, Zenon DEF LiteralsRead
  <2> QED  BY <1>5, <2>3, Zenon, 0 \in Nat
<1>7. ASSUME NEW k \in Nat, k \in S
      PROVE  k + 1 \in S
  <2>1. SUFFICES ASSUME k + 1 <= n
                 PROVE  LiteralsRead(K, body, f[k + 1], l, k + 1)
    OBVIOUS
  <2>2. k + 1 \in 1 .. n /\ (k + 1) - 1 = k
    BY <1>1, <2>1
  <2>3. LiteralsRead(K, body, f[k], l, k)
    BY <1>1, <1>7, <2>1
  <2>4. l[k + 1] \in 0 .. 255 /\ l[k + 1] \in DOMAIN K
    BY <1>2, <2>2, Zenon
  <2>5. LiteralsRead(K, body, f[k] \o << <<"code", l[k + 1]>> >>, l, k + 1)
    BY <1>3, <2>3, <2>4, LiteralsReadMore
  <2>6. f[k + 1] = f[k] \o << <<"code", l[k + 1]>> >>
    BY <1>5, <2>2, Zenon
  <2> QED  BY <2>5, <2>6, Zenon
<1>8. n \in S
  <2>1. n \in Nat
    BY <1>1
  <2> HIDE DEF S
  <2> QED  BY <1>6, <1>7, <2>1, Induct
<1>9. LiteralsRead(K, body, f[n], l, n)
  BY <1>1, <1>8
<1> DEFINE g == f[n]
           e == Read(2, body \o g)
           new == e.items
<1> HIDE DEF g, old, d
<1>10. /\ g \in Seq(Thing(K)) /\ Len(g) = n
       /\ \A j \in 1 .. n : g[j] = <<"code", l[j]>>
       /\ e \in Decoder /\ e.expects = "literal_length"
       /\ Len(new) = Len(old) + n
       /\ \A j \in 1 .. Len(old) : new[j] = old[j]
       /\ \A j \in 1 .. n : new[Len(old) + j] = <<l[j]>>
  BY <1>9, Zenon DEF LiteralsRead, g, old, d
<1>11. new \in Seq(Item)
  BY <1>10, Zenon DEF Decoder
<1> HIDE DEF e, new
<1>12. Between(new, Len(old), Len(new), m)
  BY <1>10, Zenon DEF Between, n, l
<1>13. Splits(new, Append(ts, m))
  <2>1. \A k \in 1 .. Len(ts) : Readable(ts[k])
    BY MatchTakenReadable
  <2>2. Readable(m)
    <3>1. <<m>> \in Seq(MatchTaken) /\ Len(<<m>>) = 1 /\ <<m>>[1] = m /\ 1 \in 1 .. 1
      OBVIOUS
    <3> QED  BY <3>1, MatchTakenReadable, Zenon
  <2>3. Len(old) \in Nat
    BY <1>4
  <2>4. Len(new) >= Len(old)
    BY <1>1, <1>10, <2>3
  <2> QED  BY <1>3, <1>4, <1>10, <1>11, <1>12, <2>1, <2>2, <2>4, SplitsMore
<1>14. HasRead(2, body \o g, Append(ts, m))
  BY <1>10, <1>13, Zenon DEF HasRead, new, e
<1> QED
  BY <1>10, <1>14, Zenon DEF g, l, n

-----------------------------------------------------------------------------
(***************************************************************************)
(* Block type 2: the steps that are written.                               *)
(***************************************************************************)
\* What is held back is read as these steps, and has no more bits than they
\* have with every match written as a match.
Written(K, body, ts) ==
  /\ body \in Seq(Thing(K)) /\ ts \in Seq(CodedMatch(K)) /\ ts \in Seq(MatchTaken)
  /\ HasRead(2, body, ts)
  /\ Total(weight(K), body) <= Total(stepweight(K), ts)

\* One step more, in no more bits than it has as it is.
LEMMA WrittenMore ==
  ASSUME NEW K, AreLengths(K), NEW body, NEW ts, Written(K, body, ts),
         NEW m \in CodedMatch(K), NEW r \in Seq(Thing(K)),
         HasRead(2, body \o r, Append(ts, m)),
         Total(weight(K), r) <= Dynamic!StepBits(K, m)
  PROVE  Written(K, body \o r, Append(ts, m))
<1>1. /\ body \in Seq(Thing(K)) /\ ts \in Seq(CodedMatch(K)) /\ ts \in Seq(MatchTaken)
      /\ Total(weight(K), body) <= Total(stepweight(K), ts)
  BY DEF Written
<1>2. m \in MatchTaken /\ Dynamic!StepBits(K, m) \in Nat
  BY StepBitsIs
<1>3. weight(K) \in [Thing(K) -> Nat] /\ stepweight(K) \in [CodedMatch(K) -> Nat]
  BY WeightNat, StepWeightNat
<1>4. /\ body \o r \in Seq(Thing(K))
      /\ Total(weight(K), body \o r) = Total(weight(K), body) + Total(weight(K), r)
  BY <1>1, <1>3, TotalBehind
<1>5. /\ Append(ts, m) \in Seq(CodedMatch(K))
      /\ Total(stepweight(K), Append(ts, m)) = Total(stepweight(K), ts) + stepweight(K)[m]
  <2> DEFINE w == stepweight(K)
             P == CodedMatch(K)
  <2>1. w \in [P -> Nat] /\ ts \in Seq(P) /\ m \in P
    BY <1>1, <1>3
  <2> HIDE DEF w, P
  <2>2. Append(ts, m) \in Seq(P) /\ Total(w, Append(ts, m)) = Total(w, ts) + w[m]
    BY <2>1, TotalAppend
  <2> QED  BY <2>2 DEF w, P
<1>6. Append(ts, m) \in Seq(MatchTaken)
  BY <1>1, <1>2, OneMore
<1>7. stepweight(K)[m] = Dynamic!StepBits(K, m)
  BY Zenon DEF stepweight
<1>8. /\ Total(weight(K), body) \in Nat /\ Total(weight(K), r) \in Nat
      /\ Total(stepweight(K), ts) \in Nat
  BY <1>1, <1>3, TotalNat
<1> DEFINE a == Total(weight(K), body)
           b == Total(weight(K), r)
           c == Total(stepweight(K), ts)
           d == Dynamic!StepBits(K, m)
<1>9. a \in Nat /\ b \in Nat /\ c \in Nat /\ d \in Nat /\ a <= c /\ b <= d
  BY <1>1, <1>2, <1>8
<1>10. /\ Total(weight(K), body \o r) = a + b
       /\ Total(stepweight(K), Append(ts, m)) = c + d
  BY <1>4, <1>5, <1>7, Zenon
<1> HIDE DEF a, b, c, d
<1>11. a + b <= c + d
  BY <1>9
<1>12. Total(weight(K), body \o r) <= Total(stepweight(K), Append(ts, m))
  BY <1>10, <1>11, Zenon
<1> QED
  BY <1>4, <1>5, <1>6, <1>12, Zenon DEF Written

\* A literal with a code.
LEMMA WritesLiteral ==
  ASSUME NEW K, AreLengths(K), NEW body, NEW ts, Written(K, body, ts),
         NEW m \in CodedMatch(K), ~Dynamic!IsReference(m), Len(m.literals) = 1
  PROVE  Written(K, body \o << <<"code", m.literals[1]>> >>, Append(ts, m))
<1> DEFINE x == m.literals[1]
           c == <<"code", x>>
<1>1. m \in MatchTaken /\ x \in DOMAIN K /\ Dynamic!StepBits(K, m) = K[x]
  BY StepBitsIs
<1>2. x \in 0 .. 255
  BY <1>1, DynamicMatch
<1>3. \A y \in 0 .. 255 : y < 288
  OBVIOUS
<1> HIDE DEF x
<1>4. x < 288
  BY <1>2, <1>3, Zenon
<1>5. /\ c \in Thing(K) /\ IsCode(c) /\ SymbolOf(2, "literal_length", c) = x
      /\ weight(K)[c] = K[x] /\ K[x] \in Nat
  BY <1>1, <1>4, CodeThing
<1> HIDE DEF c
<1>6. /\ body \in Seq(Thing(K)) /\ ts \in Seq(MatchTaken) /\ HasRead(2, body, ts)
  BY DEF Written
<1>7. HasRead(2, Append(body, c), Append(ts, m))
  <2>1. SymbolOf(2, "literal_length", c) = m.literals[1]
    BY <1>5 DEF x
  <2> QED  BY <1>1, <1>5, <1>6, <2>1, HasReadLiteral
<1>8. Append(body, c) = body \o <<c>>
  BY <1>5, <1>6, AppendIsConcat
<1>9. weight(K) \in [Thing(K) -> Nat]
  BY WeightNat
<1>10. <<c>> \in Seq(Thing(K)) /\ Total(weight(K), <<c>>) = K[x]
  <2>1. <<c>> \in Seq(Thing(K)) /\ Total(weight(K), <<c>>) = weight(K)[c]
    BY <1>5, <1>9, TotalOne
  <2> QED  BY <1>5, <2>1, Zenon
<1>11. Total(weight(K), <<c>>) <= Dynamic!StepBits(K, m)
  BY <1>1, <1>5, <1>10
<1>12. Written(K, body \o <<c>>, Append(ts, m))
  BY <1>7, <1>8, <1>10, <1>11, WrittenMore
<1> QED
  BY <1>12, Zenon DEF c, x

\* A match as its length and distance.
LEMMA WritesReference ==
  ASSUME NEW K, AreLengths(K), NEW body, NEW ts, Written(K, body, ts),
         NEW m \in CodedMatch(K), Dynamic!IsReference(m),
         NEW s1, s1 = FromLength(Len(m.literals)),
         NEW s2, s2 = FromDistance(m.distance)
  PROVE  LET r == ReferenceWith(<<"code", s1.symbol>>, s1,
                                <<"code", s2.symbol + 288>>, s2)
         IN r \in Seq(Thing(K)) /\ Written(K, body \o r, Append(ts, m))
<1> DEFINE x2 == s2.symbol + 288
           c1 == <<"code", s1.symbol>>
           c2 == <<"code", x2>>
           r == ReferenceWith(c1, s1, c2, s2)
<1>1. /\ m \in MatchTaken /\ s1.symbol \in DOMAIN K /\ x2 \in DOMAIN K
      /\ Dynamic!StepBits(K, m) = K[s1.symbol] + s1.num_bits + K[x2] + s2.num_bits
  BY StepBitsIs
<1>2. Len(m.literals) \in 3 .. 258 /\ m.distance \in Distance /\ Len(m.literals) >= 3
  BY <1>1, DynamicMatch
<1>3. /\ s1.symbol \in 257 .. 285 /\ s1.bits \in Nat /\ s1.num_bits \in 0 .. 13
      /\ s2.symbol \in 0 .. 29 /\ s2.bits \in Nat /\ s2.num_bits \in 0 .. 13
  <2> DEFINE n == Len(m.literals)
  <2>1. n \in 3 .. 258
    BY <1>2
  <2> HIDE DEF n
  <2>2. Symbols(FromLength(n), FromDistance(m.distance))
    BY <1>2, <2>1, SymbolsExist
  <2>3. Symbols(s1, s2)
    BY <2>2 DEF n
  <2> QED  BY <2>3 DEF Symbols
<1>4. s1.symbol < 288 /\ x2 >= 288 /\ x2 - 288 = s2.symbol
  <2> DEFINE y1 == s1.symbol
             y2 == s2.symbol
  <2>1. y1 \in 257 .. 285 /\ y2 \in 0 .. 29
    BY <1>3
  <2> HIDE DEF y1, y2
  <2>2. x2 = y2 + 288
    BY DEF y2
  <2> HIDE DEF x2
  <2>3. y1 < 288 /\ x2 >= 288 /\ x2 - 288 = y2
    BY <2>1, <2>2
  <2> QED  BY <2>3 DEF y1, y2
<1>5. /\ c1 \in Thing(K) /\ IsCode(c1) /\ SymbolOf(2, "literal_length", c1) = s1.symbol
      /\ weight(K)[c1] = K[s1.symbol]
  BY <1>1, <1>4, CodeThing
<1> HIDE DEF x2
<1>6. /\ c2 \in Thing(K) /\ IsCode(c2) /\ SymbolOf(2, "distance", c2) = s2.symbol
      /\ weight(K)[c2] = K[x2]
  <2>1. /\ c2 \in Thing(K) /\ IsCode(c2) /\ SymbolOf(2, "distance", c2) = x2 - 288
        /\ weight(K)[c2] = K[x2]
    BY <1>1, <1>4, CodeThing
  <2> HIDE DEF c2
  <2> QED  BY <1>4, <2>1
<1> HIDE DEF c1, c2
<1>7. /\ \A o \in Range(OffsetOf(s1)) : o \in Thing(K) /\ weight(K)[o] = s1.num_bits
      /\ \A o \in Range(OffsetOf(s2)) : o \in Thing(K) /\ weight(K)[o] = s2.num_bits
  BY <1>3, DynamicOffsetThing
<1>8. /\ body \in Seq(Thing(K)) /\ ts \in Seq(MatchTaken) /\ HasRead(2, body, ts)
  BY DEF Written
<1>9. r \in Seq(Thing(K)) /\ HasRead(2, body \o r, Append(ts, m))
  BY <1>1, <1>2, <1>5, <1>6, <1>7, <1>8, HasReadReference
<1>10. weight(K) \in [Thing(K) -> Nat]
  BY WeightNat
<1>11. Total(weight(K), r) = weight(K)[c1] + s1.num_bits + weight(K)[c2] + s2.num_bits
  <2>1. s1.num_bits \in Nat /\ s2.num_bits \in Nat
    BY <1>3
  <2> QED  BY <1>5, <1>6, <1>7, <1>10, <2>1, TotalReference
<1> HIDE DEF r
<1>12. Total(weight(K), r) = Dynamic!StepBits(K, m)
  BY <1>1, <1>5, <1>6, <1>11, Zenon
<1>13. Total(weight(K), r) <= Dynamic!StepBits(K, m)
  <2>1. Total(weight(K), r) \in Nat
    BY <1>9, <1>10, TotalNat
  <2> QED  BY <1>12, <2>1
<1>14. Written(K, body \o r, Append(ts, m))
  BY <1>9, <1>13, WrittenMore
<1> QED
  BY <1>9, <1>14, Zenon DEF r, c1, c2, x2

-----------------------------------------------------------------------------
\* One match of flush_block: as it is, or as its literals.
LEMMA WritesMatch ==
  ASSUME block_ \in Seq(DynamicEntry), AreLengths(prefix_codes),
         NEW m \in CodedMatch(prefix_codes), Dynamic!IsReference(m),
         NEW a \in Nat, NEW b \in Nat, it = a + 1, b <= Len(block_),
         EntriesOf(block_, a, b, m),
         NEW body, NEW ts, Written(prefix_codes, body, ts)
  PROVE  /\ Dynamic!WrittenMatch \in Seq(Thing(prefix_codes))
         /\ Written(prefix_codes, body \o Dynamic!WrittenMatch, Append(ts, m))
         /\ it + 4 + Dynamic!MatchLength = b + 1
         /\ block_[it][1] = "symbol" /\ block_[it][2] > 256
<1> DEFINE K == prefix_codes
           l == m.literals
           n == Len(l)
           s1 == FromLength(n)
           s2 == FromDistance(m.distance)
           x2 == s2.symbol + 288
<1>1. /\ m \in MatchTaken /\ s1.symbol \in DOMAIN K /\ x2 \in DOMAIN K
      /\ Dynamic!StepBits(K, m) = K[s1.symbol] + s1.num_bits + K[x2] + s2.num_bits
  BY StepBitsIs
<1>2. /\ block_[it] = Dynamic!SymbolEntry(s1.symbol)
      /\ Dynamic!LengthEntries[1][2] = s1.symbol
      /\ Dynamic!LengthEntries[2] = Dynamic!OffsetEntry(s1)
      /\ Dynamic!DistanceEntries[1][2] = x2
      /\ Dynamic!DistanceEntries[2] = Dynamic!OffsetEntry(s2)
      /\ Dynamic!MatchLength = n
      /\ Dynamic!MatchLiterals = [k \in 1 .. n |-> l[k]]
      /\ b = a + 4 + n
  BY <1>1, MatchAt
<1>3. l \in Seq(0 .. 255) /\ n \in 1 .. 258 /\ s1.symbol \in 257 .. 285
  <2>1. l \in Seq(0 .. 255) /\ n \in 1 .. 258
    BY <1>1, MatchTakenIs
  <2>2. s1.symbol \in 257 .. 285
    BY <1>1, DynamicMatch
  <2> QED  BY <2>1, <2>2
<1> HIDE DEF l, n, s1, s2, x2
<1>4. it + 4 + Dynamic!MatchLength = b + 1
  BY <1>2, <1>3
<1>5. block_[it][1] = "symbol" /\ block_[it][2] > 256
  <2> DEFINE y == s1.symbol
  <2>0. y \in 257 .. 285
    BY <1>3
  <2> HIDE DEF y
  <2>1. y > 256
    BY <2>0
  <2>2. block_[it] = <<"symbol", y>>
    BY <1>2 DEF y, Dynamic!SymbolEntry
  <2> QED  BY <2>1, <2>2
<1>6. \A s \in DOMAIN K : /\ Dynamic!HasCode(s) /\ Dynamic!CodeLength(s) = K[s]
                          /\ Dynamic!Code(s) = << <<"code", s>> >>
  BY Zenon DEF Dynamic!HasCode, Dynamic!CodeLength, Dynamic!Code
<1>7. CASE Dynamic!LiteralsShorter
  <2>1. \A k \in 1 .. n : l[k] \in DOMAIN K
    <3>1. \A k \in DOMAIN Dynamic!MatchLiterals : Dynamic!MatchLiterals[k] \in DOMAIN K
      BY <1>7, Zenon DEF Dynamic!LiteralsShorter, Dynamic!HasCode
    <3>2. DOMAIN Dynamic!MatchLiterals = 1 .. n
      BY <1>2
    <3>3. \A k \in 1 .. n : Dynamic!MatchLiterals[k] = l[k]
      BY <1>2
    <3> QED  BY <3>1, <3>2, <3>3, Zenon
  <2>2. \A k \in 1 .. n :
          Dynamic!Code(Dynamic!MatchLiterals[k]) = << <<"code", l[k]>> >>
    <3>1. \A k \in 1 .. n : Dynamic!MatchLiterals[k] = l[k]
      BY <1>2
    <3> QED  BY <1>6, <2>1, <3>1, Zenon
  <2>3. PICK f : PushedAre(f, n, l)
    <3>1. n \in Nat
      BY <1>3
    <3> QED  BY <1>2, <2>2, <3>1, PushedStates
  <2>4. Pushes(f, n, l) /\ Dynamic!PushedLiterals = f[n]
    BY <2>3 DEF PushedAre
  <2>5. Dynamic!WrittenMatch = f[n]
    BY <1>7, <2>4, Zenon DEF Dynamic!WrittenMatch
  <2> DEFINE r == f[n]
  <2>6. /\ body \in Seq(Thing(K)) /\ ts \in Seq(MatchTaken) /\ HasRead(2, body, ts)
    BY DEF Written
  <2>7. /\ r \in Seq(Thing(K)) /\ Len(r) = n
        /\ \A j \in 1 .. n : r[j] = <<"code", l[j]>>
        /\ HasRead(2, body \o r, Append(ts, m))
    <3>1. Pushes(f, Len(m.literals), m.literals)
      BY <2>4 DEF n, l
    <3>2. \A k \in 1 .. Len(m.literals) : m.literals[k] \in DOMAIN K
      BY <2>1 DEF n, l
    <3>3. LET z == Len(m.literals)
          IN /\ f[z] \in Seq(Thing(K)) /\ Len(f[z]) = z
             /\ \A j \in 1 .. z : f[z][j] = <<"code", m.literals[j]>>
             /\ HasRead(2, body \o f[z], Append(ts, m))
      BY <1>1, <2>6, <3>1, <3>2, PushedReads
    <3> QED  BY <3>3 DEF n, l
  <2> HIDE DEF r
  <2> DEFINE g == [k \in DOMAIN Dynamic!MatchLiterals |->
                     Dynamic!CodeLength(Dynamic!MatchLiterals[k])]
             h == [k \in DOMAIN r |-> weight(K)[r[k]]]
  <2>8. g = h
    <3>1. DOMAIN r = 1 .. n
      BY <2>7, LenProperties
    <3>2. DOMAIN Dynamic!MatchLiterals = 1 .. n
      BY <1>2
    <3>3. \A k \in 1 .. n : Dynamic!MatchLiterals[k] = l[k]
      BY <1>2
    <3>4. \A k \in 1 .. n : Dynamic!CodeLength(Dynamic!MatchLiterals[k]) = K[l[k]]
      BY <1>6, <2>1, <3>3, Zenon
    <3>5. ASSUME NEW k \in 1 .. n
          PROVE  weight(K)[r[k]] = K[l[k]]
      <4>1. l[k] \in DOMAIN K
        BY <2>1
      <4>2. weight(K)[<<"code", l[k]>>] = K[l[k]]
        BY <4>1, CodeThing
      <4> QED  BY <2>7, <4>2, Zenon
    <3>6. \A k \in 1 .. n :
            Dynamic!CodeLength(Dynamic!MatchLiterals[k]) = weight(K)[r[k]]
      BY <3>4, <3>5, Zenon
    <3> QED  BY <3>1, <3>2, <3>6, Zenon
  <2>9. Total(weight(K), r) = Dynamic!LiteralBits
    <3>1. Dynamic!LiteralBits = Dynamic!SumFunction(g)
      BY Zenon DEF Dynamic!LiteralBits
    <3>2. Total(weight(K), r) = SumFunction(h)
      BY Zenon DEF Total
    <3> HIDE DEF g, h
    <3>3. Dynamic!SumFunction(g) = SumFunction(g)
      BY SameSum
    <3> QED  BY <2>8, <3>1, <3>2, <3>3, Zenon
  <2>10. Dynamic!BackReferenceBits = Dynamic!StepBits(K, m)
    <3>1. \A s : Dynamic!OffsetEntry(s)[3] = s.num_bits
      BY DEF Dynamic!OffsetEntry
    <3> QED  BY <1>1, <1>2, <1>6, <3>1, Zenon DEF Dynamic!BackReferenceBits
  <2>11. Total(weight(K), r) <= Dynamic!StepBits(K, m)
    <3>1. Total(weight(K), r) < Dynamic!StepBits(K, m)
      BY <1>7, <2>9, <2>10, Zenon DEF Dynamic!LiteralsShorter
    <3>2. Total(weight(K), r) \in Nat
      <4>1. weight(K) \in [Thing(K) -> Nat]
        BY WeightNat
      <4> QED  BY <2>7, <4>1, TotalNat
    <3>3. Dynamic!StepBits(K, m) \in Nat
      BY StepBitsIs
    <3> QED  BY <3>1, <3>2, <3>3
  <2>12. Written(K, body \o r, Append(ts, m))
    BY <2>7, <2>11, WrittenMore
  <2> QED  BY <1>4, <1>5, <2>5, <2>7, <2>12, Zenon DEF r
<1>8. CASE ~Dynamic!LiteralsShorter
  <2> DEFINE r == ReferenceWith(<<"code", s1.symbol>>, s1, <<"code", x2>>, s2)
  <2>1. \A s : Dynamic!Offset(Dynamic!OffsetEntry(s)) = OffsetOf(s)
    <3>1. \A s : /\ Dynamic!OffsetEntry(s)[2] = s.bits
                 /\ Dynamic!OffsetEntry(s)[3] = s.num_bits
      BY DEF Dynamic!OffsetEntry
    <3> QED  BY <3>1, Zenon DEF Dynamic!Offset, OffsetOf
  <2>2. Dynamic!WrittenMatch = r
    BY <1>1, <1>2, <1>6, <1>8, <2>1, Zenon DEF Dynamic!WrittenMatch, ReferenceWith
  <2>3. r \in Seq(Thing(K)) /\ Written(K, body \o r, Append(ts, m))
    <3>1. s1 = FromLength(Len(m.literals)) /\ s2 = FromDistance(m.distance)
      BY DEF s1, s2, n, l
    <3>2. LET q == ReferenceWith(<<"code", s1.symbol>>, s1,
                                 <<"code", s2.symbol + 288>>, s2)
          IN q \in Seq(Thing(K)) /\ Written(K, body \o q, Append(ts, m))
      BY <3>1, WritesReference
    <3> QED  BY <3>2 DEF x2
  <2> QED  BY <1>4, <1>5, <2>2, <2>3, Zenon
<1> QED
  BY <1>7, <1>8

-----------------------------------------------------------------------------
(***************************************************************************)
(* Block type 2: collecting and counting.                                  *)
(***************************************************************************)
\* The entries are those of the steps, and so are the counts.
Collecting(B, c, t) ==
  /\ B \in Seq(DynamicEntry) /\ t \in Seq(MatchTaken)
  /\ \E at : Laid(B, Len(B), t, at)
  /\ Counted(c, t, FALSE)

\* Nothing is collected at first.
LEMMA CollectingNothing == Collecting(<<>>, [s \in 0 .. 317 |-> 0], <<>>)
<1>1. <<>> \in Seq(DynamicEntry) /\ <<>> \in Seq(MatchTaken) /\ Len(<<>>) = 0
  OBVIOUS
<1>2. PICK at : Laid(<<>>, 0, <<>>, at)
  BY LaidNothing
<1>3. Laid(<<>>, Len(<<>>), <<>>, at)
  BY <1>1, <1>2, Zenon
<1>4. Counted([s \in 0 .. 317 |-> 0], <<>>, FALSE)
  BY CountedNothing
<1> DEFINE c == [s \in 0 .. 317 |-> 0]
<1> HIDE DEF c
<1>5. Counted(c, <<>>, FALSE)
  BY <1>4 DEF c
<1>6. Collecting(<<>>, c, <<>>)
  BY <1>1, <1>3, <1>5, Zenon DEF Collecting
<1> QED
  BY <1>6 DEF c

\* These symbols are counted once more.
OneMoreOf(d, c, S, X) == \A s \in S : d[s] = c[s] + Ones(s \in X)

\* One is counted, or two are.
LEMMA CountOne ==
  ASSUME NEW S, NEW c \in [S -> Nat], NEW x \in S,
         NEW d, d = [c EXCEPT ![x] = @ + 1]
  PROVE  d \in [S -> Nat] /\ OneMoreOf(d, c, S, {x})
<1>1. d = [s \in S |-> IF s = x THEN c[x] + 1 ELSE c[s]]
  OBVIOUS
<1>2. ASSUME NEW s \in S
      PROVE  d[s] = c[s] + Ones(s \in {x}) /\ d[s] \in Nat
  <2>1. d[s] = IF s = x THEN c[x] + 1 ELSE c[s]
    BY <1>1
  <2>2. c[s] \in Nat
    OBVIOUS
  <2> QED  BY <2>1, <2>2 DEF Ones
<1>3. d \in [S -> Nat]
  BY <1>1, <1>2
<1> QED
  BY <1>2, <1>3 DEF OneMoreOf

\* Two symbols are counted.
LEMMA CountTwo ==
  ASSUME NEW S, NEW c \in [S -> Nat], NEW x \in S, NEW y \in S, x # y,
         NEW d, d = [c EXCEPT ![x] = @ + 1, ![y] = @ + 1]
  PROVE  d \in [S -> Nat] /\ OneMoreOf(d, c, S, {x, y})
<1>1. d = [s \in S |-> IF s = y THEN c[y] + 1 ELSE IF s = x THEN c[x] + 1 ELSE c[s]]
  OBVIOUS
<1>2. ASSUME NEW s \in S
      PROVE  d[s] = c[s] + Ones(s \in {x, y}) /\ d[s] \in Nat
  <2>1. d[s] = IF s = y THEN c[y] + 1 ELSE IF s = x THEN c[x] + 1 ELSE c[s]
    BY <1>1
  <2>2. c[s] \in Nat
    OBVIOUS
  <2> QED  BY <2>1, <2>2 DEF Ones
<1>3. d \in [S -> Nat]
  BY <1>1, <1>2
<1> QED
  BY <1>2, <1>3 DEF OneMoreOf

\* push_back_reference collects and counts a match.
LEMMA CollectingReference ==
  ASSUME NEW B, NEW c, NEW t, Collecting(B, c, t),
         NEW m \in MatchTaken, Dynamic!IsReference(m), NEW C, NEW d,
         LET length == Dynamic!FromLength(Len(m.literals))
             distance == Dynamic!FromDistance(m.distance)
             distance_symbol == distance.symbol + Dynamic!num_literal_length_symbols
         IN /\ C = B
               \o <<Dynamic!SymbolEntry(length.symbol), Dynamic!OffsetEntry(length),
                    Dynamic!SymbolEntry(distance_symbol), Dynamic!OffsetEntry(distance)>>
               \o [k \in DOMAIN m.literals |-> Dynamic!SymbolEntry(m.literals[k])]
            /\ d = [c EXCEPT ![length.symbol] = @ + 1, ![distance_symbol] = @ + 1]
  PROVE  Collecting(C, d, Append(t, m))
<1>1. /\ B \in Seq(DynamicEntry) /\ t \in Seq(MatchTaken) /\ Counted(c, t, FALSE)
  BY DEF Collecting
<1>2. PICK at : Laid(B, Len(B), t, at)
  BY DEF Collecting
<1>3. /\ C \in Seq(DynamicEntry) /\ Len(C) = Len(B) + 4 + Len(m.literals)
      /\ Len(B) \in Nat /\ \A j \in 1 .. Len(B) : C[j] = B[j]
      /\ EntriesOf(C, Len(B), Len(C), m)
  BY <1>1, CollectsReference, Zenon
<1>4. Len(C) \in Nat /\ Len(B) <= Len(C)
  <2> DEFINE n == Len(m.literals)
  <2>1. n \in 3 .. 258
    BY DynamicMatch
  <2> HIDE DEF n
  <2>2. Len(C) = Len(B) + 4 + n
    BY <1>3 DEF n
  <2> QED  BY <1>3, <2>1, <2>2
<1>5. \E bt : Laid(C, Len(C), Append(t, m), bt)
  BY <1>1, <1>2, <1>3, <1>4, LaidMore
<1>6. Append(t, m) \in Seq(MatchTaken)
  BY <1>1
<1> DEFINE x1 == FromLength(Len(m.literals)).symbol
           x2 == FromDistance(m.distance).symbol + 288
<1>7. d = [c EXCEPT ![x1] = @ + 1, ![x2] = @ + 1]
  <2> DEFINE z == 288
  <2>1. Dynamic!num_literal_length_symbols = z
    BY DEF Dynamic!num_literal_length_symbols
  <2> HIDE DEF z
  <2>2. d = [c EXCEPT ![FromLength(Len(m.literals)).symbol] = @ + 1,
                      ![FromDistance(m.distance).symbol + z] = @ + 1]
    BY <2>1, DynamicTables, Zenon
  <2> QED  BY <2>2 DEF z
<1>8. x1 \in 257 .. 285 /\ x2 \in 288 .. 317 /\ Dynamic!Stands(m) = {x1, x2}
  <2>1. x1 \in 257 .. 285 /\ Dynamic!Stands(m) = {x1, x2}
    BY DynamicMatch, StandsIs
  <2> DEFINE y == FromDistance(m.distance).symbol
  <2>2. y \in 0 .. 29
    BY DynamicMatch
  <2> HIDE DEF y
  <2>3. y + 288 \in 288 .. 317
    BY <2>2
  <2> QED  BY <2>1, <2>3 DEF y
<1> HIDE DEF x1, x2
<1>9. c \in [0 .. 317 -> Nat]
  BY <1>1, Zenon DEF Counted
<1>s. x1 \in 0 .. 317 /\ x2 \in 0 .. 317 /\ x1 # x2
  BY <1>8
<1>10. d \in [0 .. 317 -> Nat] /\ OneMoreOf(d, c, 0 .. 317, {x1, x2})
  <2> DEFINE S == 0 .. 317
  <2>1. c \in [S -> Nat] /\ x1 \in S /\ x2 \in S
    BY <1>9, <1>s
  <2> HIDE DEF S
  <2>2. d \in [S -> Nat] /\ OneMoreOf(d, c, S, {x1, x2})
    BY <1>7, <1>s, <2>1, CountTwo, Zenon
  <2> QED  BY <2>2, Zenon DEF S
<1>11. \A s \in 0 .. 317 : d[s] = c[s] + Ones(s \in {x1, x2})
  BY <1>10, Zenon DEF OneMoreOf
<1>12. Counted(d, Append(t, m), FALSE)
  <2>1. \A s \in 0 .. 317 : d[s] = c[s] + Ones(s \in Dynamic!Stands(m))
    BY <1>8, <1>11, Zenon
  <2> QED  BY <1>1, <1>10, <2>1, CountedMore, Zenon
<1> QED
  BY <1>3, <1>5, <1>6, <1>12, Zenon DEF Collecting

\* push_symbol collects and counts a literal.
LEMMA CollectingLiteral ==
  ASSUME NEW B, NEW c, NEW t, Collecting(B, c, t), NEW m \in MatchTaken,
         NEW C, C = Append(B, Dynamic!SymbolEntry(Head(m.literals))),
         NEW d, d = [c EXCEPT ![Head(m.literals)] = @ + 1]
  PROVE  Collecting(C, d, Append(t, Dynamic!AsLiteral(m)))
<1> DEFINE a == Dynamic!AsLiteral(m)
           x == m.literals[1]
<1>1. /\ B \in Seq(DynamicEntry) /\ t \in Seq(MatchTaken) /\ Counted(c, t, FALSE)
  BY DEF Collecting
<1>2. PICK at : Laid(B, Len(B), t, at)
  BY DEF Collecting
<1>3. /\ a \in MatchTaken /\ a.literals = <<x>> /\ x \in 0 .. 255
      /\ Head(m.literals) = x
  BY AsLiteralTaken
<1> HIDE DEF a, x
<1>4. Len(a.literals) = 1 /\ a.literals[1] = x
  BY <1>3
<1>5. ~Dynamic!IsReference(a)
  <2>1. ~ (Len(a.literals) >= 3)
    BY <1>4
  <2> QED  BY <1>3, <2>1, DynamicMatch
<1>6. x \in 0 .. 317
  BY <1>3
<1>7. /\ C \in Seq(DynamicEntry) /\ Len(C) = Len(B) + 1 /\ Len(B) \in Nat
      /\ \A j \in 1 .. Len(B) : C[j] = B[j]
      /\ C[Len(B) + 1] = Dynamic!SymbolEntry(x)
  <2> DEFINE D == Append(B, Dynamic!SymbolEntry(x))
  <2>1. /\ D \in Seq(DynamicEntry) /\ Len(D) = Len(B) + 1 /\ Len(B) \in Nat
        /\ \A j \in 1 .. Len(B) : D[j] = B[j]
        /\ D[Len(B) + 1] = Dynamic!SymbolEntry(x)
    BY <1>1, <1>6, CollectsSymbol
  <2>2. C = D
    BY <1>3, Zenon
  <2> HIDE DEF D
  <2> QED  BY <2>1, <2>2, Zenon
<1>8. EntriesOf(C, Len(B), Len(C), a)
  BY <1>4, <1>5, <1>7, Zenon DEF EntriesOf
<1>9. \E bt : Laid(C, Len(C), Append(t, a), bt)
  <2>1. Len(C) \in Nat /\ Len(B) <= Len(C)
    BY <1>7
  <2> QED  BY <1>1, <1>2, <1>3, <1>7, <1>8, <2>1, LaidMore
<1>10. Append(t, a) \in Seq(MatchTaken)
  BY <1>1, <1>3
<1>11. d = [c EXCEPT ![x] = @ + 1] /\ Dynamic!Stands(a) = {x}
  BY <1>3, <1>4, <1>5, StandsIs, Zenon
<1>12. c \in [0 .. 317 -> Nat]
  BY <1>1, Zenon DEF Counted
<1>13. d \in [0 .. 317 -> Nat] /\ \A s \in 0 .. 317 : d[s] = c[s] + Ones(s \in {x})
  <2> DEFINE S == 0 .. 317
  <2>1. c \in [S -> Nat] /\ x \in S
    BY <1>6, <1>12
  <2> HIDE DEF S
  <2>2. d \in [S -> Nat] /\ OneMoreOf(d, c, S, {x})
    BY <1>11, <2>1, CountOne, Zenon
  <2> QED  BY <2>2, Zenon DEF S, OneMoreOf
<1>14. Counted(d, Append(t, a), FALSE)
  <2>1. \A s \in 0 .. 317 : d[s] = c[s] + Ones(s \in Dynamic!Stands(a))
    BY <1>11, <1>13, Zenon
  <2> QED  BY <1>1, <1>3, <1>13, <2>1, CountedMore, Zenon
<1> QED
  BY <1>7, <1>9, <1>10, <1>14, Zenon DEF Collecting, a

-----------------------------------------------------------------------------
\* The lengths of the codes for the symbols that are counted.
LiteralLengths == 0 .. Dynamic!num_literal_length_symbols - 1

MadeFrom(c, K) ==
  \E f \in Dynamic!CodesFor({s \in LiteralLengths : c[s] > 0}),
     g \in Dynamic!CodesFor({s \in Dynamic!Symbol \ LiteralLengths : c[s] > 0}) :
       K = [s \in DOMAIN f \cup DOMAIN g |-> IF s \in DOMAIN f THEN f[s] ELSE g[s]]

\* The codes of a block: every symbol that stands in it has one, and its end.
CodedFor(K, t) ==
  /\ AreLengths(K) /\ 256 \in DOMAIN K
  /\ t \in Seq(MatchTaken) /\ t \in Seq(CodedMatch(K))

\* The lengths of codes are numbers.
LEMMA CodesForNat ==
  ASSUME NEW U, NEW f \in Dynamic!CodesFor(U)
  PROVE  f \in [U -> Nat]
<1> DEFINE M == MaximumPrefixCodeLength
           Complete(g) == Dynamic!SumFunction([s \in U |-> 2 ^ (M - g[s])]) = 2 ^ M
           small == Dynamic!Cardinality(U) <= 1
<1>1. CASE small
  <2>1. f \in {[s \in U |-> 1]}
    BY <1>1, Zenon DEF Dynamic!CodesFor
  <2> QED  BY <2>1
<1>2. CASE ~small
  <2>1. f \in {g \in [U -> 1 .. M] : Complete(g)}
    BY <1>2, Zenon DEF Dynamic!CodesFor
  <2> HIDE DEF Complete
  <2>2. f \in [U -> 1 .. M]
    BY <2>1
  <2>3. M \in Nat
    BY BoundAssumption
  <2> QED  BY <2>2, <2>3
<1> QED
  BY <1>1, <1>2

\* Every symbol that stands in a block has a code, and so has its end.
LEMMA CodesOfBlock ==
  ASSUME NEW t \in Seq(MatchTaken), NEW c, Counted(c, t, TRUE), NEW K, MadeFrom(c, K)
  PROVE  CodedFor(K, t)
<1> DEFINE L == 0 .. 287
           U == {s \in L : c[s] > 0}
           V == {s \in (0 .. 317) \ L : c[s] > 0}
<1>1. PICK f \in Dynamic!CodesFor(U), g \in Dynamic!CodesFor(V) :
        K = [s \in DOMAIN f \cup DOMAIN g |-> IF s \in DOMAIN f THEN f[s] ELSE g[s]]
  <2>1. Dynamic!num_literal_length_symbols - 1 = 287
    BY DEF Dynamic!num_literal_length_symbols
  <2>2. Dynamic!Symbol = 0 .. 317 /\ 0 .. Dynamic!num_literal_length_symbols - 1 = L
    BY <2>1, SymbolIs
  <2> HIDE DEF L
  <2> QED  BY <2>2, Zenon DEF MadeFrom, LiteralLengths
<1>2. f \in [U -> Nat] /\ g \in [V -> Nat]
  BY <1>1, CodesForNat
<1>3. U \cup V = {s \in 0 .. 317 : c[s] > 0}
  OBVIOUS
<1> HIDE DEF U, V
<1>4. DOMAIN K = U \cup V /\ K \in [U \cup V -> Nat]
  <2>1. DOMAIN f = U /\ DOMAIN g = V
    BY <1>2
  <2>2. K = [s \in U \cup V |-> IF s \in U THEN f[s] ELSE g[s]]
    BY <1>1, <2>1, Zenon
  <2> QED  BY <1>2, <2>2
<1>5. AreLengths(K)
  BY <1>3, <1>4 DEF AreLengths
<1>6. /\ \A k \in 1 .. Len(t) : \A s \in Dynamic!Stands(t[k]) :
           s \in 0 .. 317 /\ c[s] > 0
      /\ c[256] > 0
  BY CountedStands
<1>7. 256 \in DOMAIN K
  BY <1>3, <1>4, <1>6
<1>8. \A k \in 1 .. Len(t) : t[k] \in CodedMatch(K)
  <2> TAKE k \in 1 .. Len(t)
  <2>1. t[k] \in MatchTaken
    BY ElementOfSeq
  <2>2. \A s \in Dynamic!Stands(t[k]) : s \in DOMAIN K
    BY <1>3, <1>4, <1>6
  <2> QED  BY <2>1, <2>2, Zenon DEF CodedMatch
<1>9. t \in Seq(CodedMatch(K))
  <2>1. t = [k \in 1 .. Len(t) |-> t[k]] /\ Len(t) \in Nat
    OBVIOUS
  <2> DEFINE P == CodedMatch(K)
             n == Len(t)
  <2> HIDE DEF P
  <2>2. \A k \in 1 .. n : t[k] \in P
    BY <1>8 DEF P
  <2> HIDE DEF n
  <2>3. n \in Nat /\ t = [k \in 1 .. n |-> t[k]]
    BY <2>1 DEF n
  <2>4. t \in Seq(P)
    <3>1. [k \in 1 .. n |-> t[k]] \in Seq(P)
      BY <2>2, <2>3
    <3> QED  BY <2>3, <3>1, Zenon
  <2> QED  BY <2>4 DEF P
<1> QED
  BY <1>5, <1>7, <1>9 DEF CodedFor

-----------------------------------------------------------------------------
(***************************************************************************)
(* Block type 2: flush_block.                                              *)
(***************************************************************************)
\* What is held back, behind the header, is read to its end as these steps.
Finished(K, body, t) ==
  /\ body \in Seq(Thing(K))
  /\ LET e == Read(2, body) IN e.expects = "end" /\ StandFor(e.items, t)
  /\ Total(weight(K), body) <= K[256] + Total(stepweight(K), t)

\* The end is written behind all steps.
LEMMA WritesEnd ==
  ASSUME NEW K, AreLengths(K), 256 \in DOMAIN K, NEW body, NEW t, Written(K, body, t)
  PROVE  Finished(K, body \o << <<"code", 256>> >>, t)
<1> DEFINE c == <<"code", 256>>
<1>1. /\ c \in Thing(K) /\ IsCode(c) /\ SymbolOf(2, "literal_length", c) = 256
      /\ weight(K)[c] = K[256] /\ K[256] \in Nat
  BY CodeThing
<1> HIDE DEF c
<1>2. /\ body \in Seq(Thing(K)) /\ t \in Seq(MatchTaken) /\ t \in Seq(CodedMatch(K))
      /\ HasRead(2, body, t) /\ Total(weight(K), body) <= Total(stepweight(K), t)
  BY DEF Written
<1> DEFINE s == Append(body, c)
           e == Read(2, s)
<1>3. e.expects = "end" /\ StandFor(e.items, t)
  BY <1>1, <1>2, ReadsToEnd
<1>4. weight(K) \in [Thing(K) -> Nat] /\ stepweight(K) \in [CodedMatch(K) -> Nat]
  BY WeightNat, StepWeightNat
<1>5. s \in Seq(Thing(K)) /\ Total(weight(K), s) = Total(weight(K), body) + weight(K)[c]
  <2> DEFINE w == weight(K)
             P == Thing(K)
  <2>1. w \in [P -> Nat] /\ body \in Seq(P) /\ c \in P
    BY <1>1, <1>2, <1>4
  <2> HIDE DEF w, P
  <2>2. s \in Seq(P) /\ Total(w, s) = Total(w, body) + w[c]
    BY <2>1, TotalAppend
  <2> QED  BY <2>2 DEF w, P
<1>6. Total(weight(K), body) \in Nat /\ Total(stepweight(K), t) \in Nat
  BY <1>2, <1>4, TotalNat
<1> HIDE DEF s, e
<1>7. Total(weight(K), s) <= K[256] + Total(stepweight(K), t)
  <2> DEFINE x == Total(weight(K), body)
             y == Total(stepweight(K), t)
             z == K[256]
  <2>1. x \in Nat /\ y \in Nat /\ z \in Nat /\ x <= y
    BY <1>1, <1>2, <1>6
  <2>2. Total(weight(K), s) = x + z
    BY <1>1, <1>5, Zenon
  <2> HIDE DEF x, y, z
  <2>3. x + z <= z + y
    BY <2>1
  <2>4. Total(weight(K), s) <= z + y
    BY <2>2, <2>3, Zenon
  <2> QED  BY <2>4 DEF z, y
<1>8. Finished(K, s, t)
  BY <1>3, <1>5, <1>7 DEF Finished, e
<1>9. s = body \o <<c>>
  BY <1>1, <1>2, AppendIsConcat DEF s
<1> QED
  BY <1>8, <1>9, Zenon DEF c

Heading(K) == << <<"type", 2>>, <<"lengths", K>> >>

\* The header stays in front of what is written.
LEMMA HeadingBehind ==
  ASSUME NEW K, NEW body \in Seq(Thing(K)), NEW r \in Seq(Thing(K))
  PROVE  (Heading(K) \o body) \o r = Heading(K) \o (body \o r)
<1>1. Heading(K) \in Seq(Thing(K))
  <2>1. <<"type", 2>> \in Thing(K) /\ <<"lengths", K>> \in Thing(K)
    BY Zenon DEF Thing
  <2> QED  BY <2>1 DEF Heading
<1> QED
  BY <1>1, ConcatAssociative

\* flush_block is at the entries of a step, at the end, or behind it.
FlushedTo(B, N, t, at, i, K, body) ==
  /\ B \in Seq(DynamicEntry) /\ Len(B) = N + 1
  /\ B[N + 1] = Dynamic!SymbolEntry(256)
  /\ Laid(B, N, t, at)
  /\ \/ \E k \in 0 .. Len(t) : i = at[k] + 1 /\ Written(K, body, SubSeq(t, 1, k))
     \/ i = N + 2 /\ Finished(K, body, t)

Flushing(B, t, i, K, b) ==
  \E N \in Nat : \E at, body :
    FlushedTo(B, N, t, at, i, K, body) /\ b = Heading(K) \o body

\* One step more of those that were taken.
LEMMA OneMoreStep ==
  ASSUME NEW P, NEW t \in Seq(P), NEW k \in 0 .. Len(t), k # Len(t)
  PROVE  /\ k + 1 \in 0 .. Len(t) /\ k + 1 \in 1 .. Len(t) /\ (k + 1) - 1 = k
         /\ SubSeq(t, 1, k + 1) = Append(SubSeq(t, 1, k), t[k + 1])
<1>1. Len(t) \in Nat
  OBVIOUS
<1> DEFINE u == SubSeq(t, 1, k)
           v == SubSeq(t, 1, k + 1)
           w == Append(u, t[k + 1])
<1>2. k + 1 \in 0 .. Len(t) /\ k + 1 \in 1 .. Len(t) /\ (k + 1) - 1 = k
  BY <1>1
<1>3. t[k + 1] \in P
  BY <1>2
<1>4. u \in Seq(P) /\ Len(u) = k /\ \A j \in 1 .. k : u[j] = t[j]
  BY <1>1
<1>5. v \in Seq(P) /\ Len(v) = k + 1 /\ \A j \in 1 .. k + 1 : v[j] = t[j]
  BY <1>1, <1>2
<1> HIDE DEF u, v
<1>6. w \in Seq(P) /\ Len(w) = k + 1 /\ \A j \in 1 .. k + 1 : w[j] = t[j]
  BY <1>3, <1>4
<1> HIDE DEF w
<1>7. v = w
  <2>1. Len(v) = Len(w) /\ \A j \in 1 .. Len(v) : v[j] = w[j]
    BY <1>5, <1>6
  <2> QED  BY <1>5, <1>6, <2>1, SeqEqual
<1> QED
  BY <1>2, <1>7 DEF u, v, w

\* Where a turn of the loop begins.
Turn(B, N, t, at, i, K, body, k) ==
  /\ i = at[k] + 1 /\ Written(K, body, SubSeq(t, 1, k))
  /\ at[k] \in 0 .. N
  /\ k = Len(t) => i = N + 1 /\ B[i] = Dynamic!SymbolEntry(256)
  /\ k # Len(t) =>
       /\ at[k + 1] \in 0 .. N
       /\ t[k + 1] \in CodedMatch(K)
       /\ EntriesOf(B, at[k], at[k + 1], t[k + 1])
       /\ SubSeq(t, 1, k + 1) = Append(SubSeq(t, 1, k), t[k + 1])
       /\ k + 1 \in 0 .. Len(t)

InTurn(B, N, t, at, i, K, body) ==
  \E k \in 0 .. Len(t) : Turn(B, N, t, at, i, K, body, k)

\* Each turn of the loop begins at the entries of a step or at the end.
LEMMA TurnBegins ==
  ASSUME NEW N \in Nat, NEW at, NEW body, NEW t, NEW K, CodedFor(K, t), NEW B, NEW i,
         FlushedTo(B, N, t, at, i, K, body), i <= Len(B)
  PROVE  InTurn(B, N, t, at, i, K, body)
<1> DEFINE n == Len(t)
<1>1. /\ Len(B) = N + 1 /\ B[N + 1] = Dynamic!SymbolEntry(256)
      /\ Laid(B, N, t, at)
      /\ \/ \E k \in 0 .. n : i = at[k] + 1 /\ Written(K, body, SubSeq(t, 1, k))
         \/ i = N + 2
  BY Zenon DEF FlushedTo
<1>2. i # N + 2
  BY <1>1
<1>3. PICK k \in 0 .. n : i = at[k] + 1 /\ Written(K, body, SubSeq(t, 1, k))
  BY <1>1, <1>2, Zenon
<1>4. /\ at \in [0 .. n -> 0 .. N] /\ at[0] = 0 /\ at[n] = N
      /\ \A j \in 1 .. n : EntriesOf(B, at[j - 1], at[j], t[j])
  BY <1>1, Zenon DEF Laid
<1>5. t \in Seq(CodedMatch(K))
  BY DEF CodedFor
<1>6. at[k] \in 0 .. N
  BY <1>4
<1>7. ASSUME k # n
      PROVE  /\ at[k + 1] \in 0 .. N
             /\ t[k + 1] \in CodedMatch(K)
             /\ EntriesOf(B, at[k], at[k + 1], t[k + 1])
             /\ SubSeq(t, 1, k + 1) = Append(SubSeq(t, 1, k), t[k + 1])
             /\ k + 1 \in 0 .. n
  <2>1. /\ k + 1 \in 0 .. n /\ k + 1 \in 1 .. n /\ (k + 1) - 1 = k
        /\ SubSeq(t, 1, k + 1) = Append(SubSeq(t, 1, k), t[k + 1])
    BY <1>5, <1>7, OneMoreStep
  <2>2. t[k + 1] \in CodedMatch(K)
    BY <1>5, <2>1, ElementOfSeq
  <2>3. EntriesOf(B, at[(k + 1) - 1], at[k + 1], t[k + 1])
    BY <1>4, <2>1, Zenon
  <2>4. at[k + 1] \in 0 .. N
    BY <1>4, <2>1, Zenon
  <2> QED  BY <2>1, <2>2, <2>3, <2>4, Zenon
<1>8. k = n => i = N + 1 /\ B[i] = Dynamic!SymbolEntry(256)
  BY <1>1, <1>3, <1>4, Zenon
<1> QED
  BY <1>3, <1>6, <1>7, <1>8, Zenon DEF Turn, InTurn

\* A turn of the loop writes one step or the end, and goes behind its entries.
LEMMA WriteFlushes ==
  ASSUME CodedFor(prefix_codes, taken),
         Flushing(block_, taken, it, prefix_codes, buffered_out_), Dynamic!Write
  PROVE  /\ pc' = pc /\ block_' = block_ /\ taken' = taken
         /\ count_by_symbol_' = count_by_symbol_ /\ prefix_codes' = prefix_codes
         /\ pc = "flushing"
         /\ Flushing(block_, taken, it', prefix_codes, buffered_out_')
<1> DEFINE K == prefix_codes
           e == block_[it]
<1>1. /\ pc = "flushing" /\ it <= Len(block_)
      /\ block_' = block_ /\ taken' = taken
      /\ count_by_symbol_' = count_by_symbol_ /\ prefix_codes' = prefix_codes
      /\ e[1] = "symbol" =>
           /\ pc' = pc
           /\ e[2] > 256 =>
                /\ buffered_out_' = buffered_out_ \o Dynamic!WrittenMatch
                /\ it' = it + 4 + Dynamic!MatchLength
           /\ ~ (e[2] > 256) =>
                /\ buffered_out_' = buffered_out_ \o Dynamic!Code(e[2])
                /\ it' = it + 1
  <2> DEFINE z == 256
  <2>1. Dynamic!eob_symbol = z
    BY DEF Dynamic!eob_symbol
  <2> HIDE DEF z
  <2>2. /\ e[1] = "symbol" =>
           /\ pc' = pc
           /\ e[2] > z =>
                /\ buffered_out_' = buffered_out_ \o Dynamic!WrittenMatch
                /\ it' = it + 4 + Dynamic!MatchLength
           /\ ~ (e[2] > z) =>
                /\ buffered_out_' = buffered_out_ \o Dynamic!Code(e[2])
                /\ it' = it + 1
    BY <2>1, Zenon DEF Dynamic!Write
  <2>3. /\ pc = "flushing" /\ it <= Len(block_)
        /\ block_' = block_ /\ taken' = taken
        /\ count_by_symbol_' = count_by_symbol_ /\ prefix_codes' = prefix_codes
    BY DEF Dynamic!Write
  <2> QED  BY <2>2, <2>3 DEF z
<1>2. PICK N \in Nat : \E at, body :
        /\ FlushedTo(block_, N, taken, at, it, K, body)
        /\ buffered_out_ = Heading(K) \o body
  BY Zenon DEF Flushing
<1>3. PICK at, body :
        /\ FlushedTo(block_, N, taken, at, it, K, body)
        /\ buffered_out_ = Heading(K) \o body
  BY <1>2
<1>4. /\ block_ \in Seq(DynamicEntry) /\ Len(block_) = N + 1
      /\ block_[N + 1] = Dynamic!SymbolEntry(256)
      /\ Laid(block_, N, taken, at)
  BY <1>3, Zenon DEF FlushedTo
<1>5. InTurn(block_, N, taken, at, it, K, body)
  BY <1>1, <1>3, TurnBegins
<1>5a. PICK k \in 0 .. Len(taken) : Turn(block_, N, taken, at, it, K, body, k)
  BY <1>5, Zenon DEF InTurn
<1>5b.
           /\ it = at[k] + 1 /\ Written(K, body, SubSeq(taken, 1, k))
           /\ at[k] \in 0 .. N
           /\ k = Len(taken) => it = N + 1 /\ block_[it] = Dynamic!SymbolEntry(256)
           /\ k # Len(taken) =>
                /\ at[k + 1] \in 0 .. N
                /\ taken[k + 1] \in CodedMatch(K)
                /\ EntriesOf(block_, at[k], at[k + 1], taken[k + 1])
                /\ SubSeq(taken, 1, k + 1) = Append(SubSeq(taken, 1, k), taken[k + 1])
                /\ k + 1 \in 0 .. Len(taken)
  BY <1>5a, Zenon DEF Turn
<1>6. AreLengths(K) /\ 256 \in DOMAIN K /\ taken \in Seq(MatchTaken)
  BY DEF CodedFor
<1>7. body \in Seq(Thing(K))
  BY <1>5b, Zenon DEF Written
<1> DEFINE ts == SubSeq(taken, 1, k)
<1>8. \A s \in DOMAIN K : Dynamic!Code(s) = << <<"code", s>> >>
  BY Zenon DEF Dynamic!HasCode, Dynamic!Code
<1>9. ASSUME NEW r \in Seq(Thing(K)), buffered_out_' = buffered_out_ \o r,
             FlushedTo(block_, N, taken, at, it', K, body \o r)
      PROVE  Flushing(block_, taken, it', K, buffered_out_')
  <2>1. buffered_out_' = Heading(K) \o (body \o r)
    BY <1>3, <1>7, <1>9, HeadingBehind, Zenon
  <2> QED  BY <1>9, <2>1, Zenon DEF Flushing
<1>10. CASE k # Len(taken)
  <2> DEFINE m == taken[k + 1]
             a == at[k]
             b == at[k + 1]
             next == Append(ts, m)
  <2>1. /\ m \in CodedMatch(K) /\ a \in Nat /\ b \in Nat /\ it = a + 1 /\ b <= Len(block_)
        /\ EntriesOf(block_, a, b, m) /\ Written(K, body, ts)
        /\ next = SubSeq(taken, 1, k + 1) /\ k + 1 \in 0 .. Len(taken)
    <3>1. a \in 0 .. N /\ b \in 0 .. N
      BY <1>5b, <1>10
    <3>2. a \in Nat /\ b \in Nat /\ b <= Len(block_)
      <4> HIDE DEF a, b
      <4> QED  BY <1>4, <3>1
    <3> QED  BY <1>5b, <1>10, <3>2, Zenon
  <2> HIDE DEF m, a, b, ts, next
  <2>2. ASSUME NEW r \in Seq(Thing(K)), buffered_out_' = buffered_out_ \o r,
               Written(K, body \o r, next), it' = b + 1
        PROVE  Flushing(block_, taken, it', K, buffered_out_')
    <3>1. FlushedTo(block_, N, taken, at, it', K, body \o r)
      BY <1>4, <2>1, <2>2, Zenon DEF FlushedTo, b
    <3> QED  BY <1>9, <2>2, <3>1
  <2>3. CASE Dynamic!IsReference(m)
    <3>1. /\ Dynamic!WrittenMatch \in Seq(Thing(K))
          /\ Written(K, body \o Dynamic!WrittenMatch, next)
          /\ it + 4 + Dynamic!MatchLength = b + 1
          /\ e[1] = "symbol" /\ e[2] > 256
      BY <1>4, <1>6, <2>1, <2>3, WritesMatch DEF next
    <3>2. /\ buffered_out_' = buffered_out_ \o Dynamic!WrittenMatch
          /\ it' = b + 1 /\ pc' = pc
      BY <1>1, <3>1
    <3> QED  BY <1>1, <2>2, <3>1, <3>2
  <2>4. CASE ~Dynamic!IsReference(m)
    <3> DEFINE x == m.literals[1]
               r == << <<"code", x>> >>
    <3>1. Len(m.literals) = 1 /\ b = a + 1 /\ e = Dynamic!SymbolEntry(x)
      BY <2>1, <2>4, Zenon DEF EntriesOf
    <3>2. x \in DOMAIN K /\ m \in MatchTaken
      BY <1>6, <2>1, <2>4, StepBitsIs
    <3>3. x \in 0 .. 255
      BY <3>2, DynamicMatch
    <3>4. Written(K, body \o r, next)
      BY <1>6, <2>1, <2>4, <3>1, WritesLiteral DEF next
    <3> HIDE DEF x
    <3>5. e[1] = "symbol" /\ e[2] = x /\ ~ (x > 256)
      <4>1. \A s : Dynamic!SymbolEntry(s)[1] = "symbol" /\ Dynamic!SymbolEntry(s)[2] = s
        BY DEF Dynamic!SymbolEntry
      <4>2. ~ (x > 256)
        BY <3>3
      <4> QED  BY <3>1, <4>1, <4>2
    <3>6. Dynamic!Code(x) = r
      BY <1>8, <3>2
    <3>7. pc' = pc /\ it' = it + 1 /\ buffered_out_' = buffered_out_ \o r
      <4>1. ~ (e[2] > 256)
        BY <3>5
      <4> HIDE DEF r, e
      <4>2. /\ pc' = pc /\ it' = it + 1
            /\ buffered_out_' = buffered_out_ \o Dynamic!Code(e[2])
        BY <1>1, <3>5, <4>1
      <4> QED  BY <3>5, <3>6, <4>2, Zenon
    <3>8. it' = b + 1
      BY <2>1, <3>1, <3>7
    <3>9. r \in Seq(Thing(K))
      <4>1. <<"code", x>> \in Thing(K)
        BY <3>2, Zenon DEF Thing
      <4> QED  BY <4>1
    <3> HIDE DEF r
    <3> QED  BY <1>1, <2>2, <3>4, <3>7, <3>8, <3>9
  <2> QED  BY <2>3, <2>4
<1>11. CASE k = Len(taken)
  <2> DEFINE r == << <<"code", 256>> >>
  <2>1. it = N + 1 /\ e = Dynamic!SymbolEntry(256)
    BY <1>5b, <1>11
  <2>2. e[1] = "symbol" /\ e[2] = 256 /\ ~ (e[2] > 256)
    BY <2>1 DEF Dynamic!SymbolEntry
  <2>3. Dynamic!Code(256) = r
    BY <1>6, <1>8
  <2>4. pc' = pc /\ it' = it + 1 /\ buffered_out_' = buffered_out_ \o r
    <3> HIDE DEF r, e
    <3>1. /\ pc' = pc /\ it' = it + 1
          /\ buffered_out_' = buffered_out_ \o Dynamic!Code(e[2])
      BY <1>1, <2>2
    <3>2. Dynamic!Code(e[2]) = r
      BY <2>2, <2>3
    <3> QED  BY <3>1, <3>2, Zenon
  <2>5. Written(K, body, taken)
    <3>1. ts = taken
      BY <1>6, <1>11, SubSeqFull
    <3> QED  BY <1>5b, <3>1, Zenon
  <2>6. Finished(K, body \o r, taken)
    BY <1>6, <2>5, WritesEnd
  <2>7. it' = N + 2
    BY <2>1, <2>4
  <2>8. r \in Seq(Thing(K))
    <3>1. <<"code", 256>> \in Thing(K)
      <4> DEFINE z == 256
      <4>1. z \in DOMAIN K
        BY <1>6
      <4> HIDE DEF z
      <4>2. <<"code", z>> \in Thing(K)
        BY <4>1, Zenon DEF Thing
      <4> QED  BY <4>2 DEF z
    <3> QED  BY <3>1
  <2> HIDE DEF r
  <2>9. FlushedTo(block_, N, taken, at, it', K, body \o r)
    BY <1>4, <2>6, <2>7 DEF FlushedTo
  <2> QED  BY <1>1, <1>9, <2>4, <2>8, <2>9
<1> QED
  BY <1>10, <1>11

-----------------------------------------------------------------------------
(***************************************************************************)
(* Block type 2: the invariant.                                            *)
(***************************************************************************)
\* What is held back when a block is buffered: a header, and the steps.
Held(b, t) ==
  \E K, body : CodedFor(K, t) /\ b = Heading(K) \o body /\ Finished(K, body, t)

DynamicState(p, t, B, c, i, K, b, o) ==
  /\ p \in {"filling", "draining", "flushing", "buffered", "committed"}
  /\ p \in {"filling", "draining"} => Collecting(B, c, t) /\ i = 0 /\ K = <<>>
  /\ p = "draining" => b = << <<"type", 2>> >>
  /\ p \in {"flushing", "buffered", "committed"} =>
       t \in Seq(MatchTaken) /\ Counted(c, t, TRUE)
  /\ p = "flushing" => CodedFor(K, t) /\ Flushing(B, t, i, K, b)
  /\ p \in {"buffered", "committed"} =>
       B \in Seq(DynamicEntry) /\ i = 0 /\ K = <<>> /\ Held(b, t)
  /\ p = "committed" => o = b

DynamicInv ==
  DynamicState(pc, taken, block_, count_by_symbol_, it, prefix_codes,
               buffered_out_, out)

\* The invariant of block type 2 holds at first.
LEMMA DynamicInitial == Dynamic!Init => DynamicInv
<1> SUFFICES ASSUME Dynamic!Init
             PROVE  DynamicInv
  OBVIOUS
<1>1. /\ pc = "filling" /\ taken = <<>> /\ block_ = <<>> /\ it = 0 /\ prefix_codes = <<>>
      /\ count_by_symbol_ = [s \in 0 .. 317 |-> 0]
  BY SymbolIs, Zenon DEF Dynamic!Init
<1>2. Collecting(block_, count_by_symbol_, taken)
  BY <1>1, CollectingNothing, Zenon
<1> QED
  BY <1>1, <1>2 DEF DynamicInv, DynamicState

\* A step collects and counts what it takes.
LEMMA StepCollects ==
  ASSUME NEW m \in MatchTaken, Dynamic!Step(m),
         Collecting(block_, count_by_symbol_, taken)
  PROVE  Collecting(block_', count_by_symbol_', taken')
<1>1. CASE Dynamic!IsReference(m)
  <2>1. Dynamic!PushBackReference(m) /\ taken' = Append(taken, m)
    BY <1>1, Zenon DEF Dynamic!Step
  <2>2. \A C, d : C = block_' /\ d = count_by_symbol_' => Collecting(C, d, Append(taken, m))
    <3> SUFFICES ASSUME NEW C, NEW d, C = block_', d = count_by_symbol_'
                 PROVE  Collecting(C, d, Append(taken, m))
      OBVIOUS
    <3> QED  BY <1>1, <2>1, CollectingReference, Zenon DEF Dynamic!PushBackReference
  <2> QED  BY <2>1, <2>2, Zenon
<1>2. CASE ~Dynamic!IsReference(m)
  <2>1. Dynamic!PushSymbol(Head(m.literals)) /\ taken' = Append(taken, Dynamic!AsLiteral(m))
    BY <1>2, Zenon DEF Dynamic!Step
  <2>2. /\ block_' = Append(block_, Dynamic!SymbolEntry(Head(m.literals)))
        /\ count_by_symbol_' = [count_by_symbol_ EXCEPT ![Head(m.literals)] = @ + 1]
    BY <2>1, Zenon DEF Dynamic!PushSymbol
  <2>3. Collecting(block_', count_by_symbol_', Append(taken, Dynamic!AsLiteral(m)))
    BY <2>2, CollectingLiteral
  <2> QED  BY <2>1, <2>3, Zenon
<1> QED
  BY <1>1, <1>2

\* The end is counted once.
LEMMA CountedEnd ==
  ASSUME NEW t, NEW c, Counted(c, t, FALSE),
         NEW d \in [0 .. 317 -> Nat],
         OneMoreOf(d, c, 0 .. 317, {256})
  PROVE  Counted(d, t, TRUE)
<1>1. ASSUME NEW s \in 0 .. 317
      PROVE  /\ IsFiniteSet(At(t, s))
             /\ d[s] = Cardinality(At(t, s)) + Ones(TRUE /\ s = 256)
  <2>1. /\ IsFiniteSet(At(t, s))
        /\ c[s] = Cardinality(At(t, s)) + Ones(FALSE /\ s = 256)
    BY Zenon DEF Counted
  <2> DEFINE a == Cardinality(At(t, s))
  <2>2. a \in Nat
    BY <2>1, FS_CardinalityType
  <2> HIDE DEF a
  <2>3. c[s] = a + 0
    BY <2>1 DEF Ones, a
  <2>4. d[s] = a + Ones(TRUE /\ s = 256)
    <3>1. d[s] = c[s] + Ones(s \in {256})
      BY DEF OneMoreOf
    <3> QED  BY <2>2, <2>3, <3>1 DEF Ones
  <2> QED  BY <2>1, <2>4 DEF a
<1> QED
  BY <1>1, Zenon DEF Counted

\* The codes are made, and flush_block is at the first entry.
LEMMA EndBeginsFlush ==
  ASSUME Dynamic!EndOfBlock, Collecting(block_, count_by_symbol_, taken),
         buffered_out_ = << <<"type", 2>> >>
  PROVE  /\ taken \in Seq(MatchTaken) /\ Counted(count_by_symbol_', taken, TRUE)
         /\ CodedFor(prefix_codes', taken)
         /\ Flushing(block_', taken, it', prefix_codes', buffered_out_')
<1> DEFINE N == Len(block_)
<1>1. /\ block_ \in Seq(DynamicEntry) /\ taken \in Seq(MatchTaken)
      /\ Counted(count_by_symbol_, taken, FALSE)
  BY DEF Collecting
<1>2. PICK at : Laid(block_, N, taken, at)
  BY DEF Collecting
<1>3. PICK c, c0, K, B :
        /\ c = count_by_symbol_' /\ c0 = count_by_symbol_
        /\ K = prefix_codes' /\ B = block_'
  OBVIOUS
<1>4. /\ B = Append(block_, Dynamic!SymbolEntry(256))
      /\ c = [count_by_symbol_ EXCEPT ![256] = @ + 1]
      /\ it' = 1 /\ taken' = taken
  BY <1>3, SymbolIs, Zenon DEF Dynamic!EndOfBlock, Dynamic!PushSymbol
<1>5. /\ B \in Seq(DynamicEntry) /\ Len(B) = N + 1 /\ N \in Nat
      /\ \A j \in 1 .. N : B[j] = block_[j]
      /\ B[N + 1] = Dynamic!SymbolEntry(256)
  <2>1. 256 \in 0 .. 317
    OBVIOUS
  <2> QED  BY <1>1, <1>4, <2>1, CollectsSymbol
<1>6. Laid(B, N, taken, at)
  BY <1>1, <1>2, <1>5, LaidSame
<1>7. c \in [0 .. 317 -> Nat] /\ OneMoreOf(c, c0, 0 .. 317, {256})
  <2> DEFINE S == 0 .. 317
             z == 256
  <2>1. z \in S
    OBVIOUS
  <2>2. c0 \in [S -> Nat]
    BY <1>1, <1>3, Zenon DEF Counted
  <2>3. c = [c0 EXCEPT ![z] = @ + 1]
    BY <1>3, <1>4
  <2> HIDE DEF S, z
  <2>4. c \in [S -> Nat]
    BY <2>1, <2>2, <2>3, CountOne
  <2>5. OneMoreOf(c, c0, S, {z})
    BY <2>1, <2>2, <2>3, CountOne
  <2> QED  BY <2>4, <2>5 DEF S, z
<1>9. Counted(c, taken, TRUE)
  <2>1. Counted(c0, taken, FALSE)
    BY <1>1, <1>3, Zenon
  <2> QED  BY <1>7, <2>1, CountedEnd
<1>10. CodedFor(K, taken) /\ buffered_out_' = Append(buffered_out_, <<"lengths", K>>)
  <2> DEFINE X == LiteralLengths
             Y == Dynamic!Symbol \ X
  <2>1. \E f \in Dynamic!CodesFor({s \in X : count_by_symbol_'[s] > 0}),
           g \in Dynamic!CodesFor({s \in Y : count_by_symbol_'[s] > 0}) :
             /\ prefix_codes' =
                  [s \in DOMAIN f \cup DOMAIN g |-> IF s \in DOMAIN f THEN f[s] ELSE g[s]]
             /\ buffered_out_' = Append(buffered_out_, <<"lengths", prefix_codes'>>)
    BY Zenon DEF Dynamic!EndOfBlock, LiteralLengths
  <2>2. \A Z : {s \in Z : count_by_symbol_'[s] > 0} = {s \in Z : c[s] > 0}
    BY <1>3
  <2>3. MadeFrom(c, K) /\ buffered_out_' = Append(buffered_out_, <<"lengths", K>>)
    <3> HIDE DEF X, Y
    <3>1. \E f \in Dynamic!CodesFor({s \in X : c[s] > 0}),
             g \in Dynamic!CodesFor({s \in Y : c[s] > 0}) :
               /\ K = [s \in DOMAIN f \cup DOMAIN g |-> IF s \in DOMAIN f THEN f[s] ELSE g[s]]
               /\ buffered_out_' = Append(buffered_out_, <<"lengths", K>>)
      BY <1>3, <2>1, <2>2, Zenon
    <3> QED  BY <3>1, Zenon DEF MadeFrom, X, Y
  <2>4. CodedFor(K, taken)
    BY <1>1, <1>9, <2>3, CodesOfBlock
  <2> QED  BY <2>3, <2>4, Zenon
<1>11. AreLengths(K)
  BY <1>10 DEF CodedFor
<1>12. buffered_out_' = Heading(K) \o <<>>
  <2>1. buffered_out_' = Heading(K)
    <3> DEFINE x == <<"type", 2>>
               y == <<"lengths", K>>
               s == Append(<<x>>, y)
               h == <<x, y>>
    <3>1. s \in Seq({x, y}) /\ Len(s) = 2 /\ s[1] = x /\ s[2] = y
      <4> HIDE DEF x, y
      <4> QED  OBVIOUS
    <3>2. h \in Seq({x, y}) /\ Len(h) = 2 /\ h[1] = x /\ h[2] = y
      <4> HIDE DEF x, y
      <4> QED  OBVIOUS
    <3>3. s = h
      <4> HIDE DEF x, y, s, h
      <4>1. Len(s) = Len(h) /\ \A j \in 1 .. Len(s) : s[j] = h[j]
        <5>1. \A j \in 1 .. 2 : j = 1 \/ j = 2
          OBVIOUS
        <5> QED  BY <3>1, <3>2, <5>1
      <4> QED  BY <3>1, <3>2, <4>1, SeqEqual
    <3> QED  BY <1>10, <3>3, Zenon DEF Heading
  <2>2. Heading(K) \in Seq(Thing(K))
    <3>1. <<"type", 2>> \in Thing(K) /\ <<"lengths", K>> \in Thing(K)
      BY Zenon DEF Thing
    <3> QED  BY <3>1 DEF Heading
  <2> DEFINE h == Heading(K)
  <2> HIDE DEF h
  <2>3. h \in Seq(Thing(K))
    BY <2>2 DEF h
  <2>4. h \o <<>> = h
    BY <2>3
  <2> QED  BY <2>1, <2>4 DEF h
<1>13. Written(K, <<>>, SubSeq(taken, 1, 0))
  <2>1. Written(K, <<>>, <<>>)
    <3>1. <<>> \in Seq(Thing(K)) /\ <<>> \in Seq(CodedMatch(K)) /\ <<>> \in Seq(MatchTaken)
      OBVIOUS
    <3>2. HasRead(2, <<>>, <<>>) /\ Total(weight(K), <<>>) = 0 /\ Total(stepweight(K), <<>>) = 0
      BY HasReadNothing, TotalNone
    <3>3. 0 <= 0
      OBVIOUS
    <3> QED  BY <3>1, <3>2, <3>3, Zenon DEF Written
  <2>2. SubSeq(taken, 1, 0) = <<>>
    BY <1>1
  <2> QED  BY <2>1, <2>2, Zenon
<1>14. FlushedTo(B, N, taken, at, it', K, <<>>)
  <2>1. at[0] = 0
    BY <1>6, Zenon DEF Laid
  <2>2. it' = at[0] + 1 /\ 0 \in 0 .. Len(taken)
    BY <1>1, <1>4, <2>1
  <2> QED  BY <1>5, <1>6, <1>13, <2>2, Zenon DEF FlushedTo
<1>15. Flushing(B, taken, it', K, buffered_out_')
  BY <1>5, <1>12, <1>14, Zenon DEF Flushing
<1> QED
  BY <1>1, <1>3, <1>9, <1>10, <1>15, Zenon

\* Behind the last entry everything is written.
LEMMA FlushEnds ==
  ASSUME NEW B, NEW t, NEW i, NEW K, NEW b, CodedFor(K, t), Flushing(B, t, i, K, b),
         i = Len(B) + 1
  PROVE  B \in Seq(DynamicEntry) /\ Held(b, t)
<1>1. PICK N \in Nat : \E at, body :
        FlushedTo(B, N, t, at, i, K, body) /\ b = Heading(K) \o body
  BY Zenon DEF Flushing
<1>2. PICK at, body : FlushedTo(B, N, t, at, i, K, body) /\ b = Heading(K) \o body
  BY <1>1
<1>3. /\ B \in Seq(DynamicEntry) /\ Len(B) = N + 1 /\ Laid(B, N, t, at)
      /\ \/ \E k \in 0 .. Len(t) : i = at[k] + 1
         \/ Finished(K, body, t)
  BY <1>2, Zenon DEF FlushedTo
<1>4. \A k \in 0 .. Len(t) : i # at[k] + 1
  <2> SUFFICES ASSUME NEW k \in 0 .. Len(t)
               PROVE  i # at[k] + 1
    OBVIOUS
  <2>1. at[k] \in 0 .. N
    BY <1>3 DEF Laid
  <2>2. i = N + 2
    BY <1>3
  <2> QED  BY <2>1, <2>2
<1> QED
  BY <1>2, <1>3, <1>4, Zenon DEF Held

\* Every action of block type 2 keeps its invariant.
LEMMA DynamicStepKeeps ==
  ASSUME DynamicInv, DynamicStep
  PROVE  DynamicInv'
<1> DEFINE Labels == {"filling", "draining", "flushing", "buffered", "committed"}
<1>1. /\ pc \in Labels
      /\ pc \in {"filling", "draining"} =>
           Collecting(block_, count_by_symbol_, taken) /\ it = 0 /\ prefix_codes = <<>>
      /\ pc = "draining" => buffered_out_ = << <<"type", 2>> >>
      /\ pc \in {"flushing", "buffered", "committed"} =>
           taken \in Seq(MatchTaken) /\ Counted(count_by_symbol_, taken, TRUE)
      /\ pc = "flushing" =>
           /\ CodedFor(prefix_codes, taken)
           /\ Flushing(block_, taken, it, prefix_codes, buffered_out_)
      /\ pc \in {"buffered", "committed"} =>
           /\ block_ \in Seq(DynamicEntry)
           /\ it = 0 /\ prefix_codes = <<>> /\ Held(buffered_out_, taken)
      /\ pc = "committed" => out = buffered_out_
  BY Zenon DEF DynamicInv, DynamicState
<1>2. ASSUME NEW m \in Found, Dynamic!Step(m)
      PROVE  DynamicInv'
  <2>1. /\ pc \in {"filling", "draining"} /\ pc' = pc /\ it' = it
        /\ prefix_codes' = prefix_codes /\ buffered_out_' = buffered_out_
    BY <1>2, Zenon DEF Dynamic!Step
  <2>2. m \in MatchTaken
    BY FoundTaken
  <2>3. Collecting(block_', count_by_symbol_', taken')
    BY <1>1, <1>2, <2>1, <2>2, StepCollects
  <2>4. /\ pc' \in Labels /\ ~ (pc' \in {"flushing", "buffered", "committed"})
        /\ pc' # "flushing" /\ ~ (pc' \in {"buffered", "committed"}) /\ pc' # "committed"
    BY <2>1
  <2> QED  BY <1>1, <2>1, <2>3, <2>4, Zenon DEF DynamicInv, DynamicState
<1>3. ASSUME Dynamic!BeginBuffer
      PROVE  DynamicInv'
  <2>1. /\ pc = "filling" /\ pc' = "draining" /\ it' = it /\ taken' = taken
        /\ block_' = block_ /\ count_by_symbol_' = count_by_symbol_
        /\ prefix_codes' = prefix_codes /\ buffered_out_' = << <<"type", 2>> >>
    BY <1>3, Zenon DEF Dynamic!BeginBuffer
  <2>2. /\ pc' \in Labels /\ ~ (pc' \in {"flushing", "buffered", "committed"})
        /\ pc' # "flushing" /\ ~ (pc' \in {"buffered", "committed"}) /\ pc' # "committed"
        /\ pc \in {"filling", "draining"}
    BY <2>1
  <2> QED  BY <1>1, <2>1, <2>2, Zenon DEF DynamicInv, DynamicState
<1>4. ASSUME Dynamic!EndOfBlock
      PROVE  DynamicInv'
  <2>1. pc = "draining" /\ pc' = "flushing" /\ taken' = taken
    BY <1>4, Zenon DEF Dynamic!EndOfBlock
  <2>2. /\ pc' \in Labels /\ ~ (pc' \in {"filling", "draining"}) /\ pc' # "draining"
        /\ ~ (pc' \in {"buffered", "committed"}) /\ pc' # "committed"
        /\ pc \in {"filling", "draining"}
    BY <2>1
  <2>3. /\ taken \in Seq(MatchTaken) /\ Counted(count_by_symbol_', taken, TRUE)
        /\ CodedFor(prefix_codes', taken)
        /\ Flushing(block_', taken, it', prefix_codes', buffered_out_')
    BY <1>1, <1>4, <2>1, <2>2, EndBeginsFlush
  <2> QED  BY <2>1, <2>2, <2>3, Zenon DEF DynamicInv, DynamicState
<1>5. ASSUME Dynamic!Write
      PROVE  DynamicInv'
  <2>1. pc = "flushing"
    BY <1>5, Zenon DEF Dynamic!Write
  <2>2. /\ pc' = pc /\ block_' = block_ /\ taken' = taken
        /\ count_by_symbol_' = count_by_symbol_ /\ prefix_codes' = prefix_codes
        /\ Flushing(block_, taken, it', prefix_codes, buffered_out_')
    BY <1>1, <1>5, <2>1, WriteFlushes
  <2>3. /\ pc' \in Labels /\ ~ (pc' \in {"filling", "draining"}) /\ pc' # "draining"
        /\ ~ (pc' \in {"buffered", "committed"}) /\ pc' # "committed"
        /\ pc \in {"flushing", "buffered", "committed"}
    BY <2>1, <2>2
  <2> QED  BY <1>1, <2>1, <2>2, <2>3, Zenon DEF DynamicInv, DynamicState
<1>6. ASSUME Dynamic!EndBuffer
      PROVE  DynamicInv'
  <2>1. /\ pc = "flushing" /\ pc' = "buffered" /\ it = Len(block_) + 1
        /\ it' = 0 /\ prefix_codes' = <<>> /\ taken' = taken /\ block_' = block_
        /\ count_by_symbol_' = count_by_symbol_ /\ buffered_out_' = buffered_out_
    BY <1>6, Zenon DEF Dynamic!EndBuffer
  <2>2. /\ pc' \in Labels /\ ~ (pc' \in {"filling", "draining"}) /\ pc' # "draining"
        /\ pc' # "flushing" /\ pc' # "committed"
        /\ pc \in {"flushing", "buffered", "committed"}
    BY <2>1
  <2>3. block_ \in Seq(DynamicEntry) /\ Held(buffered_out_, taken)
    BY <1>1, <2>1, FlushEnds
  <2> QED  BY <1>1, <2>1, <2>2, <2>3, Zenon DEF DynamicInv, DynamicState
<1>7. ASSUME Dynamic!Commit
      PROVE  DynamicInv'
  <2>1. /\ pc = "buffered" /\ pc' = "committed" /\ out' = buffered_out_
        /\ it' = it /\ prefix_codes' = prefix_codes /\ taken' = taken /\ block_' = block_
        /\ count_by_symbol_' = count_by_symbol_ /\ buffered_out_' = buffered_out_
    BY <1>7, Zenon DEF Dynamic!Commit
  <2>2. /\ pc' \in Labels /\ ~ (pc' \in {"filling", "draining"}) /\ pc' # "draining"
        /\ pc' # "flushing"
        /\ pc \in {"flushing", "buffered", "committed"} /\ pc \in {"buffered", "committed"}
    BY <2>1
  <2> QED  BY <1>1, <2>1, <2>2, Zenon DEF DynamicInv, DynamicState
<1>8. ASSUME Dynamic!Reset
      PROVE  DynamicInv'
  <2>1. /\ pc \in {"buffered", "committed"} /\ pc' = "filling" /\ taken' = <<>>
        /\ block_' = <<>> /\ count_by_symbol_' = [s \in Dynamic!Symbol |-> 0]
        /\ it' = it /\ prefix_codes' = prefix_codes
    BY <1>8, Zenon DEF Dynamic!Reset
  <2>2. /\ pc' \in Labels /\ ~ (pc' \in {"flushing", "buffered", "committed"})
        /\ pc' # "draining" /\ pc' # "flushing" /\ ~ (pc' \in {"buffered", "committed"})
        /\ pc' # "committed"
    BY <2>1
  <2>3. Collecting(block_', count_by_symbol_', taken')
    BY <2>1, SymbolIs, CollectingNothing, Zenon
  <2> QED  BY <1>1, <2>1, <2>2, <2>3, Zenon DEF DynamicInv, DynamicState
<1> QED
  BY <1>2, <1>3, <1>4, <1>5, <1>6, <1>7, <1>8, Zenon DEF DynamicStep

\* The counts of block type 2 are those of the steps it took.
LEMMA DynamicCounts == DynamicInv => Dynamic!CountsOfBlock
<1> SUFFICES ASSUME DynamicInv
             PROVE  Dynamic!CountsOfBlock
  OBVIOUS
<1>1. Counted(count_by_symbol_, taken, Dynamic!Ended)
  <2>1. CASE pc \in {"filling", "draining"}
    <3>1. Counted(count_by_symbol_, taken, FALSE)
      BY <2>1 DEF DynamicInv, DynamicState, Collecting
    <3>2. Dynamic!Ended = FALSE
      BY <2>1 DEF Dynamic!Ended
    <3> QED  BY <3>1, <3>2, Zenon
  <2>2. CASE ~ (pc \in {"filling", "draining"})
    <3>1. pc \in {"flushing", "buffered", "committed"}
      BY <2>2 DEF DynamicInv, DynamicState
    <3>2. Counted(count_by_symbol_, taken, TRUE)
      BY <3>1 DEF DynamicInv, DynamicState
    <3>3. Dynamic!Ended = TRUE
      BY <2>2 DEF Dynamic!Ended
    <3> QED  BY <3>2, <3>3, Zenon
  <2> QED  BY <2>1, <2>2
<1> DEFINE standing == UNION {{k} \X Dynamic!Stands(taken[k]) : k \in DOMAIN taken}
           z == 256
<1>2. Dynamic!eob_symbol = z /\ Dynamic!Symbol = 0 .. 317
  BY SymbolIs
<1>3. \A s \in 0 .. 317 :
        count_by_symbol_[s] = Cardinality(At(taken, s)) + Ones(Dynamic!Ended /\ s = z)
  BY <1>1, Zenon DEF Counted
<1>4. \A s : At(taken, s) = {p \in standing : p[2] = s}
  BY Zenon DEF At
<1> HIDE DEF standing, z
<1>5. \A S : Dynamic!Cardinality(S) = Cardinality(S)
  BY SameSize
<1>6. \A s \in Dynamic!Symbol :
        count_by_symbol_[s] =
          Dynamic!Cardinality({p \in standing : p[2] = s})
            + (IF Dynamic!Ended /\ s = Dynamic!eob_symbol THEN 1 ELSE 0)
  BY <1>2, <1>3, <1>4, <1>5, Zenon DEF Ones
<1> QED
  BY <1>6, Zenon DEF Dynamic!CountsOfBlock, standing

-----------------------------------------------------------------------------
(***************************************************************************)
(* Block type 2: what the invariant implies.                               *)
(***************************************************************************)
\* flush_block reads every entry as what it is.
LEMMA DynamicTypes == DynamicInv => Dynamic!TypeOK
<1> SUFFICES ASSUME DynamicInv
             PROVE  Dynamic!TypeOK
  OBVIOUS
<1>1. /\ pc \in {"filling", "draining", "flushing", "buffered", "committed"}
      /\ pc \in {"filling", "draining"} =>
           Collecting(block_, count_by_symbol_, taken) /\ it = 0 /\ prefix_codes = <<>>
      /\ pc \in {"flushing", "buffered", "committed"} =>
           Counted(count_by_symbol_, taken, TRUE)
      /\ pc = "flushing" =>
           /\ CodedFor(prefix_codes, taken)
           /\ Flushing(block_, taken, it, prefix_codes, buffered_out_)
      /\ pc \in {"buffered", "committed"} =>
           block_ \in Seq(DynamicEntry) /\ it = 0 /\ prefix_codes = <<>>
  BY Zenon DEF DynamicInv, DynamicState
<1>2. count_by_symbol_ \in [0 .. 317 -> Nat]
  <2>1. \A c, t, e : Counted(c, t, e) => c \in [0 .. 317 -> Nat]
    BY Zenon DEF Counted
  <2>2. \A B, c, t : Collecting(B, c, t) => Counted(c, t, FALSE)
    BY Zenon DEF Collecting
  <2>3. pc \in {"filling", "draining"} \/ pc \in {"flushing", "buffered", "committed"}
    BY <1>1
  <2> QED  BY <1>1, <2>1, <2>2, <2>3, Zenon
<1>3. ASSUME pc # "flushing"
      PROVE  /\ it \in 0 .. Len(block_) + 1
             /\ DOMAIN prefix_codes \subseteq 0 .. 317
  <2>1. block_ \in Seq(DynamicEntry) /\ it = 0 /\ prefix_codes = <<>>
    <3>1. \A B, c, t : Collecting(B, c, t) => B \in Seq(DynamicEntry)
      BY Zenon DEF Collecting
    <3>2. pc \in {"filling", "draining"} \/ pc \in {"buffered", "committed"}
      BY <1>1, <1>3
    <3> QED  BY <1>1, <3>1, <3>2, Zenon
  <2>2. Len(block_) \in Nat
    BY <2>1
  <2>3. it \in 0 .. Len(block_) + 1
    BY <2>1, <2>2
  <2>4. DOMAIN prefix_codes = {}
    BY <2>1
  <2> QED  BY <2>3, <2>4
<1>4. ASSUME pc = "flushing"
      PROVE  /\ it \in 0 .. Len(block_) + 1
             /\ DOMAIN prefix_codes \subseteq 0 .. 317
             /\ it <= Len(block_) => block_[it][1] = "symbol"
  <2> DEFINE K == prefix_codes
  <2>1. PICK N \in Nat : \E at, body : FlushedTo(block_, N, taken, at, it, K, body)
    BY <1>1, <1>4, Zenon DEF Flushing
  <2>2. PICK at, body : FlushedTo(block_, N, taken, at, it, K, body)
    BY <2>1
  <2>3. /\ Len(block_) = N + 1 /\ Laid(block_, N, taken, at)
        /\ \/ \E k \in 0 .. Len(taken) : it = at[k] + 1
           \/ it = N + 2
    BY <2>2, Zenon DEF FlushedTo
  <2>4. it \in 0 .. Len(block_) + 1
    <3>1. CASE it = N + 2
      BY <2>3, <3>1
    <3>2. ASSUME NEW k \in 0 .. Len(taken), it = at[k] + 1
          PROVE  it \in 0 .. Len(block_) + 1
      <4>1. at[k] \in 0 .. N
        BY <2>3 DEF Laid
      <4> QED  BY <2>3, <3>2, <4>1
    <3> QED  BY <2>3, <3>1, <3>2
  <2>5. CodedFor(K, taken)
    BY <1>1, <1>4
  <2>6. ASSUME it <= Len(block_)
        PROVE  block_[it][1] = "symbol"
    <3>1. InTurn(block_, N, taken, at, it, K, body)
      BY <2>2, <2>5, <2>6, TurnBegins
    <3>2. PICK k \in 0 .. Len(taken) : Turn(block_, N, taken, at, it, K, body, k)
      BY <3>1, Zenon DEF InTurn
    <3>3. \A s : Dynamic!SymbolEntry(s)[1] = "symbol"
      BY DEF Dynamic!SymbolEntry
    <3>4. CASE k = Len(taken)
      <4>1. block_[it] = Dynamic!SymbolEntry(256)
        BY <3>2, <3>4 DEF Turn
      <4> QED  BY <3>3, <4>1
    <3>5. CASE k # Len(taken)
      <4>1. /\ it = at[k] + 1
            /\ EntriesOf(block_, at[k], at[k + 1], taken[k + 1])
        BY <3>2, <3>5, Zenon DEF Turn
      <4>2. \E s : block_[it] = Dynamic!SymbolEntry(s)
        BY <4>1, Zenon DEF EntriesOf
      <4> QED  BY <3>3, <4>2, Zenon
    <3> QED  BY <3>4, <3>5
  <2> QED  BY <2>4, <2>5, <2>6, Zenon DEF CodedFor, AreLengths
<1> QED
  BY <1>1, <1>2, <1>3, <1>4, SymbolIs, Zenon DEF Dynamic!TypeOK

\* What is behind the header.
LEMMA HeadingIs ==
  ASSUME NEW K, NEW body \in Seq(Thing(K))
  PROVE  LET b == Heading(K) \o body
         IN /\ b \in Seq(Thing(K)) /\ Len(b) \in Nat /\ Len(b) >= 2
            /\ b[1] = <<"type", 2>> /\ b[2] = <<"lengths", K>>
            /\ SubSeq(b, 3, Len(b)) = body
<1> DEFINE x == <<"type", 2>>
           y == <<"lengths", K>>
           h == <<x, y>>
           P == Thing(K)
           b == h \o body
           c == SubSeq(b, 3, Len(b))
<1>1. x \in P /\ y \in P /\ body \in Seq(P)
  BY Zenon DEF Thing
<1> HIDE DEF x, y, P
<1>2. h \in Seq(P) /\ Len(h) = 2 /\ h[1] = x /\ h[2] = y
  BY <1>1
<1> HIDE DEF h
<1>3. b \in Seq(P) /\ Joined(b, h, body)
  BY <1>1, <1>2, ConcatIs
<1> HIDE DEF b
<1>4. /\ Len(b) = 2 + Len(body) /\ Len(body) \in Nat
      /\ \A j \in 1 .. 2 : b[j] = h[j]
      /\ \A j \in 1 .. Len(body) : b[2 + j] = body[j]
  BY <1>2, <1>3, Zenon DEF Joined
<1>5. b[1] = x /\ b[2] = y
  <2>1. 1 \in 1 .. 2 /\ 2 \in 1 .. 2
    OBVIOUS
  <2> QED  BY <1>2, <1>4, <2>1, Zenon
<1>6. c = body
  <2>1. c \in Seq(P) /\ Len(c) = Len(body) /\ \A j \in 1 .. Len(body) : c[j] = b[2 + j]
    BY <1>3, <1>4
  <2> HIDE DEF c
  <2>2. Len(c) = Len(body) /\ \A j \in 1 .. Len(c) : c[j] = body[j]
    BY <1>4, <2>1
  <2> QED  BY <1>1, <2>1, <2>2, SeqEqual
<1>7. Len(b) \in Nat /\ Len(b) >= 2
  BY <1>4
<1> QED
  BY <1>3, <1>5, <1>6, <1>7, Zenon DEF Heading, b, h, x, y, P

\* A committed block of type 2 is read to its end as what it took.
LEMMA DynamicBlockReads == DynamicInv => BlockReads
<1> SUFFICES ASSUME DynamicInv, pc = "committed"
             PROVE  Inflated.expects = "end" /\ StandFor(Inflated.items, taken)
  BY DEF BlockReads
<1>1. Held(out, taken)
  <2>1. pc \in {"buffered", "committed"}
    OBVIOUS
  <2> QED  BY <2>1, Zenon DEF DynamicInv, DynamicState
<1>2. PICK K, body : out = Heading(K) \o body /\ Finished(K, body, taken)
  BY <1>1, Zenon DEF Held
<1>3. /\ body \in Seq(Thing(K))
      /\ Read(2, body).expects = "end" /\ StandFor(Read(2, body).items, taken)
  BY <1>2, Zenon DEF Finished
<1>4. out[1] = <<"type", 2>> /\ SubSeq(out, 3, Len(out)) = body
  BY <1>2, <1>3, HeadingIs, Zenon
<1>5. out[1] # <<"type", 1>>
  BY <1>4
<1>6. Inflated = Read(2, body)
  BY <1>4, <1>5, Zenon DEF Inflated
<1> QED
  BY <1>3, <1>6, Zenon

\* Literals for matches never make a block of type 2 longer.
LEMMA DynamicNeverLonger == DynamicInv => Dynamic!NeverLonger
<1> SUFFICES ASSUME DynamicInv, pc = "buffered"
             PROVE  Dynamic!NumBits <= Dynamic!MatchedBits
  BY Zenon DEF Dynamic!NeverLonger
<1>1. Held(buffered_out_, taken)
  <2>1. pc \in {"buffered", "committed"}
    OBVIOUS
  <2> QED  BY <2>1, Zenon DEF DynamicInv, DynamicState
<1>2. PICK K, body :
        /\ CodedFor(K, taken) /\ buffered_out_ = Heading(K) \o body
        /\ Finished(K, body, taken)
  BY <1>1, Zenon DEF Held
<1>3. /\ body \in Seq(Thing(K))
      /\ Total(weight(K), body) <= K[256] + Total(stepweight(K), taken)
  BY <1>2, Zenon DEF Finished
<1>4. AreLengths(K) /\ taken \in Seq(CodedMatch(K))
  BY <1>2, Zenon DEF CodedFor
<1>5. weight(K) \in [Thing(K) -> Nat]
  BY <1>4, WeightNat
<1>6. Total(weight(K), Heading(K) \o body) = Total(weight(K), body)
  <2> DEFINE x == <<"type", 2>>
             y == <<"lengths", K>>
             P == Thing(K)
             w == weight(K)
  <2>1. x \in P /\ y \in P /\ body \in Seq(P) /\ w \in [P -> Nat]
    BY <1>3, <1>5, Zenon DEF Thing
  <2>2. w[x] = 0 /\ w[y] = 0
    <3>1. Dynamic!BitsOf(K, x) = 0 /\ Dynamic!BitsOf(K, y) = 0
      BY BitsOfThings
    <3> QED  BY <2>1, <3>1, Zenon DEF weight
  <2> HIDE DEF x, y, P, w
  <2>3. /\ <<x>> \in Seq(P) /\ Total(w, <<x>>) = 0
        /\ Append(<<x>>, y) \in Seq(P) /\ Total(w, Append(<<x>>, y)) = 0
    <3>1. <<x>> \in Seq(P) /\ Total(w, <<x>>) = w[x]
      BY <2>1, TotalOne
    <3>2. Append(<<x>>, y) \in Seq(P) /\ Total(w, Append(<<x>>, y)) = Total(w, <<x>>) + w[y]
      BY <2>1, <3>1, TotalAppend
    <3> QED  BY <2>2, <3>1, <3>2
  <2> DEFINE h == <<x, y>>
  <2>4. h = Append(<<x>>, y)
    OBVIOUS
  <2>5. h \in Seq(P) /\ Total(w, h) = 0
    <3> HIDE DEF h
    <3> QED  BY <2>3, <2>4, Zenon
  <2> HIDE DEF h
  <2>6. Total(w, h \o body) = Total(w, h) + Total(w, body)
    BY <2>1, <2>5, TotalBehind
  <2>7. Total(w, body) \in Nat
    BY <2>1, TotalNat
  <2>8. Total(w, h \o body) = Total(w, body)
    BY <2>5, <2>6, <2>7
  <2> QED  BY <2>8, Zenon DEF h, x, y, w, Heading
<1>7. buffered_out_ \in Seq(Thing(K)) /\ buffered_out_[2] = <<"lengths", K>>
  BY <1>2, <1>3, HeadingIs, Zenon
<1>8. buffered_out_[2][2] = K
  BY <1>7
<1> DEFINE f == [k \in DOMAIN buffered_out_ |-> Dynamic!BitsOf(K, buffered_out_[k])]
           g == [k \in DOMAIN taken |-> Dynamic!StepBits(K, taken[k])]
<1>9. f = [k \in DOMAIN buffered_out_ |-> weight(K)[buffered_out_[k]]]
  <2>1. \A k \in DOMAIN buffered_out_ : buffered_out_[k] \in Thing(K)
    BY <1>7, LenProperties, ElementOfSeq
  <2>2. \A k \in DOMAIN buffered_out_ :
          weight(K)[buffered_out_[k]] = Dynamic!BitsOf(K, buffered_out_[k])
    BY <2>1, Zenon DEF weight
  <2> QED  BY <2>2, Zenon
<1>10. g = [k \in DOMAIN taken |-> stepweight(K)[taken[k]]]
  <2>1. \A k \in DOMAIN taken : taken[k] \in CodedMatch(K)
    BY <1>4, LenProperties, ElementOfSeq
  <2>2. \A k \in DOMAIN taken : stepweight(K)[taken[k]] = Dynamic!StepBits(K, taken[k])
    BY <2>1, Zenon DEF stepweight
  <2> QED  BY <2>2, Zenon
<1> HIDE DEF f, g
<1>11. /\ Dynamic!SumFunction(f) = Total(weight(K), buffered_out_)
       /\ Dynamic!SumFunction(g) = Total(stepweight(K), taken)
  <2>1. \A e : Dynamic!SumFunction(e) = SumFunction(e)
    BY SameSum
  <2> QED  BY <1>9, <1>10, <2>1, Zenon DEF Total
<1> DEFINE z == 256
<1>12. Dynamic!eob_symbol = z
  BY SymbolIs
<1>13. Total(weight(K), body) <= K[z] + Total(stepweight(K), taken)
  BY <1>3
<1> HIDE DEF z
<1>14. Dynamic!NumBits = Total(weight(K), body)
  BY <1>2, <1>6, <1>8, <1>11, Zenon DEF Dynamic!NumBits, f
<1>15. Dynamic!MatchedBits = K[z] + Total(stepweight(K), taken)
  BY <1>8, <1>11, <1>12, Zenon DEF Dynamic!MatchedBits, g
<1> QED
  BY <1>13, <1>14, <1>15, Zenon

-----------------------------------------------------------------------------
(***************************************************************************)
(* Both types.                                                             *)
(***************************************************************************)
Inv == type \in 1 .. 2 /\ IF type = 1 THEN FixedInv ELSE DynamicInv

\* The invariant holds at first.
LEMMA Initial == Init => Inv
<1> SUFFICES ASSUME Init
             PROVE  Inv
  OBVIOUS
<1>1. type \in 1 .. 2 /\ Fixed!Init /\ Dynamic!Init
  BY Zenon DEF Init
<1> QED
  BY <1>1, FixedInitial, DynamicInitial, Zenon DEF Inv

\* Every step keeps it.
LEMMA StepKeeps ==
  ASSUME Inv, [Next]_vars
  PROVE  Inv'
<1>1. CASE FixedStep
  <2>1. type = 1 /\ type' = type
    BY <1>1, Zenon DEF FixedStep
  <2>2. FixedInv
    BY <2>1, Zenon DEF Inv
  <2>3. FixedInv'
    BY <1>1, <2>2, FixedStepKeeps
  <2> QED  BY <2>1, <2>3, Zenon DEF Inv
<1>2. CASE DynamicStep
  <2>1. type = 2 /\ type' = type
    BY <1>2, Zenon DEF DynamicStep
  <2>2. type # 1
    BY <2>1
  <2>3. DynamicInv
    BY <2>2, Zenon DEF Inv
  <2>4. DynamicInv'
    BY <1>2, <2>3, DynamicStepKeeps
  <2> QED  BY <2>1, <2>2, <2>4, Zenon DEF Inv
<1>3. CASE UNCHANGED vars
  <2>1. /\ type' = type /\ pc' = pc /\ taken' = taken /\ out' = out
        /\ buffered_out_' = buffered_out_ /\ block_' = block_ /\ it' = it
        /\ count_by_symbol_' = count_by_symbol_ /\ prefix_codes' = prefix_codes
    BY <1>3 DEF vars, dynamic
  <2> QED  BY <2>1, Zenon DEF Inv, FixedInv, DynamicInv
<1> QED
  BY <1>1, <1>2, <1>3 DEF Next

\* It always holds.
LEMMA Invariant == Spec => []Inv
<1>1. Init => Inv
  BY Initial
<1>2. Inv /\ [Next]_vars => Inv'
  BY StepKeeps
<1> QED
  BY <1>1, <1>2, PTL DEF Spec

\* In every block, flush_block reads every entry of block_ as what it is, and
\* counts and positions stay in their ranges: std::get never throws.
THEOREM Types == Spec => []TypesOK
<1>1. Inv => TypesOK
  BY FixedTypes, DynamicTypes, Zenon DEF Inv, TypesOK
<1> QED
  BY <1>1, Invariant, PTL

\* For all matches that the match finder may give and in blocks of any number
\* of steps, a decoder reads a committed block of type 1 or 2 to its end, and
\* finds each step that was taken as its length and distance or as its
\* literals.
THEOREM Reads == Spec => []BlockReads
<1>1. Inv => BlockReads
  BY FixedBlockReads, DynamicBlockReads, Zenon DEF Inv
<1> QED
  BY <1>1, Invariant, PTL

\* For all matches and blocks: block type 1 never needs more bits than its
\* bytes as literals, and block type 2, where it writes literals for a match,
\* never more than with the match.
THEOREM NotLonger == Spec => []NeverLonger
<1>1. Inv => NeverLonger
  BY FixedNeverLonger, DynamicNeverLonger, Zenon DEF Inv, NeverLonger
<1> QED
  BY <1>1, Invariant, PTL

\* For all matches and blocks, the codes of block type 2 are made from how
\* often each symbol stands in this block, and not from literals behind a match
\* or from an earlier block.
THEOREM CountsOfItself == Spec => []CountsOfBlock
<1>1. Inv => CountsOfBlock
  <2>1. type = 2 => type # 1
    OBVIOUS
  <2> QED  BY <2>1, DynamicCounts, Zenon DEF Inv, CountsOfBlock
<1> QED
  BY <1>1, Invariant, PTL
=============================================================================
