-------------------------- MODULE BitStreamProofs --------------------------
(***************************************************************************)
(* BitStream for every byte size: the bytes put out hold exactly the bits  *)
(* that were pushed and committed, in order, and the padding.              *)
(* StoredBlock for every byte size, every bound and every set of blocks:   *)
(* committing stored blocks takes nothing from that, a decoder reads each, *)
(* and bits() is close to the size of what is written.                     *)
(***************************************************************************)
EXTENDS StoredBlock, Induction, SequenceTheorems

\* A place p of a bit string: which byte it lies in, and where.
LEMMA DivMod ==
  ASSUME NEW p \in Int
  PROVE  /\ p \div ByteSize \in Int
         /\ p \in Nat => p \div ByteSize \in Nat
         /\ p % ByteSize \in Place
         /\ p = (p \div ByteSize) * ByteSize + (p % ByteSize)
  BY BitStreamAssumption, SMT DEF Place

\* Numbers of bytes are compared like the numbers of their bits.
LEMMA Multiples ==
  ASSUME NEW m \in Int, NEW n \in Int, m < n
  PROVE  m * ByteSize + ByteSize <= n * ByteSize
<1>1. PICK k \in Nat : n = m + 1 + k
  <2>1. n - m - 1 \in Nat /\ n = m + 1 + (n - m - 1)
    OBVIOUS
  <2>2. QED
    BY <2>1
<1>2. n * ByteSize = m * ByteSize + ByteSize + k * ByteSize
  BY <1>1, BitStreamAssumption, SMT
<1>3. k * ByteSize \in Nat /\ m * ByteSize \in Int
  BY BitStreamAssumption, SMT
<1>4. QED
  BY <1>2, <1>3, BitStreamAssumption, SMT

\* Quotient and remainder are determined by what they add up to.
LEMMA DivModIs ==
  ASSUME NEW q \in Int, NEW r \in Place
  PROVE  /\ q * ByteSize + r \in Int
         /\ q \in Nat => q * ByteSize + r \in Nat
         /\ (q * ByteSize + r) \div ByteSize = q
         /\ (q * ByteSize + r) % ByteSize = r
<1> DEFINE p == q * ByteSize + r
           d == p \div ByteSize
           e == p % ByteSize
<1>1. /\ p \in Int /\ q * ByteSize \in Int /\ r \in Nat /\ r < ByteSize
      /\ q \in Nat => p \in Nat
  BY BitStreamAssumption, SMT DEF Place
<1>2. d \in Int /\ e \in Place /\ p = d * ByteSize + e
  BY <1>1, DivMod
<1> HIDE DEF d, e
<1>3. d * ByteSize \in Int /\ e \in Nat /\ e < ByteSize
  BY <1>2, BitStreamAssumption, SMT DEF Place
<1>4. ~(d < q)
  <2>1. SUFFICES ASSUME d < q PROVE FALSE
    OBVIOUS
  <2>2. d * ByteSize + ByteSize <= q * ByteSize
    BY <1>2, <2>1, Multiples
  <2>3. QED
    BY <1>1, <1>2, <1>3, <2>2, BitStreamAssumption
<1>5. ~(q < d)
  <2>1. SUFFICES ASSUME q < d PROVE FALSE
    OBVIOUS
  <2>2. q * ByteSize + ByteSize <= d * ByteSize
    BY <1>2, <2>1, Multiples
  <2>3. QED
    BY <1>1, <1>2, <1>3, <2>2, BitStreamAssumption
<1>6. d = q
  BY <1>2, <1>4, <1>5
<1>7. e = r
  BY <1>1, <1>2, <1>3, <1>6
<1>8. QED
  BY <1>1, <1>6, <1>7 DEF d, e

\* The number of zeros that fill up a part of a byte.
LEMMA Missing ==
  ASSUME NEW q \in Nat, NEW r \in Place
  PROVE  (-(q * ByteSize + r)) % ByteSize = IF r = 0 THEN 0 ELSE ByteSize - r
<1>1. CASE r = 0
  <2>1. -(q * ByteSize + r) = (-q) * ByteSize + 0
    BY <1>1, BitStreamAssumption, SMT
  <2>2. -q \in Int /\ 0 \in Place
    BY BitStreamAssumption DEF Place
  <2>3. ((-q) * ByteSize + 0) % ByteSize = 0
    BY <2>2, DivModIs
  <2>4. QED
    BY <1>1, <2>1, <2>3
<1>2. CASE r # 0
  <2>1. -(q * ByteSize + r) = (-q - 1) * ByteSize + (ByteSize - r)
    BY BitStreamAssumption, SMT DEF Place
  <2>2. -q - 1 \in Int /\ ByteSize - r \in Place
    BY <1>2, BitStreamAssumption DEF Place
  <2>3. ((-q - 1) * ByteSize + (ByteSize - r)) % ByteSize = ByteSize - r
    BY <2>2, DivModIs
  <2>4. QED
    BY <1>2, <2>1, <2>3
<1>3. QED
  BY <1>1, <1>2

\* A number below or at another one, modulo that one.
LEMMA Wrapped ==
  ASSUME NEW n \in Nat, NEW m \in 0 .. n - 1
  PROVE  (m + 1) % n = IF m + 1 = n THEN 0 ELSE m + 1
  BY SMT

-----------------------------------------------------------------------------
\* A stream between two calls: no place of bits_ that was not pushed to is set.
Clean(s) == s \in Packed /\ s.bits \subseteq 0 .. s.num_bits - 1

\* What is read in place r of byte q.
LEMMA BitIn ==
  ASSUME NEW s \in Packed, NEW q \in Nat, NEW r \in Place
  PROVE  /\ q < Len(s.bytes) =>
              BitAt(s, q * ByteSize + r) = IF r \in s.bytes[q + 1] THEN 1 ELSE 0
         /\ ~(q < Len(s.bytes)) =>
              BitAt(s, q * ByteSize + r) = IF r \in s.bits THEN 1 ELSE 0
<1>1. /\ (q * ByteSize + r) \div ByteSize = q
      /\ (q * ByteSize + r) % ByteSize = r
  BY DivModIs
<1>2. QED
  BY <1>1 DEF BitAt

\* The number of bits of a stream is a number.
LEMMA NumBitsNat ==
  ASSUME NEW s \in Packed
  PROVE  NumBits(s) \in Nat /\ Len(s.bytes) \in Nat /\ s.num_bits \in Place
<1>1. Len(s.bytes) \in Nat /\ s.num_bits \in Place
  BY LenProperties DEF Packed
<1>2. QED
  BY <1>1, DivModIs DEF NumBits

\* Every bit of a stream is in a whole byte, or among those pushed since.
LEMMA Located ==
  ASSUME NEW s \in Packed, NEW p \in 0 .. NumBits(s) - 1
  PROVE  \E q \in Nat, r \in Place :
           /\ p = q * ByteSize + r
           /\ q < Len(s.bytes) \/ (q = Len(s.bytes) /\ r < s.num_bits)
<1> DEFINE q == p \div ByteSize
           r == p % ByteSize
           n == Len(s.bytes)
<1>1. NumBits(s) \in Nat /\ n \in Nat /\ s.num_bits \in Place
  BY NumBitsNat
<1>2. p \in Nat /\ p < NumBits(s)
  BY <1>1
<1>3. q \in Nat /\ r \in Place /\ p = q * ByteSize + r
  BY <1>2, DivMod
<1>4. NumBits(s) = n * ByteSize + s.num_bits
  BY DEF NumBits
<1> HIDE DEF q, r, n
<1>5. /\ q * ByteSize \in Nat /\ n * ByteSize \in Nat
      /\ r \in Nat /\ s.num_bits \in Nat /\ s.num_bits < ByteSize
  BY <1>1, <1>3, BitStreamAssumption, SMT DEF Place
<1>6. ~(n < q)
  <2>1. SUFFICES ASSUME n < q PROVE FALSE
    OBVIOUS
  <2>2. n * ByteSize + ByteSize <= q * ByteSize
    BY <1>1, <1>3, <2>1, Multiples
  <2>3. QED
    BY <1>2, <1>3, <1>4, <1>5, <2>2, BitStreamAssumption
<1>7. q = n => r < s.num_bits
  BY <1>2, <1>3, <1>4, <1>5
<1>8. q < n \/ (q = n /\ r < s.num_bits)
  BY <1>1, <1>3, <1>6, <1>7
<1>9. QED
  BY <1>3, <1>8 DEF n

\* The bits a stream stands for, one by one.
LEMMA BitsOfIs ==
  ASSUME NEW s \in Packed
  PROVE  /\ BitsOf(s) \in Seq(Bit)
         /\ Len(BitsOf(s)) = NumBits(s)
         /\ \A i \in 1 .. NumBits(s) : BitsOf(s)[i] = BitAt(s, i - 1)
<1>1. NumBits(s) \in Nat
  BY NumBitsNat
<1>2. \A i \in 1 .. NumBits(s) : BitAt(s, i - 1) \in Bit
  BY DEF BitAt, Bit
<1>3. QED
  BY <1>1, <1>2 DEF BitsOf

\* A stream that agrees with another one and holds one bit more stands for the
\* same bits and this one.
LEMMA AppendedBits ==
  ASSUME NEW s \in Packed, NEW t \in Packed, NEW b \in Bit,
         NumBits(t) = NumBits(s) + 1,
         \A p \in 0 .. NumBits(s) - 1 : BitAt(t, p) = BitAt(s, p),
         BitAt(t, NumBits(s)) = b
  PROVE  BitsOf(t) = Append(BitsOf(s), b)
<1> DEFINE n == NumBits(s)
           x == BitsOf(s)
           y == BitsOf(t)
<1>1. n \in Nat
  BY NumBitsNat
<1>2. /\ x \in Seq(Bit) /\ Len(x) = n
      /\ \A i \in 1 .. n : x[i] = BitAt(s, i - 1)
  BY BitsOfIs
<1>3. /\ y \in Seq(Bit) /\ Len(y) = n + 1
      /\ \A i \in 1 .. n + 1 : y[i] = BitAt(t, i - 1)
  BY BitsOfIs
<1>4. \A i \in 1 .. n : y[i] = x[i]
  BY <1>1, <1>2, <1>3
<1>5. y[n + 1] = b
  BY <1>1, <1>3
<1> HIDE DEF n, x, y
<1>6. y = Append(x, b)
  BY <1>1, <1>2, <1>3, <1>4, <1>5
<1>7. QED
  BY <1>6 DEF x, y

\* A bit is pushed into a place of its own.
LEMMA PushedShort ==
  ASSUME NEW s, Clean(s), NEW b \in Bit, s.num_bits + 1 # ByteSize
  PROVE  /\ Clean(PushedBit(s, b))
         /\ BitsOf(PushedBit(s, b)) = Append(BitsOf(s), b)
<1> DEFINE t == PushedBit(s, b)
<1>1. /\ s \in Packed /\ s.bits \subseteq 0 .. s.num_bits - 1
      /\ s.num_bits \in Place /\ s.num_bits \in Nat /\ Len(s.bytes) \in Nat
  BY NumBitsNat DEF Clean, Packed, Place
<1>2. /\ t.bits = IF b = 1 THEN s.bits \cup {s.num_bits} ELSE s.bits
      /\ t.num_bits = s.num_bits + 1
      /\ t.bytes = s.bytes
      /\ t = [bits |-> t.bits, num_bits |-> t.num_bits, bytes |-> t.bytes]
  BY <1>1 DEF PushedBit, Packed
<1> HIDE DEF t
<1>3. t.num_bits \in Place
  BY <1>1, <1>2, BitStreamAssumption DEF Place
<1>4. t.bits \subseteq 0 .. t.num_bits - 1
  BY <1>1, <1>2
<1>5. t.bits \in Byte
  BY <1>3, <1>4, BitStreamAssumption DEF Byte, Place
<1>6. t \in Packed
  BY <1>1, <1>2, <1>3, <1>5 DEF Packed
<1>7. NumBits(t) = NumBits(s) + 1
  <2>1. Len(s.bytes) * ByteSize \in Nat
    BY <1>1, BitStreamAssumption, SMT
  <2>2. QED
    BY <1>1, <1>2, <2>1 DEF NumBits
<1>8. ASSUME NEW p \in 0 .. NumBits(s) - 1
      PROVE  BitAt(t, p) = BitAt(s, p)
  <2>1. PICK q \in Nat, r \in Place :
          /\ p = q * ByteSize + r
          /\ q < Len(s.bytes) \/ (q = Len(s.bytes) /\ r < s.num_bits)
    BY <1>1, Located
  <2>2. CASE q < Len(s.bytes)
    BY <1>1, <1>2, <1>6, <2>1, <2>2, BitIn
  <2>3. CASE q = Len(s.bytes) /\ r < s.num_bits
    <3>1. r \in t.bits <=> r \in s.bits
      BY <1>1, <1>2, <2>3 DEF Place
    <3>2. ~(q < Len(s.bytes)) /\ ~(q < Len(t.bytes))
      BY <1>1, <1>2, <2>3
    <3>3. QED
      BY <1>1, <1>6, <2>1, <3>1, <3>2, BitIn
  <2>4. QED
    BY <2>1, <2>2, <2>3
<1>9. BitAt(t, NumBits(s)) = b
  <2>1. s.num_bits \in t.bits <=> b = 1
    BY <1>1, <1>2
  <2>2. NumBits(s) = Len(s.bytes) * ByteSize + s.num_bits
    BY DEF NumBits
  <2>3. ~(Len(s.bytes) < Len(t.bytes))
    BY <1>1, <1>2
  <2>4. BitAt(t, NumBits(s)) = IF s.num_bits \in t.bits THEN 1 ELSE 0
    BY <1>1, <1>6, <2>2, <2>3, BitIn
  <2>5. QED
    BY <2>1, <2>4 DEF Bit
<1>10. BitsOf(t) = Append(BitsOf(s), b)
  BY <1>1, <1>6, <1>7, <1>8, <1>9, AppendedBits
<1>11. QED
  BY <1>4, <1>6, <1>10 DEF Clean, t

\* The bit that fills a byte puts the byte out.
LEMMA PushedFull ==
  ASSUME NEW s, Clean(s), NEW b \in Bit, s.num_bits + 1 = ByteSize
  PROVE  /\ Clean(PushedBit(s, b))
         /\ BitsOf(PushedBit(s, b)) = Append(BitsOf(s), b)
<1> DEFINE t == PushedBit(s, b)
           byte == IF b = 1 THEN s.bits \cup {s.num_bits} ELSE s.bits
<1>1. /\ s \in Packed /\ s.bits \subseteq 0 .. s.num_bits - 1
      /\ s.num_bits \in Place /\ s.num_bits \in Nat /\ Len(s.bytes) \in Nat
      /\ s.bytes \in Seq(Byte)
  BY NumBitsNat DEF Clean, Packed, Place
<1>2. t = [bits |-> {}, num_bits |-> 0, bytes |-> Append(s.bytes, byte)]
  BY <1>1, BitStreamAssumption DEF PushedBit, FlushedByte, Packed
<1>3. byte \in Byte
  BY <1>1 DEF Byte, Place
<1> HIDE DEF t, byte
<1>4. /\ t.bytes \in Seq(Byte) /\ Len(t.bytes) = Len(s.bytes) + 1
      /\ t.bytes[Len(s.bytes) + 1] = byte
      /\ \A i \in 1 .. Len(s.bytes) : t.bytes[i] = s.bytes[i]
  BY <1>1, <1>2, <1>3
<1>5. t.bits = {} /\ t.num_bits = 0
  BY <1>2
<1>6. t \in Packed
  <2>1. t.bits \in Byte /\ t.num_bits \in Place
    BY <1>5, BitStreamAssumption DEF Byte, Place
  <2>2. QED
    BY <1>2, <1>4, <2>1 DEF Packed
<1>7. NumBits(t) = NumBits(s) + 1
  <2>1. /\ Len(s.bytes) * ByteSize \in Nat
        /\ (Len(s.bytes) + 1) * ByteSize = Len(s.bytes) * ByteSize + ByteSize
    BY <1>1, BitStreamAssumption, SMT
  <2>2. QED
    BY <1>1, <1>4, <1>5, <2>1 DEF NumBits
<1>8. ASSUME NEW p \in 0 .. NumBits(s) - 1
      PROVE  BitAt(t, p) = BitAt(s, p)
  <2>1. PICK q \in Nat, r \in Place :
          /\ p = q * ByteSize + r
          /\ q < Len(s.bytes) \/ (q = Len(s.bytes) /\ r < s.num_bits)
    BY <1>1, Located
  <2>2. CASE q < Len(s.bytes)
    <3>1. q < Len(t.bytes) /\ t.bytes[q + 1] = s.bytes[q + 1]
      BY <1>1, <1>4, <2>2
    <3>2. QED
      BY <1>1, <1>6, <2>1, <2>2, <3>1, BitIn
  <2>3. CASE q = Len(s.bytes) /\ r < s.num_bits
    <3>1. r \in byte <=> r \in s.bits
      BY <1>1, <2>3 DEF Place, byte
    <3>2. ~(q < Len(s.bytes)) /\ q < Len(t.bytes) /\ t.bytes[q + 1] = byte
      BY <1>1, <1>4, <2>3
    <3>3. QED
      BY <1>1, <1>6, <2>1, <3>1, <3>2, BitIn
  <2>4. QED
    BY <2>1, <2>2, <2>3
<1>9. BitAt(t, NumBits(s)) = b
  <2>1. s.num_bits \in byte <=> b = 1
    BY <1>1 DEF byte
  <2>2. NumBits(s) = Len(s.bytes) * ByteSize + s.num_bits
    BY DEF NumBits
  <2>3. Len(s.bytes) < Len(t.bytes)
    BY <1>1, <1>4
  <2>4. BitAt(t, NumBits(s)) = IF s.num_bits \in byte THEN 1 ELSE 0
    BY <1>1, <1>4, <1>6, <2>2, <2>3, BitIn
  <2>5. QED
    BY <2>1, <2>4 DEF Bit
<1>10. BitsOf(t) = Append(BitsOf(s), b)
  BY <1>1, <1>6, <1>7, <1>8, <1>9, AppendedBits
<1>11. QED
  BY <1>5, <1>6, <1>10 DEF Clean, t

\* push_bit() appends its bit to those the stream stands for.
LEMMA Pushed ==
  ASSUME NEW s, Clean(s), NEW b \in Bit
  PROVE  /\ Clean(PushedBit(s, b))
         /\ BitsOf(PushedBit(s, b)) = Append(BitsOf(s), b)
  BY PushedShort, PushedFull

\* flush_byte() appends zeros up to the next byte.
LEMMA Flushed ==
  ASSUME NEW s, Clean(s)
  PROVE  /\ Clean(FlushedByte(s))
         /\ BitsOf(FlushedByte(s)) = Log!Padded(BitsOf(s))
<1> DEFINE t == FlushedByte(s)
           x == BitsOf(s)
           y == BitsOf(t)
           n == NumBits(s)
           fill == (-n) % ByteSize
<1>1. /\ s \in Packed /\ s.bits \subseteq 0 .. s.num_bits - 1
      /\ s.num_bits \in Place /\ s.num_bits \in Nat /\ Len(s.bytes) \in Nat
      /\ s.bytes \in Seq(Byte) /\ s.bits \in Byte /\ n \in Nat
      /\ s = [bits |-> s.bits, num_bits |-> s.num_bits, bytes |-> s.bytes]
  BY NumBitsNat DEF Clean, Packed, Place
<1>2. fill = IF s.num_bits = 0 THEN 0 ELSE ByteSize - s.num_bits
  BY <1>1, Missing DEF NumBits
<1>3. fill \in Nat
  BY <1>1, <1>2, BitStreamAssumption DEF Place
<1>4. x \in Seq(Bit) /\ Len(x) = n /\ \A i \in 1 .. n : x[i] = BitAt(s, i - 1)
  BY <1>1, BitsOfIs
<1>5. Clean(t)
  <2>1. {} \in Byte /\ 0 \in Place
    BY BitStreamAssumption DEF Byte, Place
  <2>2. Append(s.bytes, s.bits) \in Seq(Byte)
    BY <1>1
  <2>3. QED
    BY <1>1, <2>1, <2>2 DEF FlushedByte, Clean, Packed
<1>6. y \in Seq(Bit) /\ Len(y) = NumBits(t)
      /\ \A i \in 1 .. NumBits(t) : y[i] = BitAt(t, i - 1)
  BY <1>5, BitsOfIs DEF Clean
<1>7. Log!Padded(x) = x \o [i \in 1 .. fill |-> 0]
  BY <1>4 DEF Log!Padded
<1> HIDE DEF fill
<1>8. NumBits(t) = n + fill
  <2>1. CASE s.num_bits = 0
    BY <1>1, <1>2, <2>1 DEF FlushedByte
  <2>2. CASE s.num_bits # 0
    <3>1. /\ Len(s.bytes) * ByteSize \in Nat
          /\ (Len(s.bytes) + 1) * ByteSize = Len(s.bytes) * ByteSize + ByteSize
      BY <1>1, BitStreamAssumption, SMT
    <3>2. t.num_bits = 0 /\ Len(t.bytes) = Len(s.bytes) + 1
      BY <1>1, <2>2 DEF FlushedByte
    <3>3. QED
      BY <1>1, <1>2, <2>2, <3>1, <3>2, BitStreamAssumption DEF NumBits
  <2>3. QED
    BY <2>1, <2>2
<1>9. ASSUME NEW p \in 0 .. n + fill - 1
      PROVE  BitAt(t, p) = IF p < n THEN BitAt(s, p) ELSE 0
  <2>1. CASE s.num_bits = 0
    <3>1. t = s /\ fill = 0
      BY <1>2, <2>1 DEF FlushedByte
    <3>2. QED
      BY <1>1, <3>1
  <2>2. CASE s.num_bits # 0
    <3>1. /\ Len(t.bytes) = Len(s.bytes) + 1
          /\ t.bytes[Len(s.bytes) + 1] = s.bits
          /\ \A i \in 1 .. Len(s.bytes) : t.bytes[i] = s.bytes[i]
          /\ t.num_bits = 0 /\ t \in Packed
      BY <1>1, <1>5, <2>2 DEF FlushedByte, Clean
    <3>2. p \in 0 .. NumBits(t) - 1
      BY <1>1, <1>3, <1>8
    <3>3. PICK q \in Nat, r \in Place :
            /\ p = q * ByteSize + r
            /\ q < Len(t.bytes) \/ (q = Len(t.bytes) /\ r < t.num_bits)
      BY <3>1, <3>2, Located
    <3>4. q < Len(t.bytes)
      BY <3>1, <3>3 DEF Place
    <3> HIDE DEF t
    <3>5. CASE q < Len(s.bytes)
      <4>1. p < n
        <5>1. q * ByteSize + ByteSize <= Len(s.bytes) * ByteSize
          BY <1>1, <3>5, Multiples
        <5>2. q * ByteSize \in Nat /\ Len(s.bytes) * ByteSize \in Nat
          BY <1>1, BitStreamAssumption, SMT
        <5>3. QED
          BY <1>1, <3>3, <5>1, <5>2, BitStreamAssumption DEF NumBits, Place
      <4>2. t.bytes[q + 1] = s.bytes[q + 1]
        BY <1>1, <3>1, <3>5
      <4>3. QED
        BY <1>1, <3>1, <3>3, <3>4, <3>5, <4>1, <4>2, BitIn
    <3>6. CASE q = Len(s.bytes)
      <4>1. BitAt(t, p) = IF r \in s.bits THEN 1 ELSE 0
        BY <3>1, <3>3, <3>4, <3>6, BitIn
      <4>2. BitAt(s, p) = IF r \in s.bits THEN 1 ELSE 0
        BY <1>1, <3>3, <3>6, BitIn
      <4>3. p < n <=> r < s.num_bits
        <5>1. Len(s.bytes) * ByteSize \in Nat
          BY <1>1, BitStreamAssumption, SMT
        <5>2. p = Len(s.bytes) * ByteSize + r
          BY <3>3, <3>6
        <5>3. n = Len(s.bytes) * ByteSize + s.num_bits
          BY DEF NumBits
        <5>4. r \in Nat
          BY DEF Place
        <5> QED
          BY <1>1, <5>1, <5>2, <5>3, <5>4
      <4>4. r \in s.bits => r < s.num_bits
        BY <1>1 DEF Place
      <4>5. QED
        BY <4>1, <4>2, <4>3, <4>4
    <3>7. QED
      BY <1>1, <3>1, <3>4, <3>5, <3>6
  <2>3. QED
    BY <2>1, <2>2
<1> HIDE DEF t, x, y, n
<1>10. y = x \o [i \in 1 .. fill |-> 0]
  <2> DEFINE z == [i \in 1 .. fill |-> 0]
             w == x \o z
  <2>1. z \in Seq(Bit) /\ Len(z) = fill /\ \A i \in 1 .. fill : z[i] = 0
    BY <1>3 DEF Bit
  <2> HIDE DEF z
  <2>2. /\ w \in Seq(Bit) /\ Len(w) = n + fill
        /\ \A i \in 1 .. n + fill : w[i] = IF i <= n THEN x[i] ELSE z[i - n]
    <3>1. w \in Seq(Bit) /\ Len(w) = Len(x) + Len(z)
      BY <1>4, <2>1, ConcatProperties
    <3>2. \A i \in 1 .. Len(x) + Len(z) :
            w[i] = IF i <= Len(x) THEN x[i] ELSE z[i - Len(x)]
      BY <1>4, <2>1, ConcatProperties
    <3>3. QED
      BY <1>4, <2>1, <3>1, <3>2
  <2>3. Len(y) = n + fill /\ y \in Seq(Bit)
    BY <1>6, <1>8
  <2>4. ASSUME NEW i \in 1 .. n + fill
        PROVE  y[i] = w[i]
    <3>1. i - 1 \in 0 .. n + fill - 1 /\ y[i] = BitAt(t, i - 1)
      BY <1>1, <1>3, <1>6, <1>8
    <3>2. y[i] = IF i - 1 < n THEN BitAt(s, i - 1) ELSE 0
      BY <1>9, <3>1
    <3>3. CASE i <= n
      BY <1>1, <1>4, <2>2, <3>2, <3>3
    <3>4. CASE ~(i <= n)
      <4>1. i - n \in 1 .. fill
        BY <1>1, <1>3, <3>4
      <4>2. QED
        BY <1>1, <2>1, <2>2, <3>2, <3>4, <4>1
    <3>5. QED
      BY <3>3, <3>4
  <2> HIDE DEF w
  <2>5. y = w
    BY <2>2, <2>3, <2>4, SeqEqual
  <2>6. QED
    BY <2>5 DEF w, z
<1>11. QED
  BY <1>5, <1>7, <1>10 DEF t, x, y

-----------------------------------------------------------------------------
\* Both streams are clean between two bits, and a commit under way has bits
\* left to push.
IInv ==
  /\ Clean(stream)
  /\ Clean(buffered)
  /\ position \in Nat
  /\ position = 0 \/ position < NumBits(buffered)
  /\ destroyed \in BOOLEAN

\* A new stream, and one that was reset, stands for no bits.
LEMMA EmptyStream ==
  Clean(Empty) /\ NumBits(Empty) = 0 /\ BitsOf(Empty) = <<>>
<1>1. {} \in Byte /\ 0 \in Place /\ <<>> \in Seq(Byte)
  BY BitStreamAssumption DEF Byte, Place
<1>2. Clean(Empty)
  BY <1>1 DEF Clean, Packed, Empty
<1>3. NumBits(Empty) = 0
  BY BitStreamAssumption, SMT DEF NumBits, Empty
<1>4. BitsOf(Empty) \in Seq(Bit) /\ Len(BitsOf(Empty)) = 0
  BY <1>2, <1>3, BitsOfIs DEF Clean
<1>5. QED
  BY <1>2, <1>3, <1>4, EmptySeq

\* The bit that a commit pushes is the next of those held back.
LEMMA CommittedBit ==
  ASSUME Clean(buffered), position \in Nat, position < NumBits(buffered)
  PROVE  /\ BitAt(buffered, position) \in Bit
         /\ BitsOf(buffered)[position + 1] = BitAt(buffered, position)
         /\ Len(BitsOf(buffered)) = NumBits(buffered)
<1>1. buffered \in Packed /\ NumBits(buffered) \in Nat
  BY NumBitsNat DEF Clean
<1>2. position + 1 \in 1 .. NumBits(buffered) /\ (position + 1) - 1 = position
  BY <1>1
<1>3. QED
  BY <1>1, <1>2, BitsOfIs DEF BitAt, Bit

\* The invariant holds initially.
LEMMA InitIInv == Init => IInv
<1> SUFFICES ASSUME Init PROVE IInv
  OBVIOUS
<1>1. Clean(stream) /\ Clean(buffered)
  BY EmptyStream DEF Init
<1>2. position = 0 /\ destroyed \in BOOLEAN
  BY DEF Init
<1>3. QED
  BY <1>1, <1>2 DEF IInv

\* Every step preserves the invariant.
LEMMA NextIInv == IInv /\ [Next]_vars => IInv'
<1> SUFFICES ASSUME IInv, [Next]_vars
             PROVE  IInv'
  OBVIOUS
<1> USE DEF IInv
<1>1. CASE PushBit
  <2>1. PICK b \in Bit : stream' = PushedBit(stream, b)
    BY <1>1 DEF PushBit
  <2>2. UNCHANGED <<buffered, position, destroyed>>
    BY <1>1 DEF PushBit
  <2>3. Clean(stream')
    BY <2>1, Pushed
  <2>4. QED
    BY <2>2, <2>3 DEF Clean, NumBits
<1>2. CASE FlushByte
  <2>1. Clean(stream') /\ UNCHANGED <<buffered, position, destroyed>>
    BY <1>2, Flushed DEF FlushByte
  <2>2. QED
    BY <2>1 DEF Clean, NumBits
<1>3. CASE PushBufferedBit
  <2>1. PICK b \in Bit : buffered' = PushedBit(buffered, b)
    BY <1>3 DEF PushBufferedBit
  <2>2. UNCHANGED <<stream, position, destroyed>> /\ position = 0
    BY <1>3 DEF PushBufferedBit, Idle
  <2>3. Clean(buffered')
    BY <2>1, Pushed
  <2>4. QED
    BY <2>2, <2>3 DEF Clean
<1>4. CASE FlushBufferedByte
  <2>1. Clean(buffered') /\ UNCHANGED <<stream, position, destroyed>> /\ position = 0
    BY <1>4, Flushed DEF FlushBufferedByte, Idle
  <2>2. QED
    BY <2>1 DEF Clean
<1>5. CASE CommitBit
  <2>1. /\ position < NumBits(buffered)
        /\ stream' = PushedBit(stream, BitAt(buffered, position))
        /\ position' = IF position + 1 = NumBits(buffered) THEN 0 ELSE position + 1
        /\ UNCHANGED <<buffered, destroyed>>
    BY <1>5 DEF CommitBit
  <2>2. Clean(stream')
    BY <2>1, CommittedBit, Pushed
  <2>3. NumBits(buffered) \in Nat
    BY NumBitsNat DEF Clean
  <2>4. position' \in Nat /\ (position' = 0 \/ position' < NumBits(buffered))
    BY <2>1, <2>3
  <2>5. QED
    BY <2>1, <2>2, <2>4 DEF Clean, NumBits
<1>6. CASE Reset
  <2>1. buffered' = Empty /\ UNCHANGED <<stream, position, destroyed>> /\ position = 0
    BY <1>6 DEF Reset, Idle
  <2>2. QED
    BY <2>1, EmptyStream DEF Clean
<1>7. CASE Destroy
  <2>1. Clean(stream') /\ destroyed' = TRUE /\ UNCHANGED <<buffered, position>>
    BY <1>7, Flushed DEF Destroy
  <2>2. QED
    BY <2>1 DEF Clean, NumBits
<1>8. CASE UNCHANGED vars
  BY <1>8 DEF vars, Clean, NumBits
<1>9. QED
  BY <1>1, <1>2, <1>3, <1>4, <1>5, <1>6, <1>7, <1>8 DEF Next

\* Whatever is pushed, flushed, committed and reset, in any order.
THEOREM Invariance == Spec => []IInv
  BY InitIInv, NextIInv, PTL DEF Spec

\* The streams keep their shape: a byte is never overfull, and a commit never
\* runs past the bits held back (push_bit, commit).
THEOREM TypeCorrect == Spec => []TypeOK
<1>1. IInv => TypeOK
  <2>1. SUFFICES ASSUME IInv PROVE TypeOK
    OBVIOUS
  <2>2. NumBits(buffered) \in Nat
    BY <2>1, NumBitsNat DEF IInv, Clean
  <2>3. QED
    BY <2>1, <2>2 DEF IInv, Clean, TypeOK
<1>2. QED
  BY <1>1, Invariance, PTL

\* The places of a partial byte that no bit was pushed to are zero, so that
\* or-ing a bit in sets it, and padding is zeros (push_bit, flush_byte, reset).
THEOREM PaddingClean == Spec => []UnusedPlacesZero
<1>1. IInv => UnusedPlacesZero
  BY DEF IInv, Clean, UnusedPlacesZero
<1>2. QED
  BY <1>1, Invariance, PTL

\* Every call does to the bit strings what BitLog says.
LEMMA NextRefines == IInv /\ [Next]_vars => [Log!Next]_Log!vars
<1> SUFFICES ASSUME IInv, [Next]_vars
             PROVE  [Log!Next]_Log!vars
  OBVIOUS
<1> USE DEF IInv
<1>0. Log!Bit = Bit
  BY DEF Log!Bit, Bit
<1>1. CASE PushBit
  <2>1. PICK b \in Bit : stream' = PushedBit(stream, b)
    BY <1>1 DEF PushBit
  <2>2. ~destroyed /\ position = 0 /\ UNCHANGED <<buffered, position, destroyed>>
    BY <1>1 DEF PushBit, Idle
  <2>3. BitsOf(stream)' = Append(BitsOf(stream), b)
    <3>1. BitsOf(PushedBit(stream, b)) = Append(BitsOf(stream), b)
      BY Pushed
    <3>2. BitsOf(stream)' = BitsOf(PushedBit(stream, b))
      BY <2>1 DEF BitsOf, NumBits, BitAt
    <3>3. QED
      BY <3>1, <3>2
  <2>4. BitsOf(buffered)' = BitsOf(buffered)
    BY <2>2 DEF BitsOf, NumBits, BitAt
  <2>5. Log!Write
    BY <1>0, <2>2, <2>3, <2>4 DEF Log!Write
  <2>6. QED
    BY <2>5 DEF Log!Next
<1>2. CASE FlushByte
  <2>1. /\ stream' = FlushedByte(stream)
        /\ ~destroyed /\ position = 0 /\ UNCHANGED <<buffered, position, destroyed>>
    BY <1>2 DEF FlushByte, Idle
  <2>2. BitsOf(stream)' = Log!Padded(BitsOf(stream))
    BY <2>1, Flushed DEF BitsOf, NumBits, BitAt
  <2>3. BitsOf(buffered)' = BitsOf(buffered)
    BY <2>1 DEF BitsOf, NumBits, BitAt
  <2>4. Log!Align
    BY <2>1, <2>2, <2>3 DEF Log!Align
  <2>5. QED
    BY <2>4 DEF Log!Next
<1>3. CASE PushBufferedBit
  <2>1. PICK b \in Bit : buffered' = PushedBit(buffered, b)
    BY <1>3 DEF PushBufferedBit
  <2>2. ~destroyed /\ position = 0 /\ UNCHANGED <<stream, position, destroyed>>
    BY <1>3 DEF PushBufferedBit, Idle
  <2>3. BitsOf(buffered)' = Append(BitsOf(buffered), b)
    <3>1. BitsOf(PushedBit(buffered, b)) = Append(BitsOf(buffered), b)
      BY Pushed
    <3>2. BitsOf(buffered)' = BitsOf(PushedBit(buffered, b))
      BY <2>1 DEF BitsOf, NumBits, BitAt
    <3>3. QED
      BY <3>1, <3>2
  <2>4. BitsOf(stream)' = BitsOf(stream)
    BY <2>2 DEF BitsOf, NumBits, BitAt
  <2>5. Log!Hold
    BY <1>0, <2>2, <2>3, <2>4 DEF Log!Hold
  <2>6. QED
    BY <2>5 DEF Log!Next
<1>4. CASE FlushBufferedByte
  <2>1. /\ buffered' = FlushedByte(buffered)
        /\ ~destroyed /\ position = 0 /\ UNCHANGED <<stream, position, destroyed>>
    BY <1>4 DEF FlushBufferedByte, Idle
  <2>2. BitsOf(buffered)' = Log!Padded(BitsOf(buffered))
    BY <2>1, Flushed DEF BitsOf, NumBits, BitAt
  <2>3. BitsOf(stream)' = BitsOf(stream)
    BY <2>1 DEF BitsOf, NumBits, BitAt
  <2>4. Log!AlignHeld
    BY <2>1, <2>2, <2>3 DEF Log!AlignHeld
  <2>5. QED
    BY <2>4 DEF Log!Next
<1>5. CASE CommitBit
  <2> DEFINE n == NumBits(buffered)
  <2>1. /\ ~destroyed /\ position < n
        /\ stream' = PushedBit(stream, BitAt(buffered, position))
        /\ position' = IF position + 1 = n THEN 0 ELSE position + 1
        /\ UNCHANGED <<buffered, destroyed>>
    BY <1>5 DEF CommitBit
  <2>2. /\ BitAt(buffered, position) \in Bit
        /\ BitsOf(buffered)[position + 1] = BitAt(buffered, position)
        /\ Len(BitsOf(buffered)) = n
    BY <2>1, CommittedBit
  <2>3. BitsOf(stream)' = Append(BitsOf(stream), BitsOf(buffered)[position + 1])
    <3> DEFINE b == BitAt(buffered, position)
    <3>1. BitsOf(PushedBit(stream, b)) = Append(BitsOf(stream), b)
      BY <2>2, Pushed
    <3>2. stream' = PushedBit(stream, b)
      BY <2>1
    <3>3. b = BitsOf(buffered)[position + 1]
      BY <2>2
    <3> HIDE DEF b
    <3>4. BitsOf(stream)' = BitsOf(PushedBit(stream, b))
      BY <3>2 DEF BitsOf, NumBits, BitAt
    <3>5. QED
      BY <3>1, <3>3, <3>4
  <2>4. BitsOf(buffered)' = BitsOf(buffered)
    BY <2>1 DEF BitsOf, NumBits, BitAt
  <2>5. n \in Nat
    BY NumBitsNat DEF Clean
  <2> HIDE DEF n
  <2>6. position \in 0 .. n - 1
    BY <2>1, <2>5
  <2>7. (position + 1) % n = IF position + 1 = n THEN 0 ELSE position + 1
    BY <2>5, <2>6, Wrapped
  <2>8. position' = (position + 1) % Len(BitsOf(buffered))
    BY <2>1, <2>2, <2>7
  <2>9. Log!Commit
    BY <2>1, <2>2, <2>3, <2>4, <2>8 DEF Log!Commit
  <2>10. QED
    BY <2>9 DEF Log!Next
<1>6. CASE Reset
  <2>1. /\ buffered' = Empty
        /\ ~destroyed /\ position = 0 /\ UNCHANGED <<stream, position, destroyed>>
    BY <1>6 DEF Reset, Idle
  <2>2. BitsOf(buffered)' = <<>>
    BY <2>1, EmptyStream DEF BitsOf, NumBits, BitAt
  <2>3. BitsOf(stream)' = BitsOf(stream)
    BY <2>1 DEF BitsOf, NumBits, BitAt
  <2>4. Log!Drop
    BY <2>1, <2>2, <2>3 DEF Log!Drop
  <2>5. QED
    BY <2>4 DEF Log!Next
<1>7. CASE Destroy
  <2>1. /\ stream' = FlushedByte(stream) /\ destroyed' = TRUE
        /\ ~destroyed /\ position = 0 /\ UNCHANGED <<buffered, position>>
    BY <1>7 DEF Destroy, Idle
  <2>2. BitsOf(stream)' = Log!Padded(BitsOf(stream))
    BY <2>1, Flushed DEF BitsOf, NumBits, BitAt
  <2>3. BitsOf(buffered)' = BitsOf(buffered)
    BY <2>1 DEF BitsOf, NumBits, BitAt
  <2>4. Log!Close
    BY <2>1, <2>2, <2>3 DEF Log!Close
  <2>5. QED
    BY <2>4 DEF Log!Next
<1>8. CASE UNCHANGED vars
  <2>1. UNCHANGED <<stream, buffered, position, destroyed>>
    BY <1>8 DEF vars
  <2>2. BitsOf(stream)' = BitsOf(stream) /\ BitsOf(buffered)' = BitsOf(buffered)
    BY <2>1 DEF BitsOf, NumBits, BitAt
  <2>3. QED
    BY <2>1, <2>2 DEF Log!vars
<1>9. QED
  BY <1>1, <1>2, <1>3, <1>4, <1>5, <1>6, <1>7, <1>8 DEF Next

\* The bytes put out are the bits pushed, flushed and committed, in order and
\* at every alignment, for every byte size (push_bit, flush_byte, commit).
THEOREM Refinement == Spec => ImplementsLog
<1>1. Init => Log!Init
  BY EmptyStream DEF Init, Log!Init
<1>2. IInv /\ [Next]_vars => [Log!Next]_Log!vars
  BY NextRefines
<1>3. QED
  BY <1>1, <1>2, Invariance, PTL DEF Spec, ImplementsLog, Log!Spec
-----------------------------------------------------------------------------
(***************************************************************************)
(* Stored blocks: what is proved above holds when they are committed.      *)
(***************************************************************************)

\* Every step is a step of the bit streams.
LEMMA StoredSteps ==
  ASSUME [StoredNext]_<<vars, calls, committed>>
  PROVE  [Next]_vars
BY DEF StoredNext, Commit, CommitPushBit, CommitFlushByte, Other, Next

\* The bit streams with stored blocks implement the bit streams: what is proved
\* of every behaviour of the bit streams holds when stored blocks are written.
THEOREM StoredImplementsBitStream == StoredSpec => Spec
<1>1. StoredInit => Init
  BY DEF StoredInit
<1>2. [StoredNext]_<<vars, calls, committed>> => [Next]_vars
  BY StoredSteps
<1>3. QED
  BY <1>1, <1>2, PTL DEF StoredSpec, Spec

\* With stored blocks too the streams keep their types, leave no bit behind in
\* an unused place, and hold what was pushed and committed, in order.
THEOREM StreamsWithStoredBlocks ==
  StoredSpec => [](TypeOK /\ UnusedPlacesZero) /\ ImplementsLog
BY StoredImplementsBitStream, TypeCorrect, PaddingClean, Refinement, PTL

-----------------------------------------------------------------------------
(***************************************************************************)
(* The calls of a commit: three bits, flush_byte(), then only bits.        *)
(***************************************************************************)
NumCalls(block) == 4 + 2 * LengthBits + Len(block) * ByteSize

\* A sequence in front of another one.
LEMMA Joined ==
  ASSUME NEW S, NEW s \in Seq(S), NEW t \in Seq(S)
  PROVE  /\ s \o t \in Seq(S)
         /\ Len(s \o t) = Len(s) + Len(t)
         /\ \A i \in 1 .. Len(s) + Len(t) :
              (s \o t)[i] = IF i <= Len(s) THEN s[i] ELSE t[i - Len(s)]
BY ConcatProperties

Call == {<<"push_bit", 0>>, <<"push_bit", 1>>, <<"flush_byte">>}
BitCall == {<<"push_bit", 0>>, <<"push_bit", 1>>}

\* A number is pushed with as many calls as it has bits.
LEMMA PushBitsCalls ==
  ASSUME NEW number \in Int, NEW n \in Nat
  PROVE  PushBits(number, n) \in Seq(BitCall) /\ Len(PushBits(number, n)) = n
<1>1. ASSUME NEW i \in 1 .. n
      PROVE  <<"push_bit", (number \div 2 ^ (i - 1)) % 2>> \in BitCall
  <2>1. (number \div 2 ^ (i - 1)) % 2 \in {0, 1}
    OBVIOUS
  <2>2. QED
    BY <2>1 DEF BitCall
<1>2. QED
  BY <1>1 DEF PushBits

\* So are bytes.
LEMMA PushBytesCalls ==
  ASSUME NEW bytes \in Seq(Byte)
  PROVE  /\ PushBytes(bytes) \in Seq(BitCall)
         /\ Len(PushBytes(bytes)) = Len(bytes) * ByteSize
         /\ Len(bytes) * ByteSize \in Nat
<1>1. Len(bytes) * ByteSize \in Nat
  BY LenProperties, BitStreamAssumption
<1> DEFINE n == Len(bytes) * ByteSize
<1> HIDE DEF n
<1>2. PushBytes(bytes) \in [1 .. n -> BitCall]
  BY DEF PushBytes, BitCall, n
<1>3. n \in Nat
  BY <1>1 DEF n
<1>4. QED
  BY <1>2, <1>3 DEF n

\* n calls, of which the fourth is flush_byte() and every other push_bit().
Framed(s, n) ==
  /\ s \in Seq(Call) /\ Len(s) = n /\ n \in Nat /\ n >= 4
  /\ \A k \in 1 .. n : s[k][1] = "flush_byte" <=> k = 4

\* Bits may be pushed behind them.
LEMMA BitsBehind ==
  ASSUME NEW s, NEW n, Framed(s, n), NEW t \in Seq(BitCall)
  PROVE  Framed(s \o t, n + Len(t))
<1>1. s \in Seq(Call) /\ Len(s) = n /\ n \in Nat /\ n >= 4 /\ Len(t) \in Nat
  BY LenProperties DEF Framed
<1>2. BitCall \subseteq Call /\ \A call \in BitCall : call[1] = "push_bit"
  BY DEF BitCall, Call
<1>3. t \in Seq(Call)
  BY <1>2
<1>4. /\ s \o t \in Seq(Call) /\ Len(s \o t) = n + Len(t)
      /\ \A k \in 1 .. n + Len(t) :
           (s \o t)[k] = IF k <= n THEN s[k] ELSE t[k - n]
  BY <1>1, <1>3, Joined
<1>5. ASSUME NEW k \in 1 .. n + Len(t)
      PROVE  (s \o t)[k][1] = "flush_byte" <=> k = 4
  <2>1. CASE k <= n
    <3>1. (s \o t)[k] = s[k] /\ k \in 1 .. n
      BY <1>1, <1>4, <2>1
    <3>2. QED
      BY <3>1 DEF Framed
  <2>2. CASE ~(k <= n)
    <3>1. (s \o t)[k] = t[k - n] /\ k - n \in 1 .. Len(t) /\ k # 4
      BY <1>1, <1>4, <2>2
    <3>2. t[k - n] \in BitCall
      BY <3>1
    <3>3. QED
      BY <1>2, <3>1, <3>2
  <2>3. QED
    BY <2>1, <2>2
<1>6. QED
  BY <1>1, <1>4, <1>5 DEF Framed

\* The header of a commit.
LEMMA HeaderCalls ==
  ASSUME NEW bit \in {0, 1}
  PROVE  Framed(PushBits(bit, 1) \o PushBits(0, 2) \o << <<"flush_byte">> >>, 4)
<1> DEFINE type == PushBits(bit, 1) \o PushBits(0, 2)
           flush == << <<"flush_byte">> >>
<1>1. type \in Seq(BitCall) /\ Len(type) = 3
  <2>1. PushBits(bit, 1) \in Seq(BitCall) /\ Len(PushBits(bit, 1)) = 1
    <3>1. bit \in Int /\ 1 \in Nat
      OBVIOUS
    <3>2. QED
      BY <3>1, PushBitsCalls
  <2>2. PushBits(0, 2) \in Seq(BitCall) /\ Len(PushBits(0, 2)) = 2
    <3>1. 0 \in Int /\ 2 \in Nat
      OBVIOUS
    <3>2. QED
      BY <3>1, PushBitsCalls
  <2>3. ASSUME NEW s \in Seq(BitCall), NEW t \in Seq(BitCall), Len(s) = 1, Len(t) = 2
        PROVE  s \o t \in Seq(BitCall) /\ Len(s \o t) = 3
    <3>1. s \o t \in Seq(BitCall) /\ Len(s \o t) = Len(s) + Len(t)
      BY Joined
    <3>2. QED
      BY <2>3, <3>1
  <2>4. QED
    BY <2>1, <2>2, <2>3
<1>2. /\ flush \in Seq(Call) /\ Len(flush) = 1 /\ flush[1][1] = "flush_byte"
  BY DEF Call
<1>3. BitCall \subseteq Call /\ \A call \in BitCall : call[1] = "push_bit"
  BY DEF BitCall, Call
<1> HIDE DEF type, flush
<1>4. type \in Seq(Call)
  BY <1>1, <1>3
<1>5. /\ type \o flush \in Seq(Call) /\ Len(type \o flush) = 4
      /\ \A k \in 1 .. 4 : (type \o flush)[k] = IF k <= 3 THEN type[k] ELSE flush[k - 3]
  <2>1. /\ type \o flush \in Seq(Call) /\ Len(type \o flush) = Len(type) + Len(flush)
        /\ \A k \in 1 .. Len(type) + Len(flush) :
             (type \o flush)[k] = IF k <= Len(type) THEN type[k] ELSE flush[k - Len(type)]
    BY <1>2, <1>4, Joined
  <2>2. QED
    BY <1>1, <1>2, <2>1
<1>6. ASSUME NEW k \in 1 .. 4
      PROVE  (type \o flush)[k][1] = "flush_byte" <=> k = 4
  <2>1. CASE k <= 3
    <3>1. (type \o flush)[k] = type[k] /\ k \in 1 .. Len(type)
      BY <1>1, <1>5, <2>1
    <3>2. type[k] \in BitCall
      BY <1>1, <3>1
    <3>3. QED
      BY <1>3, <2>1, <3>1, <3>2
  <2>2. CASE ~(k <= 3)
    <3>1. k = 4
      BY <2>2
    <3>2. (type \o flush)[4] = flush[1]
      BY <1>5
    <3>3. QED
      BY <1>2, <3>1, <3>2
  <2>3. QED
    BY <2>1, <2>2
<1>7. Framed(type \o flush, 4)
  BY <1>5, <1>6 DEF Framed
<1>8. QED
  BY <1>7 DEF type, flush

\* The fourth call of a commit is flush_byte(), and every other one push_bit().
LEMMA CallsAre ==
  ASSUME NEW bytes \in Block, NEW is_last
  PROVE  Framed(CallsOfCommit(bytes, is_last), NumCalls(bytes))
<1> DEFINE bit == IF is_last THEN 1 ELSE 0
           header == PushBits(bit, 1) \o PushBits(0, 2) \o << <<"flush_byte">> >>
           length == PushBits(Len(bytes), LengthBits)
           complement == PushBits(2 ^ LengthBits - 1 - Len(bytes), LengthBits)
           data == PushBytes(bytes)
<1>1. bytes \in Seq(Byte) /\ Len(bytes) \in Nat /\ LengthBits \in Nat
  BY StoredBlockAssumption, LenProperties
<1>2. Framed(header, 4)
  BY HeaderCalls
<1>3. length \in Seq(BitCall) /\ Len(length) = LengthBits
  BY <1>1, PushBitsCalls
<1>4. complement \in Seq(BitCall) /\ Len(complement) = LengthBits
  <2>1. 2 ^ LengthBits - 1 - Len(bytes) \in Int
    BY <1>1
  <2>2. QED
    BY <1>1, <2>1, PushBitsCalls
<1>5. /\ data \in Seq(BitCall) /\ Len(data) = Len(bytes) * ByteSize
      /\ Len(bytes) * ByteSize \in Nat
  BY <1>1, PushBytesCalls
<1>6. CallsOfCommit(bytes, is_last) = header \o length \o complement \o data
  BY DEF CallsOfCommit
<1> HIDE DEF bit, header, length, complement, data
<1>7. Framed(header \o length, 4 + LengthBits)
  BY <1>2, <1>3, BitsBehind
<1>8. Framed(header \o length \o complement, 4 + LengthBits + LengthBits)
  BY <1>4, <1>7, BitsBehind
<1>9. Framed(header \o length \o complement \o data,
             4 + LengthBits + LengthBits + Len(bytes) * ByteSize)
  BY <1>5, <1>8, BitsBehind
<1>10. 4 + LengthBits + LengthBits + Len(bytes) * ByteSize = NumCalls(bytes)
  BY <1>1, <1>5 DEF NumCalls
<1>11. QED
  BY <1>6, <1>9, <1>10

-----------------------------------------------------------------------------
(***************************************************************************)
(* The number of bits of a stream, and of a commit.                        *)
(***************************************************************************)
\* push_bit() adds one bit, flush_byte() those that fill up the byte.
LEMMA NumBitsGrow ==
  ASSUME NEW s, Clean(s)
  PROVE  /\ NumBits(s) \in Nat
         /\ \A b \in Bit : NumBits(PushedBit(s, b)) = NumBits(s) + 1
         /\ NumBits(FlushedByte(s)) = NumBits(s) + ((-NumBits(s)) % ByteSize)
<1>1. /\ s \in Packed /\ NumBits(s) \in Nat
      /\ BitsOf(s) \in Seq(Bit) /\ Len(BitsOf(s)) = NumBits(s)
  BY NumBitsNat, BitsOfIs DEF Clean
<1>2. ASSUME NEW b \in Bit
      PROVE  NumBits(PushedBit(s, b)) = NumBits(s) + 1
  <2>1. /\ PushedBit(s, b) \in Packed
        /\ BitsOf(PushedBit(s, b)) = Append(BitsOf(s), b)
    BY Pushed DEF Clean
  <2>2. Len(BitsOf(PushedBit(s, b))) = NumBits(PushedBit(s, b))
    BY <2>1, BitsOfIs
  <2>3. Len(Append(BitsOf(s), b)) = Len(BitsOf(s)) + 1
    BY <1>1, AppendProperties
  <2>4. QED
    BY <1>1, <2>1, <2>2, <2>3
<1>3. NumBits(FlushedByte(s)) = NumBits(s) + ((-NumBits(s)) % ByteSize)
  <2> DEFINE fill == (-NumBits(s)) % ByteSize
             zeros == [i \in 1 .. fill |-> 0]
  <2>1. /\ FlushedByte(s) \in Packed
        /\ BitsOf(FlushedByte(s)) = Log!Padded(BitsOf(s))
    BY Flushed DEF Clean
  <2>2. Len(BitsOf(FlushedByte(s))) = NumBits(FlushedByte(s))
    BY <2>1, BitsOfIs
  <2>3. fill \in Nat
    BY <1>1, BitStreamAssumption
  <2>4. Log!Padded(BitsOf(s)) = BitsOf(s) \o zeros
    BY <1>1 DEF Log!Padded
  <2> HIDE DEF fill
  <2>5. zeros \in Seq(Bit) /\ Len(zeros) = fill
    BY <2>3 DEF Bit
  <2> HIDE DEF zeros
  <2>6. Len(BitsOf(s) \o zeros) = Len(BitsOf(s)) + Len(zeros)
    BY <1>1, <2>5, Joined
  <2>7. NumBits(FlushedByte(s)) = NumBits(s) + fill
    BY <1>1, <2>1, <2>2, <2>4, <2>5, <2>6
  <2>8. QED
    BY <2>7 DEF fill
<1>4. QED
  BY <1>1, <1>2, <1>3

\* Zeros behind the three bits of a header that begins at a place.
Padding(at) == (-(at + 3)) % ByteSize

\* A commit under way has pushed a bit with every call it made, but for its
\* fourth, which filled up the byte.
SizeInv ==
  /\ calls # <<>> => committed # NotCommitted
  /\ committed # NotCommitted =>
       LET total == NumCalls(committed.block)
           made == total - Len(calls)
       IN /\ committed.at \in Nat /\ committed.block \in Block
          /\ calls \in Seq(Call) /\ made \in Nat
          /\ \A k \in 1 .. Len(calls) : calls[k][1] = "flush_byte" <=> made + k = 4
          /\ NumBits(stream) =
               IF made <= 3 THEN committed.at + made
               ELSE committed.at + Padding(committed.at) + made - 1

\* The numbers of a commit.
LEMMA CommitNumbers ==
  ASSUME NEW bytes \in Block, NEW at \in Nat
  PROVE  /\ NumCalls(bytes) \in Nat /\ NumCalls(bytes) >= 4
         /\ NumCalls(bytes) = 4 + 2 * LengthBits + Len(bytes) * ByteSize
         /\ Len(bytes) * ByteSize \in Nat
         /\ Padding(at) \in 0 .. ByteSize - 1
         /\ LengthBits \in Nat /\ ByteSize \in Nat
<1>1. bytes \in Seq(Byte) /\ Len(bytes) \in Nat /\ LengthBits \in Nat
  BY StoredBlockAssumption, LenProperties
<1>2. Len(bytes) * ByteSize \in Nat
  BY <1>1, PushBytesCalls
<1>3. Padding(at) \in 0 .. ByteSize - 1
  BY BitStreamAssumption DEF Padding
<1>4. QED
  BY <1>1, <1>2, <1>3, BitStreamAssumption DEF NumCalls

LEMMA InitSizeInv == StoredInit => SizeInv
BY DEF StoredInit, SizeInv

\* A commit begins.
LEMMA CommitSize ==
  ASSUME IInv, SizeInv, Commit
  PROVE  SizeInv'
<1>1. PICK bytes \in Block, is_last \in BOOLEAN :
        /\ calls' = CallsOfCommit(bytes, is_last)
        /\ committed' = [at |-> NumBits(stream), block |-> bytes, is_last |-> is_last]
  BY DEF Commit
<1>2. stream' = stream /\ NumBits(stream) \in Nat
  BY NumBitsGrow DEF Commit, vars, IInv
<1>3. Framed(calls', NumCalls(bytes))
  BY <1>1, CallsAre
<1>4. /\ committed'.at = NumBits(stream) /\ committed'.block = bytes
      /\ committed' # NotCommitted
  BY <1>1, <1>2 DEF NotCommitted
<1>5. NumCalls(bytes) - Len(calls') = 0
  BY <1>3 DEF Framed
<1>6. /\ calls' \in Seq(Call)
      /\ \A k \in 1 .. Len(calls') : calls'[k][1] = "flush_byte" <=> 0 + k = 4
  BY <1>3 DEF Framed
<1>7. QED
  BY <1>2, <1>4, <1>5, <1>6 DEF SizeInv

\* What is left of the calls when one is made.
LEMMA CallMade ==
  ASSUME SizeInv, calls # <<>>, calls' = Tail(calls), UNCHANGED committed,
         NEW made, made = NumCalls(committed.block) - Len(calls)
  PROVE  /\ committed # NotCommitted /\ committed.at \in Nat
         /\ committed.block \in Block /\ made \in Nat
         /\ NumBits(stream) =
              IF made <= 3 THEN committed.at + made
              ELSE committed.at + Padding(committed.at) + made - 1
         /\ calls' \in Seq(Call)
         /\ NumCalls(committed.block) - Len(calls') = made + 1
         /\ \A k \in 1 .. Len(calls') :
              calls'[k][1] = "flush_byte" <=> (made + 1) + k = 4
         /\ Head(calls)[1] = "flush_byte" <=> made + 1 = 4
<1>1. /\ committed # NotCommitted /\ committed.at \in Nat
      /\ committed.block \in Block /\ calls \in Seq(Call) /\ made \in Nat
      /\ \A k \in 1 .. Len(calls) : calls[k][1] = "flush_byte" <=> made + k = 4
      /\ NumBits(stream) =
           IF made <= 3 THEN committed.at + made
           ELSE committed.at + Padding(committed.at) + made - 1
  BY DEF SizeInv
<1>2. Len(calls) \in Nat /\ Len(calls) > 0
  BY <1>1, LenProperties, EmptySeq
<1>3. /\ calls' \in Seq(Call) /\ Len(calls') = Len(calls) - 1
      /\ \A k \in 1 .. Len(calls') : calls'[k] = calls[k + 1]
      /\ Head(calls) = calls[1]
  BY <1>1, HeadTailProperties
<1>4. NumCalls(committed.block) \in Nat
  BY <1>1, CommitNumbers
<1>5. ASSUME NEW k \in 1 .. Len(calls')
      PROVE  calls'[k][1] = "flush_byte" <=> (made + 1) + k = 4
  <2>1. calls'[k] = calls[k + 1] /\ k + 1 \in 1 .. Len(calls)
    BY <1>2, <1>3
  <2>2. calls[k + 1][1] = "flush_byte" <=> made + (k + 1) = 4
    BY <1>1, <2>1
  <2>3. QED
    BY <1>1, <2>1, <2>2
<1>6. Head(calls)[1] = "flush_byte" <=> made + 1 = 4
  <2>1. 1 \in 1 .. Len(calls)
    BY <1>2
  <2>2. QED
    BY <1>1, <1>3, <2>1
<1>7. NumCalls(committed.block) - Len(calls') = made + 1
  BY <1>2, <1>3, <1>4
<1>8. QED
  BY <1>1, <1>3, <1>5, <1>6, <1>7

\* One call of a commit is made.
LEMMA CallSize ==
  ASSUME IInv, SizeInv, CommitPushBit \/ CommitFlushByte
  PROVE  SizeInv'
<1> DEFINE at == committed.at
           made == NumCalls(committed.block) - Len(calls)
<1>1. calls # <<>> /\ calls' = Tail(calls) /\ UNCHANGED committed
  BY DEF CommitPushBit, CommitFlushByte
<1>2. /\ committed # NotCommitted /\ at \in Nat
      /\ committed.block \in Block /\ made \in Nat
      /\ NumBits(stream) =
           IF made <= 3 THEN at + made ELSE at + Padding(at) + made - 1
      /\ calls' \in Seq(Call)
      /\ NumCalls(committed.block) - Len(calls') = made + 1
      /\ \A k \in 1 .. Len(calls') :
           calls'[k][1] = "flush_byte" <=> (made + 1) + k = 4
      /\ Head(calls)[1] = "flush_byte" <=> made + 1 = 4
  BY <1>1, CallMade
<1> HIDE DEF at, made
<1>3. Padding(at) \in Nat
  <2>1. Padding(at) \in 0 .. ByteSize - 1
    BY <1>2, CommitNumbers
  <2>2. QED
    BY <2>1, BitStreamAssumption
<1>4. NumBits(stream') =
        IF made + 1 <= 3 THEN at + (made + 1)
        ELSE at + Padding(at) + (made + 1) - 1
  <2>1. CASE CommitPushBit
    <3>1. Head(calls)[1] = "push_bit"
      BY <2>1 DEF CommitPushBit
    <3>2. made + 1 # 4
      BY <1>2, <3>1
    <3>3. PICK b \in Bit : stream' = PushedBit(stream, b)
      BY <2>1 DEF CommitPushBit, PushBit
    <3>4. NumBits(stream') = NumBits(stream) + 1 /\ NumBits(stream) \in Nat
      BY <3>3, NumBitsGrow DEF IInv
    <3>5. QED
      BY <1>2, <1>3, <3>2, <3>4
  <2>2. CASE CommitFlushByte
    <3>1. made = 3
      BY <1>2, <2>2 DEF CommitFlushByte
    <3>2. stream' = FlushedByte(stream)
      BY <2>2 DEF CommitFlushByte, FlushByte
    <3>3. NumBits(stream') = NumBits(stream) + ((-NumBits(stream)) % ByteSize)
      BY <3>2, NumBitsGrow DEF IInv
    <3>4. NumBits(stream) = at + 3
      BY <1>2, <3>1
    <3>5. NumBits(stream') = (at + 3) + Padding(at)
      BY <3>3, <3>4 DEF Padding
    <3>6. QED
      BY <1>2, <1>3, <3>1, <3>5
  <2>3. QED
    BY <2>1, <2>2
<1>5. made + 1 \in Nat
  BY <1>2
<1>6. QED
  BY <1>1, <1>2, <1>4, <1>5 DEF SizeInv, at

LEMMA NextSizeInv ==
  ASSUME IInv, SizeInv, [StoredNext]_<<vars, calls, committed>>
  PROVE  SizeInv'
<1>1. CASE Commit
  BY <1>1, CommitSize
<1>2. CASE CommitPushBit \/ CommitFlushByte
  BY <1>2, CallSize
<1>3. CASE Other
  <2>1. calls' = <<>> /\ committed' = NotCommitted
    BY <1>3 DEF Other
  <2>2. QED
    BY <2>1 DEF SizeInv, NotCommitted
<1>4. CASE UNCHANGED <<vars, calls, committed>>
  <2>1. UNCHANGED stream /\ UNCHANGED calls /\ UNCHANGED committed
    BY <1>4 DEF vars
  <2>2. QED
    BY <2>1 DEF SizeInv
<1>5. QED
  BY <1>1, <1>2, <1>3, <1>4 DEF StoredNext

\* What bits() answers of a stored block differs from the number of bits its
\* commit writes by at most two bits too few and a byte less three too many,
\* for every byte size, block and place in a byte.
THEOREM StoredSize == StoredSpec => []StoredSizeClose
<1>1. StoredInit => IInv /\ SizeInv
  BY InitIInv, InitSizeInv DEF StoredInit
<1>2. (IInv /\ SizeInv) /\ [StoredNext]_<<vars, calls, committed>>
        => (IInv /\ SizeInv)'
  BY StoredSteps, NextIInv, NextSizeInv
<1>3. ASSUME SizeInv
      PROVE  StoredSizeClose
  <2>1. SUFFICES ASSUME committed # NotCommitted, calls = <<>>
                 PROVE  NumBits(stream) - committed.at - StoredBits(committed.block)
                          \in 3 - ByteSize .. 2
    BY DEF StoredSizeClose
  <2> DEFINE at == committed.at
             total == NumCalls(committed.block)
             data == Len(committed.block) * ByteSize
  <2>2. /\ at \in Nat /\ committed.block \in Block /\ Len(calls) = 0
        /\ NumBits(stream) = IF total - Len(calls) <= 3 THEN at + (total - Len(calls))
                             ELSE at + Padding(at) + (total - Len(calls)) - 1
    BY <1>3, <2>1 DEF SizeInv
  <2>3. /\ total \in Nat /\ total >= 4
        /\ total = 4 + 2 * LengthBits + data
        /\ data \in Nat
        /\ Padding(at) \in 0 .. ByteSize - 1
        /\ LengthBits \in Nat /\ ByteSize \in Nat
    BY <2>2, CommitNumbers
  <2>4. StoredBits(committed.block) = ByteSize + 2 * LengthBits + data
    BY DEF StoredBits
  <2> HIDE DEF at, total, data
  <2>5. total - Len(calls) = total /\ ~(total <= 3)
    BY <2>2, <2>3
  <2>6. NumBits(stream) = at + Padding(at) + total - 1
    BY <2>2, <2>5
  <2>7. Padding(at) \in Int
    BY <2>3
  <2>8. NumBits(stream) - at - StoredBits(committed.block) = 3 + Padding(at) - ByteSize
    BY <2>2, <2>3, <2>4, <2>6, <2>7
  <2>9. 3 + Padding(at) - ByteSize \in 3 - ByteSize .. 2
    BY <2>3
  <2>10. QED
    BY <2>8, <2>9 DEF at
<1>4. QED
  BY <1>1, <1>2, <1>3, PTL DEF StoredSpec

-----------------------------------------------------------------------------
(***************************************************************************)
(* What a decoder reads of a stored block.                                 *)
(***************************************************************************)
\* The lowest n bits of a number, each as much as it stands for.
LEMMA BitsAddUp ==
  ASSUME NEW x \in Nat, NEW n \in Nat, NEW f,
         \A i \in 1 .. n : f[i] = ((x \div 2 ^ (i - 1)) % 2) * 2 ^ (i - 1)
  PROVE  SumFunctionOnSet(f, 1 .. n) = x % 2 ^ n
<1> DEFINE S == {k \in Nat : k <= n => SumFunctionOnSet(f, 1 .. k) = x % 2 ^ k}
<1>1. ASSUME NEW i \in 1 .. n
      PROVE  f[i] \in Nat
  <2>1. i - 1 \in Nat
    OBVIOUS
  <2>2. 2 ^ (i - 1) \in Nat
    BY <2>1, PowerSuccessor
  <2>3. (x \div 2 ^ (i - 1)) % 2 \in {0, 1}
    OBVIOUS
  <2>4. QED
    BY <2>2, <2>3
<1>2. IsFiniteSet(1 .. n)
  BY FS_Interval
<1>3. 0 \in S
  <2>1. 2 ^ 0 = 1 /\ x % 1 = 0 /\ 1 .. 0 = {}
    BY PowerSuccessor
  <2>2. QED
    BY <2>1, SumEmpty
<1>4. ASSUME NEW k \in Nat, k \in S
      PROVE  k + 1 \in S
  <2> SUFFICES ASSUME k + 1 <= n
               PROVE  SumFunctionOnSet(f, 1 .. k + 1) = x % 2 ^ (k + 1)
    OBVIOUS
  <2> DEFINE P == 2 ^ k
             q == x \div P
             r == x % P
             h == q \div 2
             b == q % 2
  <2>1. SumFunctionOnSet(f, 1 .. k) = r
    BY <1>4
  <2>2. /\ 1 .. k \in SUBSET (1 .. n) /\ k + 1 \in 1 .. n /\ k + 1 \notin 1 .. k
        /\ 1 .. k + 1 = (1 .. k) \cup {k + 1} /\ (k + 1) - 1 = k
    OBVIOUS
  <2>3. SumFunctionOnSet(f, (1 .. k) \cup {k + 1}) = f[k + 1] + SumFunctionOnSet(f, 1 .. k)
    <3>1. \A i \in 1 .. n : f[i] \in Nat
      BY <1>1
    <3> DEFINE N == 1 .. n
               K == 1 .. k
               y == k + 1
    <3>2. IsFiniteSet(N) /\ (\A i \in N : f[i] \in Nat) /\ K \in SUBSET N /\ y \in N /\ y \notin K
      BY <1>2, <2>2, <3>1
    <3> HIDE DEF N, K, y
    <3>3. SumFunctionOnSet(f, K \cup {y}) = f[y] + SumFunctionOnSet(f, K)
      BY <3>2, SumAddElement
    <3>4. QED
      BY <3>3 DEF K, y
  <2>4. f[k + 1] = b * P
    BY <2>2
  <2>5. P \in Nat \ {0} /\ 2 ^ (k + 1) = 2 * P
    BY PowerSuccessor
  <2> HIDE DEF P
  <2>6. q \in Nat /\ r \in 0 .. P - 1 /\ x = q * P + r
    <3>1. x \in Int
      OBVIOUS
    <3>2. QED
      BY <2>5, <3>1, Quotient
  <2> HIDE DEF q, r
  <2>7. h \in Nat /\ b \in 0 .. 1 /\ q = h * 2 + b
    BY <2>6, Quotient
  <2> HIDE DEF h, b
  <2> DEFINE rest == b * P + r
  <2>8. rest \in 0 .. 2 * P - 1
    <3>1. b = 0 \/ b = 1
      BY <2>7
    <3>2. QED
      BY <2>5, <2>6, <3>1
  <2>9. x = h * (2 * P) + rest
    BY <2>5, <2>6, <2>7
  <2> HIDE DEF rest
  <2>10. x % (2 * P) = rest
    BY <2>5, <2>7, <2>8, <2>9, QuotientIs
  <2>11. SumFunctionOnSet(f, 1 .. k + 1) = rest
    BY <2>1, <2>2, <2>3, <2>4 DEF rest
  <2>12. QED
    BY <2>5, <2>10, <2>11
<1> HIDE DEF S
<1>5. n \in S
  BY <1>3, <1>4, Induct
<1>6. QED
  BY <1>5 DEF S

\* A number is what the bits it was pushed as are read as.
LEMMA NumberIs ==
  ASSUME NEW x \in Nat, NEW n \in Nat, x < 2 ^ n, NEW bits, DOMAIN bits = 1 .. n,
         \A i \in 1 .. n : bits[i] = (x \div 2 ^ (i - 1)) % 2
  PROVE  Number(bits) = x
<1> DEFINE f == [i \in DOMAIN bits |-> bits[i] * 2 ^ (i - 1)]
<1>1. DOMAIN f = 1 .. n
  OBVIOUS
<1>2. \A i \in 1 .. n : f[i] = ((x \div 2 ^ (i - 1)) % 2) * 2 ^ (i - 1)
  OBVIOUS
<1>3. Number(bits) = SumFunction(f)
  BY Zenon DEF Number
<1> HIDE DEF f
<1>4. SumFunction(f) = SumFunctionOnSet(f, 1 .. n)
  BY <1>1, Zenon DEF SumFunction
<1>5. SumFunctionOnSet(f, 1 .. n) = x % 2 ^ n
  BY <1>2, BitsAddUp
<1>6. x % 2 ^ n = x
  <2> DEFINE P == 2 ^ n
  <2>1. P \in Nat \ {0} /\ x \in 0 .. P - 1
    BY PowerSuccessor
  <2> HIDE DEF P
  <2>2. (0 * P + x) % P = x
    BY <2>1, QuotientIs
  <2>3. 0 * P + x = x
    BY <2>1
  <2>4. QED
    BY <2>2, <2>3 DEF P
<1>7. QED
  BY <1>3, <1>4, <1>5, <1>6

\* The call in place k of a commit, by what it pushes.
LEMMA CommitCalls ==
  ASSUME NEW bytes \in Block, NEW is_last
  PROVE  LET all == CallsOfCommit(bytes, is_last)
             n == Len(bytes)
         IN /\ all[1][2] = IF is_last THEN 1 ELSE 0
            /\ all[2][2] = 0 /\ all[3][2] = 0
            /\ \A j \in 1 .. LengthBits : all[4 + j][2] = (n \div 2 ^ (j - 1)) % 2
            /\ \A j \in 1 .. LengthBits :
                 all[4 + LengthBits + j][2] = ((2 ^ LengthBits - 1 - n) \div 2 ^ (j - 1)) % 2
            /\ \A j \in 1 .. n * ByteSize :
                 all[4 + LengthBits + LengthBits + j][2] =
                   IF (j - 1) % ByteSize \in bytes[(j - 1) \div ByteSize + 1]
                   THEN 1 ELSE 0
<1> DEFINE bit == IF is_last THEN 1 ELSE 0
           n == Len(bytes)
           rest == 2 ^ LengthBits - 1 - n
           first == PushBits(bit, 1)
           type == PushBits(0, 2)
           flush == << <<"flush_byte">> >>
           length == PushBits(n, LengthBits)
           complement == PushBits(rest, LengthBits)
           data == PushBytes(bytes)
           a == first \o type
           b == a \o flush
           c == b \o length
           d == c \o complement
           e == d \o data
<1>1. bytes \in Seq(Byte) /\ n \in Nat /\ LengthBits \in Nat /\ rest \in Int /\ bit \in {0, 1}
  BY StoredBlockAssumption, LenProperties
<1>2. BitCall \subseteq Call
  BY DEF BitCall, Call
<1>3. first \in Seq(Call) /\ Len(first) = 1 /\ first[1][2] = bit
  <2>1. first \in Seq(BitCall) /\ Len(first) = 1
    <3>1. bit \in Int /\ 1 \in Nat
      BY <1>1
    <3> HIDE DEF bit
    <3>2. QED
      BY <3>1, PushBitsCalls
  <2>2. first[1] = <<"push_bit", (bit \div 2 ^ (1 - 1)) % 2>>
    BY DEF PushBits
  <2>3. 2 ^ (1 - 1) = 1
    <3>1. 1 - 1 = 0 /\ 2 ^ 0 = 1
      OBVIOUS
    <3>2. QED
      BY <3>1
  <2>4. (bit \div 1) % 2 = bit
    BY <1>1
  <2>5. first \in Seq(Call)
    BY <1>2, <2>1
  <2> HIDE DEF first, bit
  <2>6. QED
    BY <2>1, <2>2, <2>3, <2>4, <2>5
<1>4. type \in Seq(Call) /\ Len(type) = 2 /\ type[1][2] = 0 /\ type[2][2] = 0
  <2>1. type \in Seq(BitCall) /\ Len(type) = 2
    <3>1. 0 \in Int /\ 2 \in Nat
      OBVIOUS
    <3>2. QED
      BY <3>1, PushBitsCalls
  <2>2. \A k \in 1 .. 2 : type[k] = <<"push_bit", (0 \div 2 ^ (k - 1)) % 2>>
    BY DEF PushBits
  <2>3. \A k \in 1 .. 2 : (0 \div 2 ^ (k - 1)) % 2 = 0
    <3> SUFFICES ASSUME NEW k \in 1 .. 2
                 PROVE  (0 \div 2 ^ (k - 1)) % 2 = 0
      OBVIOUS
    <3> DEFINE P == 2 ^ (k - 1)
    <3>1. P \in Nat \ {0}
      <4>1. k - 1 \in Nat
        OBVIOUS
      <4>2. QED
        BY <4>1, PowerSuccessor
    <3> HIDE DEF P
    <3>2. (0 * P + 0) \div P = 0
      BY <3>1, QuotientIs
    <3>3. 0 * P + 0 = 0
      BY <3>1
    <3>4. 0 \div P = 0
      BY <3>2, <3>3
    <3>5. (0 \div P) % 2 = 0
      BY <3>4
    <3>6. QED
      BY <3>5 DEF P
  <2>4. type \in Seq(Call)
    BY <1>2, <2>1
  <2> HIDE DEF type
  <2>5. QED
    BY <2>1, <2>2, <2>3, <2>4
<1>5. flush \in Seq(Call) /\ Len(flush) = 1
  BY DEF Call
<1>6. /\ length \in Seq(Call) /\ Len(length) = LengthBits
      /\ \A j \in 1 .. LengthBits : length[j][2] = (n \div 2 ^ (j - 1)) % 2
  <2>1. length \in Seq(BitCall) /\ Len(length) = LengthBits
    BY <1>1, PushBitsCalls
  <2>2. \A j \in 1 .. LengthBits : length[j] = <<"push_bit", (n \div 2 ^ (j - 1)) % 2>>
    BY DEF PushBits
  <2> HIDE DEF length
  <2>3. QED
    BY <1>2, <2>1, <2>2
<1>7. /\ complement \in Seq(Call) /\ Len(complement) = LengthBits
      /\ \A j \in 1 .. LengthBits : complement[j][2] = (rest \div 2 ^ (j - 1)) % 2
  <2> HIDE DEF rest
  <2>1. complement \in Seq(BitCall) /\ Len(complement) = LengthBits
    BY <1>1, PushBitsCalls
  <2>2. \A j \in 1 .. LengthBits : complement[j] = <<"push_bit", (rest \div 2 ^ (j - 1)) % 2>>
    BY DEF PushBits
  <2> HIDE DEF complement
  <2>3. QED
    BY <1>2, <2>1, <2>2
<1>8. /\ data \in Seq(Call) /\ Len(data) = n * ByteSize /\ n * ByteSize \in Nat
      /\ \A j \in 1 .. n * ByteSize :
           data[j][2] = IF (j - 1) % ByteSize \in bytes[(j - 1) \div ByteSize + 1]
                        THEN 1 ELSE 0
  <2>1. data \in Seq(BitCall) /\ Len(data) = n * ByteSize /\ n * ByteSize \in Nat
    BY <1>1, PushBytesCalls
  <2>2. \A j \in 1 .. n * ByteSize :
           data[j] = <<"push_bit", IF (j - 1) % ByteSize \in bytes[(j - 1) \div ByteSize + 1]
                                   THEN 1 ELSE 0>>
    BY DEF PushBytes
  <2> HIDE DEF data
  <2>3. QED
    BY <1>2, <2>1, <2>2
<1>9. CallsOfCommit(bytes, is_last) = e
  BY Zenon DEF CallsOfCommit
<1> HIDE DEF bit, first, type, flush, length, complement, data
<1>10. /\ a \in Seq(Call) /\ Len(a) = 3
       /\ a[1] = first[1] /\ a[2] = type[1] /\ a[3] = type[2]
  BY <1>3, <1>4, Joined
<1> HIDE DEF a
<1>11. /\ b \in Seq(Call) /\ Len(b) = 4 /\ \A k \in 1 .. 3 : b[k] = a[k]
  BY <1>5, <1>10, Joined
<1> HIDE DEF b
<1>12. /\ c \in Seq(Call) /\ Len(c) = 4 + LengthBits
       /\ \A k \in 1 .. 4 : c[k] = b[k]
       /\ \A j \in 1 .. LengthBits : c[4 + j] = length[j]
  <2>1. /\ c \in Seq(Call) /\ Len(c) = 4 + LengthBits
        /\ \A k \in 1 .. 4 + LengthBits : c[k] = IF k <= 4 THEN b[k] ELSE length[k - 4]
    <3>1. /\ c \in Seq(Call) /\ Len(c) = Len(b) + Len(length)
          /\ \A k \in 1 .. Len(b) + Len(length) :
               c[k] = IF k <= Len(b) THEN b[k] ELSE length[k - Len(b)]
      BY <1>6, <1>11, Joined
    <3> HIDE DEF c
    <3>2. QED
      BY <1>6, <1>11, <3>1
  <2> HIDE DEF c
  <2>2. \A j \in 1 .. LengthBits : 4 + j \in 1 .. 4 + LengthBits /\ ~(4 + j <= 4) /\ (4 + j) - 4 = j
    BY <1>1
  <2>3. QED
    BY <1>1, <2>1, <2>2
<1> HIDE DEF c
<1>13. /\ d \in Seq(Call) /\ Len(d) = 4 + LengthBits + LengthBits
       /\ \A k \in 1 .. 4 + LengthBits : d[k] = c[k]
       /\ \A j \in 1 .. LengthBits : d[4 + LengthBits + j] = complement[j]
  <2> DEFINE m == 4 + LengthBits
  <2>1. m \in Nat /\ Len(c) = m
    BY <1>1, <1>12
  <2> HIDE DEF m
  <2>2. /\ d \in Seq(Call) /\ Len(d) = m + LengthBits
        /\ \A k \in 1 .. m + LengthBits : d[k] = IF k <= m THEN c[k] ELSE complement[k - m]
    BY <1>7, <1>12, <2>1, Joined
  <2> HIDE DEF d
  <2>3. \A j \in 1 .. LengthBits : m + j \in 1 .. m + LengthBits /\ ~(m + j <= m) /\ (m + j) - m = j
    BY <1>1, <2>1
  <2>4. \A k \in 1 .. m : k \in 1 .. m + LengthBits
    BY <1>1, <2>1
  <2>5. QED
    BY <2>2, <2>3, <2>4 DEF m
<1> HIDE DEF d
<1>14. /\ \A k \in 1 .. 4 + LengthBits + LengthBits : e[k] = d[k]
       /\ \A j \in 1 .. n * ByteSize : e[4 + LengthBits + LengthBits + j] = data[j]
  <2> DEFINE m == 4 + LengthBits + LengthBits
             l == n * ByteSize
  <2>1. m \in Nat /\ Len(d) = m /\ l \in Nat /\ Len(data) = l
    BY <1>1, <1>8, <1>13
  <2> HIDE DEF m, l
  <2>2. \A k \in 1 .. m + l : e[k] = IF k <= m THEN d[k] ELSE data[k - m]
    BY <1>8, <1>13, <2>1, Joined
  <2> HIDE DEF e
  <2>3. \A j \in 1 .. l : m + j \in 1 .. m + l /\ ~(m + j <= m) /\ (m + j) - m = j
    BY <2>1
  <2>4. \A k \in 1 .. m : k \in 1 .. m + l
    BY <2>1
  <2>5. QED
    BY <2>2, <2>3, <2>4 DEF m, l
<1> HIDE DEF e
<1>15. \A k \in 1 .. 3 : e[k] = a[k]
  <2>1. \A k \in 1 .. 3 : /\ k \in 1 .. 4 + LengthBits + LengthBits
                          /\ k \in 1 .. 4 + LengthBits /\ k \in 1 .. 4
    BY <1>1
  <2>2. QED
    BY <1>11, <1>12, <1>13, <1>14, <2>1
<1>16. \A j \in 1 .. LengthBits :
         /\ e[4 + j] = length[j]
         /\ e[4 + LengthBits + j] = complement[j]
  <2>1. \A j \in 1 .. LengthBits : /\ 4 + j \in 1 .. 4 + LengthBits + LengthBits
                                   /\ 4 + j \in 1 .. 4 + LengthBits
                                   /\ 4 + LengthBits + j \in 1 .. 4 + LengthBits + LengthBits
    BY <1>1
  <2>2. QED
    BY <1>12, <1>13, <1>14, <2>1
<1>17. e[1][2] = bit /\ e[2][2] = 0 /\ e[3][2] = 0
  BY <1>3, <1>4, <1>10, <1>15
<1>18. QED
  BY <1>6, <1>7, <1>8, <1>9, <1>14, <1>16, <1>17 DEF bit

\* Where in the stream the call in place k of a commit puts its bit.
PlaceOf(at, k) == IF k <= 3 THEN at + k ELSE at + Padding(at) + k - 1

\* The calls to come are the rest of those of the commit, and the calls made
\* have left their bits in the stream.
ReadInv ==
  committed # NotCommitted =>
    LET all == CallsOfCommit(committed.block, committed.is_last)
        made == NumCalls(committed.block) - Len(calls)
    IN /\ committed.is_last \in BOOLEAN
       /\ \A k \in 1 .. Len(calls) : calls[k] = all[made + k]
       /\ \A k \in 1 .. made :
            k # 4 => BitsOf(stream)[PlaceOf(committed.at, k)] = all[k][2]

LEMMA CommitReads ==
  ASSUME IInv, Commit
  PROVE  ReadInv'
<1>1. PICK bytes \in Block, is_last \in BOOLEAN :
        /\ calls' = CallsOfCommit(bytes, is_last)
        /\ committed' = [at |-> NumBits(stream), block |-> bytes, is_last |-> is_last]
  BY DEF Commit
<1>2. committed'.block = bytes /\ committed'.is_last = is_last
  BY <1>1
<1>3. NumCalls(bytes) - Len(calls') = 0
  BY <1>1, CallsAre DEF Framed
<1>4. \A k \in 1 .. Len(calls') : calls'[k] = CallsOfCommit(bytes, is_last)[0 + k]
  <2>1. \A k \in 1 .. Len(calls') : 0 + k = k
    OBVIOUS
  <2>2. QED
    BY <1>1, <2>1
<1>5. QED
  BY <1>2, <1>3, <1>4 DEF ReadInv

\* What was in a stream stays where it is.
LEMMA BitsStay ==
  ASSUME NEW s, Clean(s)
  PROVE  /\ NumBits(s) \in Nat
         /\ \A b \in Bit :
              /\ BitsOf(PushedBit(s, b))[NumBits(s) + 1] = b
              /\ \A p \in 1 .. NumBits(s) : BitsOf(PushedBit(s, b))[p] = BitsOf(s)[p]
         /\ \A p \in 1 .. NumBits(s) : BitsOf(FlushedByte(s))[p] = BitsOf(s)[p]
<1> DEFINE x == BitsOf(s)
<1>1. NumBits(s) \in Nat /\ x \in Seq(Bit) /\ Len(x) = NumBits(s)
  BY NumBitsNat, BitsOfIs DEF Clean
<1>2. ASSUME NEW b \in Bit
      PROVE  /\ BitsOf(PushedBit(s, b))[NumBits(s) + 1] = b
             /\ \A p \in 1 .. NumBits(s) : BitsOf(PushedBit(s, b))[p] = x[p]
  <2>1. BitsOf(PushedBit(s, b)) = Append(x, b)
    BY Pushed
  <2> HIDE DEF x
  <2>2. QED
    BY <1>1, <2>1, AppendProperties
<1>3. \A p \in 1 .. NumBits(s) : BitsOf(FlushedByte(s))[p] = x[p]
  <2> DEFINE fill == (-NumBits(s)) % ByteSize
             zeros == [i \in 1 .. fill |-> 0]
  <2>1. BitsOf(FlushedByte(s)) = Log!Padded(x)
    BY Flushed
  <2>2. fill \in Nat
    BY <1>1, BitStreamAssumption
  <2>3. Log!Padded(x) = x \o zeros
    BY <1>1 DEF Log!Padded
  <2> HIDE DEF fill, x
  <2>4. zeros \in Seq(Bit)
    BY <2>2 DEF Bit
  <2> HIDE DEF zeros
  <2>5. \A p \in 1 .. Len(x) + Len(zeros) :
          (x \o zeros)[p] = IF p <= Len(x) THEN x[p] ELSE zeros[p - Len(x)]
    BY <1>1, <2>4, Joined
  <2>6. \A p \in 1 .. NumBits(s) : p \in 1 .. Len(x) + Len(zeros) /\ p <= Len(x)
    BY <1>1, <2>4, LenProperties
  <2>7. QED
    BY <2>1, <2>3, <2>5, <2>6
<1>4. QED
  BY <1>1, <1>2, <1>3

\* A call of a commit is made.
LEMMA CallReads ==
  ASSUME IInv, SizeInv, ReadInv, CommitPushBit \/ CommitFlushByte
  PROVE  ReadInv'
<1> DEFINE at == committed.at
           all == CallsOfCommit(committed.block, committed.is_last)
           made == NumCalls(committed.block) - Len(calls)
<1>1. calls # <<>> /\ calls' = Tail(calls) /\ UNCHANGED committed
  BY DEF CommitPushBit, CommitFlushByte
<1>2. /\ committed # NotCommitted /\ at \in Nat
      /\ committed.block \in Block /\ made \in Nat
      /\ NumBits(stream) =
           IF made <= 3 THEN at + made ELSE at + Padding(at) + made - 1
      /\ NumCalls(committed.block) - Len(calls') = made + 1
      /\ Head(calls)[1] = "flush_byte" <=> made + 1 = 4
  BY <1>1, CallMade
<1>3. /\ committed.is_last \in BOOLEAN
      /\ \A k \in 1 .. Len(calls) : calls[k] = all[made + k]
      /\ \A k \in 1 .. made : k # 4 => BitsOf(stream)[PlaceOf(at, k)] = all[k][2]
  BY <1>2 DEF ReadInv
<1>4. calls \in Seq(Call)
  BY <1>2 DEF SizeInv
<1>5. Padding(at) \in Nat /\ NumBits(stream) \in Nat
  <2>1. Padding(at) \in 0 .. ByteSize - 1
    BY <1>2, CommitNumbers
  <2>2. QED
    BY <2>1, BitsStay, BitStreamAssumption DEF IInv
<1> HIDE DEF at, made, all
<1>6. /\ Len(calls') = Len(calls) - 1 /\ Len(calls) \in Nat /\ Len(calls) > 0
      /\ \A k \in 1 .. Len(calls') : calls'[k] = calls[k + 1]
      /\ Head(calls) = calls[1]
  BY <1>1, <1>4, HeadTailProperties, LenProperties, EmptySeq
<1>7. \A k \in 1 .. Len(calls') : calls'[k] = all[(made + 1) + k]
  <2>1. ASSUME NEW k \in 1 .. Len(calls')
        PROVE  calls'[k] = all[(made + 1) + k]
    <3>1. calls'[k] = calls[k + 1] /\ k + 1 \in 1 .. Len(calls)
      BY <1>6
    <3>2. calls[k + 1] = all[made + (k + 1)]
      BY <1>3, <3>1
    <3>3. made + (k + 1) = (made + 1) + k
      BY <1>2
    <3>4. QED
      BY <3>1, <3>2, <3>3
  <2>2. QED
    BY <2>1
<1>8. Head(calls) = all[made + 1]
  <2>1. 1 \in 1 .. Len(calls)
    BY <1>6
  <2>2. QED
    BY <1>3, <1>6, <2>1
<1>9. \A k \in 1 .. made : k # 4 => PlaceOf(at, k) \in 1 .. NumBits(stream)
  BY <1>2, <1>5 DEF PlaceOf
<1>10. ASSUME NEW k \in 1 .. made + 1, k # 4
       PROVE  BitsOf(stream')[PlaceOf(at, k)] = all[k][2]
  <2>1. CASE CommitPushBit
    <3>1. /\ PushBit /\ stream' = PushedBit(stream, Head(calls)[2])
          /\ Head(calls)[1] = "push_bit"
      BY <2>1 DEF CommitPushBit
    <3>2. Head(calls)[2] \in Bit
      <4>1. Head(calls) \in Call
        BY <1>4, <1>6
      <4>2. QED
        BY <3>1, <4>1 DEF Call, Bit
    <3>3. CASE k \in 1 .. made
      <4>1. PlaceOf(at, k) \in 1 .. NumBits(stream)
        BY <1>9, <1>10, <3>3
      <4>2. BitsOf(stream')[PlaceOf(at, k)] = BitsOf(stream)[PlaceOf(at, k)]
        BY <3>1, <3>2, <4>1, BitsStay DEF IInv
      <4>3. QED
        BY <1>3, <1>10, <3>3, <4>2
    <3>4. CASE k = made + 1
      <4>1. PlaceOf(at, k) = NumBits(stream) + 1
        BY <1>2, <1>5, <1>10, <3>4 DEF PlaceOf
      <4>2. BitsOf(stream')[NumBits(stream) + 1] = Head(calls)[2]
        BY <3>1, <3>2, BitsStay DEF IInv
      <4>3. QED
        BY <1>8, <3>4, <4>1, <4>2
    <3>5. QED
      BY <1>2, <3>3, <3>4
  <2>2. CASE CommitFlushByte
    <3>1. stream' = FlushedByte(stream) /\ made + 1 = 4
      BY <1>2, <2>2 DEF CommitFlushByte, FlushByte
    <3>2. k \in 1 .. made
      BY <1>2, <1>10, <3>1
    <3>3. PlaceOf(at, k) \in 1 .. NumBits(stream)
      BY <1>9, <1>10, <3>2
    <3>4. BitsOf(stream')[PlaceOf(at, k)] = BitsOf(stream)[PlaceOf(at, k)]
      BY <3>1, <3>3, BitsStay DEF IInv
    <3>5. QED
      BY <1>3, <1>10, <3>2, <3>4
  <2>3. QED
    BY <2>1, <2>2
<1>11. QED
  BY <1>1, <1>2, <1>3, <1>7, <1>10 DEF ReadInv, at, all

LEMMA NextReadInv ==
  ASSUME IInv, SizeInv, ReadInv, [StoredNext]_<<vars, calls, committed>>
  PROVE  ReadInv'
<1>1. CASE Commit
  BY <1>1, CommitReads
<1>2. CASE CommitPushBit \/ CommitFlushByte
  BY <1>2, CallReads
<1>3. CASE Other
  <2>1. committed' = NotCommitted
    BY <1>3 DEF Other
  <2>2. QED
    BY <2>1 DEF ReadInv, NotCommitted
<1>4. CASE UNCHANGED <<vars, calls, committed>>
  <2>1. stream' = stream /\ calls' = calls /\ committed' = committed
    BY <1>4 DEF vars
  <2>2. QED
    BY <2>1 DEF ReadInv
<1>5. QED
  BY <1>1, <1>2, <1>3, <1>4 DEF StoredNext

\* What is in the stream when a commit has made all of its calls.
LEMMA StoredRead ==
  ASSUME IInv, SizeInv, ReadInv, committed # NotCommitted, calls = <<>>
  PROVE  LET at == committed.at
             n == Len(committed.block)
             length == at + 3 + Padding(at)
             data == length + 2 * LengthBits
             bits == BitsOf(stream)
         IN /\ at \in Nat /\ Padding(at) \in Nat /\ LengthBits \in Nat /\ n \in Nat
            /\ committed.block \in Block /\ n * ByteSize \in Nat
            /\ bits \in Seq(Bit) /\ Len(bits) = data + n * ByteSize
            /\ bits[at + 1] = IF committed.is_last THEN 1 ELSE 0
            /\ bits[at + 2] = 0 /\ bits[at + 3] = 0
            /\ \A j \in 1 .. LengthBits : bits[length + j] = (n \div 2 ^ (j - 1)) % 2
            /\ \A j \in 1 .. LengthBits :
                 bits[length + LengthBits + j] = ((2 ^ LengthBits - 1 - n) \div 2 ^ (j - 1)) % 2
            /\ \A j \in 1 .. n * ByteSize :
                 bits[data + j] =
                   IF (j - 1) % ByteSize \in committed.block[(j - 1) \div ByteSize + 1]
                   THEN 1 ELSE 0
<1> DEFINE at == committed.at
           n == Len(committed.block)
           all == CallsOfCommit(committed.block, committed.is_last)
           total == NumCalls(committed.block)
           size == n * ByteSize
           bits == BitsOf(stream)
           pad == Padding(at)
<1>1. /\ at \in Nat /\ committed.block \in Block /\ Len(calls) = 0
      /\ NumBits(stream) = IF total - Len(calls) <= 3 THEN at + (total - Len(calls))
                           ELSE at + pad + (total - Len(calls)) - 1
  BY DEF SizeInv
<1>2. /\ total \in Nat /\ total >= 4 /\ total = 4 + 2 * LengthBits + size
      /\ size \in Nat /\ pad \in 0 .. ByteSize - 1
      /\ LengthBits \in Nat /\ ByteSize \in Nat
  BY <1>1, CommitNumbers
<1>3. total - Len(calls) = total /\ ~(total <= 3)
  <2>1. total \in Nat /\ total >= 4 /\ Len(calls) = 0
    BY <1>1, <1>2
  <2> HIDE DEF total
  <2>2. QED
    BY <2>1
<1>4. NumBits(stream) = at + pad + total - 1
  BY <1>1, <1>3
<1>5. \A k \in 1 .. total : k # 4 => bits[PlaceOf(at, k)] = all[k][2]
  <2>1. \A k \in 1 .. total - Len(calls) : k # 4 => bits[PlaceOf(at, k)] = all[k][2]
    BY DEF ReadInv
  <2>2. QED
    BY <1>3, <2>1
<1>6. bits \in Seq(Bit) /\ Len(bits) = NumBits(stream)
  BY BitsOfIs DEF IInv, Clean
<1>7. n \in Nat
  BY <1>1, StoredBlockAssumption, LenProperties
<1>8. /\ all[1][2] = IF committed.is_last THEN 1 ELSE 0
      /\ all[2][2] = 0 /\ all[3][2] = 0
      /\ \A j \in 1 .. LengthBits : all[4 + j][2] = (n \div 2 ^ (j - 1)) % 2
      /\ \A j \in 1 .. LengthBits :
           all[4 + LengthBits + j][2] = ((2 ^ LengthBits - 1 - n) \div 2 ^ (j - 1)) % 2
      /\ \A j \in 1 .. size :
           all[4 + LengthBits + LengthBits + j][2] =
             IF (j - 1) % ByteSize \in committed.block[(j - 1) \div ByteSize + 1]
             THEN 1 ELSE 0
  BY <1>1, CommitCalls
<1> HIDE DEF at, n, all, total, size, bits, pad
<1> DEFINE length == at + 3 + pad
           data == length + 2 * LengthBits
<1>9. bits[at + 1] = all[1][2] /\ bits[at + 2] = all[2][2] /\ bits[at + 3] = all[3][2]
  <2>1. \A k \in 1 .. 3 : k \in 1 .. total /\ k # 4 /\ PlaceOf(at, k) = at + k
    BY <1>2 DEF PlaceOf
  <2>2. \A k \in 1 .. 3 : bits[at + k] = all[k][2]
    BY <1>5, <2>1
  <2>3. QED
    BY <2>2
<1>10. \A m \in 1 .. 2 * LengthBits + size : bits[length + m] = all[4 + m][2]
  <2>1. ASSUME NEW m \in 1 .. 2 * LengthBits + size
        PROVE  bits[length + m] = all[4 + m][2]
    <3>1. 4 + m \in 1 .. total /\ 4 + m # 4 /\ ~(4 + m <= 3)
      BY <1>2
    <3>2. PlaceOf(at, 4 + m) = at + pad + (4 + m) - 1
      BY <3>1 DEF PlaceOf, pad
    <3>3. PlaceOf(at, 4 + m) = length + m
      BY <1>1, <1>2, <3>2
    <3>4. bits[PlaceOf(at, 4 + m)] = all[4 + m][2]
      BY <1>5, <3>1
    <3>5. QED
      BY <3>3, <3>4
  <2>2. QED
    BY <2>1
<1>11. \A j \in 1 .. LengthBits :
         /\ bits[length + j] = all[4 + j][2]
         /\ bits[length + LengthBits + j] = all[4 + LengthBits + j][2]
  <2>1. ASSUME NEW j \in 1 .. LengthBits
        PROVE  /\ bits[length + j] = all[4 + j][2]
               /\ bits[length + LengthBits + j] = all[4 + LengthBits + j][2]
    <3>1. /\ j \in 1 .. 2 * LengthBits + size
          /\ LengthBits + j \in 1 .. 2 * LengthBits + size
      BY <1>2
    <3>2. /\ length + (LengthBits + j) = length + LengthBits + j
          /\ 4 + (LengthBits + j) = 4 + LengthBits + j
      BY <1>1, <1>2
    <3>3. QED
      BY <1>10, <3>1, <3>2
  <2>2. QED
    BY <2>1
<1>12. \A j \in 1 .. size : bits[data + j] = all[4 + LengthBits + LengthBits + j][2]
  <2>1. ASSUME NEW j \in 1 .. size
        PROVE  bits[data + j] = all[4 + LengthBits + LengthBits + j][2]
    <3> DEFINE m == 2 * LengthBits + j
    <3>1. m \in 1 .. 2 * LengthBits + size
      BY <1>2
    <3>2. length + m = data + j /\ 4 + m = 4 + LengthBits + LengthBits + j
      BY <1>1, <1>2
    <3>3. bits[length + m] = all[4 + m][2]
      BY <1>10, <3>1
    <3>4. QED
      BY <3>2, <3>3
  <2>2. QED
    BY <2>1
<1>13. Len(bits) = data + size
  BY <1>1, <1>2, <1>4, <1>6
<1>14. pad \in Nat
  BY <1>2
<1> HIDE DEF length, data
<1>15. /\ \A j \in 1 .. LengthBits : bits[length + j] = (n \div 2 ^ (j - 1)) % 2
       /\ \A j \in 1 .. LengthBits :
            bits[length + LengthBits + j] = ((2 ^ LengthBits - 1 - n) \div 2 ^ (j - 1)) % 2
  BY <1>8, <1>11
<1>16. \A j \in 1 .. size :
         bits[data + j] =
            IF (j - 1) % ByteSize \in committed.block[(j - 1) \div ByteSize + 1]
            THEN 1 ELSE 0
  BY <1>8, <1>12
<1>17. /\ bits[at + 1] = IF committed.is_last THEN 1 ELSE 0
       /\ bits[at + 2] = 0 /\ bits[at + 3] = 0
  BY <1>8, <1>9
<1>18. /\ at \in Nat /\ pad \in Nat /\ LengthBits \in Nat /\ n \in Nat
       /\ committed.block \in Block /\ size \in Nat /\ bits \in Seq(Bit)
  BY <1>1, <1>2, <1>6, <1>7, <1>14
<1>19. QED
  BY <1>13, <1>15, <1>16, <1>17, <1>18, Zenon DEF at, n, size, bits, pad, length, data

\* A field of the stream is read as the number it was pushed as.
LEMMA FieldIs ==
  ASSUME NEW bits \in Seq(Bit), NEW from \in Nat, NEW x \in Nat,
         LengthBits \in Nat, x < 2 ^ LengthBits, from + LengthBits <= Len(bits),
         \A j \in 1 .. LengthBits : bits[from + j] = (x \div 2 ^ (j - 1)) % 2
  PROVE  Number(SubSeq(bits, from + 1, from + LengthBits)) = x
<1> DEFINE field == SubSeq(bits, from + 1, from + LengthBits)
<1>1. /\ DOMAIN field = 1 .. LengthBits
      /\ \A j \in 1 .. LengthBits : field[j] = bits[from + j]
  <2>1. field = [i \in 1 .. (from + LengthBits) - (from + 1) + 1 |-> bits[i + (from + 1) - 1]]
    OBVIOUS
  <2>2. (from + LengthBits) - (from + 1) + 1 = LengthBits
    OBVIOUS
  <2>3. \A i \in 1 .. LengthBits : i + (from + 1) - 1 = from + i
    OBVIOUS
  <2>4. field = [i \in 1 .. LengthBits |-> bits[i + (from + 1) - 1]]
    BY <2>1, <2>2
  <2> HIDE DEF field
  <2>5. QED
    BY <2>3, <2>4
<1> HIDE DEF field
<1>2. Number(field) = x
  BY <1>1, NumberIs
<1>3. QED
  BY <1>2 DEF field

\* A decoder that comes to a stored block at any bit of a byte reads the last
\* flag, the type, the length, its complement and the bytes that were put, and
\* has then read all there is, for every byte size, block and width of a length.
THEOREM StoredBlocksRead == StoredSpec => []StoredBlockReads
<1>1. StoredInit => IInv /\ SizeInv /\ ReadInv
  BY InitIInv, InitSizeInv DEF StoredInit, ReadInv
<1>2. (IInv /\ SizeInv /\ ReadInv) /\ [StoredNext]_<<vars, calls, committed>>
        => (IInv /\ SizeInv /\ ReadInv)'
  BY StoredSteps, NextIInv, NextSizeInv, NextReadInv
<1>3. ASSUME IInv, SizeInv, ReadInv
      PROVE  StoredBlockReads
  <2> SUFFICES ASSUME committed # NotCommitted, calls = <<>>
               PROVE  LET bits == BitsOf(stream)
                          header == committed.at
                          length == header + 3 + ((-(header + 3)) % ByteSize)
                          Field(p) == Number(SubSeq(bits, p + 1, p + LengthBits))
                          data == length + 2 * LengthBits
                          Literal(k) ==
                            {p \in Place : bits[data + (k - 1) * ByteSize + p + 1] = 1}
                      IN /\ Len(bits) >= data
                         /\ bits[header + 1] = IF committed.is_last THEN 1 ELSE 0
                         /\ bits[header + 2] = 0 /\ bits[header + 3] = 0
                         /\ Field(length) + Field(length + LengthBits) = 2 ^ LengthBits - 1
                         /\ Len(bits) = data + Field(length) * ByteSize
                         /\ [k \in 1 .. Field(length) |-> Literal(k)] = committed.block
    BY Zenon DEF StoredBlockReads
  <2> DEFINE bits == BitsOf(stream)
             at == committed.at
             block == committed.block
             n == Len(block)
             size == n * ByteSize
             length == at + 3 + Padding(at)
             data == length + 2 * LengthBits
             Field(p) == Number(SubSeq(bits, p + 1, p + LengthBits))
             Literal(k) == {p \in Place : bits[data + (k - 1) * ByteSize + p + 1] = 1}
  <2>1. /\ at \in Nat /\ Padding(at) \in Nat /\ LengthBits \in Nat /\ n \in Nat
        /\ block \in Block /\ size \in Nat
        /\ bits \in Seq(Bit) /\ Len(bits) = data + size
        /\ bits[at + 1] = IF committed.is_last THEN 1 ELSE 0
        /\ bits[at + 2] = 0 /\ bits[at + 3] = 0
        /\ \A j \in 1 .. LengthBits : bits[length + j] = (n \div 2 ^ (j - 1)) % 2
        /\ \A j \in 1 .. LengthBits :
             bits[length + LengthBits + j] = ((2 ^ LengthBits - 1 - n) \div 2 ^ (j - 1)) % 2
        /\ \A j \in 1 .. size :
             bits[data + j] = IF (j - 1) % ByteSize \in block[(j - 1) \div ByteSize + 1]
                              THEN 1 ELSE 0
    BY <1>3, StoredRead, Zenon
  <2>2. block \in Seq(Byte) /\ n < 2 ^ LengthBits /\ 2 ^ LengthBits \in Nat
    BY <2>1, StoredBlockAssumption, PowerSuccessor
  <2> HIDE DEF bits, at, block, n, size
  <2>3. length \in Nat /\ data \in Nat /\ Len(bits) >= data
    BY <2>1
  <2>4. Field(length) = n
    <3>1. length + LengthBits <= Len(bits)
      BY <2>1
    <3> HIDE DEF length, data
    <3>2. QED
      BY <2>1, <2>2, <2>3, <3>1, FieldIs
  <2>5. Field(length + LengthBits) = 2 ^ LengthBits - 1 - n
    <3> DEFINE from == length + LengthBits
               x == 2 ^ LengthBits - 1 - n
    <3>1. from \in Nat /\ from + LengthBits <= Len(bits)
      BY <2>1
    <3>2. x \in Nat /\ x < 2 ^ LengthBits
      BY <2>1, <2>2
    <3>3. \A j \in 1 .. LengthBits : bits[from + j] = (x \div 2 ^ (j - 1)) % 2
      BY <2>1
    <3> HIDE DEF from, x
    <3>4. Number(SubSeq(bits, from + 1, from + LengthBits)) = x
      BY <2>1, <3>1, <3>2, <3>3, FieldIs
    <3>5. QED
      BY <3>4 DEF from, x
  <2>6. \A k \in 1 .. n : Literal(k) = block[k]
    <3> SUFFICES ASSUME NEW k \in 1 .. n
                 PROVE  Literal(k) = block[k]
      OBVIOUS
    <3>1. block[k] \subseteq Place
      <4>1. block[k] \in Byte
        BY <2>2 DEF n
      <4>2. QED
        BY <4>1 DEF Byte
    <3>2. ASSUME NEW p \in Place
          PROVE  bits[data + (k - 1) * ByteSize + p + 1] = 1 <=> p \in block[k]
      <4> DEFINE q == (k - 1) * ByteSize
                 j == q + p + 1
      <4>1. k - 1 \in Nat /\ p \in Nat /\ p < ByteSize /\ ByteSize \in Nat
        BY <2>1, BitStreamAssumption DEF Place
      <4>2. q + p \in Nat /\ (q + p) \div ByteSize = k - 1 /\ (q + p) % ByteSize = p
        <5>1. k - 1 \in Int
          BY <4>1
        <5>2. QED
          BY <4>1, <5>1, DivModIs
      <4>3. q \in Nat /\ q + ByteSize <= size
        <5>1. k - 1 < n /\ k - 1 \in Int /\ n \in Int
          <6>1. n \in Nat
            BY <2>1
          <6>2. QED
            BY <6>1
        <5>2. (k - 1) * ByteSize + ByteSize <= n * ByteSize
          BY <5>1, Multiples
        <5>3. q \in Nat
          BY <4>1
        <5>4. QED
          BY <5>2, <5>3 DEF size
      <4> HIDE DEF q
      <4>4. j \in 1 .. size /\ j - 1 = q + p
        BY <2>1, <4>1, <4>3
      <4>5. (j - 1) \div ByteSize + 1 = k /\ (j - 1) % ByteSize = p
        BY <2>1, <4>2, <4>4
      <4>6. data + q + p + 1 = data + j
        BY <2>3, <4>1, <4>3
      <4> HIDE DEF j, data
      <4>7. bits[data + j] = IF p \in block[k] THEN 1 ELSE 0
        <5>1. bits[data + j] = IF (j - 1) % ByteSize \in block[(j - 1) \div ByteSize + 1]
                               THEN 1 ELSE 0
          BY <2>1, <4>4
        <5>2. QED
          BY <4>5, <5>1
      <4>8. bits[data + q + p + 1] = 1 <=> p \in block[k]
        BY <4>6, <4>7
      <4>9. QED
        BY <4>8 DEF q
    <3>3. QED
      BY <3>1, <3>2
  <2> HIDE DEF length, data, Field, Literal
  <2>7. [k \in 1 .. Field(length) |-> Literal(k)] = block
    <3>1. block = [k \in 1 .. n |-> block[k]]
      BY <2>2 DEF n
    <3>2. QED
      BY <2>4, <2>6, <3>1
  <2>8. Field(length) + Field(length + LengthBits) = 2 ^ LengthBits - 1
    BY <2>1, <2>2, <2>4, <2>5
  <2>9. Len(bits) = data + Field(length) * ByteSize
    BY <2>1, <2>4 DEF size
  <2>10. /\ Len(bits) >= data
         /\ bits[at + 1] = IF committed.is_last THEN 1 ELSE 0
         /\ bits[at + 2] = 0 /\ bits[at + 3] = 0
    BY <2>1, <2>3
  <2>11. QED
    BY <2>7, <2>8, <2>9, <2>10, Zenon
       DEF bits, at, block, length, data, Field, Literal, Padding
<1>4. QED
  BY <1>1, <1>2, <1>3, PTL DEF StoredSpec
=============================================================================
