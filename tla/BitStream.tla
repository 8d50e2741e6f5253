------------------------------ MODULE BitStream ------------------------------
(***************************************************************************)
(* include/gz.hpp and src/gz.cpp: the bit stream that all blocks share,    *)
(* and a buffered bit stream in front of it, which holds a block back      *)
(* until it is chosen.  Each packs bits into bytes, the first bit lowest;  *)
(* a partial byte waits in bits_.  A buffered stream is committed bit by   *)
(* bit, wherever in a byte the shared stream happens to be.  The streams   *)
(* of src/deflate.cpp only pass these calls on.                            *)
(***************************************************************************)
EXTENDS Integers, Sequences

CONSTANTS
  ByteSize,  \* 8, the bits of a byte
  MaxBits    \* bound: neither stream is given more bits than this

ASSUME BitStreamAssumption ==
  /\ ByteSize \in Nat /\ ByteSize >= 2
  /\ MaxBits \in Nat

VARIABLES
  stream,    \* gz::BitStream: bits_, num_bits_ and the bytes put to out_
  buffered,  \* gz::BufferedBitStream: bits_, num_bits_ and buffer_
  position,  \* commit(): the bits it has pushed so far
  destroyed  \* the destructor of gz::BitStream has run

vars == <<stream, buffered, position, destroyed>>

Bit == {0, 1}

\* The value of a byte is the set of the places of its ones.
Place == 0 .. ByteSize - 1
Byte == SUBSET Place

Empty == [bits |-> {}, num_bits |-> 0, bytes |-> <<>>]

\* Mutant of FlushedByte: the byte put out is not cleared.
FlushedByteUncleared(s) ==
  IF s.num_bits = 0 THEN s
  ELSE [s EXCEPT !.num_bits = 0, !.bytes = Append(s.bytes, s.bits)]

\* flush_byte(), the same in both classes.
FlushedByte(s) ==
  IF s.num_bits = 0 THEN s
  ELSE [bits |-> {}, num_bits |-> 0, bytes |-> Append(s.bytes, s.bits)]

\* Mutant of PushedBit: the full byte is put out one bit late.
PushedBitLate(s, b) ==
  LET pushed == [s EXCEPT
                   !.bits = IF b = 1 THEN s.bits \cup {s.num_bits} ELSE s.bits,
                   !.num_bits = s.num_bits + 1]
  IN IF s.num_bits = ByteSize THEN FlushedByte(pushed) ELSE pushed

\* push_bit(), the same in both classes; the bit is or-ed into bits_.
PushedBit(s, b) ==
  LET pushed == [s EXCEPT
                   !.bits = IF b = 1 THEN s.bits \cup {s.num_bits} ELSE s.bits,
                   !.num_bits = s.num_bits + 1]
  IN IF pushed.num_bits = ByteSize THEN FlushedByte(pushed) ELSE pushed

\* bits()
NumBits(s) == Len(s.bytes) * ByteSize + s.num_bits

\* The bit that commit() pushes when it has pushed p: push() and push_bits()
\* take each byte of buffer_, then what is in bits_, lowest bit first.
BitAt(s, p) ==
  LET byte == IF p \div ByteSize < Len(s.bytes)
              THEN s.bytes[p \div ByteSize + 1] ELSE s.bits
  IN IF p % ByteSize \in byte THEN 1 ELSE 0

-----------------------------------------------------------------------------
Init ==
  /\ stream = Empty
  /\ buffered = Empty
  /\ position = 0
  /\ destroyed = FALSE

\* No call is made while another one is under way.
Idle == ~destroyed /\ position = 0

\* A header or a footer, and the parts of a block that are not held back.
PushBit ==
  /\ Idle
  /\ NumBits(stream) < MaxBits
  /\ \E b \in Bit : stream' = PushedBit(stream, b)
  /\ UNCHANGED <<buffered, position, destroyed>>

\* Behind the header of a stored block, and behind the last block.
FlushByte ==
  /\ Idle
  /\ stream' = FlushedByte(stream)
  /\ UNCHANGED <<buffered, position, destroyed>>

PushBufferedBit ==
  /\ Idle
  /\ NumBits(buffered) < MaxBits
  /\ \E b \in Bit : buffered' = PushedBit(buffered, b)
  /\ UNCHANGED <<stream, position, destroyed>>

FlushBufferedByte ==
  /\ Idle
  /\ buffered' = FlushedByte(buffered)
  /\ UNCHANGED <<stream, position, destroyed>>

\* Mutant of CommitBit: the partial byte is left out.
CommitBitOfWholeBytes ==
  /\ ~destroyed
  /\ position < NumBits(buffered)
  /\ position = 0 => NumBits(stream) + NumBits(buffered) <= MaxBits
  /\ stream' = PushedBit(stream, BitAt(buffered, position))
  /\ position' = IF position + 1 >= Len(buffered.bytes) * ByteSize THEN 0
                 ELSE position + 1
  /\ UNCHANGED <<buffered, destroyed>>

\* One bit of a commit(), which does not empty the buffer.
CommitBit ==
  /\ ~destroyed
  /\ position < NumBits(buffered)
  /\ position = 0 => NumBits(stream) + NumBits(buffered) <= MaxBits
  /\ stream' = PushedBit(stream, BitAt(buffered, position))
  /\ position' = IF position + 1 = NumBits(buffered) THEN 0 ELSE position + 1
  /\ UNCHANGED <<buffered, destroyed>>

Reset ==
  /\ Idle
  /\ buffered' = Empty
  /\ UNCHANGED <<stream, position, destroyed>>

\* ~BitStream
Destroy ==
  /\ Idle
  /\ stream' = FlushedByte(stream)
  /\ destroyed' = TRUE
  /\ UNCHANGED <<buffered, position>>

Next ==
  \/ PushBit \/ FlushByte
  \/ PushBufferedBit \/ FlushBufferedByte
  \/ CommitBit \/ Reset \/ Destroy

Spec == Init /\ [][Next]_vars

-----------------------------------------------------------------------------
Packed ==
  [bits : Byte, num_bits : Place, bytes : Seq(Byte)]

TypeOK ==
  /\ stream \in Packed
  /\ buffered \in Packed
  /\ position \in 0 .. NumBits(buffered)
  /\ destroyed \in BOOLEAN

\* The places of bits_ that no bit was pushed to are zero in both streams: a
\* bit can be or-ed in, a flushed byte is padded with zeros, and nothing of an
\* earlier byte or of a block thrown away is left.
UnusedPlacesZero ==
  /\ stream.bits \subseteq 0 .. stream.num_bits - 1
  /\ buffered.bits \subseteq 0 .. buffered.num_bits - 1

\* The bits a stream stands for, in the order they were pushed.
BitsOf(s) == [i \in 1 .. NumBits(s) |-> BitAt(s, i - 1)]

Log == INSTANCE BitLog WITH
  written <- BitsOf(stream), held <- BitsOf(buffered),
  committed <- position, closed <- destroyed

\* Read lowest bit first, the bytes put out are the bits that were pushed, the
\* ones that were held back behind them when committed, at any alignment and
\* again if committed twice, and no others but the padding.
ImplementsLog == Log!Spec
=============================================================================
