---------------------------- MODULE CgzipProofs ----------------------------
(***************************************************************************)
(* Cgzip with block type 1 disabled as in the code, for every breakpoint   *)
(* of the other types, every file and every choice of the detector and of  *)
(* the block sizes: no exception leaves main, the decoder reproduces the   *)
(* file except at the edges that RoundTrip names, and the output decodes   *)
(* to a prefix of the file at every moment.  The sections at the end prove *)
(* the change point detector of CgzipDetector.                             *)
(***************************************************************************)
EXTENDS CgzipDetector, FiniteSetTheorems, SequenceTheorems, TLAPS

Looping == pc \in {"put", "get", "commit", "last"}

\* The bytes in the stored block, the bytes block type 2 has coded, those that
\* wait to be coded, both, and the bytes its window has taken in.
Stored == block[0]
Coded == block[2]
Waiting == look_ahead[2]
Whole == Coded \o Waiting
Window == seen[2]

\* The bytes in the current block: all of them reached block type 2.
BlockLength == Len(Coded) + Len(Waiting)

\* The first block counts the byte read last, which is not in it yet; the
\* counter of a later block starts at 0 with that byte already read.
Extra == IF chosen = NoStream THEN 1 ELSE 0

\* How many bytes of the block a stored block holds.
Room == StoredMaximum - Extra

\* What has been read is what was put in block type 2, then next_byte.
ReadingInv ==
  /\ crc = read
  /\ num_uncompressed_bytes_in_file = Len(read) % FileModulus
  /\ pc = "start" => read = <<>>
  /\ pc \in {"put", "commit"} => read = Append(Window \o Waiting, next_byte)
  /\ pc \in {"get", "last"} => read = Window \o Waiting

\* Block type 2 holds the whole block and its window the whole output, block
\* type 1 nothing, block type 0 as much of the block as there is room for.
StreamsInv ==
  Looping \/ pc = "start" =>
    /\ Window = decoded \o Coded
    /\ block[1] = <<>> /\ look_ahead[1] = <<>> /\ seen[1] = <<>>
    /\ Len(Waiting) < LookAheadSize
    /\ BlockLength <= Room => Stored = Whole
    /\ BlockLength > Room => Stored = SubSeq(Whole, 1, Room)
    /\ buffered = <<>>
    /\ decoder = "open"

\* The byte counter follows the length of the block, one ahead or not, and
\* the block is never too large for block type 2.
CountingInv ==
  /\ pc = "start" => /\ chosen = NoStream
                     /\ num_uncompressed_bytes_in_block = 0
                     /\ decoded = <<>> /\ Coded = <<>> /\ Waiting = <<>>
  /\ pc \in {"put", "commit"} =>
       num_uncompressed_bytes_in_block = BlockLength + Extra
  /\ pc \in {"get", "last"} =>
       /\ BlockLength >= 1
       /\ num_uncompressed_bytes_in_block = BlockLength + Extra - 1
  /\ pc \in {"put", "get", "last"} =>
       num_uncompressed_bytes_in_block < DynamicMaximum

\* The detector counted bytes of this block only, and a block is not ended
\* before the warm-up.
DetectorInv ==
  Looping \/ pc = "start" =>
    /\ current_step_ <= BlockLength
    /\ is_change_point_detected => BlockLength >= Warmup
    /\ pc = "commit" => BlockLength >= Warmup

AtEdge == num_uncompressed_bytes_in_block \in {0, StoredMaximum}

\* After the last block: everything is decoded, or all but the last byte.
EndingInv ==
  pc \in {"footer", "done"} =>
    \/ /\ decoded = read
       /\ read # <<>>
       /\ aligned
       /\ decoder = IF pc = "done" THEN "accepts" ELSE "ended"
    \/ /\ AtEdge
       /\ \/ decoded = read
          \/ \E byte \in Byte : read = Append(decoded, byte)

IInv ==
  /\ TypeOK
  /\ NeverThrows
  /\ ReadingInv
  /\ StreamsInv
  /\ CountingInv
  /\ DetectorInv
  /\ EndingInv

-----------------------------------------------------------------------------
(***************************************************************************)
(* Sequences of bytes.                                                     *)
(***************************************************************************)
\* One sequence behind another.
LEMMA Concat ==
  \A s, t \in Seq(Byte) : s \o t \in Seq(Byte) /\ Len(s \o t) = Len(s) + Len(t)
BY ConcatProperties

\* Three sequences in a row, grouped either way.
LEMMA Regroup ==
  \A s, t, w \in Seq(Byte) : (s \o t) \o w = s \o (t \o w)
BY ConcatAssociative

\* The length of a sequence of bytes is a number.
LEMMA Lengths == \A s \in Seq(Byte) : Len(s) \in Nat
BY LenProperties

\* A sequence and one byte more.
LEMMA Appended ==
  \A s \in Seq(Byte), e \in Byte :
    /\ Append(s, e) \in Seq(Byte)
    /\ Append(s, e) # <<>>
    /\ Len(Append(s, e)) = Len(s) + 1
BY AppendProperties

\* The empty sequence.
LEMMA EmptyBytes ==
  /\ <<>> \in Seq(Byte) /\ Len(<<>>) = 0
  /\ \A s \in Seq(Byte) : s \o <<>> = s /\ <<>> \o s = s
  /\ \A s \in Seq(Byte) : Len(s) = 0 => s = <<>>
BY EmptySeq, ConcatEmptySeq

\* A byte appended to the second of two sequences is appended to both.
LEMMA ConcatAppend ==
  \A s, t \in Seq(Byte), e \in Byte : s \o Append(t, e) = Append(s \o t, e)
<1> TAKE s, t \in Seq(Byte), e \in Byte
<1>1. <<e>> \in Seq(Byte) /\ s \o t \in Seq(Byte)
  BY ConcatProperties
<1>2. s \o (t \o <<e>>) = (s \o t) \o <<e>>
  BY <1>1, ConcatAssociative
<1>3. Append(t, e) = t \o <<e>> /\ Append(s \o t, e) = (s \o t) \o <<e>>
  BY <1>1, AppendIsConcat
<1>4. QED
  BY <1>2, <1>3

\* Cutting a sequence in two loses nothing.
LEMMA Cut ==
  \A s \in Seq(Byte) : \A k \in 0 .. Len(s) :
    /\ SubSeq(s, 1, k) \in Seq(Byte) /\ Len(SubSeq(s, 1, k)) = k
    /\ SubSeq(s, k + 1, Len(s)) \in Seq(Byte)
    /\ Len(SubSeq(s, k + 1, Len(s))) = Len(s) - k
    /\ SubSeq(s, 1, k) \o SubSeq(s, k + 1, Len(s)) = s
<1> TAKE s \in Seq(Byte)
<1> TAKE k \in 0 .. Len(s)
<1>1. Len(s) \in Nat /\ \A i \in 1 .. Len(s) : s[i] \in Byte
  BY LenProperties, ElementOfSeq
<1>2. \A i \in 1 .. k : s[i] \in Byte
  BY <1>1
<1>3. \A i \in k + 1 .. Len(s) : s[i] \in Byte
  BY <1>1
<1>4. SubSeq(s, 1, k) \in Seq(Byte) /\ Len(SubSeq(s, 1, k)) = k
  BY <1>1, <1>2, SubSeqProperties
<1>5. /\ SubSeq(s, k + 1, Len(s)) \in Seq(Byte)
      /\ Len(SubSeq(s, k + 1, Len(s))) = Len(s) - k
  BY <1>1, <1>3, SubSeqProperties
<1>6. SubSeq(s, 1, k) \o SubSeq(s, k + 1, Len(s)) = SubSeq(s, 1, Len(s))
  <2>1. /\ 1 \in 1 .. Len(s) + 1
        /\ k \in 1 - 1 .. Len(s)
        /\ Len(s) \in k .. Len(s)
    BY <1>1
  <2>2. QED
    BY <2>1, ConcatAdjacentSubSeq
<1>7. QED
  BY <1>4, <1>5, <1>6, SubSeqFull

\* The first of two sequences is what both begin with.
LEMMA PrefixOfConcat ==
  \A s, t \in Seq(Byte) : SubSeq(s \o t, 1, Len(s)) = s
<1> TAKE s, t \in Seq(Byte)
<1>1. Len(s) \in Nat
  BY LenProperties
<1>2. CASE Len(s) = 0
  <2>1. s = <<>>
    BY <1>2, EmptySeq
  <2>2. SubSeq(s \o t, 1, 0) = <<>>
    BY SubSeqEmpty
  <2>3. QED
    BY <1>2, <2>1, <2>2
<1>3. CASE Len(s) # 0
  <2>1. SubSeq(s \o t, 1, Len(s)) = SubSeq(s, 1, Len(s))
    BY <1>1, <1>3, SubSeqOfConcat1
  <2>2. QED
    BY <2>1, SubSeqFull
<1>4. QED
  BY <1>2, <1>3

\* An appended byte changes nothing in front of it.
LEMMA PrefixOfAppend ==
  \A s \in Seq(Byte), e \in Byte : \A n \in 0 .. Len(s) :
    SubSeq(Append(s, e), 1, n) = SubSeq(s, 1, n)
<1> TAKE s \in Seq(Byte), e \in Byte
<1> TAKE n \in 0 .. Len(s)
<1>1. Len(s) \in Nat
  BY LenProperties
<1>2. CASE n = 0
  BY <1>2, SubSeqEmpty
<1>3. CASE n # 0
  <2>1. Append(s, e) = s \o <<e>> /\ <<e>> \in Seq(Byte)
    BY AppendIsConcat
  <2>2. QED
    BY <1>1, <1>3, <2>1, SubSeqOfConcat1
<1>4. QED
  BY <1>2, <1>3

-----------------------------------------------------------------------------
(***************************************************************************)
(* Breakpoints.                                                            *)
(***************************************************************************)

\* The breakpoints of the three block types.
LEMMA Breakpoints ==
  /\ MaximumBytes[0] = StoredMaximum
  /\ MaximumBytes[1] = FixedMaximum
  /\ MaximumBytes[2] = DynamicMaximum
BY DEF MaximumBytes, Stream

\* The size limit of a block is the breakpoint of block type 2.
LEMMA LargestBreakpoint == MaximumOfMaximumBytes = DynamicMaximum
<1> DEFINE all == {MaximumBytes[t] : t \in Stream}
<1>1. /\ \A t \in Stream : MaximumBytes[t] <= DynamicMaximum
      /\ \A t \in Stream : MaximumBytes[t] \in Nat
      /\ DynamicMaximum \in all
  BY Breakpoints, BreakpointAssumption DEF Stream
<1>2. \A m \in all : (\A t \in Stream : MaximumBytes[t] <= m) => m = DynamicMaximum
  BY <1>1, Breakpoints DEF Stream
<1>3. QED
  BY <1>1, <1>2 DEF MaximumOfMaximumBytes

(***************************************************************************)
(* The size of the file, modulo 2^32.                                      *)
(***************************************************************************)
\* A remainder is determined by what it and the multiple add up to.
LEMMA Remainder ==
  \A a, q \in Int : \A r \in 0 .. FileModulus - 1 :
    a = FileModulus * q + r => a % FileModulus = r
BY FileAssumption

\* Every number is a multiple and a remainder.
LEMMA Quotient ==
  \A a \in Nat : \E q \in Int : \E r \in 0 .. FileModulus - 1 :
    a = FileModulus * q + r /\ a % FileModulus = r
BY FileAssumption

\* A count that wraps around is the true count, modulo the same number.
LEMMA CountOneMore ==
  ASSUME NEW n \in Nat
  PROVE  /\ ((n % FileModulus) + 1) % FileModulus = (n + 1) % FileModulus
         /\ (n + 1) % FileModulus \in 0 .. FileModulus - 1
<1>1. PICK q \in Int, r \in 0 .. FileModulus - 1 :
        n = FileModulus * q + r /\ n % FileModulus = r
  BY Quotient
<1>2. CASE r + 1 < FileModulus
  <2>1. r + 1 \in 0 .. FileModulus - 1
    BY <1>2, FileAssumption
  <2>2. /\ n + 1 = FileModulus * q + (r + 1)
        /\ r + 1 = FileModulus * 0 + (r + 1)
    BY <1>1, FileAssumption
  <2>3. (n + 1) % FileModulus = r + 1 /\ (r + 1) % FileModulus = r + 1
    BY <2>1, <2>2, Remainder
  <2>4. QED
    BY <1>1, <2>1, <2>3
<1>3. CASE r + 1 = FileModulus
  <2>1. /\ 0 \in 0 .. FileModulus - 1 /\ q + 1 \in Int /\ 1 \in Int
        /\ r + 1 \in Int /\ n + 1 \in Int
    BY FileAssumption
  <2>2. n + 1 = FileModulus * (q + 1) + 0
    BY <1>1, <1>3
  <2>3. r + 1 = FileModulus * 1 + 0
    BY <1>3
  <2>4. (n + 1) % FileModulus = 0
    BY <2>1, <2>2, Remainder
  <2>5. (r + 1) % FileModulus = 0
    BY <2>1, <2>3, Remainder
  <2>6. QED
    BY <1>1, <2>1, <2>4, <2>5
<1>4. QED
  BY <1>2, <1>3, FileAssumption

\* The streams, written out.
LEMMA Streams ==
  /\ Stream = {0, 1, 2} /\ LzssStream = {1, 2}
  /\ 0 \in Stream /\ 1 \in Stream /\ 2 \in Stream
  /\ 0 \notin LzssStream /\ 1 \in LzssStream /\ 2 \in LzssStream
BY DEF Stream, LzssStream

\* What the streams hold are sequences of bytes.
LEMMA TypesOfStreams ==
  ASSUME TypeOK
  PROVE  /\ Stored \in Seq(Byte) /\ Coded \in Seq(Byte) /\ Waiting \in Seq(Byte)
         /\ Window \in Seq(Byte)
         /\ block[1] \in Seq(Byte) /\ look_ahead[1] \in Seq(Byte)
         /\ seen[1] \in Seq(Byte)
         /\ decoded \in Seq(Byte) /\ read \in Seq(Byte) /\ crc \in Seq(Byte)
         /\ next_byte \in Byte
         /\ Len(Coded) \in Nat /\ Len(Waiting) \in Nat /\ BlockLength \in Nat
         /\ Whole \in Seq(Byte) /\ Len(Whole) = BlockLength
<1>1. /\ Stored \in Seq(Byte) /\ Coded \in Seq(Byte) /\ Waiting \in Seq(Byte)
      /\ Window \in Seq(Byte)
      /\ block[1] \in Seq(Byte) /\ look_ahead[1] \in Seq(Byte)
      /\ seen[1] \in Seq(Byte)
      /\ decoded \in Seq(Byte) /\ read \in Seq(Byte) /\ crc \in Seq(Byte)
      /\ next_byte \in Byte
  BY DEF TypeOK, Stream, LzssStream, Stored, Coded, Waiting, Window
<1>2. Len(Coded) \in Nat /\ Len(Waiting) \in Nat
  BY <1>1, Lengths
<1>3. Whole \in Seq(Byte) /\ Len(Whole) = Len(Coded) + Len(Waiting)
  BY <1>1, Concat DEF Whole
<1>4. QED
  BY <1>1, <1>2, <1>3 DEF BlockLength

(***************************************************************************)
(* Putting a byte.                                                         *)
(***************************************************************************)
\* What put() of the three streams does to the block, the look-aheads and the
\* windows, in terms of the whole block.
LEMMA PutEffect ==
  ASSUME IInv, FixedMaximum = 0, pc = "put",
         NEW step_1 \in StepLengths(1), NEW step_2 \in StepLengths(2),
         PutInStreams(<<step_1, step_2>>)
  PROVE  /\ block' \in [Stream -> Seq(Byte)]
         /\ look_ahead' \in [LzssStream -> Seq(Byte)]
         /\ seen' \in [LzssStream -> Seq(Byte)]
         /\ block'[1] = <<>> /\ look_ahead'[1] = <<>> /\ seen'[1] = <<>>
         /\ Stored' = IF Takes(0) THEN Append(Stored, next_byte) ELSE Stored
         /\ Window' = decoded \o Coded'
         /\ Window' \o Waiting' = Append(Window \o Waiting, next_byte)
         /\ Coded' \o Waiting' = Append(Whole, next_byte)
         /\ Len(Waiting') < LookAheadSize
         /\ Len(Coded') + Len(Waiting') = BlockLength + 1
<1>t. TypeOK
  BY DEF IInv
<1>0. /\ Stored \in Seq(Byte) /\ Coded \in Seq(Byte) /\ Waiting \in Seq(Byte)
      /\ Window \in Seq(Byte) /\ decoded \in Seq(Byte) /\ next_byte \in Byte
      /\ Len(Coded) \in Nat /\ Len(Waiting) \in Nat
  BY <1>t, TypesOfStreams
<1>1. /\ ~Takes(1) /\ Takes(2)
      /\ num_uncompressed_bytes_in_block \in Nat
  BY <1>t, Breakpoints DEF IInv, TypeOK, CountingInv, Takes
<1>2. /\ Window = decoded \o Coded
      /\ block[1] = <<>> /\ look_ahead[1] = <<>> /\ seen[1] = <<>>
      /\ Len(Waiting) < LookAheadSize
  BY DEF IInv, StreamsInv, Looping
<1>3. /\ Filled(1) = <<>> /\ Filled(2) = Append(Waiting, next_byte)
      /\ step_1 = 0
  BY <1>1, <1>2 DEF Filled, StepLengths, Waiting
<1>p. PICK filled, out, left :
       /\ filled = Append(Waiting, next_byte)
       /\ out = SubSeq(filled, 1, step_2)
       /\ left = SubSeq(filled, step_2 + 1, Len(filled))
  OBVIOUS
<1>4. filled \in Seq(Byte) /\ Len(filled) = Len(Waiting) + 1
  BY <1>0, <1>p, Appended
<1>5. /\ step_2 \in 0 .. Len(filled)
      /\ Len(filled) - step_2 < LookAheadSize
  <2>1. step_2 \in IF Len(Waiting) + 1 >= LookAheadSize THEN 1 .. LookAheadSize ELSE {0}
    BY <1>1 DEF StepLengths, Waiting
  <2>2. Len(Waiting) < LookAheadSize /\ LookAheadSize \in Nat
    BY <1>2, CodingAssumption
  <2>3. QED
    BY <1>0, <1>4, <2>1, <2>2
<1>6. /\ out \in Seq(Byte) /\ left \in Seq(Byte)
      /\ out \o left = filled
      /\ Len(out) = step_2 /\ Len(left) = Len(filled) - step_2
  BY <1>4, <1>5, <1>p, Cut
<1>7. /\ Coded' = Coded \o out
      /\ Window' = Window \o out
      /\ Waiting' = left
      /\ Stored' = IF Takes(0) THEN Append(Stored, next_byte) ELSE Stored
  <2>1. <<step_1, step_2>>[2] = step_2
    OBVIOUS
  <2>2. /\ Coded' = Coded \o SubSeq(Filled(2), 1, <<step_1, step_2>>[2])
        /\ Window' = Window \o SubSeq(Filled(2), 1, <<step_1, step_2>>[2])
        /\ Waiting' = SubSeq(Filled(2), <<step_1, step_2>>[2] + 1, Len(Filled(2)))
        /\ Stored' = IF Takes(0) THEN Append(Stored, next_byte) ELSE Stored
    BY Streams DEF PutInStreams, Coded, Window, Waiting, Stored
  <2>3. QED
    BY <1>3, <1>p, <2>1, <2>2
<1>8. SubSeq(<<>>, 1, 0) = <<>> /\ SubSeq(<<>>, 1, Len(<<>>)) = <<>>
  BY SubSeqEmpty, EmptySeq
<1>9. /\ block'[1] = <<>> \o SubSeq(<<>>, 1, 0)
      /\ seen'[1] = <<>> \o SubSeq(<<>>, 1, 0)
      /\ look_ahead'[1] = SubSeq(<<>>, 1, Len(<<>>))
  <2>1. <<step_1, step_2>>[1] = 0
    BY <1>3
  <2>2. /\ block'[1] = block[1] \o SubSeq(Filled(1), 1, <<step_1, step_2>>[1])
        /\ seen'[1] = seen[1] \o SubSeq(Filled(1), 1, <<step_1, step_2>>[1])
        /\ look_ahead'[1] = SubSeq(Filled(1), <<step_1, step_2>>[1] + 1, Len(Filled(1)))
    BY Streams DEF PutInStreams
  <2>3. QED
    BY <1>2, <1>3, <2>1, <2>2
<1>10. block'[1] = <<>> /\ look_ahead'[1] = <<>> /\ seen'[1] = <<>>
  BY <1>8, <1>9, EmptyBytes
<1>11. /\ Coded' \in Seq(Byte) /\ Len(Coded') = Len(Coded) + step_2
       /\ Window' \in Seq(Byte) /\ Waiting' \in Seq(Byte) /\ Stored' \in Seq(Byte)
  BY <1>0, <1>6, <1>7, Concat, Appended
<1>12. /\ block' \in [Stream -> Seq(Byte)]
       /\ look_ahead' \in [LzssStream -> Seq(Byte)]
       /\ seen' \in [LzssStream -> Seq(Byte)]
  <2>1. /\ block' = [t \in Stream |-> block'[t]]
        /\ seen' = [t \in LzssStream |-> seen'[t]]
        /\ look_ahead' = [t \in LzssStream |-> look_ahead'[t]]
    BY DEF PutInStreams
  <2>2. <<>> \in Seq(Byte)
    BY EmptyBytes
  <2>3. /\ block'[0] \in Seq(Byte) /\ block'[1] \in Seq(Byte)
        /\ block'[2] \in Seq(Byte)
        /\ seen'[1] \in Seq(Byte) /\ seen'[2] \in Seq(Byte)
        /\ look_ahead'[1] \in Seq(Byte) /\ look_ahead'[2] \in Seq(Byte)
    BY <1>10, <1>11, <2>2 DEF Coded, Window, Waiting, Stored
  <2>4. /\ \A t \in Stream : block'[t] \in Seq(Byte)
        /\ \A t \in LzssStream : seen'[t] \in Seq(Byte)
        /\ \A t \in LzssStream : look_ahead'[t] \in Seq(Byte)
    BY <2>3, Streams
  <2>5. QED
    BY <2>1, <2>4
<1>13. Window' = decoded \o Coded'
  BY <1>0, <1>2, <1>6, <1>7, Regroup
<1>a. /\ Window \in Seq(Byte) /\ Waiting \in Seq(Byte) /\ Coded \in Seq(Byte)
      /\ out \in Seq(Byte) /\ left \in Seq(Byte) /\ next_byte \in Byte
      /\ out \o left = Append(Waiting, next_byte)
  BY <1>0, <1>6, <1>p
<1>b. /\ (Window \o out) \o left = Append(Window \o Waiting, next_byte)
      /\ (Coded \o out) \o left = Append(Coded \o Waiting, next_byte)
  <2>1. (Window \o out) \o left = Window \o (out \o left)
    BY <1>a, Regroup
  <2>2. (Coded \o out) \o left = Coded \o (out \o left)
    BY <1>a, Regroup
  <2>3. /\ Window \o Append(Waiting, next_byte) = Append(Window \o Waiting, next_byte)
        /\ Coded \o Append(Waiting, next_byte) = Append(Coded \o Waiting, next_byte)
    BY <1>a, ConcatAppend
  <2>4. QED
    BY <1>a, <2>1, <2>2, <2>3
<1>14. Window' \o Waiting' = Append(Window \o Waiting, next_byte)
  BY <1>7, <1>b
<1>15. Coded' \o Waiting' = Append(Whole, next_byte)
  BY <1>7, <1>b DEF Whole
<1>16. Len(Coded') + Len(Waiting') = BlockLength + 1
  <2>1. Len(Waiting') = Len(filled) - step_2
    BY <1>6, <1>7
  <2>2. step_2 \in Nat
    BY <1>0, <1>4, <1>5
  <2>3. QED
    BY <1>0, <1>4, <1>11, <2>1, <2>2 DEF BlockLength
<1>17. Len(Waiting') < LookAheadSize
  BY <1>5, <1>6, <1>7
<1>18. QED
  BY <1>7, <1>10, <1>12, <1>13, <1>14, <1>15, <1>16, <1>17

(***************************************************************************)
(* The invariant holds initially.                                          *)
(***************************************************************************)
\* Nothing is read, held or written yet.
LEMMA InitIInv ==
  ASSUME Init
  PROVE  IInv
<1>1. /\ Stored = <<>> /\ Coded = <<>> /\ Waiting = <<>> /\ Window = <<>>
      /\ block[1] = <<>> /\ look_ahead[1] = <<>> /\ seen[1] = <<>>
  BY Streams DEF Init, Stored, Coded, Waiting, Window
<1>2. <<>> \in Seq(Byte) /\ Len(<<>>) = 0 /\ <<>> \o <<>> = <<>>
  BY EmptyBytes
<1>3. Whole = <<>> /\ BlockLength = 0
  BY <1>1, <1>2 DEF Whole, BlockLength
<1>4. 0 % FileModulus = 0
  BY FileAssumption
<1>5. TypeOK
  <2>1. block \in [Stream -> Seq(Byte)]
    BY <1>2 DEF Init
  <2>2. look_ahead \in [LzssStream -> Seq(Byte)] /\ seen \in [LzssStream -> Seq(Byte)]
    BY <1>2 DEF Init
  <2>3. {read, crc, decoded} \subseteq Seq(Byte)
    BY <1>2 DEF Init
  <2>4. \A b \in {buffered[i] : i \in 1 .. Len(buffered)} :
       /\ b.is_last \in BOOLEAN
       /\ b.history \in Seq(Byte)
       /\ b.bytes \in Seq(Byte)
    BY <1>2 DEF Init
  <2>5. /\ pc = "start" /\ next_byte \in Byte
        /\ num_uncompressed_bytes_in_file \in 0 .. FileModulus - 1
        /\ num_uncompressed_bytes_in_block \in 0 .. DynamicMaximum
        /\ current_step_ \in Nat
        /\ chosen \in Stream \cup {NoStream}
        /\ decoder = "open"
    BY FileAssumption, BreakpointAssumption DEF Init
  <2>6. is_change_point_detected \in BOOLEAN /\ aligned \in BOOLEAN
    BY Zenon DEF Init
  <2>7. QED
    BY <2>1, <2>2, <2>3, <2>4, <2>5, <2>6 DEF TypeOK
<1>6. NeverThrows /\ EndingInv
  BY DEF Init, NeverThrows, EndingInv
<1>7. ReadingInv
  BY <1>2, <1>4 DEF Init, ReadingInv
<1>8. StreamsInv
  BY <1>1, <1>2, <1>3, BreakpointAssumption, CodingAssumption DEF Init, StreamsInv, Looping, Room, Extra
<1>9. CountingInv
  BY <1>1 DEF Init, CountingInv
<1>10. DetectorInv
  BY <1>3 DEF Init, DetectorInv, Looping
<1>11. QED
  BY <1>5, <1>6, <1>7, <1>8, <1>9, <1>10 DEF IInv

(***************************************************************************)
(* Reading.                                                                *)
(***************************************************************************)
\* What is defined of the streams stays if they do.
LEMMA SameStreams ==
  ASSUME UNCHANGED streams
  PROVE  /\ Stored' = Stored /\ Coded' = Coded /\ Waiting' = Waiting
         /\ Whole' = Whole /\ Window' = Window /\ BlockLength' = BlockLength
         /\ UNCHANGED <<block, look_ahead, seen, buffered>>
BY DEF streams, Stored, Coded, Waiting, Whole, Window, BlockLength

\* A block behind another one holds one byte more than was counted.
LEMMA ExtraIs ==
  ASSUME TRUE
  PROVE  /\ Extra \in {0, 1}
         /\ Room \in Nat /\ Room + Extra = StoredMaximum
         /\ chosen = NoStream => Extra = 1
BY BreakpointAssumption DEF Extra, Room

\* A byte that is read is counted, in the checksum as well.
LEMMA AccountEffect ==
  ASSUME TypeOK, ReadingInv, NEW byte \in Byte, Account(byte)
  PROVE  /\ next_byte' = byte
         /\ read' = Append(read, byte) /\ read' \in Seq(Byte)
         /\ crc' = read'
         /\ num_uncompressed_bytes_in_file' = Len(read') % FileModulus
         /\ num_uncompressed_bytes_in_file' \in 0 .. FileModulus - 1
         /\ num_uncompressed_bytes_in_block' = num_uncompressed_bytes_in_block + 1
<1>1. read \in Seq(Byte) /\ Len(read) \in Nat
  BY TypesOfStreams, Lengths
<1>2. /\ next_byte' = byte /\ read' = Append(read, byte) /\ crc' = Append(crc, byte)
      /\ num_uncompressed_bytes_in_file' =
           (num_uncompressed_bytes_in_file + 1) % FileModulus
      /\ num_uncompressed_bytes_in_block' = num_uncompressed_bytes_in_block + 1
  BY DEF Account
<1>3. crc = read /\ num_uncompressed_bytes_in_file = Len(read) % FileModulus
  BY DEF ReadingInv
<1>4. /\ read' \in Seq(Byte) /\ Len(read') = Len(read) + 1
  BY <1>1, <1>2, Appended
<1>5. /\ ((Len(read) % FileModulus) + 1) % FileModulus = (Len(read) + 1) % FileModulus
      /\ (Len(read) + 1) % FileModulus \in 0 .. FileModulus - 1
  BY <1>1, CountOneMore
<1>6. QED
  BY <1>2, <1>3, <1>4, <1>5

\* Reading the first byte preserves the invariant.
LEMMA GetFirstStep ==
  ASSUME IInv, GetFirst
  PROVE  IInv'
<1>1. /\ TypeOK /\ ReadingInv /\ StreamsInv /\ CountingInv /\ DetectorInv
      /\ pc = "start" /\ pc' = "put"
      /\ UNCHANGED streams
      /\ UNCHANGED <<current_step_, is_change_point_detected>>
      /\ UNCHANGED <<chosen, aligned, decoded, decoder>>
  BY DEF IInv, GetFirst, detector, output
<1>2. PICK byte \in Byte : Account(byte)
  BY DEF GetFirst
<1>3. /\ next_byte' = byte
      /\ read' = Append(read, byte) /\ read' \in Seq(Byte)
      /\ crc' = read'
      /\ num_uncompressed_bytes_in_file' = Len(read') % FileModulus
      /\ num_uncompressed_bytes_in_file' \in 0 .. FileModulus - 1
      /\ num_uncompressed_bytes_in_block' = num_uncompressed_bytes_in_block + 1
  BY <1>1, <1>2, AccountEffect
<1>4. /\ Stored' = Stored /\ Coded' = Coded /\ Waiting' = Waiting
      /\ Whole' = Whole /\ Window' = Window /\ BlockLength' = BlockLength
      /\ UNCHANGED <<block, look_ahead, seen, buffered>>
      /\ Extra' = Extra /\ Room' = Room
  BY <1>1, SameStreams DEF Extra, Room
<1>5. /\ chosen = NoStream /\ num_uncompressed_bytes_in_block = 0
      /\ decoded = <<>> /\ Coded = <<>> /\ Waiting = <<>> /\ read = <<>>
      /\ Window = decoded \o Coded /\ Extra = 1
  BY <1>1, ExtraIs DEF CountingInv, ReadingInv, StreamsInv
<1>6. Window \o Waiting = <<>> /\ BlockLength = 0
  BY <1>5, EmptyBytes DEF BlockLength
<1>7. TypeOK'
  BY <1>1, <1>3, <1>4, <1>5, BreakpointAssumption DEF TypeOK
<1>8. NeverThrows' /\ EndingInv'
  BY <1>1 DEF NeverThrows, EndingInv
<1>9. ReadingInv'
  BY <1>1, <1>3, <1>4, <1>5, <1>6 DEF ReadingInv
<1>10. StreamsInv'
  BY <1>1, <1>4 DEF StreamsInv, Looping
<1>11. CountingInv'
  BY <1>1, <1>3, <1>4, <1>5, <1>6, BreakpointAssumption, WarmupAssumption DEF CountingInv
<1>12. DetectorInv'
  BY <1>1, <1>4 DEF DetectorInv, Looping
<1>13. QED
  BY <1>7, <1>8, <1>9, <1>10, <1>11, <1>12 DEF IInv

\* Reading a further byte preserves the invariant.
LEMMA GetStep ==
  ASSUME IInv, Get
  PROVE  IInv'
<1>1. /\ TypeOK /\ ReadingInv /\ StreamsInv /\ CountingInv /\ DetectorInv
      /\ pc = "get" /\ pc' \in {"commit", "put"}
      /\ UNCHANGED streams
      /\ UNCHANGED <<current_step_, is_change_point_detected>>
      /\ UNCHANGED <<chosen, aligned, decoded, decoder>>
  BY DEF IInv, Get, detector, output
<1>2. PICK byte \in Byte : Account(byte)
  BY DEF Get
<1>3. /\ next_byte' = byte
      /\ read' = Append(read, byte) /\ read' \in Seq(Byte)
      /\ crc' = read'
      /\ num_uncompressed_bytes_in_file' = Len(read') % FileModulus
      /\ num_uncompressed_bytes_in_file' \in 0 .. FileModulus - 1
      /\ num_uncompressed_bytes_in_block' = num_uncompressed_bytes_in_block + 1
  BY <1>1, <1>2, AccountEffect
<1>4. /\ Stored' = Stored /\ Coded' = Coded /\ Waiting' = Waiting
      /\ Whole' = Whole /\ Window' = Window /\ BlockLength' = BlockLength
      /\ UNCHANGED <<block, look_ahead, seen, buffered>>
      /\ Extra' = Extra /\ Room' = Room
  BY <1>1, SameStreams DEF Extra, Room
<1>5. /\ BlockLength \in Nat /\ Extra \in {0, 1}
      /\ num_uncompressed_bytes_in_block = BlockLength + Extra - 1
      /\ num_uncompressed_bytes_in_block < DynamicMaximum
      /\ read = Window \o Waiting
      /\ is_change_point_detected => BlockLength >= Warmup
  BY <1>1, TypesOfStreams, ExtraIs DEF CountingInv, ReadingInv, DetectorInv, Looping
<1>6. /\ pc' = "put" => num_uncompressed_bytes_in_block' < DynamicMaximum
      /\ pc' = "commit" => BlockLength >= Warmup
  <2>1. pc' = IF \/ is_change_point_detected
                 \/ num_uncompressed_bytes_in_block + 1 >= DynamicMaximum
              THEN "commit" ELSE "put"
    BY LargestBreakpoint DEF Get
  <2>2. QED
    BY <1>3, <1>5, <2>1, BreakpointAssumption, WarmupAssumption
<1>7. TypeOK'
  <2>1. num_uncompressed_bytes_in_block' \in 0 .. DynamicMaximum
    BY <1>3, <1>5, BreakpointAssumption
  <2>2. is_change_point_detected' \in BOOLEAN /\ aligned' \in BOOLEAN
        /\ current_step_' \in Nat
    BY <1>1 DEF TypeOK
  <2>3. UNCHANGED <<chosen, decoded, decoder>>
    BY <1>1
  <2>4. pc' \in {"commit", "put"} /\ TypeOK
    BY <1>1
  <2>5. QED
    BY <1>3, <1>4, <2>1, <2>2, <2>3, <2>4 DEF TypeOK
<1>8. NeverThrows' /\ EndingInv'
  BY <1>1 DEF NeverThrows, EndingInv
<1>9. ReadingInv'
  BY <1>1, <1>3, <1>4, <1>5 DEF ReadingInv
<1>10. StreamsInv'
  BY <1>1, <1>4 DEF StreamsInv, Looping
<1>11. CountingInv'
  BY <1>1, <1>3, <1>4, <1>5, <1>6 DEF CountingInv
<1>12. DetectorInv'
  BY <1>1, <1>4, <1>6 DEF DetectorInv, Looping
<1>13. QED
  BY <1>7, <1>8, <1>9, <1>10, <1>11, <1>12 DEF IInv

\* Finding the end of the file preserves the invariant.
LEMMA EndOfFileSteps ==
  ASSUME IInv, GetFirstFails \/ GetFails
  PROVE  IInv'
<1>1. /\ TypeOK /\ ReadingInv /\ StreamsInv /\ CountingInv /\ DetectorInv
      /\ \/ pc = "start" /\ pc' = "footer"
         \/ pc = "get" /\ pc' = "last"
      /\ UNCHANGED streams
      /\ UNCHANGED <<next_byte, num_uncompressed_bytes_in_file, crc, read>>
      /\ UNCHANGED num_uncompressed_bytes_in_block
      /\ UNCHANGED <<current_step_, is_change_point_detected>>
      /\ UNCHANGED <<chosen, aligned, decoded, decoder>>
  BY DEF IInv, GetFirstFails, GetFails, detector, output, counters
<1>2. /\ Stored' = Stored /\ Coded' = Coded /\ Waiting' = Waiting
      /\ Whole' = Whole /\ Window' = Window /\ BlockLength' = BlockLength
      /\ UNCHANGED <<block, look_ahead, seen, buffered>>
      /\ Extra' = Extra /\ Room' = Room
  BY <1>1, SameStreams DEF Extra, Room
<1>3. TypeOK'
  <2>1. pc' \in {"footer", "last"}
    BY <1>1
  <2>2. TypeOK /\ UNCHANGED <<next_byte, num_uncompressed_bytes_in_file, crc, read>>
    BY <1>1
  <2>3. /\ num_uncompressed_bytes_in_block' \in 0 .. DynamicMaximum
        /\ current_step_' \in Nat
    BY <1>1 DEF TypeOK
  <2>4. is_change_point_detected' \in BOOLEAN /\ aligned' \in BOOLEAN
    BY <1>1 DEF TypeOK
  <2>5. UNCHANGED <<chosen, decoded, decoder>>
    BY <1>1
  <2>6. QED
    BY <1>2, <2>1, <2>2, <2>3, <2>4, <2>5 DEF TypeOK
<1>4. NeverThrows'
  BY <1>1 DEF NeverThrows
<1>5. ReadingInv'
  BY <1>1, <1>2 DEF ReadingInv
<1>6. StreamsInv'
  BY <1>1, <1>2 DEF StreamsInv, Looping
<1>7. CountingInv'
  BY <1>1, <1>2 DEF CountingInv
<1>8. DetectorInv'
  BY <1>1, <1>2 DEF DetectorInv, Looping
<1>9. EndingInv'
  BY <1>1 DEF EndingInv, AtEdge, CountingInv, ReadingInv
<1>10. QED
  BY <1>3, <1>4, <1>5, <1>6, <1>7, <1>8, <1>9 DEF IInv

(***************************************************************************)
(* A stored block keeps the first bytes of the block, as many as it has    *)
(* room for, when the block grows by a byte.                               *)
(***************************************************************************)
\* The stored block still begins the whole block when that has grown.
LEMMA StoredGrows ==
  ASSUME NEW w \in Seq(Byte), NEW s \in Seq(Byte), NEW e \in Byte,
         NEW n \in Nat, Len(w) >= n,
         Len(w) = n => s = w,
         Len(w) > n => s = SubSeq(w, 1, n)
  PROVE  s = SubSeq(Append(w, e), 1, n)
<1>1. Len(w) \in Nat /\ n \in 0 .. Len(w)
  BY Lengths
<1>2. SubSeq(Append(w, e), 1, n) = SubSeq(w, 1, n)
  BY <1>1, PrefixOfAppend
<1>3. Len(w) = n => SubSeq(w, 1, n) = w
  BY SubSeqFull
<1>4. Len(w) > n \/ Len(w) = n
  BY <1>1
<1>5. QED
  BY <1>2, <1>3, <1>4

\* Putting a byte preserves the invariant, and does not throw.
LEMMA PutStep ==
  ASSUME IInv, FixedMaximum = 0, Put
  PROVE  IInv'
<1>1. /\ TypeOK /\ ReadingInv /\ StreamsInv /\ CountingInv /\ DetectorInv
      /\ pc = "put" /\ Looping
  BY DEF IInv, Put, Looping
<1>2. /\ BlockLength \in Nat /\ Len(Whole) = BlockLength /\ Whole \in Seq(Byte)
      /\ Stored \in Seq(Byte) /\ next_byte \in Byte
      /\ Extra \in {0, 1} /\ Room \in Nat /\ Room + Extra = StoredMaximum
      /\ num_uncompressed_bytes_in_block = BlockLength + Extra
      /\ num_uncompressed_bytes_in_block < DynamicMaximum
      /\ BlockLength <= Room => Stored = Whole
      /\ BlockLength > Room => Stored = SubSeq(Whole, 1, Room)
      /\ read = Append(Window \o Waiting, next_byte)
  BY <1>1, TypesOfStreams, ExtraIs DEF CountingInv, StreamsInv, ReadingInv
<1>3. Takes(0) <=> BlockLength + 1 <= Room
  BY <1>2, Breakpoints DEF Takes
<1>4. ~Overflows
  <2>1. ASSUME Takes(0)
        PROVE  Len(Stored) < StoredMaximum
    BY <1>2, <1>3, <2>1
  <2>2. QED
    BY <1>2, <2>1, Lengths DEF Overflows, Stored
<1>5. PICK step_1 \in StepLengths(1), step_2 \in StepLengths(2) :
        PutInStreams(<<step_1, step_2>>)
  BY <1>4 DEF Put
<1>6. /\ StepDetector /\ pc' = "get"
      /\ UNCHANGED <<next_byte, num_uncompressed_bytes_in_file, crc, read>>
      /\ UNCHANGED num_uncompressed_bytes_in_block
      /\ UNCHANGED <<chosen, aligned, decoded, decoder>>
      /\ UNCHANGED buffered
  BY <1>4 DEF Put, PutInStreams, counters, output
<1>7. /\ block' \in [Stream -> Seq(Byte)]
      /\ look_ahead' \in [LzssStream -> Seq(Byte)]
      /\ seen' \in [LzssStream -> Seq(Byte)]
      /\ block'[1] = <<>> /\ look_ahead'[1] = <<>> /\ seen'[1] = <<>>
      /\ Stored' = IF Takes(0) THEN Append(Stored, next_byte) ELSE Stored
      /\ Window' = decoded \o Coded'
      /\ Window' \o Waiting' = Append(Window \o Waiting, next_byte)
      /\ Coded' \o Waiting' = Append(Whole, next_byte)
      /\ Len(Waiting') < LookAheadSize
      /\ Len(Coded') + Len(Waiting') = BlockLength + 1
  BY <1>1, <1>5, PutEffect
<1>8. /\ Whole' = Append(Whole, next_byte) /\ BlockLength' = BlockLength + 1
      /\ Extra' = Extra /\ Room' = Room
  BY <1>6, <1>7 DEF Whole, BlockLength, Extra, Room
<1>9. /\ current_step_' \in Nat
      /\ current_step_' <= BlockLength'
      /\ is_change_point_detected' => BlockLength' >= Warmup
  <2>1. current_step_ \in Nat /\ current_step_ <= BlockLength
    BY <1>1 DEF TypeOK, DetectorInv
  <2>2. QED
    BY <1>2, <1>6, <1>8, <2>1, WarmupAssumption DEF StepDetector
<1>10. is_change_point_detected' \in BOOLEAN
  BY <1>6 DEF StepDetector
<1>11. TypeOK'
  BY <1>1, <1>6, <1>7, <1>9, <1>10 DEF TypeOK
<1>12. NeverThrows' /\ EndingInv'
  BY <1>6 DEF NeverThrows, EndingInv
<1>13. ReadingInv'
  BY <1>1, <1>2, <1>6, <1>7 DEF ReadingInv
<1>14. StreamsInv'
  <2>1. CASE Takes(0)
    <3>1. Stored' = Whole' /\ BlockLength' <= Room'
      BY <1>2, <1>3, <1>7, <1>8, <2>1
    <3>2. ~ (BlockLength' > Room') 
      <4>1. BlockLength' \in Int /\ Room' \in Int
        BY <1>2, <1>8
      <4>2. QED
        BY <3>1, <4>1
    <3>3. QED
      BY <1>1, <1>2, <1>6, <1>7, <1>8, <3>1, <3>2 DEF StreamsInv, Looping
  <2>2. CASE ~Takes(0)
    <3>1. Stored' = Stored /\ BlockLength' > Room' /\ BlockLength >= Room
      BY <1>2, <1>3, <1>7, <1>8, <2>2
    <3>2. Stored = SubSeq(Append(Whole, next_byte), 1, Room)
      BY <1>2, <3>1, StoredGrows
    <3>3. Stored' = SubSeq(Whole', 1, Room')
      BY <1>8, <3>1, <3>2
    <3>4. QED
      BY <1>1, <1>2, <1>6, <1>7, <1>8, <3>1, <3>3 DEF StreamsInv, Looping
  <2>3. QED
    BY <2>1, <2>2
<1>15. CountingInv'
  BY <1>2, <1>6, <1>8 DEF CountingInv
<1>16. DetectorInv'
  BY <1>6, <1>9 DEF DetectorInv
<1>17. QED
  BY <1>11, <1>12, <1>13, <1>14, <1>15, <1>16 DEF IInv

(***************************************************************************)
(* Ending a block.                                                         *)
(***************************************************************************)
\* All but the last byte, then the last byte.
LEMMA LastByte ==
  ASSUME NEW w \in Seq(Byte), NEW n \in Nat, Len(w) = n + 1
  PROVE  \E e \in Byte : w = Append(SubSeq(w, 1, n), e)
<1>1. PICK front, back : front = SubSeq(w, 1, n) /\ back = SubSeq(w, n + 1, Len(w))
  OBVIOUS
<1>2. n \in 0 .. Len(w)
  OBVIOUS
<1>3. /\ front \in Seq(Byte) /\ back \in Seq(Byte) /\ front \o back = w
      /\ Len(back) = Len(w) - n
  BY <1>1, <1>2, Cut
<1>4. Len(back) = 1 /\ back[1] \in Byte
  <2>1. Len(back) = 1
    BY <1>3
  <2>2. 1 \in 1 .. Len(back)
    BY <2>1
  <2>3. QED
    BY <1>3, <2>1, <2>2, ElementOfSeq
<1>5. back = <<back[1]>>
  BY <1>3, <1>4
<1>6. Append(front, back[1]) = front \o <<back[1]>>
  BY <1>3, <1>4, AppendIsConcat
<1>7. w = Append(front, back[1])
  BY <1>3, <1>5, <1>6
<1>8. QED
  BY <1>1, <1>4, <1>7

\* The windows the encoders really have agree with the decoder's.
LEMMA WindowsAgree ==
  ASSUME decoded \in Seq(Byte)
  PROVE  WindowAgrees(<<>>) /\ WindowAgrees(decoded)
<1>1. Len(decoded) \in Nat /\ Len(<<>>) = 0
  BY Lengths, EmptyBytes
<1>2. LastN(<<>>, LookBackSize) = <<>>
  BY <1>1 DEF LastN
<1>3. LastN(decoded, 0) = <<>>
  <2>1. CASE Len(decoded) = 0
    BY <2>1, EmptyBytes DEF LastN
  <2>2. CASE Len(decoded) # 0
    <3>1. SubSeq(decoded, Len(decoded) + 1, Len(decoded)) = <<>>
      BY <1>1, SubSeqEmpty
    <3>2. LastN(decoded, 0) = SubSeq(decoded, Len(decoded) + 1, Len(decoded))
      BY <1>1, <2>2 DEF LastN
    <3>3. QED
      BY <3>1, <3>2
  <2>3. QED
    BY <2>1, <2>2
<1>4. 0 \in 0 .. LookBackSize /\ LookBackSize \in 0 .. LookBackSize
  BY CodingAssumption
<1>5. WindowAgrees(<<>>)
  BY <1>2, <1>3, <1>4 DEF WindowAgrees
<1>6. WindowAgrees(decoded)
  BY <1>4 DEF WindowAgrees
<1>7. QED
  BY <1>5, <1>6

\* The history before the current block is what was decoded so far.
LEMMA Histories ==
  ASSUME IInv, pc \in {"commit", "last"}
  PROVE  /\ HistoryOf(1) = <<>> /\ Content(1) = <<>>
         /\ HistoryOf(2) = decoded /\ Content(2) = Whole
<1>1. /\ Window = decoded \o Coded
      /\ block[1] = <<>> /\ look_ahead[1] = <<>> /\ seen[1] = <<>>
  BY DEF IInv, StreamsInv, Looping
<1>2. decoded \in Seq(Byte) /\ Coded \in Seq(Byte)
  BY TypesOfStreams DEF IInv
<1>3. PICK d, c, w : d = decoded /\ c = Coded /\ w = Window
  OBVIOUS
<1>4. /\ d \in Seq(Byte) /\ c \in Seq(Byte) /\ w = d \o c
      /\ Len(d) \in Nat /\ Len(c) \in Nat /\ Len(w) = Len(d) + Len(c)
  BY <1>1, <1>2, <1>3, Lengths, Concat
<1>5. SubSeq(w, 1, Len(w) - Len(c)) = d
  <2>1. Len(w) - Len(c) = Len(d)
    BY <1>4
  <2>2. SubSeq(d \o c, 1, Len(d)) = d
    BY <1>4, PrefixOfConcat
  <2>3. QED
    BY <1>4, <2>1, <2>2
<1>6. HistoryOf(2) = SubSeq(w, 1, Len(w) - Len(c))
  BY <1>3 DEF HistoryOf, Window, Coded
<1>7. Content(2) = Whole
  BY DEF Content, Whole, Coded, Waiting
<1>8. HistoryOf(1) = <<>>
  <2>1. HistoryOf(1) = SubSeq(<<>>, 1, 0)
    BY <1>1, EmptyBytes DEF HistoryOf
  <2>2. QED
    BY <2>1, SubSeqEmpty
<1>9. Content(1) = <<>>
  BY <1>1, EmptyBytes DEF Content
<1>10. QED
  BY <1>3, <1>5, <1>6, <1>7, <1>8, <1>9

\* Whichever block is written, the decoder takes it.
LEMMA BlockTaken ==
  ASSUME IInv, pc \in {"commit", "last"}, NEW is_last \in BOOLEAN,
         NEW t \in Stream, WriteBlock(t, is_last)
  PROVE  /\ decoded' = decoded \o (CASE t = 0 -> Stored
                                     [] t = 1 -> <<>>
                                     [] t = 2 -> Whole)
         /\ decoder' = IF is_last THEN "ended" ELSE "open"
         /\ chosen' = t
         /\ Eligible(t)
<1>1. decoder = "open" /\ buffered = <<>> /\ decoded \in Seq(Byte)
  BY TypesOfStreams DEF IInv, StreamsInv, Looping
<1>2. /\ HistoryOf(1) = <<>> /\ Content(1) = <<>>
      /\ HistoryOf(2) = decoded /\ Content(2) = Whole
  BY Histories
<1>3. WindowAgrees(<<>>) /\ WindowAgrees(decoded)
  BY <1>1, WindowsAgree
<1>4. Buffered(is_last)[1]
        = [is_last |-> is_last, history |-> decoded, bytes |-> Whole]
  BY <1>1, <1>2 DEF Buffered
<1>5. PICK b : b = Committed(t, is_last)
  OBVIOUS
<1>6. /\ b.is_last = is_last
      /\ b.history \in {<<>>, decoded}
      /\ b.bytes = CASE t = 0 -> Stored [] t = 1 -> <<>> [] t = 2 -> Whole
  <2>1. CASE t = 0
    BY <1>5, <2>1 DEF Committed, Stored
  <2>2. CASE t = 1
    BY <1>2, <1>5, <2>2 DEF Committed
  <2>3. CASE t = 2
    BY <1>4, <1>5, <2>3 DEF Committed
  <2>4. QED
    BY <2>1, <2>2, <2>3, Streams
<1>7. Decode(b) /\ chosen' = t /\ Eligible(t)
  BY <1>5 DEF WriteBlock, MayBeSmallest
<1>8. WindowAgrees(b.history)
  BY <1>3, <1>6
<1>9. /\ decoded' = decoded \o b.bytes
      /\ decoder' = IF b.is_last THEN "ended" ELSE "open"
  BY <1>1, <1>7, <1>8 DEF Decode
<1>10. QED
  BY <1>6, <1>7, <1>9

\* What ending a block does to the streams and to the output.
LEMMA CommitEffect ==
  ASSUME IInv, FixedMaximum = 0, Commit
  PROVE  /\ \E t \in {0, 2} : chosen' = t
         /\ decoded' = decoded \o Whole /\ decoded' \in Seq(Byte)
         /\ decoder' = "open" /\ aligned' \in BOOLEAN
         /\ block' = [u \in Stream |-> <<>>] /\ buffered' = <<>>
         /\ look_ahead' = [u \in LzssStream |-> <<>>]
         /\ seen' \in [LzssStream -> Seq(Byte)]
         /\ Window' = decoded' /\ seen'[1] = <<>>
         /\ Window' = Window \o Waiting
         /\ current_step_' = 0 /\ is_change_point_detected' = FALSE
         /\ num_uncompressed_bytes_in_block' = 0 /\ pc' = "put"
         /\ UNCHANGED <<next_byte, num_uncompressed_bytes_in_file, crc, read>>
         /\ BlockLength >= Warmup
<1>1. TypeOK /\ StreamsInv /\ CountingInv /\ DetectorInv /\ pc = "commit" /\ Looping
  BY DEF IInv, Commit, Looping
<1>2. /\ Coded \in Seq(Byte) /\ Waiting \in Seq(Byte) /\ Window \in Seq(Byte)
      /\ decoded \in Seq(Byte) /\ Whole \in Seq(Byte)
      /\ BlockLength \in Nat /\ BlockLength >= Warmup
      /\ Extra \in {0, 1} /\ Room + Extra = StoredMaximum /\ Room \in Nat
      /\ num_uncompressed_bytes_in_block = BlockLength + Extra
      /\ num_uncompressed_bytes_in_block <= DynamicMaximum
      /\ BlockLength <= Room => Stored = Whole
      /\ Window = decoded \o Coded
      /\ look_ahead[1] = <<>> /\ seen[1] = <<>> /\ buffered = <<>>
  <2>1. num_uncompressed_bytes_in_block <= DynamicMaximum
    BY <1>1 DEF TypeOK
  <2>2. QED
    BY <1>1, <2>1, TypesOfStreams, ExtraIs DEF CountingInv, StreamsInv, DetectorInv
<1>3. /\ Eligible(0) => BlockLength <= Room
      /\ ~Eligible(1)
      /\ Eligible(2)
  BY <1>2, Breakpoints, WarmupAssumption DEF Eligible
<1>4. ~CommitFails(FALSE)
  BY <1>2, <1>3, Streams DEF CommitFails, Rebuffers
<1>5. PICK t \in Stream : WriteBlock(t, FALSE) /\ ResetStreams(t)
  BY <1>4 DEF Commit
<1>6. /\ ResetDetector /\ num_uncompressed_bytes_in_block' = 0 /\ pc' = "put"
      /\ UNCHANGED <<next_byte, num_uncompressed_bytes_in_file, crc, read>>
      /\ aligned' \in IF chosen' = 0 THEN {TRUE} ELSE BOOLEAN
  BY <1>4 DEF Commit
<1>7. /\ decoded' = decoded \o (CASE t = 0 -> Stored [] t = 1 -> <<>> [] t = 2 -> Whole)
      /\ decoder' = "open" /\ chosen' = t /\ Eligible(t)
  BY <1>1, <1>5, BlockTaken
<1>8. t \in {0, 2}
  BY <1>3, <1>7, Streams
<1>9. decoded' = decoded \o Whole
  BY <1>2, <1>3, <1>7, <1>8
<1>10. decoded' \in Seq(Byte)
  BY <1>2, <1>9, Concat
<1>11. Drains(t, 2)
  BY <1>3 DEF Drains
<1>12. /\ seen' = [u \in LzssStream |->
                     IF u = 1 \/ Drains(t, u) THEN seen[u] \o look_ahead[u] ELSE seen[u]]
       /\ look_ahead' = [u \in LzssStream |->
                     IF u = 1 \/ Drains(t, u) THEN <<>> ELSE look_ahead[u]]
       /\ block' = [u \in Stream |-> <<>>] /\ buffered' = <<>>
  BY <1>5 DEF ResetStreams
<1>13. look_ahead' = [u \in LzssStream |-> <<>>]
  <2>1. \A u \in LzssStream : u = 1 \/ Drains(t, u)
    BY <1>11, Streams
  <2>2. QED
    BY <1>12, <2>1
<1>14. Window' = Window \o Waiting
  BY <1>11, <1>12, Streams DEF Window, Waiting
<1>15. seen'[1] = <<>>
  <2>1. seen'[1] = seen[1] \o look_ahead[1]
    BY <1>12, Streams
  <2>2. QED
    BY <1>2, <2>1, EmptyBytes
<1>16. Window' = decoded'
  <2>1. (decoded \o Coded) \o Waiting = decoded \o (Coded \o Waiting)
    BY <1>2, Regroup
  <2>2. QED
    BY <1>2, <1>9, <1>14, <2>1 DEF Whole
<1>17. seen' \in [LzssStream -> Seq(Byte)]
  <2>1. seen' = [u \in LzssStream |-> seen'[u]]
    BY <1>12
  <2>2. seen'[1] \in Seq(Byte)
    BY <1>15, EmptyBytes
  <2>3. seen'[2] \in Seq(Byte)
    BY <1>10, <1>16 DEF Window
  <2>4. \A u \in LzssStream : seen'[u] \in Seq(Byte)
    BY <2>2, <2>3, Streams
  <2>5. QED
    BY <2>1, <2>4
<1>18. aligned' \in BOOLEAN
  BY <1>6
<1>19. current_step_' = 0 /\ is_change_point_detected' = FALSE
  BY <1>6, Zenon DEF ResetDetector
<1>20. QED
  BY <1>2, <1>6, <1>7, <1>8, <1>9, <1>10, <1>12, <1>13, <1>14, <1>15, <1>16,
     <1>17, <1>18, <1>19

\* Ending a block preserves the invariant.
LEMMA CommitStep ==
  ASSUME IInv, FixedMaximum = 0, Commit
  PROVE  IInv'
<1>1. TypeOK /\ ReadingInv /\ pc = "commit"
  BY DEF IInv, Commit
<1>2. /\ \E t \in {0, 2} : chosen' = t
      /\ decoded' \in Seq(Byte)
      /\ decoder' = "open"
      /\ block' = [u \in Stream |-> <<>>] /\ buffered' = <<>>
      /\ look_ahead' = [u \in LzssStream |-> <<>>]
      /\ seen' \in [LzssStream -> Seq(Byte)]
      /\ Window' = decoded' /\ seen'[1] = <<>>
      /\ Window' = Window \o Waiting
      /\ num_uncompressed_bytes_in_block' = 0 /\ pc' = "put"
      /\ UNCHANGED <<next_byte, num_uncompressed_bytes_in_file, crc, read>>
      /\ current_step_' = 0
  BY CommitEffect
<1>3. is_change_point_detected' = FALSE /\ aligned' \in BOOLEAN
  BY CommitEffect, Zenon
<1>4. /\ Stored' = <<>> /\ Coded' = <<>> /\ Waiting' = <<>>
      /\ block'[1] = <<>> /\ look_ahead'[1] = <<>>
  BY <1>2, Streams DEF Stored, Coded, Waiting
<1>5. /\ <<>> \in Seq(Byte) /\ Len(<<>>) = 0 /\ <<>> \o <<>> = <<>>
      /\ decoded' \o <<>> = decoded' /\ Window' \o <<>> = Window'
  BY <1>2, EmptyBytes
<1>6. /\ Whole' = <<>> /\ BlockLength' = 0 /\ Extra' = 0 /\ Room' = StoredMaximum
  BY <1>2, <1>4, <1>5, BreakpointAssumption DEF Whole, BlockLength, Extra, Room, NoStream
<1>7. TypeOK'
  <2>1. block' \in [Stream -> Seq(Byte)] /\ look_ahead' \in [LzssStream -> Seq(Byte)]
    BY <1>2, <1>5
  <2>2. is_change_point_detected' \in BOOLEAN
    BY <1>3, Zenon
  <2>3. \A b \in {buffered'[i] : i \in 1 .. Len(buffered')} :
          /\ b.is_last \in BOOLEAN
          /\ b.history \in Seq(Byte)
          /\ b.bytes \in Seq(Byte)
    BY <1>2, <1>5
  <2>4. /\ pc' = "put" /\ next_byte' \in Byte
        /\ num_uncompressed_bytes_in_file' \in 0 .. FileModulus - 1
        /\ num_uncompressed_bytes_in_block' \in 0 .. DynamicMaximum
        /\ current_step_' \in Nat
        /\ chosen' \in Stream \cup {NoStream}
        /\ decoder' = "open"
    BY <1>1, <1>2, Streams, BreakpointAssumption DEF TypeOK
  <2>5. {read', crc', decoded'} \subseteq Seq(Byte)
    BY <1>1, <1>2, TypesOfStreams
  <2>6. QED
    BY <1>2, <1>3, <2>1, <2>2, <2>3, <2>4, <2>5 DEF TypeOK
<1>8. NeverThrows' /\ EndingInv'
  BY <1>2 DEF NeverThrows, EndingInv
<1>9. ReadingInv'
  BY <1>1, <1>2, <1>4, <1>5 DEF ReadingInv
<1>10. StreamsInv'
  BY <1>2, <1>4, <1>5, <1>6, BreakpointAssumption, CodingAssumption DEF StreamsInv
<1>11. CountingInv'
  BY <1>2, <1>6, BreakpointAssumption DEF CountingInv
<1>12. DetectorInv'
  BY <1>2, <1>3, <1>6 DEF DetectorInv
<1>13. QED
  BY <1>7, <1>8, <1>9, <1>10, <1>11, <1>12 DEF IInv

\* Nothing more is in the streams after the last block, but what they hold is
\* still bytes.
LEMMA LeaveStreamsTypes ==
  ASSUME IInv, pc = "last", NEW t \in Stream, LeaveStreams(t), Eligible(2)
  PROVE  /\ block' \in [Stream -> Seq(Byte)]
         /\ seen' \in [LzssStream -> Seq(Byte)]
         /\ look_ahead' \in [LzssStream -> Seq(Byte)]
         /\ \A b \in {buffered'[i] : i \in 1 .. Len(buffered')} :
              /\ b.is_last \in BOOLEAN
              /\ b.history \in Seq(Byte)
              /\ b.bytes \in Seq(Byte)
<1>1. /\ buffered = <<>> /\ decoded \in Seq(Byte) /\ Whole \in Seq(Byte)
      /\ block \in [Stream -> Seq(Byte)]
      /\ look_ahead \in [LzssStream -> Seq(Byte)]
      /\ seen \in [LzssStream -> Seq(Byte)]
  BY TypesOfStreams DEF IInv, StreamsInv, Looping, TypeOK
<1>2. HistoryOf(2) = decoded /\ Content(2) = Whole
  BY Histories
<1>3. \A u \in LzssStream :
        /\ u \in Stream /\ block[u] \in Seq(Byte)
        /\ look_ahead[u] \in Seq(Byte) /\ seen[u] \in Seq(Byte)
  BY <1>1, Streams
<1>4. \A u \in LzssStream :
        Content(u) \in Seq(Byte) /\ seen[u] \o look_ahead[u] \in Seq(Byte)
  <2>1. ASSUME NEW u \in LzssStream
        PROVE  Content(u) \in Seq(Byte) /\ seen[u] \o look_ahead[u] \in Seq(Byte)
    <3>1. PICK b, l, h : b = block[u] /\ l = look_ahead[u] /\ h = seen[u]
      OBVIOUS
    <3>2. b \in Seq(Byte) /\ l \in Seq(Byte) /\ h \in Seq(Byte)
      BY <1>3, <3>1
    <3>3. b \o l \in Seq(Byte) /\ h \o l \in Seq(Byte)
      BY <3>2, Concat
    <3>4. QED
      BY <3>1, <3>3 DEF Content
  <2>2. QED
    BY <2>1
<1>5. block' \in [Stream -> Seq(Byte)]
  <2>1. block' = [u \in Stream |->
                    IF u \in LzssStream /\ Drains(t, u) THEN Content(u) ELSE block[u]]
    BY DEF LeaveStreams
  <2>2. \A u \in Stream : block[u] \in Seq(Byte)
    BY <1>1
  <2>3. QED
    BY <1>4, <2>1, <2>2
<1>6. seen' \in [LzssStream -> Seq(Byte)]
  <2>1. seen' = [u \in LzssStream |->
                   IF Drains(t, u) THEN seen[u] \o look_ahead[u] ELSE seen[u]]
    BY DEF LeaveStreams
  <2>2. QED
    BY <1>3, <1>4, <2>1, Zenon
<1>7. look_ahead' \in [LzssStream -> Seq(Byte)]
  <2>1. look_ahead' = [u \in LzssStream |->
                         IF Drains(t, u) THEN <<>> ELSE look_ahead[u]]
    BY DEF LeaveStreams
  <2>2. QED
    BY <1>3, <2>1, EmptyBytes
<1>8. buffered' = <<[is_last |-> TRUE, history |-> decoded, bytes |-> Whole]>>
  BY <1>1, <1>2 DEF LeaveStreams, Buffered
<1>9. \A b \in {buffered'[i] : i \in 1 .. Len(buffered')} :
        b = [is_last |-> TRUE, history |-> decoded, bytes |-> Whole]
  BY <1>8
<1>10. \A b \in {buffered'[i] : i \in 1 .. Len(buffered')} :
         /\ b.is_last \in BOOLEAN
         /\ b.history \in Seq(Byte)
         /\ b.bytes \in Seq(Byte)
  <2>1. PICK c : c = [is_last |-> TRUE, history |-> decoded, bytes |-> Whole]
    OBVIOUS
  <2>2. c.is_last = TRUE /\ c.history = decoded /\ c.bytes = Whole
    BY <2>1
  <2>3. c.is_last \in BOOLEAN
    BY <2>2, Zenon
  <2>4. c.history \in Seq(Byte) /\ c.bytes \in Seq(Byte)
    BY <1>1, <2>2
  <2>5. \A b \in {buffered'[i] : i \in 1 .. Len(buffered')} : b = c
    BY <1>9, <2>1
  <2>6. QED
    BY <2>3, <2>4, <2>5, Zenon
<1>11. QED
  BY <1>5, <1>6, <1>7, <1>10

\* What writing the last block does: at most its last byte is missing from the
\* output, and only at two values of the counter.
LEMMA CommitLastEffect ==
  ASSUME IInv, FixedMaximum = 0, CommitLast
  PROVE  /\ pc' = "footer" /\ aligned' = TRUE /\ chosen' \in Stream
         /\ decoder' = "ended" /\ decoded' \in Seq(Byte)
         /\ UNCHANGED <<next_byte, num_uncompressed_bytes_in_file, crc, read>>
         /\ UNCHANGED num_uncompressed_bytes_in_block
         /\ UNCHANGED <<current_step_, is_change_point_detected>>
         /\ block' \in [Stream -> Seq(Byte)]
         /\ seen' \in [LzssStream -> Seq(Byte)]
         /\ look_ahead' \in [LzssStream -> Seq(Byte)]
         /\ \A b \in {buffered'[i] : i \in 1 .. Len(buffered')} :
              /\ b.is_last \in BOOLEAN
              /\ b.history \in Seq(Byte)
              /\ b.bytes \in Seq(Byte)
         /\ \/ decoded' = read
            \/ AtEdge /\ \E byte \in Byte : read = Append(decoded', byte)
         /\ read # <<>>
         /\ \E tail \in Seq(Byte) : decoded' = decoded \o tail
<1>1. TypeOK /\ ReadingInv /\ StreamsInv /\ CountingInv /\ pc = "last" /\ Looping
  BY DEF IInv, CommitLast, Looping
<1>2. /\ Coded \in Seq(Byte) /\ Waiting \in Seq(Byte) /\ Window \in Seq(Byte)
      /\ decoded \in Seq(Byte) /\ Whole \in Seq(Byte) /\ Stored \in Seq(Byte)
      /\ Len(Whole) = BlockLength
      /\ BlockLength \in Nat /\ BlockLength >= 1
      /\ Extra \in {0, 1} /\ Room + Extra = StoredMaximum /\ Room \in Nat
      /\ num_uncompressed_bytes_in_block = BlockLength + Extra - 1
      /\ num_uncompressed_bytes_in_block < DynamicMaximum
      /\ BlockLength <= Room => Stored = Whole
      /\ BlockLength > Room => Stored = SubSeq(Whole, 1, Room)
      /\ Window = decoded \o Coded /\ read = Window \o Waiting
      /\ buffered = <<>>
  BY <1>1, TypesOfStreams, ExtraIs DEF CountingInv, StreamsInv, ReadingInv
<1>3. /\ Eligible(0) => BlockLength <= Room + 1
      /\ Eligible(0) /\ BlockLength = Room + 1 => AtEdge
      /\ Eligible(1) => BlockLength = 0 + 1 /\ AtEdge
      /\ Eligible(2)
  BY <1>2, Breakpoints, BreakpointAssumption DEF Eligible, AtEdge
<1>4. ~CommitFails(TRUE)
  BY <1>2, <1>3, Streams DEF CommitFails, Rebuffers
<1>5. PICK t \in Stream : WriteBlock(t, TRUE) /\ LeaveStreams(t)
  BY <1>4 DEF CommitLast
<1>6. /\ aligned' = TRUE /\ pc' = "footer"
      /\ UNCHANGED <<next_byte, num_uncompressed_bytes_in_file, crc, read>>
      /\ UNCHANGED num_uncompressed_bytes_in_block
      /\ UNCHANGED <<current_step_, is_change_point_detected>>
  BY <1>4 DEF CommitLast, counters, detector
<1>7. /\ decoded' = decoded \o (CASE t = 0 -> Stored [] t = 1 -> <<>> [] t = 2 -> Whole)
      /\ decoder' = "ended" /\ chosen' = t /\ Eligible(t)
  BY <1>1, <1>5, BlockTaken
<1>8. read = decoded \o Whole
  BY <1>2, Regroup DEF Whole
<1>9. \A n \in Nat : BlockLength = n + 1 =>
        \E e \in Byte : read = Append(decoded \o SubSeq(Whole, 1, n), e)
  <2>1. SUFFICES ASSUME NEW n \in Nat, BlockLength = n + 1
                 PROVE  \E e \in Byte : read = Append(decoded \o SubSeq(Whole, 1, n), e)
    OBVIOUS
  <2>2. PICK e \in Byte : Whole = Append(SubSeq(Whole, 1, n), e)
    BY <1>2, <2>1, LastByte
  <2>3. SubSeq(Whole, 1, n) \in Seq(Byte)
    <3>1. n \in 0 .. Len(Whole)
      BY <1>2, <2>1
    <3>2. QED
      BY <1>2, <3>1, Cut
  <2>4. decoded \o Append(SubSeq(Whole, 1, n), e) = Append(decoded \o SubSeq(Whole, 1, n), e)
    BY <1>2, <2>3, ConcatAppend
  <2>5. QED
    BY <1>8, <2>2, <2>4
<1>10. \/ decoded' = read
       \/ AtEdge /\ \E byte \in Byte : read = Append(decoded', byte)
  <2>1. CASE t = 0
    <3>1. decoded' = decoded \o Stored
      BY <1>7, <2>1
    <3>2. CASE BlockLength <= Room
      BY <1>2, <1>8, <3>1, <3>2
    <3>3. CASE BlockLength > Room
      <4>1. BlockLength = Room + 1 /\ AtEdge
        BY <1>2, <1>3, <1>7, <2>1, <3>3
      <4>2. Stored = SubSeq(Whole, 1, Room)
        BY <1>2, <3>3
      <4>3. QED
        BY <1>2, <1>9, <3>1, <4>1, <4>2
    <3>4. BlockLength <= Room \/ BlockLength > Room
      BY <1>2
    <3>5. QED
      BY <3>2, <3>3, <3>4
  <2>2. CASE t = 1
    <3>1. decoded' = decoded \o <<>>
      BY <1>7, <2>2
    <3>2. BlockLength = 0 + 1 /\ AtEdge
      BY <1>3, <1>7, <2>2
    <3>3. SubSeq(Whole, 1, 0) = <<>>
      BY SubSeqEmpty
    <3>4. QED
      BY <1>9, <3>1, <3>2, <3>3
  <2>3. CASE t = 2
    BY <1>7, <1>8, <2>3
  <2>4. QED
    BY <2>1, <2>2, <2>3, Streams
<1>11. \E tail \in Seq(Byte) : decoded' = decoded \o tail
  <2>1. <<>> \in Seq(Byte)
    BY EmptyBytes
  <2>2. QED
    BY <1>2, <1>7, <2>1, Streams
<1>12. decoded' \in Seq(Byte)
  BY <1>2, <1>11, Concat
<1>13. read # <<>>
  <2>1. Len(read) = Len(decoded) + Len(Whole) /\ Len(decoded) \in Nat
    BY <1>2, <1>8, Concat, Lengths
  <2>2. QED
    BY <1>2, <2>1, EmptyBytes
<1>14. /\ block' \in [Stream -> Seq(Byte)]
       /\ seen' \in [LzssStream -> Seq(Byte)]
       /\ look_ahead' \in [LzssStream -> Seq(Byte)]
       /\ \A b \in {buffered'[i] : i \in 1 .. Len(buffered')} :
            /\ b.is_last \in BOOLEAN
            /\ b.history \in Seq(Byte)
            /\ b.bytes \in Seq(Byte)
  BY <1>1, <1>3, <1>5, LeaveStreamsTypes
<1>15. QED
  BY <1>6, <1>7, <1>10, <1>11, <1>12, <1>13, <1>14

\* Writing the last block preserves the invariant.
LEMMA CommitLastStep ==
  ASSUME IInv, FixedMaximum = 0, CommitLast
  PROVE  IInv'
<1>1. TypeOK /\ ReadingInv
  BY DEF IInv
<1>2. /\ pc' = "footer" /\ aligned' = TRUE /\ chosen' \in Stream
      /\ decoder' = "ended" /\ decoded' \in Seq(Byte)
      /\ UNCHANGED <<next_byte, num_uncompressed_bytes_in_file, crc, read>>
      /\ UNCHANGED num_uncompressed_bytes_in_block
      /\ UNCHANGED <<current_step_, is_change_point_detected>>
      /\ read # <<>>
  BY CommitLastEffect
<1>3. /\ block' \in [Stream -> Seq(Byte)]
      /\ seen' \in [LzssStream -> Seq(Byte)]
      /\ look_ahead' \in [LzssStream -> Seq(Byte)]
      /\ \A b \in {buffered'[i] : i \in 1 .. Len(buffered')} :
           /\ b.is_last \in BOOLEAN
           /\ b.history \in Seq(Byte)
           /\ b.bytes \in Seq(Byte)
  BY CommitLastEffect
<1>4. \/ decoded' = read
      \/ AtEdge /\ \E byte \in Byte : read = Append(decoded', byte)
  BY CommitLastEffect
<1>5. TypeOK'
  <2>1. is_change_point_detected' \in BOOLEAN /\ aligned' \in BOOLEAN
    BY <1>1, <1>2 DEF TypeOK
  <2>2. /\ current_step_' \in Nat
        /\ num_uncompressed_bytes_in_block' \in 0 .. DynamicMaximum
        /\ next_byte' \in Byte
        /\ num_uncompressed_bytes_in_file' \in 0 .. FileModulus - 1
    BY <1>1, <1>2 DEF TypeOK
  <2>3. {read', crc', decoded'} \subseteq Seq(Byte)
    BY <1>1, <1>2, TypesOfStreams
  <2>4. QED
    BY <1>2, <1>3, <2>1, <2>2, <2>3 DEF TypeOK
<1>6. NeverThrows'
  BY <1>2 DEF NeverThrows
<1>7. ReadingInv'
  BY <1>1, <1>2 DEF ReadingInv
<1>8. StreamsInv' /\ CountingInv' /\ DetectorInv'
  BY <1>2 DEF StreamsInv, CountingInv, DetectorInv, Looping
<1>9. EndingInv'
  BY <1>2, <1>4 DEF EndingInv, AtEdge
<1>10. QED
  BY <1>5, <1>6, <1>7, <1>8, <1>9 DEF IInv

(***************************************************************************)
(* The footer.                                                             *)
(***************************************************************************)
\* Writing the footer preserves the invariant.
LEMMA PushFooterStep ==
  ASSUME IInv, PushFooter
  PROVE  IInv'
<1>1. /\ TypeOK /\ ReadingInv /\ EndingInv
      /\ pc = "footer" /\ pc' = "done"
      /\ UNCHANGED streams
      /\ UNCHANGED <<next_byte, num_uncompressed_bytes_in_file, crc, read>>
      /\ UNCHANGED num_uncompressed_bytes_in_block
      /\ UNCHANGED <<current_step_, is_change_point_detected>>
      /\ UNCHANGED <<chosen, aligned, decoded>>
  BY DEF IInv, PushFooter, DecodeFooter, detector, counters
<1>2. /\ decoder' \in {"accepts", "rejects"}
      /\ decoder = "ended" /\ aligned /\ decoded = read => decoder' = "accepts"
  <2>1. crc = read /\ num_uncompressed_bytes_in_file = Len(read) % FileModulus
    BY <1>1 DEF ReadingInv
  <2>2. QED
    BY <2>1 DEF PushFooter, DecodeFooter
<1>3. /\ Stored' = Stored /\ Coded' = Coded /\ Waiting' = Waiting
      /\ UNCHANGED <<block, look_ahead, seen, buffered>>
  BY <1>1, SameStreams
<1>4. TypeOK'
  <2>1. is_change_point_detected' \in BOOLEAN /\ aligned' \in BOOLEAN
    BY <1>1 DEF TypeOK
  <2>2. /\ current_step_' \in Nat
        /\ num_uncompressed_bytes_in_block' \in 0 .. DynamicMaximum
        /\ next_byte' \in Byte
        /\ num_uncompressed_bytes_in_file' \in 0 .. FileModulus - 1
    BY <1>1 DEF TypeOK
  <2>3. QED
    BY <1>1, <1>2, <1>3, <2>1, <2>2 DEF TypeOK
<1>5. NeverThrows'
  BY <1>1 DEF NeverThrows
<1>6. ReadingInv'
  BY <1>1 DEF ReadingInv
<1>7. StreamsInv' /\ CountingInv' /\ DetectorInv'
  BY <1>1 DEF StreamsInv, CountingInv, DetectorInv, Looping
<1>8. EndingInv'
  <2>1. CASE /\ decoded = read /\ read # <<>> /\ aligned /\ decoder = "ended"
    BY <1>1, <1>2, <2>1 DEF EndingInv
  <2>2. CASE /\ AtEdge
             /\ decoded = read \/ \E byte \in Byte : read = Append(decoded, byte)
    BY <1>1, <2>2 DEF EndingInv, AtEdge
  <2>3. QED
    BY <1>1, <2>1, <2>2 DEF EndingInv
<1>9. QED
  BY <1>4, <1>5, <1>6, <1>7, <1>8 DEF IInv

-----------------------------------------------------------------------------
(***************************************************************************)
(* Every step.                                                             *)
(***************************************************************************)
\* A step that changes nothing preserves the invariant.
LEMMA StutterStep ==
  ASSUME IInv, UNCHANGED vars
  PROVE  IInv'
<1>1. /\ UNCHANGED streams
      /\ UNCHANGED <<pc, next_byte, num_uncompressed_bytes_in_file, crc, read>>
      /\ UNCHANGED <<num_uncompressed_bytes_in_block, current_step_>>
      /\ UNCHANGED <<is_change_point_detected, aligned>>
      /\ UNCHANGED <<chosen, decoded, decoder>>
  BY DEF vars, counters, detector, output
<1>2. /\ Stored' = Stored /\ Coded' = Coded /\ Waiting' = Waiting
      /\ Whole' = Whole /\ Window' = Window /\ BlockLength' = BlockLength
      /\ UNCHANGED <<block, look_ahead, seen, buffered>>
      /\ Extra' = Extra /\ Room' = Room
  BY <1>1, SameStreams DEF Extra, Room
<1>3. TypeOK'
  <2>1. is_change_point_detected' \in BOOLEAN /\ aligned' \in BOOLEAN
    BY <1>1 DEF IInv, TypeOK
  <2>2. QED
    BY <1>1, <1>2, <2>1 DEF IInv, TypeOK
<1>4. NeverThrows'
  BY <1>1 DEF IInv, NeverThrows
<1>5. ReadingInv'
  BY <1>1, <1>2 DEF IInv, ReadingInv
<1>6. StreamsInv'
  BY <1>1, <1>2 DEF IInv, StreamsInv, Looping
<1>7. CountingInv'
  BY <1>1, <1>2 DEF IInv, CountingInv
<1>8. DetectorInv'
  BY <1>1, <1>2 DEF IInv, DetectorInv, Looping
<1>9. EndingInv'
  BY <1>1 DEF IInv, EndingInv, AtEdge
<1>10. QED
  BY <1>3, <1>4, <1>5, <1>6, <1>7, <1>8, <1>9 DEF IInv

\* Every step preserves the invariant.
LEMMA NextIInv ==
  ASSUME IInv, FixedMaximum = 0, [Next]_vars
  PROVE  IInv'
<1>1. CASE GetFirst
  BY <1>1, GetFirstStep
<1>2. CASE GetFirstFails \/ GetFails
  BY <1>2, EndOfFileSteps
<1>3. CASE Get
  BY <1>3, GetStep
<1>4. CASE Put
  BY <1>4, PutStep
<1>5. CASE Commit
  BY <1>5, CommitStep
<1>6. CASE CommitLast
  BY <1>6, CommitLastStep
<1>7. CASE PushFooter
  BY <1>7, PushFooterStep
<1>8. CASE UNCHANGED vars
  BY <1>8, StutterStep
<1>9. QED
  BY <1>1, <1>2, <1>3, <1>4, <1>5, <1>6, <1>7, <1>8 DEF Next

\* The named parts are an invariant of the program with block type 1 disabled,
\* as main.cpp disables it.
THEOREM Invariance ==
  ASSUME FixedMaximum = 0
  PROVE  Spec => []IInv
<1>1. Init => IInv
  BY InitIInv
<1>2. IInv /\ [Next]_vars => IInv'
  BY NextIInv
<1>3. QED
  BY <1>1, <1>2, PTL DEF Spec

\* The state keeps its types: in particular the counter of the bytes in a
\* block never exceeds the breakpoint of block type 2.
THEOREM TypeCorrect ==
  ASSUME FixedMaximum = 0
  PROVE  Spec => []TypeOK
<1>1. IInv => TypeOK
  BY DEF IInv
<1>2. QED
  BY <1>1, Invariance, PTL

\* No exception leaves main, whatever the breakpoints of types 0 and 2.
THEOREM NoException ==
  ASSUME FixedMaximum = 0
  PROVE  Spec => []NeverThrows
<1>1. IInv => NeverThrows
  BY DEF IInv
<1>2. QED
  BY <1>1, Invariance, PTL

\* The decoder reproduces every file, at every choice of block ends and block
\* types, unless the last block ends at one of the two values of the counter.
THEOREM Lossless ==
  ASSUME FixedMaximum = 0
  PROVE  Spec => []RoundTrip
<1>1. IInv => RoundTrip
  BY DEF IInv, EndingInv, AtEdge, RoundTrip
<1>2. QED
  BY <1>1, Invariance, PTL

\* The window block type 2 takes its matches from is the decoder's.
THEOREM SharedWindow ==
  ASSUME FixedMaximum = 0
  PROVE  Spec => []WindowFollowsOutput
<1>1. IInv => WindowFollowsOutput
  BY DEF IInv, StreamsInv, Looping, WindowFollowsOutput, Window, Coded
<1>2. QED
  BY <1>1, Invariance, PTL

\* A block that is not the last is written whole, and is at least as long as
\* the warm-up.
LEMMA CommitAddsBlock ==
  ASSUME IInv, FixedMaximum = 0, Commit
  PROVE  /\ Len(decoded') = Len(decoded) + BlockLength
         /\ Len(decoded) \in Nat /\ BlockLength \in Nat
         /\ BlockLength >= Warmup
<1>1. /\ decoded \in Seq(Byte) /\ Whole \in Seq(Byte)
      /\ Len(Whole) = BlockLength /\ BlockLength \in Nat
  BY TypesOfStreams DEF IInv
<1>2. decoded' = decoded \o Whole /\ BlockLength >= Warmup
  BY CommitEffect
<1>3. QED
  BY <1>1, <1>2, Concat, Lengths

\* Blocks ended by the detector or by the size limit are never shorter than
\* the warm-up.
THEOREM BlocksNotTooSmall ==
  ASSUME FixedMaximum = 0
  PROVE  Spec => MinimumBlockSize
<1>1. IInv /\ [Next]_vars =>
        [pc = "commit" => Len(decoded') - Len(decoded) >= Warmup]_vars
  <2>1. SUFFICES ASSUME IInv, Next, pc = "commit"
                 PROVE  Len(decoded') - Len(decoded) >= Warmup
    OBVIOUS
  <2>2. Commit
    BY <2>1 DEF Next, GetFirst, GetFirstFails, Get, GetFails, Put, CommitLast,
                PushFooter
  <2>3. QED
    BY <2>1, <2>2, CommitAddsBlock
<1>2. QED
  BY <1>1, Invariance, PTL DEF Spec, MinimumBlockSize

-----------------------------------------------------------------------------
(***************************************************************************)
(* The program implements the filter.                                      *)
(***************************************************************************)
\* A sequence is a prefix of itself, and of itself with a byte more.
LEMMA WholeIsPrefix ==
  ASSUME NEW s \in Seq(Byte)
  PROVE  /\ s \in Published!Prefixes(s)
         /\ \A e \in Byte : s \in Published!Prefixes(Append(s, e))
<1>1. Len(s) \in Nat /\ SubSeq(s, 1, Len(s)) = s
  BY Lengths, SubSeqFull
<1>2. s \in Published!Prefixes(s)
  <2>1. Len(s) \in 0 .. Len(s)
    BY <1>1
  <2>2. QED
    BY <1>1, <2>1, Zenon DEF Published!Prefixes
<1>3. ASSUME NEW e \in Byte
      PROVE  s \in Published!Prefixes(Append(s, e))
  <2>1. Len(s) \in 0 .. Len(s) /\ Len(s) \in 0 .. Len(Append(s, e))
    BY <1>1, Appended
  <2>2. SubSeq(Append(s, e), 1, Len(s)) = s
    BY <1>1, <2>1, PrefixOfAppend
  <2>3. QED
    BY <2>1, <2>2 DEF Published!Prefixes
<1>4. QED
  BY <1>2, <1>3

\* Ending a block publishes more of the input.
LEMMA CommitPublishes ==
  ASSUME IInv, FixedMaximum = 0, Commit
  PROVE  Published!Publish
<1>1. /\ decoded' \in Seq(Byte) /\ Window' = decoded' /\ Window' = Window \o Waiting
      /\ pc' = "put" /\ read' = read
  BY CommitEffect
<1>2. pc = "commit" /\ next_byte \in Byte /\ read = Append(Window \o Waiting, next_byte)
  BY TypesOfStreams DEF Commit, IInv, ReadingInv
<1>3. decoded' \in Published!Prefixes(read)
  BY <1>1, <1>2, WholeIsPrefix
<1>4. Len(decoded') >= Len(decoded)
  BY CommitAddsBlock
<1>5. QED
  BY <1>1, <1>2, <1>3, <1>4 DEF Published!Publish

\* Writing the last block publishes more of the input.
LEMMA CommitLastPublishes ==
  ASSUME IInv, FixedMaximum = 0, CommitLast
  PROVE  Published!Publish
<1>1. /\ decoded' \in Seq(Byte) /\ pc' = "footer" /\ pc = "last" /\ read' = read
      /\ \/ decoded' = read
         \/ \E byte \in Byte : read = Append(decoded', byte)
      /\ \E tail \in Seq(Byte) : decoded' = decoded \o tail
  BY CommitLastEffect DEF CommitLast
<1>2. decoded' \in Published!Prefixes(read)
  BY <1>1, WholeIsPrefix
<1>3. Len(decoded') >= Len(decoded)
  <2>1. PICK tail \in Seq(Byte) : decoded' = decoded \o tail
    BY <1>1
  <2>2. decoded \in Seq(Byte)
    BY TypesOfStreams DEF IInv
  <2>3. QED
    BY <2>1, <2>2, Concat, Lengths
<1>4. QED
  BY <1>1, <1>2, <1>3 DEF Published!Publish

\* The footer ends the output with at most one byte missing.
LEMMA FooterFinishes ==
  ASSUME IInv, PushFooter
  PROVE  Published!Finish
<1>1. /\ pc = "footer" /\ pc' = "done" /\ read' = read /\ decoded' = decoded
  BY DEF PushFooter, DecodeFooter
<1>2. decoded \in Seq(Byte) /\ Len(decoded) \in Nat
  BY TypesOfStreams, Lengths DEF IInv
<1>3. decoded = read \/ \E byte \in Byte : read = Append(decoded, byte)
  BY <1>1 DEF IInv, EndingInv
<1>4. Len(decoded) >= Len(read) - 1
  BY <1>2, <1>3, Appended
<1>5. QED
  BY <1>1, <1>4 DEF Published!Finish

\* Every step is a step of the filter, or changes nothing it can see.
LEMMA NextRefines ==
  ASSUME IInv, FixedMaximum = 0, [Next]_vars
  PROVE  [Published!Next]_Published!vars
<1>1. CASE GetFirst \/ Get
  <2>1. /\ pc # "done" /\ pc' # "done" /\ decoded' = decoded
        /\ \E byte \in Byte : Account(byte)
    BY <1>1 DEF GetFirst, Get, output
  <2>2. QED
    BY <2>1 DEF Account, Published!Read, Published!Next
<1>2. CASE GetFirstFails \/ GetFails \/ Put
  <2>1. pc # "done" /\ pc' # "done" /\ decoded' = decoded /\ read' = read
    BY <1>2 DEF GetFirstFails, GetFails, Put, Throw, output
  <2>2. QED
    BY <2>1 DEF Published!vars
<1>3. CASE Commit
  BY <1>3, CommitPublishes DEF Published!Next
<1>4. CASE CommitLast
  BY <1>4, CommitLastPublishes DEF Published!Next
<1>5. CASE PushFooter
  BY <1>5, FooterFinishes DEF Published!Next
<1>6. CASE UNCHANGED vars
  BY <1>6 DEF vars, output, Published!vars
<1>7. QED
  BY <1>1, <1>2, <1>3, <1>4, <1>5, <1>6 DEF Next

\* Whatever the file and the breakpoints of types 0 and 2, the output decodes
\* to a growing prefix of what was read, and at the end lacks one byte at most
\* (that the end is reached is model-checked: see ImplementsFilter).
THEOREM Refinement ==
  ASSUME FixedMaximum = 0
  PROVE  Spec => Published!Spec
<1>1. Init => Published!Init
  BY DEF Init, Published!Init
<1>2. IInv /\ [Next]_vars => [Published!Next]_Published!vars
  BY NextRefines
<1>3. QED
  BY <1>1, <1>2, Invariance, PTL DEF Spec, Published!Spec

-----------------------------------------------------------------------------
(***************************************************************************)
(* CgzipDetector, for every file, every breakpoint of block types 0 and 2, *)
(* every warm-up and every alphabet: what is proved above of the main loop *)
(* with a detector that may find a change point anywhere holds with the    *)
(* real one, its counts are those of the current block, and its logarithms *)
(* are defined.                                                            *)
(***************************************************************************)
\* The counts are numbers, and probabilities fractions.
CountsTypes ==
  /\ baseline_counts_ \in [Byte -> Nat]
  /\ baseline_probs_ \in [Byte -> Nat \X Nat]
  /\ current_counts_ \in [Byte -> Nat]
  /\ current_counts_total_ \in Nat

\* A change point ends the block, and has reset the detector.
ChangePointInv ==
  /\ pc \in {"start", "put"} => ~is_change_point_detected
  /\ is_change_point_detected => current_step_ = 0

\* What makes the logarithms defined: no byte is counted more often than all
\* of them, and there is a baseline once there are two numbers to compare.
BaselineInv ==
  /\ current_step_ < Warmup => \A y \in Byte : baseline_counts_[y] = 0
  /\ \A y \in Byte : current_counts_[y] <= current_counts_total_
  /\ current_step_ >= Warmup =>
       \A y \in Byte : baseline_probs_[y][1] > 0
                         /\ baseline_probs_[y][1] <= baseline_probs_[y][2]

DetInv ==
  /\ CountsTypes
  /\ ChangePointInv
  /\ BaselineInv
  /\ DetectorCountsBlock

-----------------------------------------------------------------------------
(***************************************************************************)
(* Counting the bytes of a sequence.                                       *)
(***************************************************************************)
\* One byte more counts once, if it is among those that are counted.
LEMMA OccurrencesAppend ==
  ASSUME NEW s \in Seq(Byte), NEW e \in Byte, NEW bytes
  PROVE  /\ Occurrences(bytes, s) \in Nat
         /\ Occurrences(bytes, Append(s, e)) =
              Occurrences(bytes, s) + (IF e \in bytes THEN 1 ELSE 0)
<1> DEFINE Places(t) == {k \in DOMAIN t : t[k] \in bytes}
<1>0. /\ Occurrences(bytes, s) = Cardinality(Places(s))
      /\ Occurrences(bytes, Append(s, e)) = Cardinality(Places(Append(s, e)))
  BY DEF Occurrences
<1>1. Len(s) \in Nat /\ DOMAIN s = 1 .. Len(s)
  BY LenProperties
<1>2. IsFiniteSet(Places(s))
  <2>1. IsFiniteSet(1 .. Len(s))
    BY <1>1, FS_Interval
  <2>2. Places(s) \subseteq 1 .. Len(s)
    BY <1>1
  <2>3. QED
    BY <2>1, <2>2, FS_Subset
<1>3. Cardinality(Places(s)) \in Nat
  BY <1>2, FS_CardinalityType
<1>4. /\ DOMAIN Append(s, e) = 1 .. Len(s) + 1
      /\ Append(s, e)[Len(s) + 1] = e
      /\ \A k \in 1 .. Len(s) : Append(s, e)[k] = s[k]
  BY <1>1, AppendProperties
<1>5. Len(s) + 1 \notin Places(s)
  BY <1>1
<1>6. CASE e \in bytes
  <2>1. Places(Append(s, e)) = Places(s) \cup {Len(s) + 1}
    BY <1>1, <1>4, <1>6
  <2>2. Cardinality(Places(s) \cup {Len(s) + 1}) = Cardinality(Places(s)) + 1
    BY <1>2, <1>5, FS_AddElement
  <2> HIDE DEF Places
  <2>3. QED
    BY <1>0, <1>3, <1>6, <2>1, <2>2
<1>7. CASE e \notin bytes
  <2>1. Places(Append(s, e)) = Places(s)
    BY <1>1, <1>4, <1>7
  <2> HIDE DEF Places
  <2>2. QED
    BY <1>0, <1>3, <1>7, <2>1
<1>8. QED
  BY <1>6, <1>7

\* Nothing is counted in no bytes.
LEMMA OccurrencesEmpty ==
  ASSUME NEW bytes
  PROVE  Occurrences(bytes, <<>>) = 0
<1>1. {k \in DOMAIN <<>> : <<>>[k] \in bytes} = {}
  OBVIOUS
<1>2. QED
  BY <1>1, FS_EmptySet DEF Occurrences

\* The alphabet has a size.
LEMMA AlphabetSize ==
  ASSUME NEW y \in Byte
  PROVE  N \in Nat \ {0}
<1>1. N \in Nat
  BY ByteAssumption, FS_CardinalityType DEF N
<1>2. Byte # {}
  OBVIOUS
<1>3. N # 0
  BY <1>2, ByteAssumption, FS_EmptySet DEF N
<1>4. QED
  BY <1>1, <1>3

(***************************************************************************)
(* The initial state.                                                      *)
(***************************************************************************)
LEMMA InitDetInv ==
  ASSUME DetectorInit
  PROVE  IInv /\ DetInv
<1>1. IInv
  BY InitIInv DEF DetectorInit
<1>2. /\ pc = "start" /\ current_step_ = 0 /\ ~is_change_point_detected
      /\ baseline_counts_ = [y \in Byte |-> 0]
      /\ baseline_probs_ = [y \in Byte |-> <<0, 1>>]
      /\ current_counts_ = [y \in Byte |-> 0]
      /\ current_counts_total_ = 0
  BY DEF DetectorInit, Init
<1>3. Content(2) = <<>>
  BY <1>1, <1>2, EmptyBytes DEF IInv, CountingInv, Content, Coded, Waiting
<1>4. CountsTypes /\ ChangePointInv
  BY <1>2 DEF CountsTypes, ChangePointInv
<1>5. BaselineInv
  BY <1>2, WarmupAssumption DEF BaselineInv
<1>6. DetectorCountsBlock
  <2>1. ASSUME NEW y \in Counted
        PROVE  baseline_counts_[y] + current_counts_[y] = Occurrences({y}, Content(2))
    <3>1. baseline_counts_[y] = 0 /\ current_counts_[y] = 0
      BY <1>2 DEF Counted
    <3>2. Occurrences({y}, Content(2)) = 0
      BY <1>3, OccurrencesEmpty
    <3>3. QED
      BY <3>1, <3>2
  <2>2. Occurrences(Counted, Content(2)) = 0
    BY <1>3, OccurrencesEmpty
  <2>3. ASSUME NEW y \in NegativeChars
        PROVE  baseline_counts_[y] + current_counts_[y] = 0
    BY <1>2, FileAssumption
  <2>4. QED
    BY <1>2, <2>1, <2>2, <2>3, WarmupAssumption DEF DetectorCountsBlock
<1>7. QED
  BY <1>1, <1>4, <1>5, <1>6 DEF DetInv

(***************************************************************************)
(* A byte is put.                                                          *)
(***************************************************************************)
\* The byte is added to the block, and nothing is thrown.
LEMMA PutGrows ==
  ASSUME IInv, FixedMaximum = 0, Put
  PROVE  /\ pc = "put" /\ pc' = "get" /\ StepDetector
         /\ next_byte \in Byte /\ Content(2) \in Seq(Byte)
         /\ Content(2)' = Append(Content(2), next_byte)
<1>1. pc' # "thrown"
  BY PutStep DEF IInv, NeverThrows
<1>2. ~Overflows
  BY <1>1 DEF Put, Throw
<1>3. PICK step_1 \in StepLengths(1), step_2 \in StepLengths(2) :
        PutInStreams(<<step_1, step_2>>)
  BY <1>2 DEF Put
<1>4. pc = "put" /\ pc' = "get" /\ StepDetector
  BY <1>2 DEF Put
<1>5. next_byte \in Byte /\ Whole \in Seq(Byte)
  BY TypesOfStreams DEF IInv
<1>6. Coded' \o Waiting' = Append(Whole, next_byte)
  BY <1>3, <1>4, PutEffect
<1>7. QED
  BY <1>4, <1>5, <1>6 DEF Content, Whole, Coded, Waiting

\* The counts of the block with the byte.
LEMMA BlockCountsGrow ==
  ASSUME IInv, FixedMaximum = 0, Put, DetectorCountsBlock, ChangePointInv
  PROVE  /\ \A y \in Counted :
              Occurrences({y}, Content(2)') =
                baseline_counts_[y] + current_counts_[y]
                  + (IF y = next_byte THEN 1 ELSE 0)
         /\ \A y \in NegativeChars : baseline_counts_[y] + current_counts_[y] = 0
         /\ Occurrences(Counted, Content(2)') =
              current_step_ + (IF next_byte \in Counted THEN 1 ELSE 0)
         /\ current_counts_total_ =
              IF current_step_ >= Warmup THEN current_step_ - Warmup
              ELSE current_step_
<1>1. /\ pc = "put" /\ next_byte \in Byte /\ Content(2) \in Seq(Byte)
      /\ Content(2)' = Append(Content(2), next_byte)
  BY PutGrows
<1>2. /\ \A y \in Counted :
           baseline_counts_[y] + current_counts_[y] = Occurrences({y}, Content(2))
      /\ \A y \in NegativeChars : baseline_counts_[y] + current_counts_[y] = 0
      /\ current_step_ = Occurrences(Counted, Content(2))
      /\ current_counts_total_ =
           IF current_step_ >= Warmup THEN current_step_ - Warmup ELSE current_step_
  BY <1>1 DEF DetectorCountsBlock, ChangePointInv
<1> DEFINE grown == Append(Content(2), next_byte)
<1>3. \A bytes : Occurrences(bytes, grown) =
                   Occurrences(bytes, Content(2)) + (IF next_byte \in bytes THEN 1 ELSE 0)
  BY <1>1, OccurrencesAppend, ZenonT(60)
<1>4. Content(2)' = grown
  BY <1>1
<1> HIDE DEF grown
<1>5. /\ \A y \in Counted : Occurrences({y}, Content(2)') =
           Occurrences({y}, Content(2)) + (IF y = next_byte THEN 1 ELSE 0)
      /\ Occurrences(Counted, Content(2)') =
           Occurrences(Counted, Content(2)) + (IF next_byte \in Counted THEN 1 ELSE 0)
  <2>1. \A y : next_byte \in {y} <=> y = next_byte
    OBVIOUS
  <2>2. QED
    BY <1>3, <1>4, <2>1, ZenonT(60)
<1>6. QED
  BY <1>2, <1>5

\* The detector is reset, and knows nothing.
LEMMA ResetEffect ==
  ASSUME ResetCounts, current_step_' = 0
  PROVE  CountsTypes' /\ BaselineInv'
<1>1. CountsTypes'
  BY DEF ResetCounts, CountsTypes
<1>2. BaselineInv'
  BY WarmupAssumption DEF ResetCounts, BaselineInv
<1>3. QED
  BY <1>1, <1>2

\* A byte that is not counted, counts for nothing.
LEMMA NotCounted ==
  ASSUME IInv, DetInv, FixedMaximum = 0, Put,
         next_byte \in NegativeChars, UNCHANGED counts
  PROVE  DetInv'
<1>1. /\ pc = "put" /\ pc' = "get" /\ next_byte \notin Counted
      /\ ~is_change_point_detected' /\ current_step_' = current_step_
      /\ UNCHANGED <<baseline_counts_, baseline_probs_, current_counts_,
                     current_counts_total_>>
  BY PutGrows DEF StepDetector, Counted, counts
<1>2. CountsTypes' /\ ChangePointInv' /\ BaselineInv'
  BY <1>1 DEF DetInv, CountsTypes, ChangePointInv, BaselineInv
<1>3. current_step_ \in Nat
  BY DEF IInv, TypeOK
<1>4. /\ \A y \in Counted :
           Occurrences({y}, Content(2)') = baseline_counts_[y] + current_counts_[y]
      /\ \A y \in NegativeChars : baseline_counts_[y] + current_counts_[y] = 0
      /\ Occurrences(Counted, Content(2)') = current_step_
      /\ current_counts_total_ =
           IF current_step_ >= Warmup THEN current_step_ - Warmup ELSE current_step_
  <2>1. ASSUME NEW y \in Counted
        PROVE  Occurrences({y}, Content(2)') = baseline_counts_[y] + current_counts_[y]
    <3>1. y # next_byte /\ y \in Byte
      BY <1>1 DEF Counted
    <3>2. baseline_counts_[y] + current_counts_[y] \in Nat
      BY <3>1 DEF DetInv, CountsTypes
    <3>3. QED
      BY <3>1, <3>2, BlockCountsGrow DEF DetInv
  <2>2. QED
    BY <1>1, <1>3, <2>1, BlockCountsGrow DEF DetInv
<1>5. DetectorCountsBlock'
  BY <1>1, <1>4 DEF DetectorCountsBlock
<1>6. QED
  BY <1>2, <1>5 DEF DetInv

\* The counts with the byte: none exceeds the total with it.
LEMMA UpdatedCountsAre ==
  ASSUME CountsTypes, BaselineInv, next_byte \in Byte
  PROVE  /\ UpdatedCounts \in [Byte -> Nat]
         /\ \A y \in Byte :
              /\ UpdatedCounts[y] = current_counts_[y] + (IF y = next_byte THEN 1 ELSE 0)
              /\ UpdatedCounts[y] <= current_counts_total_ + 1
<1>1. UpdatedCounts \in [Byte -> Nat]
  BY DEF UpdatedCounts, CountsTypes
<1>2. ASSUME NEW y \in Byte
      PROVE  /\ UpdatedCounts[y] = current_counts_[y] + (IF y = next_byte THEN 1 ELSE 0)
             /\ UpdatedCounts[y] <= current_counts_total_ + 1
  <2>1. /\ current_counts_[y] \in Nat /\ current_counts_total_ \in Nat
        /\ current_counts_[y] <= current_counts_total_
    BY DEF CountsTypes, BaselineInv
  <2>2. UpdatedCounts[y] = current_counts_[y] + (IF y = next_byte THEN 1 ELSE 0)
    BY <2>1 DEF UpdatedCounts, CountsTypes
  <2>3. QED
    BY <2>1, <2>2
<1>3. QED
  BY <1>1, <1>2

\* A fraction of a count and a total that is not smaller can be taken the
\* logarithm of.
LEMMA ProbabilityDefined ==
  ASSUME NEW y \in Byte, NEW count \in Nat, NEW total \in Nat, count <= total
  PROVE  /\ Probability(count, total) \in Nat \X Nat
         /\ Probability(count, total)[1] > 0
         /\ Probability(count, total)[1] <= Probability(count, total)[2]
<1>1. N \in Nat \ {0}
  BY AlphabetSize
<1>2. CASE count > 0
  BY <1>2 DEF Probability
<1>3. CASE ~(count > 0)
  BY <1>1, <1>3 DEF Probability
<1>4. QED
  BY <1>2, <1>3

\* A byte that is counted: a change point resets the detector, the last byte of
\* the warm-up moves the counts to the baseline, any other is added to them.
LEMMA CountedStep ==
  ASSUME IInv, DetInv, FixedMaximum = 0, Put,
         next_byte \notin NegativeChars, StepCounts
  PROVE  DetInv'
<1>1. /\ pc = "put" /\ pc' = "get" /\ next_byte \in Byte /\ next_byte \in Counted
      /\ \/ /\ current_step_' = current_step_ + 1
            /\ is_change_point_detected' = FALSE
         \/ current_step_' = 0 /\ is_change_point_detected' = TRUE
  BY PutGrows DEF StepDetector, Counted
<1>2. /\ CountsTypes /\ BaselineInv /\ ChangePointInv /\ DetectorCountsBlock
      /\ current_step_ \in Nat /\ Warmup \in Nat \ {0}
  BY WarmupAssumption DEF DetInv, IInv, TypeOK
<1>3. /\ \A y \in Counted :
           Occurrences({y}, Content(2)') =
             baseline_counts_[y] + current_counts_[y]
               + (IF y = next_byte THEN 1 ELSE 0)
      /\ \A y \in NegativeChars : baseline_counts_[y] + current_counts_[y] = 0
      /\ Occurrences(Counted, Content(2)') = current_step_ + 1
      /\ current_counts_total_ =
           IF current_step_ >= Warmup THEN current_step_ - Warmup ELSE current_step_
  BY <1>1, <1>2, BlockCountsGrow
<1>4. /\ UpdatedCounts \in [Byte -> Nat]
      /\ \A y \in Byte :
           /\ UpdatedCounts[y] = current_counts_[y] + (IF y = next_byte THEN 1 ELSE 0)
           /\ UpdatedCounts[y] <= current_counts_total_ + 1
  BY <1>1, <1>2, UpdatedCountsAre
<1>5. Counted \subseteq Byte /\ NegativeChars \subseteq Byte
  BY FileAssumption DEF Counted
<1>6. CASE is_change_point_detected'
  <2>1. ResetCounts /\ current_step_' = 0
    BY <1>1, <1>6 DEF StepCounts
  <2>2. CountsTypes' /\ BaselineInv'
    BY <2>1, ResetEffect
  <2>3. ChangePointInv' /\ DetectorCountsBlock'
    BY <1>1, <1>6, <2>1 DEF ChangePointInv, DetectorCountsBlock
  <2>4. QED
    BY <2>2, <2>3 DEF DetInv
<1>7. CASE ~is_change_point_detected' /\ current_step_ + 1 = Warmup
  <2>1. /\ baseline_counts_' = UpdatedCounts
        /\ baseline_probs_' = [y \in Byte |->
             Probability(UpdatedCounts[y], current_counts_total_ + 1)]
        /\ current_counts_' = baseline_counts_
        /\ current_counts_total_' = 0
        /\ current_step_' = Warmup
    BY <1>1, <1>7 DEF StepCounts, InitParams
  <2>2. \A y \in Byte : baseline_counts_[y] = 0
    BY <1>2, <1>7 DEF BaselineInv
  <2>3. current_counts_total_ + 1 \in Nat
    BY <1>2 DEF CountsTypes
  <2>4. \A y \in Byte :
          /\ baseline_probs_'[y] \in Nat \X Nat
          /\ baseline_probs_'[y][1] > 0
          /\ baseline_probs_'[y][1] <= baseline_probs_'[y][2]
    <3>1. TAKE y \in Byte
    <3>2. baseline_probs_'[y] =
            Probability(UpdatedCounts[y], current_counts_total_ + 1)
      BY <2>1
    <3>3. UpdatedCounts[y] \in Nat /\ UpdatedCounts[y] <= current_counts_total_ + 1
      BY <1>4
    <3>4. QED
      BY <2>3, <3>1, <3>2, <3>3, ProbabilityDefined, Zenon
  <2>5. CountsTypes'
    <3>1. baseline_probs_' \in [Byte -> Nat \X Nat]
      BY <2>1, <2>4
    <3>2. QED
      BY <1>2, <1>4, <2>1, <3>1 DEF CountsTypes
  <2>6. BaselineInv'
    BY <1>2, <2>1, <2>2, <2>4 DEF BaselineInv
  <2>7. ChangePointInv'
    BY <1>1, <1>7 DEF ChangePointInv
  <2>8. DetectorCountsBlock'
    <3>1. ASSUME NEW y \in Counted
          PROVE  baseline_counts_'[y] + current_counts_'[y] =
                   Occurrences({y}, Content(2)')
      <4>1. /\ y \in Byte /\ current_counts_[y] \in Nat
            /\ baseline_counts_[y] = 0
        BY <1>2, <1>5, <2>2 DEF CountsTypes
      <4>2. QED
        BY <1>3, <1>4, <2>1, <4>1
    <3>2. current_step_' = Occurrences(Counted, Content(2)')
      BY <1>3, <1>7, <2>1
    <3>3. ASSUME NEW y \in NegativeChars
          PROVE  baseline_counts_'[y] + current_counts_'[y] = 0
      <4>1. /\ y \in Byte /\ y # next_byte /\ current_counts_[y] \in Nat
            /\ baseline_counts_[y] = 0
        BY <1>2, <1>5, <2>2 DEF CountsTypes
      <4>2. QED
        BY <1>3, <1>4, <2>1, <4>1
    <3>4. QED
      BY <1>2, <2>1, <3>1, <3>2, <3>3 DEF DetectorCountsBlock
  <2>9. QED
    BY <2>5, <2>6, <2>7, <2>8 DEF DetInv
<1>8. CASE ~is_change_point_detected' /\ current_step_ + 1 # Warmup
  <2>1. /\ current_counts_' = UpdatedCounts
        /\ current_counts_total_' = current_counts_total_ + 1
        /\ baseline_counts_' = baseline_counts_
        /\ baseline_probs_' = baseline_probs_
        /\ current_step_' = current_step_ + 1
    BY <1>1, <1>8 DEF StepCounts, UpdateCounters
  <2>2. CountsTypes'
    BY <1>2, <1>4, <2>1 DEF CountsTypes
  <2>3. BaselineInv'
    BY <1>2, <1>4, <1>8, <2>1 DEF BaselineInv
  <2>4. ChangePointInv'
    BY <1>1, <1>8 DEF ChangePointInv
  <2>5. DetectorCountsBlock'
    <3>1. ASSUME NEW y \in Counted
          PROVE  baseline_counts_'[y] + current_counts_'[y] =
                   Occurrences({y}, Content(2)')
      <4>1. /\ y \in Byte /\ current_counts_[y] \in Nat
            /\ baseline_counts_[y] \in Nat
        BY <1>2, <1>5 DEF CountsTypes
      <4>2. QED
        BY <1>3, <1>4, <2>1, <4>1
    <3>2. current_step_' = Occurrences(Counted, Content(2)')
      BY <1>3, <2>1
    <3>3. current_counts_total_' =
            IF current_step_' >= Warmup THEN current_step_' - Warmup
            ELSE current_step_'
      BY <1>2, <1>3, <1>8, <2>1
    <3>4. ASSUME NEW y \in NegativeChars
          PROVE  baseline_counts_'[y] + current_counts_'[y] = 0
      <4>1. /\ y \in Byte /\ y # next_byte /\ current_counts_[y] \in Nat
            /\ baseline_counts_[y] \in Nat
        BY <1>2, <1>5 DEF CountsTypes
      <4>2. QED
        BY <1>3, <1>4, <2>1, <4>1
    <3>5. QED
      BY <3>1, <3>2, <3>3, <3>4 DEF DetectorCountsBlock
  <2>6. QED
    BY <2>2, <2>3, <2>4, <2>5 DEF DetInv
<1>9. QED
  BY <1>6, <1>7, <1>8

(***************************************************************************)
(* The other steps.                                                        *)
(***************************************************************************)
\* The block is committed and the detector reset.
LEMMA DetectorCommitStep ==
  ASSUME IInv, DetInv, FixedMaximum = 0, DetectorCommit
  PROVE  DetInv'
<1>1. /\ block' = [u \in Stream |-> <<>>]
      /\ look_ahead' = [u \in LzssStream |-> <<>>]
      /\ current_step_' = 0 /\ is_change_point_detected' = FALSE /\ pc' = "put"
  BY CommitEffect DEF DetectorCommit
<1>2. ResetCounts
  BY <1>1 DEF DetectorCommit
<1>3. CountsTypes' /\ BaselineInv'
  BY <1>1, <1>2, ResetEffect
<1>4. ChangePointInv'
  BY <1>1 DEF ChangePointInv
<1>5. Content(2)' = <<>>
  BY <1>1, Streams, EmptyBytes DEF Content
<1>6. DetectorCountsBlock'
  <2>1. ASSUME NEW y \in Counted
        PROVE  baseline_counts_'[y] + current_counts_'[y] =
                 Occurrences({y}, Content(2)')
    <3>1. baseline_counts_'[y] = 0 /\ current_counts_'[y] = 0
      BY <1>2 DEF ResetCounts, Counted
    <3>2. Occurrences({y}, Content(2)') = 0
      BY <1>5, OccurrencesEmpty
    <3>3. QED
      BY <3>1, <3>2
  <2>2. current_step_' = Occurrences(Counted, Content(2)')
    BY <1>1, <1>5, OccurrencesEmpty
  <2>3. current_counts_total_' = 0
    BY <1>2 DEF ResetCounts
  <2>4. ASSUME NEW y \in NegativeChars
        PROVE  baseline_counts_'[y] + current_counts_'[y] = 0
    BY <1>2, FileAssumption DEF ResetCounts
  <2>5. QED
    BY <1>1, <2>1, <2>2, <2>3, <2>4, WarmupAssumption DEF DetectorCountsBlock
<1>7. QED
  BY <1>3, <1>4, <1>6 DEF DetInv

\* Reading, the last block and the footer leave the detector alone.
LEMMA OthersStep ==
  ASSUME IInv, DetInv, FixedMaximum = 0, Others
  PROVE  DetInv'
<1>1. /\ UNCHANGED <<baseline_counts_, baseline_probs_, current_counts_,
                     current_counts_total_>>
      /\ UNCHANGED <<current_step_, is_change_point_detected>>
  BY CommitLastEffect
     DEF Others, counts, detector, GetFirst, GetFirstFails, Get, GetFails, PushFooter
<1>2. CountsTypes' /\ BaselineInv'
  BY <1>1 DEF DetInv, CountsTypes, BaselineInv
<1>3. ChangePointInv'
  BY <1>1, CommitLastEffect
     DEF DetInv, ChangePointInv, Others, GetFirst, GetFirstFails, Get, GetFails,
         PushFooter
<1>4. DetectorCountsBlock'
  <2>1. CASE GetFirst \/ Get \/ GetFails
    <3>1. /\ pc \in {"start", "get"}
          /\ UNCHANGED <<block, look_ahead>>
      BY <2>1 DEF GetFirst, Get, GetFails, streams
    <3>2. Content(2)' = Content(2)
      BY <3>1 DEF Content
    <3>3. QED
      BY <1>1, <3>1, <3>2 DEF DetInv, DetectorCountsBlock
  <2>2. CASE GetFirstFails \/ CommitLast \/ PushFooter
    <3>1. pc' \in {"footer", "done"}
      BY <2>2, CommitLastEffect DEF GetFirstFails, PushFooter
    <3>2. QED
      BY <3>1 DEF DetectorCountsBlock
  <2>3. QED
    BY <2>1, <2>2 DEF Others
<1>5. QED
  BY <1>2, <1>3, <1>4 DEF DetInv

\* With the detector, the main loop makes no step it could not make without.
LEMMA DetectorSteps ==
  ASSUME [DetectorNext]_allVars
  PROVE  [Next]_vars
BY DEF DetectorNext, DetectorPut, DetectorCommit, Others, allVars, Next

LEMMA NextDetInv ==
  ASSUME IInv, DetInv, FixedMaximum = 0, [DetectorNext]_allVars
  PROVE  IInv' /\ DetInv'
<1>1. IInv'
  BY DetectorSteps, NextIInv
<1>2. CASE DetectorPut
  <2>1. Put
    BY <1>2 DEF DetectorPut
  <2>2. pc' = "get"
    BY <2>1, PutGrows
  <2>3. CASE next_byte \in NegativeChars
    <3>1. UNCHANGED counts
      BY <1>2, <2>3 DEF DetectorPut
    <3>2. DetInv'
      BY <2>1, <2>3, <3>1, NotCounted
    <3>3. QED
      BY <1>1, <3>2
  <2>4. CASE next_byte \notin NegativeChars
    <3>1. StepCounts
      BY <1>2, <2>2, <2>4 DEF DetectorPut
    <3>2. DetInv'
      BY <2>1, <2>4, <3>1, CountedStep
    <3>3. QED
      BY <1>1, <3>2
  <2>5. QED
    BY <2>3, <2>4
<1>3. CASE DetectorCommit
  BY <1>1, <1>3, DetectorCommitStep
<1>4. CASE Others
  BY <1>1, <1>4, OthersStep
<1>5. CASE UNCHANGED allVars
  <2>1. UNCHANGED vars /\ UNCHANGED counts
    BY <1>5 DEF allVars
  <2>2. /\ UNCHANGED <<pc, current_step_, is_change_point_detected, block, look_ahead>>
        /\ UNCHANGED <<baseline_counts_, baseline_probs_, current_counts_,
                       current_counts_total_>>
    BY <2>1 DEF vars, detector, streams, counts
  <2>3. Content(2)' = Content(2)
    BY <2>2 DEF Content
  <2>4. CountsTypes' /\ ChangePointInv' /\ BaselineInv'
    BY <2>2 DEF DetInv, CountsTypes, ChangePointInv, BaselineInv
  <2>5. DetectorCountsBlock'
    BY <2>2, <2>3 DEF DetInv, DetectorCountsBlock
  <2>6. QED
    BY <1>1, <2>4, <2>5 DEF DetInv
<1>6. QED
  BY <1>1, <1>2, <1>3, <1>4, <1>5 DEF DetectorNext

-----------------------------------------------------------------------------
(***************************************************************************)
(* The theorems.                                                           *)
(***************************************************************************)
\* The inductive invariants of the main loop and of the detector.
THEOREM DetectorInvariance ==
  ASSUME FixedMaximum = 0
  PROVE  DetectorSpec => [](IInv /\ DetInv)
<1>1. DetectorInit => IInv /\ DetInv
  BY InitDetInv
<1>2. (IInv /\ DetInv) /\ [DetectorNext]_allVars => (IInv /\ DetInv)'
  BY NextDetInv
<1>3. QED
  BY <1>1, <1>2, PTL DEF DetectorSpec

\* Of the bytes that step() counts, those whose char is not negative, the
\* detector counts each one of the current block once and none of an earlier one;
\* a byte from 0x80 on, where char is signed, is in no count.
THEOREM CountsOfCurrentBlock ==
  ASSUME FixedMaximum = 0
  PROVE  DetectorSpec => []DetectorCountsBlock
<1>1. IInv /\ DetInv => DetectorCountsBlock
  BY DEF DetInv
<1>2. QED
  BY <1>1, DetectorInvariance, PTL

\* Neither logarithm of update_cusum() is of 0, or of a division by 0.
THEOREM LogarithmsDefined ==
  ASSUME FixedMaximum = 0
  PROVE  DetectorSpec => []LogsDefined
<1>1. ASSUME IInv, DetInv
      PROVE  LogsDefined
  <2>1. SUFFICES ASSUME current_step_ >= Warmup, NEW y \in Byte
                 PROVE  /\ Probability(current_counts_[y], current_counts_total_)[1] > 0
                        /\ Probability(current_counts_[y], current_counts_total_)[1]
                             <= Probability(current_counts_[y], current_counts_total_)[2]
                        /\ baseline_probs_[y][1] > 0
                        /\ baseline_probs_[y][1] <= baseline_probs_[y][2]
    BY DEF LogsDefined
  <2>2. /\ current_counts_[y] \in Nat /\ current_counts_total_ \in Nat
        /\ current_counts_[y] <= current_counts_total_
        /\ baseline_probs_[y][1] > 0
        /\ baseline_probs_[y][1] <= baseline_probs_[y][2]
    BY <1>1, <2>1 DEF DetInv, CountsTypes, BaselineInv
  <2>3. QED
    BY <2>2, ProbabilityDefined
<1>2. QED
  BY <1>1, DetectorInvariance, PTL

\* With the detector, no exception leaves main and every file is reproduced
\* that RoundTrip promises to reproduce.
THEOREM LosslessWithDetector ==
  ASSUME FixedMaximum = 0
  PROVE  DetectorSpec => [](TypeOK /\ NeverThrows /\ RoundTrip /\ WindowFollowsOutput)
<1>1. IInv => TypeOK /\ NeverThrows /\ RoundTrip /\ WindowFollowsOutput
  BY DEF IInv, EndingInv, AtEdge, RoundTrip, StreamsInv, Looping,
         WindowFollowsOutput, Window, Coded
<1>2. QED
  BY <1>1, DetectorInvariance, PTL

\* With the detector no block but the last is shorter than its warm-up, and the
\* program still implements the filter.
THEOREM BlocksAndFilterWithDetector ==
  ASSUME FixedMaximum = 0
  PROVE  DetectorSpec => MinimumBlockSize /\ Published!Spec
<1>1. Init => Published!Init
  BY DEF Init, Published!Init
<1>2. DetectorInit => Init
  BY DEF DetectorInit
<1>3. [DetectorNext]_allVars => [Next]_vars
  BY DetectorSteps
<1>4. IInv /\ [Next]_vars => [Published!Next]_Published!vars
  BY NextRefines
<1>5. IInv /\ [Next]_vars =>
        [pc = "commit" => Len(decoded') - Len(decoded) >= Warmup]_vars
  <2>1. SUFFICES ASSUME IInv, Next, pc = "commit"
                 PROVE  Len(decoded') - Len(decoded) >= Warmup
    OBVIOUS
  <2>2. Commit
    BY <2>1 DEF Next, GetFirst, GetFirstFails, Get, GetFails, Put, CommitLast,
                PushFooter
  <2>3. QED
    BY <2>1, <2>2, CommitAddsBlock
<1>6. QED
  BY <1>1, <1>2, <1>3, <1>4, <1>5, DetectorInvariance, PTL
     DEF DetectorSpec, Published!Spec, MinimumBlockSize
=============================================================================
