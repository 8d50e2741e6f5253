----------------------------- MODULE StoredBlock -----------------------------
(***************************************************************************)
(* include/block_type_0.hpp: a block stored as it is, committed to the     *)
(* shared bit stream (BitStream), while the stream of another block type   *)
(* holds back its own version of the block.  Every step is a step of the   *)
(* bit streams; this module says which of their calls a commit makes.      *)
(***************************************************************************)
EXTENDS BitStream, Functions

CONSTANTS
  Block,       \* the blocks that put() may have collected
  LengthBits,  \* 16, the bits of a block's length
  MaxOther     \* bound: nothing else is pushed to longer streams than this

ASSUME StoredBlockAssumption ==
  /\ LengthBits \in Nat /\ LengthBits % ByteSize = 0
  /\ \A block \in Block : block \in Seq(Byte) /\ Len(block) < 2 ^ LengthBits

VARIABLES
  calls,     \* commit(): what it still has to call on out_
  committed  \* the last commit, while nothing else is written behind it: where
             \* it began and what it was given

NotCommitted == [at |-> -1, block |-> <<>>, is_last |-> FALSE]

-----------------------------------------------------------------------------
\* push() and push_bits() of a number, lowest bit first.
PushBits(number, num_bits) ==
  [i \in 1 .. num_bits |-> <<"push_bit", (number \div 2 ^ (i - 1)) % 2>>]

\* push() of each byte.
PushBytes(bytes) ==
  [i \in 1 .. Len(bytes) * ByteSize |->
     <<"push_bit", IF (i - 1) % ByteSize \in bytes[(i - 1) \div ByteSize + 1]
                   THEN 1 ELSE 0>>]

\* Mutant of CallsOfCommit: the length is complemented in one byte only.
CallsOfCommitShortComplement(block, is_last) ==
  PushBits(IF is_last THEN 1 ELSE 0, 1) \o PushBits(0, 2)
    \o << <<"flush_byte">> >>
    \o PushBits(Len(block), LengthBits)
    \o PushBits(2 ^ ByteSize - 1 - Len(block), ByteSize)
    \o PushBytes(block)

\* commit(): last flag, block type 0, padding, length, complement, literals.
CallsOfCommit(block, is_last) ==
  PushBits(IF is_last THEN 1 ELSE 0, 1) \o PushBits(0, 2)
    \o << <<"flush_byte">> >>
    \o PushBits(Len(block), LengthBits)
    \o PushBits(2 ^ LengthBits - 1 - Len(block), LengthBits)
    \o PushBytes(block)

\* Mutant of StoredBits: the literals are counted as one bit each.
StoredBitsOfBytes(block) == ByteSize + 2 * LengthBits + Len(block)

\* bits()
StoredBits(block) == ByteSize + 2 * LengthBits + Len(block) * ByteSize

-----------------------------------------------------------------------------
StoredInit == Init /\ calls = <<>> /\ committed = NotCommitted

Commit ==
  /\ Idle /\ calls = <<>>
  /\ NumBits(stream) + NumBits(buffered) <= MaxOther
  /\ \E block \in Block, is_last \in BOOLEAN :
       /\ calls' = CallsOfCommit(block, is_last)
       /\ committed' = [at |-> NumBits(stream), block |-> block, is_last |-> is_last]
  /\ UNCHANGED vars

CommitPushBit ==
  /\ calls # <<>> /\ Head(calls)[1] = "push_bit"
  /\ PushBit /\ stream' = PushedBit(stream, Head(calls)[2])
  /\ calls' = Tail(calls)
  /\ UNCHANGED committed

CommitFlushByte ==
  /\ calls # <<>> /\ Head(calls)[1] = "flush_byte"
  /\ FlushByte
  /\ calls' = Tail(calls)
  /\ UNCHANGED committed

\* Everything else that is written, when no stored block is.
Other ==
  /\ calls = <<>>
  /\ \/ NumBits(stream) < MaxOther /\ PushBit
     \/ NumBits(stream) <= MaxOther /\ FlushByte
     \/ /\ NumBits(stream) <= MaxOther /\ NumBits(buffered) < MaxOther
        /\ PushBufferedBit
     \/ NumBits(stream) <= MaxOther /\ FlushBufferedByte
     \/ /\ position = 0 => NumBits(stream) + NumBits(buffered) <= MaxOther
        /\ CommitBit
     \/ Reset
     \/ Destroy
  /\ committed' = NotCommitted
  /\ UNCHANGED calls

StoredNext == Commit \/ CommitPushBit \/ CommitFlushByte \/ Other

StoredSpec == StoredInit /\ [][StoredNext]_<<vars, calls, committed>>

-----------------------------------------------------------------------------
Number(bits) == SumFunction([i \in DOMAIN bits |-> bits[i] * 2 ^ (i - 1)])

\* A decoder that comes to the block where its commit began, at any place in a
\* byte and behind any bits, finds the last flag and type 0, goes to the next
\* byte boundary, finds the length and its complement, reads so many bytes and
\* has then read all there is.
StoredBlockReads ==
  committed # NotCommitted /\ calls = <<>> =>
    LET bits == BitsOf(stream)
        header == committed.at
        length == header + 3 + ((-(header + 3)) % ByteSize)
        Field(at) == Number(SubSeq(bits, at + 1, at + LengthBits))
        data == length + 2 * LengthBits
        Literal(k) ==
          {p \in Place : bits[data + (k - 1) * ByteSize + p + 1] = 1}
    IN /\ Len(bits) >= data
       /\ bits[header + 1] = IF committed.is_last THEN 1 ELSE 0
       /\ bits[header + 2] = 0 /\ bits[header + 3] = 0
       /\ Field(length) + Field(length + LengthBits) = 2 ^ LengthBits - 1
       /\ Len(bits) = data + Field(length) * ByteSize
       /\ [k \in 1 .. Field(length) |-> Literal(k)] = committed.block

\* What bits() answers when the block types are compared is the size of the
\* stored block but for its padding, which bits() cannot know: at most two bits
\* too few, at most a byte less three bits too many.
StoredSizeClose ==
  committed # NotCommitted /\ calls = <<>> =>
    NumBits(stream) - committed.at - StoredBits(committed.block)
      \in 3 - ByteSize .. 2
=============================================================================
