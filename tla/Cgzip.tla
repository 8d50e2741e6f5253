------------------------------- MODULE Cgzip -------------------------------
(***************************************************************************)
(* app/main.cpp: one byte at a time, every block stream that has room gets *)
(* the byte, the change point detector is stepped, and the next byte is    *)
(* read before deciding whether the block ends.  When it does, the         *)
(* smallest of the candidate blocks is written and all of them are reset.  *)
(*                                                                         *)
(* The three block streams are modelled by what include/block_type_*.hpp   *)
(* do to the bytes they hold: which bytes are in the block, which still    *)
(* wait in the LZSS look-ahead, and which history the LZSS window          *)
(* remembers.  How a block is coded (LZSS matches, prefix codes) shows     *)
(* only in its number of bits, which is chosen freely from a small set.    *)
(* The decoder, gzip -d, is outside the repository: it is modelled by what *)
(* RFC 1951 and RFC 1952 make of the output.                               *)
(***************************************************************************)
EXTENDS Integers, Sequences

CONSTANTS
  Byte,            \* the bytes of a file
  NegativeChars,   \* those whose char is negative: 0x80 .. 0xff
  MaxFile,         \* bound: no file has more bytes than this
  FileModulus,     \* 2^32, the range of num_uncompressed_bytes_in_file
  StoredMaximum,   \* block_type_0::maximum_capacity, 2^16 - 1
  FixedMaximum,    \* the breakpoint of block type 1, 0 in the code
  DynamicMaximum,  \* the breakpoint of block type 2, 2^30
  Warmup,          \* warmup of the change point detector, 2^13
  LookBackSize,    \* capacity of the LZSS window, 2^15
  LookAheadSize,   \* capacity of the LZSS look-ahead, 258
  FixedBits,       \* the sizes a block of type 1 that is not empty may have
  DynamicBits      \* the sizes a block of type 2 may have

ASSUME FileAssumption ==
  /\ NegativeChars \subseteq Byte
  /\ MaxFile \in Nat
  /\ FileModulus \in Nat \ {0}

ASSUME BreakpointAssumption ==
  /\ StoredMaximum \in Nat \ {0}
  /\ FixedMaximum \in Nat
  /\ DynamicMaximum \in Nat
  /\ StoredMaximum <= DynamicMaximum
  /\ FixedMaximum <= DynamicMaximum

\* A block that the size limit ends outlasts the warm-up of the detector.
ASSUME WarmupAssumption ==
  /\ Warmup \in Nat \ {0}
  /\ Warmup < DynamicMaximum

ASSUME CodingAssumption ==
  /\ LookBackSize \in Nat \ {0}
  /\ LookAheadSize \in Nat \ {0}
  /\ FixedBits \subseteq Nat
  /\ DynamicBits \subseteq Nat /\ DynamicBits # {}

Stream == 0 .. 2
LzssStream == 1 .. 2

MaximumBytes ==
  [t \in Stream |-> CASE t = 0 -> StoredMaximum
                      [] t = 1 -> FixedMaximum
                      [] t = 2 -> DynamicMaximum]

\* smallest_compressed_block_type before any stream was found eligible
NoStream == 255

VARIABLES
  pc,           \* where main is: the call it makes next
  next_byte,    \* the byte read last
  num_uncompressed_bytes_in_file,
  num_uncompressed_bytes_in_block,
  crc,          \* the bytes the checksum was calculated on, in order
  block,        \* block[t]: the bytes in the current block of stream t
  look_ahead,   \* look_ahead[t]: bytes put in stream t and not yet coded
  seen,         \* seen[t]: every byte the LZSS window of t has taken in
  buffered,     \* <<>>, or the finished block in block type 2's buffered_out_
  current_step_,             \* of the detector
  is_change_point_detected,  \* what its last step returned
  chosen,       \* the type of the block committed last
  aligned,      \* the output ends at a byte boundary
  read,         \* every byte read from standard input
  decoded,      \* the bytes the decoder makes of the output so far
  decoder       \* what the decoder expects, or its verdict

counters == <<num_uncompressed_bytes_in_file, num_uncompressed_bytes_in_block>>
streams == <<block, look_ahead, seen, buffered>>
detector == <<current_step_, is_change_point_detected>>
output == <<chosen, aligned, decoded, decoder>>
vars == <<pc, next_byte, counters, crc, streams, detector, output, read>>

-----------------------------------------------------------------------------
(***************************************************************************)
(* The decoder: it takes blocks up to the first with its last flag set,    *)
(* then compares the footer with what it decoded.                          *)
(***************************************************************************)
LastN(s, n) == IF Len(s) <= n THEN s ELSE SubSeq(s, Len(s) - n + 1, Len(s))

\* A block whose encoder remembers history decodes to what was encoded only
\* if the encoder's window is a recent part of what the decoder produced.
WindowAgrees(history) ==
  \E n \in 0 .. LookBackSize : LastN(history, LookBackSize) = LastN(decoded, n)

\* The decoder is given a block: the bytes it stands for, the history its
\* back references point into, and its last flag.
Decode(b) ==
  IF decoder = "open" /\ WindowAgrees(b.history)
  THEN /\ decoded' = decoded \o b.bytes
       /\ decoder' = IF b.is_last THEN "ended" ELSE "open"
  ELSE /\ decoder' = "rejects"
       /\ UNCHANGED decoded

DecodeFooter ==
  /\ decoder' = IF /\ decoder = "ended"
                   /\ aligned
                   /\ crc = decoded
                   /\ num_uncompressed_bytes_in_file = Len(decoded) % FileModulus
                THEN "accepts"
                ELSE "rejects"
  /\ UNCHANGED decoded

-----------------------------------------------------------------------------
Init ==
  /\ pc = "start"
  /\ next_byte \in Byte  \* '\0' in the code, and never looked at
  /\ num_uncompressed_bytes_in_file = 0
  /\ num_uncompressed_bytes_in_block = 0
  /\ crc = <<>>
  /\ block = [t \in Stream |-> <<>>]
  /\ look_ahead = [t \in LzssStream |-> <<>>]
  /\ seen = [t \in LzssStream |-> <<>>]
  /\ buffered = <<>>
  /\ current_step_ = 0
  /\ is_change_point_detected = FALSE
  /\ chosen = NoStream
  /\ aligned = TRUE
  /\ read = <<>>
  /\ decoded = <<>>
  /\ decoder = "open"

(***************************************************************************)
(* Reading: std::cin.get and the bookkeeping that follows a byte.          *)
(***************************************************************************)
Account(byte) ==
  /\ Len(read) < MaxFile
  /\ next_byte' = byte
  /\ read' = Append(read, byte)
  /\ crc' = Append(crc, byte)
  /\ num_uncompressed_bytes_in_file' =
       (num_uncompressed_bytes_in_file + 1) % FileModulus
  /\ num_uncompressed_bytes_in_block' = num_uncompressed_bytes_in_block + 1

GetFirst ==
  /\ pc = "start"
  /\ \E byte \in Byte : Account(byte)
  /\ pc' = "put"
  /\ UNCHANGED <<streams, detector, output>>

\* An empty file: neither a block nor the padding to a byte boundary.
GetFirstFails ==
  /\ pc = "start"
  /\ pc' = "footer"
  /\ UNCHANGED <<next_byte, counters, crc, streams, detector, output, read>>

MaximumOfMaximumBytes ==
  CHOOSE m \in {MaximumBytes[t] : t \in Stream} :
    \A t \in Stream : MaximumBytes[t] <= m

\* Mutant of Get: the size limit is compared as if the byte read last, which
\* is not in the block, were not counted yet.
GetPastMaximum ==
  /\ pc = "get"
  /\ \E byte \in Byte : Account(byte)
  /\ pc' = IF \/ is_change_point_detected
              \/ num_uncompressed_bytes_in_block >= MaximumOfMaximumBytes
           THEN "commit" ELSE "put"
  /\ UNCHANGED <<streams, detector, output>>

Get ==
  /\ pc = "get"
  /\ \E byte \in Byte : Account(byte)
  /\ pc' = IF \/ is_change_point_detected
              \/ num_uncompressed_bytes_in_block + 1 >= MaximumOfMaximumBytes
           THEN "commit" ELSE "put"
  /\ UNCHANGED <<streams, detector, output>>

\* End of file, which a read error is taken for.
GetFails ==
  /\ pc = "get"
  /\ pc' = "last"
  /\ UNCHANGED <<next_byte, counters, crc, streams, detector, output, read>>

(***************************************************************************)
(* Filling the block.                                                      *)
(***************************************************************************)
\* Mutant of Takes: the first of the two comparisons with the breakpoint is
\* written like the second.
TakesUpToMaximum(t) == num_uncompressed_bytes_in_block <= MaximumBytes[t]

\* Is stream t given the byte read last?
Takes(t) == num_uncompressed_bytes_in_block < MaximumBytes[t]

\* Bytes that put() makes stream t code: none until the look-ahead is full,
\* then a literal or the longest match, so any number of them.
StepLengths(t) ==
  IF Takes(t) /\ Len(look_ahead[t]) + 1 >= LookAheadSize
  THEN 1 .. LookAheadSize ELSE {0}

\* The queue of t once the byte is put, before anything is coded.
Filled(t) ==
  IF Takes(t) THEN Append(look_ahead[t], next_byte) ELSE look_ahead[t]

\* put() of every stream that has room, in turn; step[t] bytes leave the
\* look-ahead of t for its block and its window.
PutInStreams(step) ==
  LET out(t) == SubSeq(Filled(t), 1, step[t]) IN
  /\ block' = [t \in Stream |->
                 IF t \in LzssStream THEN block[t] \o out(t)
                 ELSE IF Takes(t) THEN Append(block[t], next_byte)
                 ELSE block[t]]
  /\ seen' = [t \in LzssStream |-> seen[t] \o out(t)]
  /\ look_ahead' = [t \in LzssStream |->
                      SubSeq(Filled(t), step[t] + 1, Len(Filled(t)))]
  /\ UNCHANGED buffered

\* CusumDistributionDetector::step.  A negative char is not counted; a change
\* point, possible once the baseline is known, starts the detector afresh.
StepDetector ==
  IF next_byte \in NegativeChars
  THEN /\ is_change_point_detected' = FALSE
       /\ UNCHANGED current_step_
  ELSE \/ /\ current_step_' = current_step_ + 1
          /\ is_change_point_detected' = FALSE
       \/ /\ current_step_ + 1 >= Warmup
          /\ current_step_' = 0
          /\ is_change_point_detected' = TRUE

\* An exception leaves main: nothing more is written, not even the footer.
Throw ==
  /\ pc' = "thrown"
  /\ UNCHANGED <<next_byte, counters, crc, streams, detector, output, read>>

\* A block of type 0 is extended past its capacity: std::logic_error.
Overflows == Takes(0) /\ Len(block[0]) = StoredMaximum

Put ==
  /\ pc = "put"
  /\ IF Overflows THEN Throw
     ELSE /\ \E step_1 \in StepLengths(1), step_2 \in StepLengths(2) :
               PutInStreams(<<step_1, step_2>>)
          /\ StepDetector
          /\ pc' = "get"
          /\ UNCHANGED <<next_byte, counters, crc, output, read>>

(***************************************************************************)
(* Ending the block: commit_smallest.                                      *)
(***************************************************************************)
\* Mutant of Eligible: the breakpoint is not looked at again.
AlwaysEligible(t) == t # 1

Eligible(t) == num_uncompressed_bytes_in_block <= MaximumBytes[t]

\* What bits() of each stream may answer.  Type 1 does not count the bytes
\* still in its look-ahead, so with an empty block it answers 3 + 7 bits.
BitsOf(t) ==
  CASE t = 0 -> {40 + 8 * Len(block[0])}
    [] t = 1 -> IF block[1] = <<>> THEN {10} ELSE FixedBits
    [] t = 2 -> DynamicBits

\* Stream t is the first of those with the smallest answer.
MayBeSmallest(t) ==
  /\ Eligible(t)
  /\ \E bits_0 \in BitsOf(0), bits_1 \in BitsOf(1), bits_2 \in BitsOf(2) :
       LET bits == [u \in Stream |-> CASE u = 0 -> bits_0
                                       [] u = 1 -> bits_1
                                       [] u = 2 -> bits_2]
       IN \A u \in Stream : Eligible(u) =>
            IF u < t THEN bits[t] < bits[u] ELSE bits[t] <= bits[u]

\* The whole content of stream t, and the history before it.
Content(t) == block[t] \o look_ahead[t]
HistoryOf(t) == SubSeq(seen[t], 1, Len(seen[t]) - Len(block[t]))

\* What buffer() of block type 2 leaves in buffered_out_: the first call codes
\* the block, a later one changes nothing.
Buffered(is_last) ==
  IF buffered # <<>> THEN buffered
  ELSE <<[is_last |-> is_last, history |-> HistoryOf(2), bytes |-> Content(2)]>>

\* buffer() is called again for the same block with the other last flag.
Rebuffers(is_last) == buffered # <<>> /\ buffered[1].is_last # is_last

\* The block stream t writes when it is committed.
Committed(t, is_last) ==
  CASE t = 0 -> [is_last |-> is_last, history |-> <<>>, bytes |-> block[0]]
    [] t = 1 -> [is_last |-> is_last, history |-> HistoryOf(1),
                 bytes |-> Content(1)]
    [] t = 2 -> Buffered(is_last)[1]

\* Mutant of Drains: only the stream that is written codes its look-ahead.
DrainsChosenOnly(t, u) == u = t

\* Does committing the smallest block, of type t, empty the look-ahead of u?
\* Asking block type 2 for its bits does, whether or not it is written.
Drains(t, u) == u = t \/ (u = 2 /\ Eligible(2))

\* commit_smallest writes the block of stream t.
WriteBlock(t, is_last) ==
  /\ MayBeSmallest(t)
  /\ Decode(Committed(t, is_last))
  /\ chosen' = t

\* Mutant of ResetStreams: block type 2 keeps its finished block.
ResetStreamsKeepsBuffer(t) ==
  /\ block' = [u \in Stream |-> <<>>]
  /\ seen' = [u \in LzssStream |-> seen[u] \o look_ahead[u]]
  /\ look_ahead' = [u \in LzssStream |-> <<>>]
  /\ buffered' = Buffered(FALSE)

\* reset() of every stream once the block of type t is written.  Block type 1
\* first runs what it still holds through its window; block type 2 does not.
ResetStreams(t) ==
  /\ block' = [u \in Stream |-> <<>>]
  /\ seen' = [u \in LzssStream |->
                IF u = 1 \/ Drains(t, u) THEN seen[u] \o look_ahead[u] ELSE seen[u]]
  /\ look_ahead' = [u \in LzssStream |->
                      IF u = 1 \/ Drains(t, u) THEN <<>> ELSE look_ahead[u]]
  /\ buffered' = <<>>

\* Mutant of ResetDetector: the detector keeps counting across the boundary.
ResetDetectorForgotten == UNCHANGED <<current_step_, is_change_point_detected>>

\* is_change_point_detected is a local of the loop: it is computed again
\* before it is next read.
ResetDetector ==
  /\ current_step_' = 0
  /\ is_change_point_detected' = FALSE

\* Block type 2 is asked to buffer again with the other last flag
\* (std::logic_error), or no stream is eligible (std::out_of_range).
CommitFails(is_last) ==
  Rebuffers(is_last) \/ \A t \in Stream : ~Eligible(t)

\* The block ends and the byte read last starts the next one.  That byte has
\* been counted, and the count starts again from 0 all the same.
Commit ==
  /\ pc = "commit"
  /\ IF CommitFails(FALSE) THEN Throw
     ELSE /\ \E t \in Stream : WriteBlock(t, FALSE) /\ ResetStreams(t)
          /\ aligned' \in IF chosen' = 0 THEN {TRUE} ELSE BOOLEAN
          /\ ResetDetector
          /\ num_uncompressed_bytes_in_block' = 0
          /\ pc' = "put"
          /\ UNCHANGED <<next_byte, num_uncompressed_bytes_in_file, crc, read>>

\* The streams after the last block, of type t, is written: nothing is reset.
LeaveStreams(t) ==
  /\ block' = [u \in Stream |->
                 IF u \in LzssStream /\ Drains(t, u) THEN Content(u) ELSE block[u]]
  /\ seen' = [u \in LzssStream |->
                IF Drains(t, u) THEN seen[u] \o look_ahead[u] ELSE seen[u]]
  /\ look_ahead' = [u \in LzssStream |->
                      IF Drains(t, u) THEN <<>> ELSE look_ahead[u]]
  /\ buffered' = IF Eligible(2) THEN Buffered(TRUE) ELSE buffered

\* The file ends: the last block is written and padded to a byte boundary.
CommitLast ==
  /\ pc = "last"
  /\ IF CommitFails(TRUE) THEN Throw
     ELSE /\ \E t \in Stream : WriteBlock(t, TRUE) /\ LeaveStreams(t)
          /\ aligned' = TRUE
          /\ pc' = "footer"
          /\ UNCHANGED <<next_byte, counters, crc, detector, read>>

PushFooter ==
  /\ pc = "footer"
  /\ DecodeFooter
  /\ pc' = "done"
  /\ UNCHANGED <<next_byte, counters, crc, streams, detector, chosen, aligned,
                 read>>

Next ==
  \/ GetFirst \/ GetFirstFails \/ Get \/ GetFails
  \/ Put
  \/ Commit \/ CommitLast
  \/ PushFooter

\* One thread that is never blocked for good: the input is a file, and every
\* read returns.
Spec == Init /\ [][Next]_vars /\ WF_vars(Next)

-----------------------------------------------------------------------------
TypeOK ==
  /\ pc \in {"start", "put", "get", "commit", "last", "footer", "done", "thrown"}
  /\ next_byte \in Byte
  /\ num_uncompressed_bytes_in_file \in 0 .. FileModulus - 1
  /\ num_uncompressed_bytes_in_block \in 0 .. DynamicMaximum
  /\ block \in [Stream -> Seq(Byte)]
  /\ look_ahead \in [LzssStream -> Seq(Byte)]
  /\ seen \in [LzssStream -> Seq(Byte)]
  /\ \A b \in {buffered[i] : i \in 1 .. Len(buffered)} :
       /\ b.is_last \in BOOLEAN
       /\ b.history \in Seq(Byte)
       /\ b.bytes \in Seq(Byte)
  /\ current_step_ \in Nat
  /\ is_change_point_detected \in BOOLEAN
  /\ chosen \in Stream \cup {NoStream}
  /\ aligned \in BOOLEAN
  /\ {read, crc, decoded} \subseteq Seq(Byte)
  /\ decoder \in {"open", "ended", "accepts", "rejects"}

\* main ends by returning: no block is extended past its capacity, block type
\* 2 is never buffered twice with different last flags, and some stream is
\* always eligible (the three throws are reached from no file).
NeverThrows == pc # "thrown"

\* gzip -d reproduces the file, whatever it is and however it was cut into
\* blocks, unless the last block is committed with the byte counter at 0 or at
\* the capacity of a stored block (the counter is also 0 for an empty file).
RoundTrip ==
  pc = "done" /\ num_uncompressed_bytes_in_block \notin {0, StoredMaximum}
    => decoder = "accepts" /\ decoded = read

\* Block type 2's window takes in each byte once and in order, also the bytes
\* of the blocks that are written with another type: between two blocks it
\* remembers exactly what the decoder has produced.
WindowFollowsOutput ==
  pc \in {"start", "put", "get", "commit", "last"}
    => seen[2] = decoded \o block[2]

\* No block but the last is shorter than the warm-up of the detector.
MinimumBlockSize ==
  [][pc = "commit" => Len(decoded') - Len(decoded) >= Warmup]_vars

Published == INSTANCE Filter WITH finished <- pc = "done"

\* What the output decodes to is at every moment a prefix of what was read,
\* grows only, is at most one byte short in the end, and the end is reached.
ImplementsFilter == Published!FairSpec

-----------------------------------------------------------------------------
(***************************************************************************)
(* What the documentation says and the code does not do.                   *)
(***************************************************************************)
\* README.md: a file compressed with cgzip can be decompressed with gzip -d.
\* Here of the empty file, for which main writes no block at all.
EmptyFileDecompresses == pc = "done" /\ read = <<>> => decoder = "accepts"

\* The same of a file whose last block is stored.
StoredLastBlockDecompresses ==
  pc = "done" /\ chosen = 0 => decoder = "accepts" /\ decoded = read

\* README.md: block type 1 will never be used, so it is disabled.
FixedNeverChosen == chosen # 1

\* README.md: block type 1 can be re-enabled by increasing its breakpoint to
\* a value above the warm-up.  Then its back references must still point at
\* what the decoder has: no block is refused.
BlocksDecode == pc # "done" => decoder # "rejects"
=============================================================================
