# Verification of cgzip

cgzip reads a file from standard input and writes a gzip file that `gzip -d`
turns back into it. This directory holds TLA+ models of its components, the
TLC configurations that check them on small instances, and proofs, checked by
TLAPS, of what holds for every size and every input. Every definition is
translated from the code under `src/`; `PROJECT.json` gives the lines each one
stands for. `gzip -d` itself is not part of the repository: the models describe
it by what RFC 1951 and RFC 1952 make of cgzip's output.

## The system

cgzip is one thread without timers, files of its own or state that outlives
it. What makes it hard is not concurrency but bookkeeping: three encoders are
given the same bytes and keep windows that must agree with a decoder that sees
the output of only one of them at a time; several counters run one ahead of
one another; containers overwrite what indexes still point at; and numbers are
computed in one place and used in another, after the data they were computed
from has changed.

| component | code | state | operations |
|---|---|---|---|
| main loop | `app/main.cpp` | the byte read ahead, bytes in the file and in the block, the checksum, the breakpoints of the three block streams | read a byte, put it, end a block (`commit_smallest`, reset), end the file |
| change point detector | `include/change_point_detection.hpp` | steps since the last reset, counts of each symbol before and after the warm-up, the running sum | `step`, `reset` |
| block type 0 | `include/block_type_0.hpp` | the bytes of the block | `put`, `bits`, `commit`, `reset` |
| block type 1 | `include/block_type_1.hpp` | a match finder, a buffered bit stream | the same |
| block type 2 | `include/block_type_2.hpp` | a match finder, the symbols of the block and their counts, a buffered bit stream and the last flag it was filled with | the same |
| LZSS match finder | `include/lzss.hpp` | the window, the look-ahead, a hash map and a chain of positions, a cached match | `put`, `literal`, `back_reference`, `take_literal`, `take_back_reference` |
| ring buffer | `include/ring_buffer.hpp` | an array, its size and two cursors | `enqueue`, `dequeue`, `peek`, `operator[]`, iteration |
| package merge | `include/package_merge.hpp` | packages by level (local) | from weights to code lengths |
| prefix codes | `include/prefix_codes.hpp` | the next code of each length (local) | from code lengths to codes |
| bit streams | `include/gz.hpp`, `src/gz.cpp`, `include/deflate.hpp`, `src/deflate.cpp` | the byte being filled, the bytes out, and the same of a buffer in front of it | `push_bit` and what is made of it, `flush_byte`, `commit`, `reset`, the destructor |
| symbol tables | `include/types.hpp` | constant tables | from lengths and distances to symbols with offset bits, and back |
| checksum | `include/third_party/CRC.h` | a table | third-party |

How they interact. `main` owns one shared bit stream, three block streams and
the detector. Each byte goes to every block stream that has room for it, then
to the detector; the next byte is read before anything is decided. When the
detector reports a change point, or the block is as large as it may be, `main`
asks every eligible stream for its number of bits, commits the smallest, and
resets all of them and the detector. Block types 1 and 2 run the bytes through
a match finder of their own, whose window must follow what the decoder has
produced, *also through the blocks another type was written for*. Type 2
collects symbols and counts, and when it is asked for its size makes its prefix
codes (package merge, then prefix codes), writes them run-length coded, and
decides for each match whether the match or its literals are cheaper. Types 1
and 2 hold a block back in a buffered bit stream, to be committed at whatever
bit of a byte the shared stream has reached.

What is hard, and what makes each component correct:

- *Main loop.* The counter of the bytes in the block counts the byte read
  ahead, but only in the first block; it is compared with the breakpoints twice,
  with `>=` and with `>`; and at the end of the file it is one lower than at any
  other block end. Correct: nothing throws, the decoder reproduces the file, the
  encoders' windows are the decoder's, no block but the last is shorter than the
  warm-up, and the program ends.
- *Match finder.* Positions are kept in three containers that are overwritten at
  different moments. Correct: no entry outlives the bytes it points at, no
  visible occurrence is missed, a cached match is not stale, the longest match
  is found, and the tokens stand for the bytes that were put.
- *Ring buffer.* Overwriting moves both cursors. Correct: it is a queue.
- *Bit streams.* Partial bytes, on both sides, at any alignment. Correct: the
  bytes out are the bits pushed, in order, and padding only where asked for.
- *Package merge and prefix codes.* The sort is not stable, the number of
  packages of a level is assumed, the decoder has to find the same codes from
  the lengths. Correct: lengths within the maximum, a complete code, none
  cheaper; codes that are prefix-free and canonical.
- *Header of block type 2.* Runs reach from the literals into the distances,
  trailing codes are left out, and symbols are counted in three places. Correct:
  a decoder reads the same lengths, every offset fits, every symbol is counted.
- *Choice between a match and its literals.* Block type 1 decides with fixed
  lengths, at once; block type 2 decides when the block ends, with codes made
  from counts that leave the literals behind a match out. Correct: a decoder
  finds every match, as a match or as its literals; the block never gets longer
  for it; and no literal is written that has no code.
- *Symbol tables.* Ranges of lengths and distances, one of which ends early.
  Correct: every length and distance comes back from its symbol and offset.
- *Stored blocks.* Their size is compared with that of the others before it is
  known where in a byte they begin. Correct: a decoder that comes to the block at
  any bit reads it to its end, and the size differs by the padding only.
- *Detector.* It ignores negative values, both it and `main` reset it, and its
  baseline and its counts are swapped, not copied. Correct: of the bytes that are
  not negative as a `char` it counts each one of the current block and none of an
  earlier one, also when the size limit ended that, and it never takes the
  logarithm of 0.

`PROJECT.json` lists the hazards one by one, each at its line.

## The modules

| module | what it is | code |
|---|---|---|
| `Fifo` | the enqueue of a bounded queue, an operator that `BoundedQueue` and `Lzss` share | `ring_buffer.hpp` |
| `BoundedQueue` | abstract: a queue that gives up its oldest item when full | `ring_buffer.hpp` |
| `RingBuffer` | the array and its cursors; implements `BoundedQueue` | `ring_buffer.hpp` |
| `RingBufferProofs` | proofs about `RingBuffer` | |
| `Lz77` | abstract: bytes leave a queue as tokens, from which a decoder rebuilds them | `lzss.hpp` |
| `Lzss` | window, look-ahead, hash map, chain and cache; implements `Lz77` | `lzss.hpp` |
| `LzssProofs` | proofs about `Lzss` | |
| `Induction` | that a set of naturals has a least element, the forms of induction that follow, and what follows by them of powers, functions defined by recursion, sizes of sets and sums; used by the proofs | |
| `Filter` | abstract: the output decodes to a growing prefix of the input | `main.cpp` |
| `Cgzip` | the main loop, the detector's control, the three block streams by what they hold, and the decoder; implements `Filter` | `main.cpp`, `block_type_*.hpp`, `change_point_detection.hpp` |
| `CgzipProofs` | proofs about `Cgzip`, and about `CgzipDetector`, to which they carry over | |
| `CgzipDetector` | `Cgzip` with the counts, the baseline and the probabilities of the detector | `change_point_detection.hpp` |
| `BitLog` | abstract: bits written, bits held back | `gz.cpp` |
| `BitStream` | the shared and the buffered bit stream, byte by byte; implements `BitLog` | `gz.hpp`, `gz.cpp`, `deflate.cpp` |
| `BitStreamProofs` | proofs about `BitStream`, and about `StoredBlock`, to which they carry over | |
| `StoredBlock` | block type 0's `commit`, call by call on the shared stream of `BitStream`, and its `bits` | `block_type_0.hpp` |
| `SymbolTables` | the tables of lengths and distances, in full | `types.hpp`, `constants.hpp` |
| `FixedBlock` | block type 1: fixed codes, the choice at each step, what is held back | `block_type_1.hpp` |
| `DynamicBlock` | block type 2: the block vector, the counts, the choice when the block is flushed | `block_type_2.hpp` |
| `Inflate` | external: what a decoder makes of the symbols and offsets of a block, by the formulas of RFC 1951 | |
| `BlockCoding` | `FixedBlock` or `DynamicBlock` as `main` uses them, followed by `Inflate` | `block_type_1.hpp`, `block_type_2.hpp` |
| `BlockCodingProofs` | proofs about `BlockCoding` | |
| `PackageMerge` | the package-merge algorithm, level by level | `package_merge.hpp` |
| `PrefixCodes` | canonical codes from lengths | `prefix_codes.hpp` |
| `HuffmanCodes` | `PackageMerge`, then `PrefixCodes` on what it returned | `block_type_2.hpp`, `flush_block` |
| `HuffmanCodesProofs` | proofs about `HuffmanCodes` | |
| `CodeLengths` | the run-length coded code lengths in the header of a block, and the order in which the code of these is written | `block_type_2.hpp`, `flush_block_metadata` |
| `CodeLengthsProofs` | proofs about `CodeLengths` | |
| `MCBlockCoding`, `MCCodeLengths`, `MCStoredBlock` | give constants that a configuration cannot write their values | |

Where a component uses another, it is written with the abstract specification
of the other: `Lzss` with the queues that `RingBuffer` implements, `Cgzip` with
what `Lz77` promises (each byte that enters a match finder leaves it once and
in order) and with blocks where `BitStream` has bits; `FixedBlock` and
`DynamicBlock` with matches that stand for their literals, which is what `Lz77`
promises of them, and with codes and offsets where `BitStream` has bits;
`DynamicBlock` with any complete code, which is what `HuffmanCodes` shows
`package_merge` to find.

### Cgzip

`pc` names the call `main` makes next: `start` (the first `cin.get`), `put`,
`get`, `commit`, `last`, `footer`, `done`, and `thrown` when an exception left
`main`. Each action is the code from one such point to the next: `Put` is the
loop over the streams *and* the step of the detector, `Get` the read, both
counters, the checksum and the decision, `Commit` all of `commit_smallest(false)`
and of the resets. Variables have the names of the code; `seen[t]` (every byte
stream t's window took in), `read`, `decoded`, `decoder`, `aligned` and `chosen`
record what the environment sees.

Abstracted: what a block is coded as. `bits()` of types 1 and 2 answers any
number of a small set, which leaves the choice between the eligible streams
open, except where the code fixes it: type 0's size is its formula, and an
empty block of type 1 is 10 bits. A put into a full look-ahead codes any number
of its bytes from one on. After the warm-up the detector may report a change
point at any step. The decoder accepts a block of types 1 and 2 if the encoder's
window is a recent part of what was decoded, and compares the checksum and the size in
the footer.

### CgzipDetector

Every action of `Cgzip` with what it does to the counts. `StepCounts` is `step`
in its order: the counters are updated; at the last step of the warm-up the
counts become the baseline, and the counts are what the baseline held
(`InitParams`, a swap); then the sum is updated. A probability is a numerator
and a denominator. The sum itself, `cusum_`, is a floating-point sum of
logarithms and is not kept. What is kept of it: it is never below 0 and the
threshold is not either, so it passes the threshold only at a byte that makes it
grow, one more probable now than in the baseline (`CusumGrows`). So `Cgzip`
allows every change point the detector can report, and more; `DetectorSpec`
implements `Spec` of `Cgzip`.

### Lzss

One action per public function that changes state, with `take_literal_` as the
composition of its four calls, in their order. `BackReference` is the call
itself, so that TLC sees a match being cached and something else happening
before it is used. `taken` and `cut_off` (positions that had fewer than two
bytes behind them when they entered the window) are history. A position that
is cut off, and position 0, are the only ones at which the finder cannot see a
match: `IndexComplete` and `LongestFound` say there are no others.

### BitStream

A byte is the set of the places of its ones, so that or-ing a bit in is a union.
A commit is one step per bit. The streams of `deflate.cpp` forward every call,
and a multi-bit push is a sequence of `PushBit` or `PushBufferedBit`. The
refinement mapping reads the bytes out, lowest bit first: nothing else connects
`written` to what was pushed.

### StoredBlock

`Commit` turns a block into the list of the calls its `commit` makes on the
shared stream (the last flag, two bits, `flush_byte`, the length and its
complement lowest bit first, the bytes); `CommitPushBit` and `CommitFlushByte`
make them one by one. `Other` is every action of `BitStream`, between commits:
`main` writes nothing else while a stored block is committed. `committed` is
where the commit began and what it was of, until something else is written.

### FixedBlock, DynamicBlock and BlockCoding

A step is given what the match finder offers: one literal, or the literals of
the longest match and its distance. `taken` records what the stream did with it.
In `DynamicBlock` an entry of `block_` is a symbol or an offset, and reading one
as the other is `pc = "thrown"`, as `std::get` throws. `EndOfBlock` is the end of
`buffer` and the beginning of `flush_block` (the end symbol, the codes, their
lengths), `Write` one turn of its loop. `BlockCoding` runs either stream on the
same matches; the decoder reads what is in `out` after a commit. Which matches
there are is a constant, so that the proofs are about all of them: assumed is only
what `Lzss` gives (`IsMatch`), literals that fit in the look-ahead and, if they
are three at least, a distance in the window.

### PackageMerge, PrefixCodes and HuffmanCodes

A level of `PackageMerge` is the sorted vector. `Sorted` puts packages as heavy in
the order they came in; which of them come first is chosen anew when packages are
selected (`First`), because `std::ranges::sort` is not stable. That leaves out
nothing: the order of packages as heavy changes no weight of a pair, and a pair
no longer holds a symbol on its own. A selection past the end of a level is `pc =
"overrun"`. `HuffmanCodes` hands the lengths to `PrefixCodes` when
`package_merge` returns.

### CodeLengths

The inputs are all code lengths of a block that package merge can make. The
three repeat symbols are numbered behind the lengths as 16, 17 and 18 are, with
smaller bounds; one step looks at one length. When the lengths are coded, the
code of the code lengths is written in the order of
`reordered_code_length_prefix_codes`, without its trailing zeros
(`WriteCodeLengthCode`).

## The runs

| run | bounds | shows |
|---|---|---|
| `ring_buffer` | 4 slots, 2 items | the cursors stay in step, no blank is read, and call by call the array is the bounded queue |
| `cgzip` (`CgzipDetector`) | files of up to 9 bytes over 3, one of them negative as a `char`; blocks of up to 6, stored blocks of up to 4, warm-up 2, window 3, look-ahead 2 | no throw, lossless but at the edges named in `RoundTrip`, window in step with the output, the detector has counted, of the bytes not negative as a `char`, those of the current block and no earlier ones, and of the negative ones none, its logarithms are defined, and `Filter` with termination |
| `lzss` | 9 bytes over 2, window 5, look-ahead 4 | the index is sound and complete, the cache fresh, the match the longest, and `Lz77` |
| `bit_stream` (`MCStoredBlock`) | bytes of 3 bits, up to 7 bits in each stream, stored blocks of up to 2 bytes of 2 values, lengths of 6 bits | `BitLog`, clean padding, stored blocks read back, their size as far off as the padding |
| `block_coding` (`MCBlockCoding`) | literals 7 (eight bits) and 200 (nine); matches of 3 at distances 1 and 5, up to 3 steps; or one match, of any length from 3 to 258 or of the first or last distance of any symbol; codes of up to 3 bits | blocks of types 1 and 2 read back, are never longer for a choice made, and are coded from their own counts |
| `huffman_codes` | 5 symbols of weights 0..6, at most 3 bits | complete, optimal, prefix-free, canonical |
| `code_lengths` | 12 literals and lengths of which 9 at least are written, 5 distances, lengths up to 2, repeats of 3-4, zeros of 3-4 and 5-6 | the lengths and the code they are written in read back, counts match, offsets fit |

The bounds are small, and chosen so that everything that can happen does. In
`cgzip` a file is long enough for a first block, a later block (whose counter
runs differently) and a last one, each ended by the detector and by the size
limit; the stored breakpoint lies below the other, so that a block outgrows
it; the detector compares up to four bytes with a baseline of two; the file size
counter wraps at 5. In `lzss` the window is filled,
overwritten and drained, matches reach across their own end, and the relative
positions wrap. In `bit_stream` a commit starts and ends at every place of a
byte and crosses two byte boundaries, and stored blocks begin at every place of
a byte. In `block_coding` a block has up to four codes and an end, for which
codes of three bits are complete in every shape, with literals shorter and
longer than their match, with and without codes; the tables are the ones of the
code, and every entry of the table of lengths and both ends of every range of
distances is written and read. In `huffman_codes` the limit of three bits
rules out codes that would be better, and ties occur at every level. In
`code_lengths` runs end with nothing, single lengths and repeats left over and
reach from the literals into the distances. `CHECK_DEADLOCK FALSE` is given
where the system stops: a file ends, a function returns, a bound is reached.

Five runs show that the code does not do what the documentation says; each
checks one property and ends with a counterexample:

| run | what happens |
|---|---|
| `cgzip_empty_file` | an empty file gets a header and a footer without a block; `gzip -d` refuses it |
| `cgzip_stored_at_capacity` | an incompressible last block of 65535 bytes (the first block) or 65536 (a later one) is stored without its last byte, because a byte is put with `<` and a stream is eligible with `<=` |
| `cgzip_fixed_chosen` | a change point one byte before the end leaves a block of one byte, for which an empty block of the disabled type 1 is the smallest: the byte is lost |
| `cgzip_fixed_reenabled` | type 1, re-enabled as `src/README.md` describes, loses the bytes of a block past its breakpoint, and its window no longer agrees with the decoder's |
| `lzss_first_position` | the first byte of a stream has position 0, the mark of the end of a chain: a pattern that starts there is never matched (a longer output, not a wrong one) |

The first three make `RoundTrip` name its exceptions: the counter is 0 or at the
capacity of a stored block when the last block is committed.

Two more divergences have no run of their own: a property of a passing run says
what the code does instead.

- `src/README.md:268` says that the probability of each symbol is tracked. `main`
  passes `step(int y)` the `char` it read (`main.cpp:122`), and where `char` is
  signed, as on x86, a byte from 0x80 on is negative and `step` returns before it
  counts anything (`change_point_detection.hpp:37`). `DetectorCountsBlock` is
  therefore in two parts: the bytes that are not negative are counted as often as
  the block holds them, and the others (`NegativeChars`) are in no count and no step
  of the warm-up, however often the block holds them. A block of such bytes alone
  ends only at the size limit. With no negative `char` the second part is empty,
  and the first says that every symbol is tracked.
- `block_type_0.hpp:32` speaks, in a comment, of padding of up to 5 bits; it is up
  to 7, and `bits` is as far off as `StoredSizeClose` says.

### Fairness

`Cgzip` and `CgzipDetector` are the only specifications with fairness, weak
fairness of the next step (`WF_vars(Next)`, `WF_allVars(DetectorNext)`): one
thread that never waits for anything but its input. A read of a file or of a
pipe returns with a byte or with the end of the file, and files are finite (`MaxFile`), so a
step that is possible is eventually taken. Under it the program ends
(`Filter!FairSpec`, part of `ImplementsFilter`). The other components are called
and promise nothing about when.

## What is proved

TLAPS checks the following for every value of the constants, under the
assumptions the modules state (`ASSUME`), which TLC evaluates in every run.

*Ring buffer* (`RingBufferProofs`), for every capacity and item type: `TypeOK`,
`CursorsAgree`, `HeldSlotsWritten`, and that it implements `BoundedQueue`. The
three invariants together are inductive: that the write slot is `size_` slots past
the read slot is what makes the overwritten slot the oldest one.

*Bit streams* (`BitStreamProofs`), for every size of a byte and any number of
bits: `TypeOK`, `UnusedPlacesZero`, and that they implement `BitLog`. The
inductive invariant is that both streams are `Clean` (well-formed, no place set
that was not pushed to) and that a commit under way is inside the buffer. Without
the clean places neither step maps: a bit or-ed into a set place would be lost,
and a flushed byte would not be padded with zeros. The arithmetic of bytes and
places is proved from the definitions of quotient and remainder.

*Main loop* (`CgzipProofs`), with `FixedMaximum = 0`, the value in the code, as
a hypothesis of every theorem, and for every breakpoint of the other types,
every warm-up, window, file and every choice of the detector and of block sizes:
`TypeOK`, `NeverThrows`, `RoundTrip`, `WindowFollowsOutput`,
`MinimumBlockSize`, and that the safety part of `Filter` is implemented. None of
the properties is inductive. `IInv` adds, by name: what has been read is what block type 2 holds and the byte read ahead
(`ReadingInv`); type 2 holds all of the block, type 0 the first bytes of it that
fit, and type 1 nothing (`StreamsInv`); the byte counter is the length of the
block, plus one in the first block, plus one while the byte read ahead is counted
(`CountingInv`); the detector has counted no more than the block, and has passed
the warm-up when it ends one (`DetectorInv`); and after the last block all is
decoded, or all but one byte at one of the two edges (`EndingInv`). The proof
that a block is decoded whole combines `CountingInv`, which tells from the
counter whether the stored block is complete, with `StreamsInv`. Assumed of the
constants: the warm-up is shorter than the largest block (2^13 and 2^30), and
the other breakpoints are not above that of type 2.

*Main loop with the detector* (`CgzipProofs`), for every finite alphabet
and under the same hypotheses: every step of `CgzipDetector` is one of `Cgzip`, so
that `RoundTrip`, `NeverThrows`, `WindowFollowsOutput`, `MinimumBlockSize` and
the safety part of `Filter` carry over; and `DetectorCountsBlock`
(bytes not negative as a `char` are counted, negative ones are not) and
`LogsDefined`. The inductive invariant `DetInv` adds to `IInv`: the counts are
natural numbers (`CountsTypes`); no change point is pending when a byte is put,
and one that is has reset the detector (`ChangePointInv`); before the warm-up
ends the baseline is zero, no byte is counted more often than all of them, and
after the warm-up every baseline probability is a positive fraction not above 1
(`BaselineInv`); and `DetectorCountsBlock` itself. `BaselineInv` is
what the swap in `init_params` rests on: what comes back as the counts is zero
only because `reset` clears the baseline. That no logarithm of 0 is taken then
follows for the counts since: a count above zero is at most the total, which is
thus above zero.

*Stored blocks* (`BitStreamProofs`), for every size of a byte, width of the
length and set of blocks: `StoredSpec` implements the specification of
`BitStream`, so that all that is proved of the streams holds with stored blocks
among what is written; `StoredSizeClose`; and `StoredBlockReads`. The inductive
invariant says of every call of a commit under way how many bits have been written since
it began and how many the calls to come will write (`SizeInv`), and that each call made has left
its bit where a decoder will look for it, also those in front of the padding
(`ReadInv`). A decoder reads the numbers back because the bits of a
number add up to it (`BitsAddUp`), and the bytes because a place in the block is a byte
and a place in it.

*Match finder* (`LzssProofs`), for every window, look-ahead and range of matches
and every sequence of calls: all six invariants of the `lzss` run, and that
`Lzss` implements `Lz77`. None of the five but `TypeOK` is inductive by itself; they are
together, as `Sound`. `Window` says that the window is the end of what was
taken. `Indexed` says of the hash map and the chain that what they hold lies in
the window and has the right bytes (`StartsSound`, `ChainsSound`), and that
nothing is missing: every position but those that were cut off is known, or
linked from the next one with the same bytes (`Complete`). A byte that is taken
passes through four states in which this holds for other bounds (the oldest
pattern removed, the window shifted, the new pattern added, the look-ahead
shortened), one lemma for each (`RemoveStep`, `ShiftStep`, `AddStep`,
`TakeStep`); taking a match is an induction over them (`TakenSteps`). That the
search meets every candidate, nearest first, is an induction along the chain,
from which it finds what `LongestOf` defines (`FindsBest`). The inductive
invariant is `Sound` and that the cached match, if any, is the one found now. In
the refinement, the decoder's copy of a match, also one that overlaps itself, is
the literals that the match finder compared.

*Code lengths* (`CodeLengthsProofs`), for every number of symbols, every maximum
length, every range of the repeat symbols and every input: all five invariants of
the run. `LengthsPreserved` is not inductive: to read on behind the symbols
written so far, these have to be symbols that can be read at all (`Good`, which
also carries the counts and the offsets), the current run has to be of a length
(`RunIsOfLengths`: it begins as one of a length that does not exist), and when
the code of the symbols is written it was made from counts that do not change
any more (`CodeWritten`). What `add_code_length_symbol_batch` makes of a run is
proved by induction on the run (`BatchedStands`): however the loop splits it, the
decoder gets all but what is left, and the remainder written as single lengths
completes it. That a symbol repeats the right length needs the length written in
front (`Continues`). `HeaderPreserved` rests on the order of
the lengths' codes being one of all of them (`EveryPlace`).

*Prefix codes* (`HuffmanCodesProofs`), for every number of symbols, every maximum
length, all weights and every order of packages as heavy: that no selection runs
past its level (`SelectionExists`), that the lengths are those of a complete code
of the symbols that occur (`CompleteCode`), that no other code costs less
(`OptimalCode`), that the codes made of them fit (`CodesFit`), that none begins
another (`PrefixFree`), that a decoder finds the same ones (`Canonical`), and
`TypesOK`. The argument has four parts.

- *Levels.* Level l holds the symbols and the pairs of the level below
  (`LevelIs`), so that of n symbols there are 2n - e packages in it, where e is n
  in the first level and from level to level halved, rounded up (`GoodLevel`). In
  the last of L levels e is 2 at most, because n is at most 2^L, and the 2n - 2
  packages that the solution takes of it are there. No pair weighs less than one
  of its packages, for no sum of weights wraps (`PairsAre`).
- *Selections.* What is selected of a level is its first packages, up to the order
  of packages as heavy (`Selects`). Each pair among them stands for two packages
  of the level below, of which no more are wanted than there are. The symbols selected
  are among those of the level above, and no pair is left in the end
  (`Shrinking`). From this follows Kraft's sum: counted up to t levels, it is
  2^L + v * 2^(L - t), where v is the number of pairs selected of the last of them.
- *Costs.* The first k packages of a level weigh no more than any k others
  (`FirstAreLightest`, `Lightest`), and the first pairs as much as the packages
  they are made of (`PairsWeigh`). Level by level the symbols selected weigh at
  most what was to be selected less what is left to be selected of the level below
  (`SelectedWeighs`), so that the lengths cost at most the first 2n - 2 packages
  of the last level (`SelectionsCost`). Any other code selects too, a symbol with a
  code of length c of the last c levels. If its Kraft sum is at most 2^L there is
  room under the symbols for the first packages of every level (`RoomAndSpace`),
  and by induction from the first level these weigh no more than the part of the
  code in it (`CodeCovers`); in the last level, 2n - 2 packages against the whole
  code (`NoneCheaper`).
- *Codes.* A code of length n is a number of n bits; as a number of L bits it begins
  where the code before it, in the order of lengths and then of symbols, ends
  (`CodeOf`, `CodesInv`). All of them together are at most 2^L, so each fits its
  length; two of them are different intervals, so neither begins the other; and
  their order is the canonical one.

The inductive invariant is `AllInv`, the levels and selections while
`package_merge` runs (`MergeInv`), and after it `Kraft` and `CodesInv`; with
`OptimalCode`, which follows from it at the step that counts the lengths, it is
inductive too. Assumed of the
constants: there are no more symbols than codes of the maximum length (288 and
30 for 15 bits, 19 for 7); a package of the last level fits the type of the weights
(the narrow one, of 16 bits, counts at most 318 code lengths in packages of at most
64 symbols); and a code of the maximum length fits the type of the bits.

*Block coding* (`BlockCodingProofs`), for all matches, blocks of any number of steps
and complete codes of any maximum length: all four invariants of the run. None
is inductive. The argument has four parts.

- *Tables.* The ranges of lengths and of distances follow each other, begin where
  RFC 1951 says and are as wide as their offset bits tell apart, so the entry of
  every length and distance is read as that length or distance, and an offset
  fits in the bits that are pushed of it (`FromLengthReads`, `FromDistanceReads`,
  `OffsetKept`).
- *Decoder.* One thing more that is pushed is one step of the decoder
  (`ReadAppend`). `HasRead` says that the decoder is between two steps and that
  its items can be divided among the matches taken (`Splits`); a literal, a match
  and the literals of a match each carry it on, and from it follows `StandFor`,
  however the choices were made.
- *Block type 1.* The fixed codes are the ones of the decoder, because there are 24
  codes of 7 bits and 152 of 8 before the first of 9 (`FixedCodeReads`). The
  invariant `FixedInv` is that what is held back has been read as what was taken,
  in no more bits than the literals.
- *Block type 2.* While the block is collected, its entries are those of the steps,
  divided at some places (`Laid`), and the counts are those of the steps
  (`Counted`, which is `CountsOfBlock` with the sets that are counted finite).
  From the counts every symbol of a step has a code, and so has the end
  (`CodesOfBlock`). While the block is flushed, the entry that is next begins the
  entries of a step or is the end, and what is behind it has been written
  (`FlushedTo`): read as the steps up to there, in no more bits than these have as
  matches. That each turn of the loop begins at a symbol, for which `TypesOK`
  stands, follows from the places. `DynamicInv` is these by the value of `pc`.

Sums of bits over a block are by induction on its length (`SumBehind`).

Induction over data. The induction theorems of the library take an operator as a
parameter, which no installed prover can instantiate. `Induction` states it over
sets instead, from the well-foundedness of the order of the naturals: a set that
holds 0, and with each number the next, holds all of them. Sizes and sums of finite
sets are brought under it by adding one element at a time (`InductOnSet`).

Only model-checked: termination, because liveness under fairness is beyond the
prover. Every invariant that a passing run checks is a theorem.

## What is not modelled

- The checksum (`third_party/CRC.h`): taken for the bytes it was computed on.
- Failure of standard output, which the code never looks at.
- The sum of the detector: floating point. Its terms, and when it grows, are
  modelled.
- Type 1 enabled for blocks of every size: no setting the code or its
  documentation names. `FixedBlock` models what type 1 does with a block it is
  given whole; `cgzip_fixed_reenabled` shows what happens to one it is not.
  That type 1 drains its look-ahead in time is in `Cgzip` (`ResetStreams`,
  `Committed`), where at its breakpoint of 0 it holds nothing to drain, and not in
  `FixedBlock`, which has no look-ahead: no property is about it.
- How matches overlap and reach into earlier blocks, in `BlockCoding`: that is
  `Lzss` and `Cgzip`.
- `block_type.hpp` (an abstract class) and `size.hpp` (a constant expression): no
  state. Tests, scripts, build files, data.

## The plan

Done, in this order, the most important behaviour first: `RingBuffer`, `Cgzip`
with `Filter`, `CgzipProofs`, `Lzss` with `Lz77`, `BitStream` with `BitLog`,
`PackageMerge`, `PrefixCodes`, `HuffmanCodes`, `CodeLengths`; then
`CgzipDetector`, `SymbolTables`, `FixedBlock`, `DynamicBlock`, `BlockCoding`,
`StoredBlock`, and proofs of the first and the last of these.

Then, all of it proof: `LzssProofs`, with `Induction`, `CodeLengthsProofs`,
`HuffmanCodesProofs`, at last with the optimality of the lengths that
`package_merge` returns, and `BlockCodingProofs`.
