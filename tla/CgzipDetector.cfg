\* Files of up to nine bytes, blocks of at most six, stored blocks of at most
\* four: the size limit and the detector both end blocks, the first block and a
\* later one, the last block meets every breakpoint, and the detector compares
\* up to four bytes of a block with a baseline of two.
CONSTANTS
  Byte = {a, b, n}
  NegativeChars = {n}
  MaxFile = 9
  FileModulus = 5
  StoredMaximum = 4
  FixedMaximum = 0
  DynamicMaximum = 6
  Warmup = 2
  LookBackSize = 3
  LookAheadSize = 2
  FixedBits = {}
  DynamicBits = {20, 90}
SPECIFICATION DetectorSpec
INVARIANTS TypeOK NeverThrows RoundTrip WindowFollowsOutput DetectorCountsBlock LogsDefined
PROPERTIES MinimumBlockSize ImplementsFilter
CHECK_DEADLOCK FALSE
