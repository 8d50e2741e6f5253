\* Block type 1 re-enabled with a breakpoint above the warm-up, as README.md
\* suggests, but below the size of the largest block.
CONSTANTS
  Byte = {a, n}
  NegativeChars = {n}
  MaxFile = 8
  FileModulus = 5
  StoredMaximum = 3
  FixedMaximum = 3
  DynamicMaximum = 5
  Warmup = 2
  LookBackSize = 3
  LookAheadSize = 2
  FixedBits = {12, 70}
  DynamicBits = {20, 60}
SPECIFICATION Spec
INVARIANTS BlocksDecode
CHECK_DEADLOCK FALSE
