\* The empty file.
CONSTANTS
  Byte = {a, n}
  NegativeChars = {n}
  MaxFile = 8
  FileModulus = 5
  StoredMaximum = 3
  FixedMaximum = 0
  DynamicMaximum = 5
  Warmup = 2
  LookBackSize = 3
  LookAheadSize = 2
  FixedBits = {}
  DynamicBits = {20, 60}
SPECIFICATION Spec
INVARIANTS EmptyFileDecompresses
CHECK_DEADLOCK FALSE
