SPECIFICATION Spec
CONSTANTS
  Literal = {a, b}
  LookBackSize = 4
  LookAheadSize = 4
  RelativeModulus = 8
  MaxInput = 6
INVARIANT EveryPositionCached
