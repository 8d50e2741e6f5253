SPECIFICATION Spec
CONSTANTS
  Literal = {a, b}
  LookBackSize = 5
  LookAheadSize = 4
  RelativeModulus = 8
  MaxInput = 9
INVARIANTS
  TypeOK
  IndexSound
  ChainSound
  IndexComplete
  CacheFresh
  LongestFound
PROPERTIES
  ImplementsCoder
