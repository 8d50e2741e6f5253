\* Twelve literals and lengths, at least nine of which are written, and five
\* distances: runs end with nothing, with single lengths and with repeats left
\* over, reach from the literals into the distances, and trailing codes are
\* left out of both.
CONSTANTS
  NumLiteralLengthSymbols = 12
  NumDistanceSymbols = 5
  MinLeadingLiteralLength = 9
  MaximumPrefixCodeLength = 2
  RepeatMin = 3
  RepeatMax = 4
  ZerosMin = 3
  ZerosMax = 4
  ManyZerosMin = 5
  ManyZerosMax = 6
  CodeLengthOrder <- Order
  MinLeadingCodeLength = 4
  MaximumCodeLength = 3
SPECIFICATION Spec
INVARIANTS TypeOK LengthsPreserved HeaderPreserved CountsMatch OffsetsFit
CHECK_DEADLOCK FALSE
