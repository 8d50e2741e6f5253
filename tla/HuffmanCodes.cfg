\* Five symbols of weights up to six, some of which (1 1 3 4 6) have a best code
\* four bits deep, which three bits rule out; ties occur at every level.
CONSTANTS
  Symbols = 5
  MaximumLength = 3
  MaxWeight = 6
  WeightModulus = 64
  BitsModulus = 16
SPECIFICATION SpecCodes
INVARIANTS TypesOK SelectionExists OptimalCode CompleteCode
INVARIANTS CodesFit PrefixFree Canonical
CHECK_DEADLOCK FALSE
