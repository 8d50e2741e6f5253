\* Literals, matches of three bytes at a distance without offset and at one with,
\* up to three of these to a block, or any single match: three steps are four
\* codes and an end, for which codes of up to three bits are complete in every
\* shape, and literals are shorter than their match.
CONSTANTS
  Matches <- BlockMatches
  LoneMatches <- SingleMatches
  MaxSteps = 3
  MaximumPrefixCodeLength = 3
SPECIFICATION Spec
INVARIANTS TypesOK BlockReads NeverLonger CountsOfBlock
CHECK_DEADLOCK FALSE
