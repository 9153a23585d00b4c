\* Names that end in a surrogate pair, or in half a pair with an earlier name behind it.
SPECIFICATION ConvSpec
CONSTANTS
  Names16 <- MCNames16
  Stale <- MCStale
  Names8 <- MCNames8
INVARIANTS
  NamesComeBack
  StaysInName
CHECK_DEADLOCK FALSE
