\* What isignore returns for a path that a negated rule keeps.
SPECIFICATION Spec
CONSTANTS
  Contents <- MCContents
  Paths <- MCPaths
  Matches <- MCMatches
  Minute = 2
  EditGap = 2
  FirstTime = 3
  LastTime = 4
PROPERTY KeepingStops
CHECK_DEADLOCK FALSE
