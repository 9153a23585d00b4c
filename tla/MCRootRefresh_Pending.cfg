\* A path is ignored for a moment, and the process dies.
SPECIFICATION Spec
CONSTANTS
  MaxRec = 6
  Names <- MCNames
  None = None
  Dir = Dir
  Depth = 2
  FailLimit = 1
  AttrOf <- MCApart
  Restores = FALSE
  MaxEdits = 3
  Setups <- MCIgnoring
INVARIANTS
  PendingTellsUnsynced
