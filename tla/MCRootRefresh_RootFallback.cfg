\* A file of the root disappears before it is backed up.
SPECIFICATION Spec
CONSTANTS
  MaxRec = 6
  Names <- MCNames
  None = None
  Dir = Dir
  Depth = 2
  FailLimit = 1
  AttrOf <- MCApart
  Restores = FALSE
  MaxEdits = 2
  Setups <- MCNoFailure
INVARIANTS
  FallbackHasParent
