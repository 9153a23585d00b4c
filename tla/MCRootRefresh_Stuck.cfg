\* Without history: what a failed call left on the remote is in the way.
SPECIFICATION FairSpec
CONSTANTS
  MaxRec = 5
  Names <- MCNames
  None = None
  Dir = Dir
  Depth = 2
  FailLimit = 1
  AttrOf <- MCApart
  Restores = FALSE
  MaxEdits = 4
  Setups <- MCNoHistory
PROPERTIES
  EventuallyBackedUp
