\* Fair runs, three edits and two failures.
SPECIFICATION FairSpec
CONSTANTS
  MaxRec = 5
  Names <- MCNames
  None = None
  Dir = Dir
  Depth = 2
  FailLimit = 1
  AttrOf <- MCApart
  Restores = FALSE
  MaxEdits = 3
  Setups <- MCHistory
PROPERTIES
  EventuallyBackedUp
