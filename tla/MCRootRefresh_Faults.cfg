\* Four edits, and failures or crashes at any point.
SPECIFICATION Spec
CONSTANTS
  MaxRec = 6
  Names <- MCNames
  None = None
  Dir = Dir
  Depth = 2
  FailLimit = 1
  AttrOf <- MCClose
  Restores = FALSE
  MaxEdits = 4
  Setups <- MCSetups
INVARIANTS
  WalkStaysValid
  QuietRunBacksUp
  UploadsFindRoom
  ActionsMeetTheirRecords
  QuietRunMirrors
PROPERTIES
  VersionsKept
