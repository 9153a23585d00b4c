SPECIFICATION TreeSpec
CONSTANTS
  MaxRec = 5
  MaxRName = 4
  Names <- MCNames
  Attrs <- MCAttrs
INVARIANT
  OnlyLoopbackNameless
