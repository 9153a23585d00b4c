\* A server whose largest write is not a whole number of grains.
SPECIFICATION PutSpec
CONSTANTS
  Sizes = {0, 1, 3, 4, 5, 6, 9}
  OldSizes = {0, 7}
  Grain = 2
  WriteSizes = {4, 5, 8}
  ChunkLimit = 8
  CreditSize = 2
  Credits = {1, 2, 3, 4}
  MaxChanges = 2
INVARIANT ChunkFitsBuffer
CHECK_DEADLOCK FALSE
