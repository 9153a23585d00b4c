\* Fewer credits than a chunk costs.
SPECIFICATION PutLiveSpec
CONSTANTS
  Sizes = {3, 4, 6, 9}
  OldSizes = {0, 7}
  Grain = 2
  WriteSizes = {4}
  ChunkLimit = 8
  CreditSize = 2
  Credits = {1, 2}
  MaxChanges = 0
PROPERTY PutEnds
CHECK_DEADLOCK FALSE
