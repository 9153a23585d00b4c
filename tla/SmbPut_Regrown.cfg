\* A C library that reads on when a file has grown.
SPECIFICATION PutSpec
CONSTANTS
  Sizes = {1, 3, 4, 6, 9}
  OldSizes = {0, 7}
  Grain = 2
  WriteSizes = {4, 8}
  ChunkLimit = 8
  CreditSize = 2
  Credits = {2, 4}
  MaxChanges = 2
INVARIANT OnlyLastPadded
CHECK_DEADLOCK FALSE
