\* Operations: three calls with up to two failing requests among them.
\* Upload: files of up to three chunks that change while they are read.
\* Connection: up to five addresses, two legs of a session setup after the first.
SPECIFICATION MCSpec
CONSTANTS
  None = None
  Dir = Dir
  Versions = {v1, v2}
  Targets <- MCTargets
  Base <- MCBase
  Tmp <- MCTmp
  Hist <- MCHist
  Shares <- MCShares
  OpendirFails = TRUE
  Considerate = TRUE
  MaxFaults = 2
  MaxOps = 3
  Sizes = {0, 1, 3, 4, 6, 9}
  OldSizes = {0, 7}
  Grain = 2
  WriteSizes = {4, 5, 8}
  ChunkLimit = 8
  CreditSize = 2
  Credits = {1, 2, 3}
  MaxChanges = 2
  Found <- MCFound
  MaxLegs = 2
INVARIANTS
  UploadFaithful
  TypeOK
  Interleaved
  CallbackDataValid
  ConnectedMeansSession
  AddressesTried
  NoSocketLost
PROPERTIES
  KeepsPromise
  PutHistLosesNothing
  HistoryStays
  CallsReturn
CHECK_DEADLOCK FALSE
