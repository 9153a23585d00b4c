SPECIFICATION ShareSpec
CONSTANTS
  None = None
  Dir = Dir
  Versions = {v1}
  Targets <- MCOneFile
  Base <- MCBase
  Tmp <- MCTmp
  Hist <- MCHist
  Shares <- MCShares
  OpendirFails = TRUE
  Considerate = TRUE
  MaxFaults = 2
  MaxOps = 1
CHECK_DEADLOCK FALSE
PROPERTY PutHistNeverLoses
