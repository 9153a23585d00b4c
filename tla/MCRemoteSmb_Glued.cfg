SPECIFICATION ShareSpec
CONSTANTS
  None = None
  Dir = Dir
  Versions = {v1}
  Targets <- MCGlued
  Base <- MCBase
  Tmp <- MCTmp
  Hist <- MCHist
  Shares <- MCShares
  OpendirFails = TRUE
  Considerate = FALSE
  MaxFaults = 0
  MaxOps = 1
CHECK_DEADLOCK FALSE
PROPERTY DelDirKeepsOthers
