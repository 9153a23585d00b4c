\* Signed replies to a compound, in one frame.
SPECIFICATION Spec
CONSTANTS
  ChainLength = 2
  MaxCharge = 1
  MaxCredits = 3
  ServerCap = 4
  MaxCalls = 1
  Setups <- MCSigned
INVARIANTS
  OffsetRecorded
CHECK_DEADLOCK FALSE
