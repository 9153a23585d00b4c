\* A chunk is being written when polling fails: smbPutFile returns.
SPECIFICATION Spec
CONSTANTS
  ChainLength = 2
  MaxCharge = 1
  MaxCredits = 3
  ServerCap = 4
  MaxCalls = 2
  Setups <- MCWriting
INVARIANTS
  NoMemoryMisused
CHECK_DEADLOCK FALSE
