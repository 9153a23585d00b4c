\* Commands with a timeout.
SPECIFICATION Spec
CONSTANTS
  ChainLength = 2
  MaxCharge = 1
  MaxCredits = 3
  ServerCap = 4
  MaxCalls = 2
  Setups <- MCTimeouts
INVARIANTS
  TimedOutCallsEnd
CHECK_DEADLOCK FALSE
