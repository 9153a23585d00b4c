\* What becomes of pending commands, and what RemoteSmb does after a failure.
SPECIFICATION Spec
CONSTANTS
  ChainLength = 2
  MaxCharge = 1
  MaxCredits = 3
  ServerCap = 4
  MaxCalls = 2
  Setups <- MCFailing
INVARIANTS
  DestroyAborts
  NotUsedAfterFailure
CHECK_DEADLOCK FALSE
