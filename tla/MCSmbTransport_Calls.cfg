\* Three calls of each kind of setup; a context may be idle for ever.
SPECIFICATION LiveSpec
CONSTANTS
  ChainLength = 2
  MaxCharge = 2
  MaxCredits = 4
  ServerCap = 4
  MaxCalls = 3
  Setups <- MCSetups
INVARIANTS
  CallbackMemoryValid
  RepliesMatch
  CreditsAgree
  WaitsForSomething
  IdsDisjoint
  NoCreditStall
PROPERTIES
  CallsEnd
CHECK_DEADLOCK FALSE
