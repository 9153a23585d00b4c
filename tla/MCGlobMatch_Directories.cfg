\* ** before a / takes whole directories, says the comment.
SPECIFICATION MatchSpec
CONSTANTS
  Characters <- MCCharacters
  Inputs <- MCFew
INVARIANTS
  MatchesDirectories
CHECK_DEADLOCK FALSE
