\* List: calls and edits in any order over nine seconds; a minute is two of them.
\* Matcher: patterns of stars and names; and classes, escapes and case.
\* Conversions: names of up to four units, and bytes that need not be UTF-8.
SPECIFICATION MCSpec
CONSTANTS
  Contents <- MCContents
  Paths <- MCPaths
  Matches <- MCMatches
  Minute = 2
  EditGap = 2
  FirstTime = 3
  LastTime = 12
  Characters <- MCCharacters
  Inputs <- MCInputs
  Names16 <- MCNames16
  Stale <- MCStale
  Names8 <- MCNames8
INVARIANTS
  NoEditLost
  MatchesAsMeant
  BufferSuffices
  NamesSurvive
PROPERTIES
  LaterRulesWin
  Ends
CHECK_DEADLOCK FALSE
