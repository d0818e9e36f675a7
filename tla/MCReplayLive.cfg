CONSTANTS
  P = P
  Q = Q
  Wells = {P, Q}
  N = 4
  Month <- MCMonth
  Decks <- MCLiveDecks
  KeepKeywords = FALSE
  OutputInterval = 0
  SolutionOutput = TRUE
  RestartStep = 1
  RstWells <- OneRstWell
  ScriptKeywords <- MCScriptKeywords
  MaxCalls = 2
  MixedScripts = FALSE
  FutureStatusCalls = FALSE
  LateDirectCalls = FALSE
SPECIFICATION FairSpec
PROPERTIES ReplayFollows
CHECK_DEADLOCK FALSE
