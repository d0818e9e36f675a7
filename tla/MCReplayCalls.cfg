CONSTANTS
  P = P
  Q = Q
  Wells = {P, Q}
  N = 4
  Month <- MCMonth
  Decks <- MCDecks
  KeepKeywords = FALSE
  OutputInterval = 0
  SolutionOutput = TRUE
  RestartStep = 0
  RstWells <- NoRstWells
  ScriptKeywords <- MCScriptKeywords
  MaxCalls = 2
  MixedScripts = TRUE
  FutureStatusCalls = TRUE
  LateDirectCalls = TRUE
SPECIFICATION Spec
PROPERTIES BlankNeedsBatch RefusedStepsFixed
CHECK_DEADLOCK FALSE
