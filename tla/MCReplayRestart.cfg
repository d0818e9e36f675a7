CONSTANTS
  P = P
  Q = Q
  Wells = {P, Q}
  N = 4
  Month <- MCMonth
  Decks <- MCRestartDecks
  KeepKeywords = FALSE
  OutputInterval = 2
  SolutionOutput = TRUE
  RestartStep = 2
  RstWells <- OneRstWell
  ScriptKeywords <- MCScriptKeywords
  MaxCalls = 3
  MixedScripts = FALSE
  FutureStatusCalls = FALSE
  LateDirectCalls = FALSE
SPECIFICATION TimelineSpec
INVARIANTS Coherent RestartWellsKept
PROPERTY ImplementsTimeline
CHECK_DEADLOCK FALSE
