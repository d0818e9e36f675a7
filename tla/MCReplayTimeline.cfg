CONSTANTS
  P = P
  Q = Q
  Wells = {P, Q}
  N = 4
  Month <- MCMonth
  Decks <- MCDecks
  KeepKeywords = FALSE
  OutputInterval = 0
  SolutionOutput = TRUE
  RestartStep = 0
  RstWells <- NoRstWells
  ScriptKeywords <- MCScriptKeywords
  MaxCalls = 2
  MixedScripts = FALSE
  FutureStatusCalls = FALSE
  LateDirectCalls = FALSE
SPECIFICATION TimelineSpec
INVARIANTS SnapshotsComplete
PROPERTIES RestartOutputStable ImplementsTimeline
CHECK_DEADLOCK FALSE
