CONSTANTS
  A = A
  B = B
  P = P
  Q = Q
  Wells = {P, Q}
  Quantities = {A, B}
  Rate = Rate
  Undefined = Undefined
  N = 3
  Decks <- MCDecks
  ActionBlocks <- MCActionBlocks
  MatchSets = {{P}, {P, Q}}
  Rates = {1, 2}
  MaxCalls = 2
  Fields = {"ORAT", "WRAT"}
SPECIFICATION Spec
INVARIANTS Coherent EvaluatedOnce DefinesSettled RestartTransparent UsesAddressed
PROPERTY ArgumentsRestored
CHECK_DEADLOCK FALSE
