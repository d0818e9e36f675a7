CONSTANTS
  Cells = {1, 2, 3}
  LastStep = 3
  Decks <- OneKeyword
  ActionBlocks <- MCActions
  Fractures <- MCFractures
  Factors = {1}
  MaxCalls = 1
SPECIFICATION Spec
INVARIANT ScalingComplete
CHECK_DEADLOCK FALSE
