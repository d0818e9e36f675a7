CONSTANTS
  Cells = {1, 2, 3}
  LastStep = 3
  Decks <- MCDecks
  ActionBlocks <- MCActions
  Fractures <- MCFractures
  Factors = {1}
  MaxCalls = 1
SPECIFICATION Spec
INVARIANTS AsPromised ScaledAtMostOnce OpenRequestsStand
PROPERTIES ScalingKeepsPast
CHECK_DEADLOCK FALSE
