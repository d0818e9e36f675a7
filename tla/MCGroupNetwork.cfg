CONSTANTS
  FIELD = FIELD
  A = A
  B = B
  V = V
  N = N
  NoGroup = NoGroup
  Groups = {FIELD, A, B}
  Wells = {V}
  Nodes = {A, B, N}
  MaxRecords = 5
SPECIFICATION InjectionSpec
SYMMETRY Symmetry
INVARIANTS TreeAgrees Reachable NetworkSound InobrIndexed FlowLinesAsSaid
PROPERTIES RestartFaithful ImplementsForest
CHECK_DEADLOCK FALSE
