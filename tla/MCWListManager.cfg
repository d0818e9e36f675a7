CONSTANTS
  L1 = L1
  L2 = L2
  L3 = L3
  P = P
  Q = Q
  Lists = {L1, L2, L3}
  Wells = {P, Q}
  RestartAnytime = FALSE
SPECIFICATION Spec
INVARIANTS CountsBacked MirrorExact
PROPERTIES ChangesReported ImplementsPromise
CHECK_DEADLOCK FALSE
