CONSTANTS
  Wells = {"W"}
  Complnums = {1}
  WTests <- MCWTests
  Intervals = {1, 2}
  NumTests = {0, 1, 2}
  EndTime = 3
  EndStep = 2
  MaxRestarts = 1
SPECIFICATION Spec
CHECK_DEADLOCK FALSE
INVARIANTS LimitKept IntervalKept DueTested
PROPERTY RestartKeepsReasons
