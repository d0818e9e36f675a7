CONSTANTS
  ActionNames = {"A"}
  MaxRuns = {1, 3}
  MinWaits = {0, 2}
  Scripts = {"once", "until"}
  RunCount <- MCRunCount
  Wells = {"W"}
  RecordsRuns = TRUE
  EndTime = 4
  MaxId = 1
  MaxRestarts = 1
SPECIFICATION Spec
CHECK_DEADLOCK FALSE
INVARIANTS RunsWithinLimit MinWaitRespected OwnRunsCounted ScriptsStop
