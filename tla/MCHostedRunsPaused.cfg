SPECIFICATION Spec
CONSTANTS
  Tasks = {"review", "pause", "continue"}
  Faults = {}
  MaxRuns = 4
  MaxHead = 1
  MaxLost = 0
INVARIANT PausedCanContinue
CHECK_DEADLOCK FALSE
