SPECIFICATION Spec
CONSTANTS
  Works = {"a1"}
  HeadOf <- MCHeadOf
  MaxFailed = 2
  Ceiling = 3
  RoundCeiling = 2
  Contents = {"c1"}
  None = None
  Procs = {"p1"}
  Tasks = {"review"}
  Exclusive = TRUE
  Faults = {}
  MaxStarts = 4
CHECK_DEADLOCK FALSE
INVARIANT RetryBoundBinds
