SPECIFICATION Spec
CONSTANTS
  Works = {"a1", "b1"}
  HeadOf <- MCHeadOf
  MaxFailed = 2
  Ceiling = 3
  RoundCeiling = 2
  Contents = {"c1"}
  None = None
  Procs = {"p1", "p2"}
  Tasks = {"review", "pause"}
  Exclusive = FALSE
  Faults = {"crash"}
  MaxStarts = 3
CHECK_DEADLOCK FALSE
INVARIANTS
  RoundsAreBacked
  StoredRecordWellFormed
