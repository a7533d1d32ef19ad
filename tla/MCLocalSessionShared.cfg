SPECIFICATION Spec
CONSTANTS
  Works = {"a1", "a2", "b1"}
  HeadOf <- MCHeadOf
  MaxFailed = 2
  Ceiling = 3
  RoundCeiling = 2
  Contents = {"c1"}
  None = None
  Procs = {"p1", "p2"}
  Tasks = {"review", "pause", "continue", "grant"}
  Exclusive = TRUE
  Faults = {"crash", "expire", "delete"}
  MaxStarts = 4
CHECK_DEADLOCK FALSE
INVARIANTS
  OneAnalysisAtATime
PROPERTIES
  AdmissionIsCurrent
  Promised
