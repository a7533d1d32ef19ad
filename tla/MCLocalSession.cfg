SPECIFICATION Spec
CONSTANTS
  Works = {"a1", "a2", "b1"}
  HeadOf <- MCHeadOf
  MaxFailed = 2
  Ceiling = 3
  RoundCeiling = 2
  Contents = {"c1"}
  None = None
  Procs = {"p1"}
  Tasks = {"review", "pause", "continue", "grant", "reenroll"}
  Exclusive = TRUE
  Faults = {"crash", "interrupt", "io", "expire", "delete"}
  MaxStarts = 4
CHECK_DEADLOCK FALSE
INVARIANTS
  TypeOK
  HoldHasWriter
  FreshOnlyByReenrolment
  NeverOvercharged
PROPERTIES
  CheckpointSurvives
