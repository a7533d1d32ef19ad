SPECIFICATION Spec
CONSTANTS
  Tasks = {"review", "pause"}
  Faults = {"crash", "fail", "lost", "late"}
  MaxRuns = 2
  MaxHead = 2
  MaxLost = 2
INVARIANTS
  TypeOK
  AnalysedOnce
  EffectOnce
  TakeoverLosesNothing
CHECK_DEADLOCK FALSE
