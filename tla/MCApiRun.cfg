SPECIFICATION Spec
CONSTANTS
  Startup1 = 5
  Startup2 = 6
  StartupSlots <- MCStartupSlots
  Limit = 36
  DefaultLimit = 36
  TerminalBase = 4
  TerminalExpanded = 4
  OperationRequests = 5
  LateWrites = TRUE
  LastAttempt = 2
INVARIANTS
  TypeOK
  AllowanceNeverExceeded
  MemoryContinuesRecord
  OneWriteAtLarge
  ConfirmedRecordStands
PROPERTIES
  RecordNeverRefunds
CHECK_DEADLOCK FALSE
