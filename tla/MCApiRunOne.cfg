SPECIFICATION Spec
CONSTANTS
  Startup1 = 5
  Startup2 = 6
  StartupSlots <- MCStartupSlots
  Limit = 63
  DefaultLimit = 63
  TerminalBase = 13
  TerminalExpanded = 13
  OperationRequests = 5
  LateWrites = FALSE
  LastAttempt = 1
INVARIANTS
  ConfirmationFunded
  TerminalWorkProtected
  ClosureIsSettled
CHECK_DEADLOCK FALSE
