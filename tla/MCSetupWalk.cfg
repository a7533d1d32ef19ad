SPECIFICATION Spec
CONSTANTS
  None = None
  Repositories = {a, b, c}
  PageSize = 2
  MaxPages = 2
  MaxFailures = 3
  Lossy = TRUE
  MaxChanges = 2
INVARIANT TypeOK
PROPERTIES CompleteCoversListing DeliveryEnds
CHECK_DEADLOCK FALSE
