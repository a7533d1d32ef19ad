SPECIFICATION Spec
CONSTANTS
  None = None
  Deliveries = {d1, d2}
  Initial <- SomeRepositories
  Edits = {"custom"}
  People = {"push", "merge", "close", "touch", "delete"}
  Lossy = TRUE
  MaxHead = 2
  MaxStarts = 3
SYMMETRY DeliverySymmetry
INVARIANTS TypeOK SetupOnlyWhereNeeded QuietDeliverySucceeds
CHECK_DEADLOCK FALSE
