SPECIFICATION Spec
CONSTANTS
  PartCount = 2
  ManifestRequired = TRUE
  None = None
  Sizes <- MCSizes
  Earlier <- MCEarlier
  MaxStarts = 4
INVARIANTS
  TypeOK
  ReceiptsNameOwnObjects
  ProposalsAreLegal
PROPERTIES
  Promised
CHECK_DEADLOCK FALSE
