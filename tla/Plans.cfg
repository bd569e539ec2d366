CONSTANTS
  None = None
  Capability = {1, 2, 3}
  Requests <- MCRequests
  RawCatalogs <- MCRawCatalogs
  Bound = {1, 2, 3}
  Extra <- MCExtra
  Answers <- MCAnswers
  Receipts <- MCReceipts
  MaxTime = 2
  MaxCrashes = 2
SPECIFICATION Spec
INVARIANTS
  CheckpointLoads
  NoBlindRepeat
  CompletedIsValidated
PROPERTIES
  StaysDecided
CHECK_DEADLOCK FALSE
