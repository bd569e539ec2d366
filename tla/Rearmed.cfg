CONSTANTS
  s1 = s1
  b1 = b1
  b2 = b2
  t1 = t1
  g1 = g1
  Item = {s1, b1}
  WorkType = {t1}
  Group = {g1}
  policy <- Rearmed
  LeaseDuration = 1
  MaxCycles = 2
SPECIFICATION Spec
INVARIANTS
  WaitingBarrierCovered
  NextCaptureIsFresh
  AttemptLedger
  OpenTransactionOwnsClaim
PROPERTIES
  ImplementsWorkGroups
  SettledIsFinal
  LiveClaimIsHolders
