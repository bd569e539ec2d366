CONSTANTS
  s1 = s1
  b1 = b1
  b2 = b2
  t1 = t1
  g1 = g1
  Item = {s1}
  WorkType = {t1}
  Group = {g1}
  policy <- Disposed
  LeaseDuration = 1
  MaxCycles = 1
SPECIFICATION Spec
INVARIANTS
  RetryRefusesCallerTransaction
