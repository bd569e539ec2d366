CONSTANTS
  None = None
  j1 = j1
  j2 = j2
  Job = {j1, j2}
  Setups <- MCSetups
  MaxTime = 1
  Routable = {0}
  MaxSequence = 3
  MaxCheckpoint = 2
SPECIFICATION Spec
INVARIANTS
  OneContinuation
  OneSession
  NoOverspending
CHECK_DEADLOCK FALSE
