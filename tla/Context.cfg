SPECIFICATION Spec
CONSTANTS
  Caller = {c1, c2}
  None = None
  Global = Global
  Kinds <- MCKinds
  Setups <- MCSetups
  MaxEdits = 2
  MaxCalls = 2
INVARIANTS  ReuseIsSound
PROPERTY RecordsGoForward
SYMMETRY CallerSymmetry
CHECK_DEADLOCK FALSE
