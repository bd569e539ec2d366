CONSTANTS
  None = None
  c1 = c1
  c2 = c2
  m1 = m1
  cloud1 = cloud1
  s1 = s1
  v1 = v1
  DataClass = {"PUBLIC", "INTERNAL"}
  Cloud = {cloud1}
  Conn = {c1, c2}
  Edit <- Edits
  ByHand <- Hands
  MaxVersions = 2
  Model = {m1, cloud1}
  Named <- Names
  Proof <- Proofs
  Source = {s1}
  Yield <- Yields
  Validity = 1
  MinRefresh = 2
  Scenes <- Starts
  MaxTime = 2
  MaxInputs = 2
SPECIFICATION Spec
INVARIANTS
  
  CompletedIsAttested
  SourcesAreSpared
PROPERTIES
  RollbackUndoesLastSave
CHECK_DEADLOCK FALSE
