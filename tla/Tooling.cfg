CONSTANTS
  None = None
  p1 = p1
  p2 = p2
  q1 = q1
  q2 = q2
  ollama = ollama
  f1 = f1
  amount1 = amount1
  amount2 = amount2
  planned = planned
  other = other
  model = model
  mcp1 = mcp1
  mcp2 = mcp2
  profile = profile
  local = local
  repo = repo
  server = server
  argv1 = argv1
  argv2 = argv2
  mine = mine
  router1 = router1
  router2 = router2
  prompt = prompt
  trusted1 = trusted1
  config1 = config1
  config2 = config2
  gpt = gpt
  small = small
  u1 = u1
  u2 = u2
  DEC = DEC
  REQ = REQ
  a1 = a1
  m1 = m1
  m2 = m2
  m3 = m3
  Process = {p1, p2}
  Request = {q1, q2}
  Source = {amount1}
  Runtime = {ollama}
  Target = {f1}
  HostSetups <- MCHostSetups
  MaxTime = 3
  MaxStarts = 3
  Integration = {mcp1, mcp2}
  ConfigFile = {profile, repo}
  Entry = {server, other}
  ClientSetups <- MCClientSetups
  MaxClock = 1
  MaxCalls = 3
  Uid = {u1, u2}
  Kind = {DEC, REQ}
  ArtifactFile = {a1}
  MaxAllocations = 4
  Adapter = {"command", "http"}
  Threshold = 2
  Cooldown = 2
  MaxServed = 4
  MaxFrames = 5
  Module = {m1, m2, m3}
  Harmless <- MCHarmless
  ReleaseScenes <- MCReleaseScenes
SPECIFICATION Spec
CHECK_DEADLOCK FALSE
INVARIANTS InstalledOnce  WrittenIsRecorded ReportedIsComplete OneReference AdapterIsSpared 
