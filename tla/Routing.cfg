SPECIFICATION RouterSpec
CONSTANTS
  a = a
  b = b
  u = u
  x = x
  y = y
  s1 = s1
  p1 = p1
  p2 = p2
  c1 = c1
  c2 = c2
  None = None
  Model <- MCModel
  Identity <- MCIdentity
  SlotsPerDay = 3
  DaysPerWeek = 2
  Class = {x, y}
  Provider = {p1, p2}
  Client = {c1, c2}
  PricingKey <- MCPricingKey
  Scenarios <- MCScenarios
  MaxOutcomes = 2
INVARIANTS DecisionHolds WithinBudget LedgerBalances
CHECK_DEADLOCK FALSE
