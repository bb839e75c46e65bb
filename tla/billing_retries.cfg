SPECIFICATION Spec
CONSTANTS
  Users = {u1}
  LegacyUsers = {u1}
  Clients = {c1, c2}
  Requests = {r1}
  Workers = {}
  Payments = {p1, p2}
  Keys = {k1}
  NoKey = NoKey
  Refs = {x1}
  NoRef = NoRef
  Plans <- MCPlansShort
  FreePlan = "free"
  Plan <- MCPlanShort
  Packs = {"tokens"}
  PacksOnSale = {"tokens"}
  PackCredits <- MCPackCredits
  Features = {"coach", "report"}
  Feature <- MCFeature
  SignupCredits = 1
  FreeQuota = 0
  MonthlySpendCap = 4
  BatchSize = 1
  MaxTime = 1
  MaxUsed = 4
  NoRow = NoRow
  Idle = Idle
SYMMETRY Ids
INVARIANTS OnePaymentPerKey
CHECK_DEADLOCK FALSE
