SPECIFICATION Spec
CONSTANTS
  Users = {u1}
  LegacyUsers = {}
  Clients = {c1}
  Requests = {}
  Workers = {w1}
  Payments = {p1, p2}
  Keys = {}
  NoKey = NoKey
  Refs = {}
  NoRef = NoRef
  Plans <- MCPlansShort
  FreePlan = "free"
  Plan <- MCPlanShort
  Packs = {"tokens"}
  PacksOnSale = {"tokens"}
  PackCredits <- MCPackCredits
  Features = {"coach", "report"}
  Feature <- MCFeature
  SignupCredits = 1
  FreeQuota = 0
  MonthlySpendCap = 4
  BatchSize = 1
  MaxTime = 2
  MaxUsed = 4
  NoRow = NoRow
  Idle = Idle
INVARIANT PurchaseCanBeApplied
CHECK_DEADLOCK FALSE
