SPECIFICATION Spec
CONSTANTS
  Users = {u1}
  LegacyUsers = {}
  Clients = {c1}
  Requests = {r1, r2}
  Workers = {w1}
  Payments = {p1, p2}
  Keys = {}
  NoKey = NoKey
  Refs = {}
  NoRef = NoRef
  Plans <- MCPlansShort
  FreePlan = "free"
  Plan <- MCPlanShort
  Packs = {"tokens"}
  PacksOnSale = {"tokens"}
  PackCredits <- MCPackCredits
  Features = {"coach", "report"}
  Feature <- MCFeature
  SignupCredits = 1
  FreeQuota = 0
  MonthlySpendCap = 4
  BatchSize = 1
  MaxTime = 3
  MaxUsed = 4
  NoRow = NoRow
  Idle = Idle
SYMMETRY Ids
INVARIANTS NoOverdraft CreditsAccounted
PROPERTIES TwoBuckets
CHECK_DEADLOCK FALSE
