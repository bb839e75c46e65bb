SPECIFICATION LiveSpec
CONSTANTS
  Users = {u1, u2}
  LegacyUsers = {u1, u2}
  Clients = {c1}
  Requests = {}
  Workers = {w1}
  Payments = {p1, p2}
  Keys = {}
  NoKey = NoKey
  Refs = {}
  NoRef = NoRef
  Plans <- MCPlansShort
  FreePlan = "free"
  Plan <- MCPlanShort
  Packs = {}
  PacksOnSale = {}
  PackCredits <- MCNoPacks
  Features = {"coach", "report"}
  Feature <- MCFeature
  SignupCredits = 1
  FreeQuota = 0
  MonthlySpendCap = 4
  BatchSize = 1
  MaxTime = 3
  MaxUsed = 4
  NoRow = NoRow
  Idle = Idle
PROPERTIES PaymentSettles LapseIsNoticed RefillIsMade
CHECK_DEADLOCK FALSE
