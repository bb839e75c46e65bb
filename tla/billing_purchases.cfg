SPECIFICATION Spec
CONSTANTS
  Users = {u1}
  LegacyUsers = {}
  Clients = {c1}
  Requests = {}
  Workers = {w1}
  Payments = {p1, p2, p3}
  Keys = {}
  NoKey = NoKey
  Refs = {}
  NoRef = NoRef
  Plans <- MCPlans
  FreePlan = "free"
  Plan <- MCPlan
  Packs = {"tokens"}
  PacksOnSale = {"tokens"}
  PackCredits <- MCPackCredits
  Features = {"coach", "report"}
  Feature <- MCFeature
  SignupCredits = 1
  FreeQuota = 0
  MonthlySpendCap = 4
  BatchSize = 1
  MaxTime = 5
  MaxUsed = 4
  NoRow = NoRow
  Idle = Idle
SYMMETRY Ids
INVARIANTS TypeOK AppliedOnce PeriodsDisjoint AllowanceNeedsPlan PlanSnapshot RefillSchedule
PROPERTIES PaidTimeKept
CHECK_DEADLOCK FALSE
