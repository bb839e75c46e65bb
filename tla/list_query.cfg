CONSTANTS
  None = None
  Bad = Bad
  DefaultLimit = 3
  MaxLimit = 3
  MaxFilters = 2
  MaxInt = 1023
  Users = {"ana", "bob"}
  Ids = {1, 2, 3, 4}
  Content <- MCContent
  Amounts <- MCAmounts
  Requests <- MCRequests
SPECIFICATION Spec
INVARIANTS OwnRowsOnly WalkComplete TotalHonest OppositesSplit RangesCoverDays
CHECK_DEADLOCK FALSE
