SPECIFICATION Spec
CONSTANTS
  SessionIds = {s1, s2, s3}
  Clients = {c1}
  s1 = s1
  s2 = s2
  s3 = s3
  c1 = c1
  None = None
  PerSecond = 2
  AccessTTL = 1
  Leeway = 1
  Margin = 1
  RefreshTTL = 5
  MaxDevices = 2
  MaxTime = 7
SYMMETRY Ids
INVARIANTS TypeOK DeviceLimit
PROPERTIES OldestGo RefusedStaysRefused
CHECK_DEADLOCK FALSE
