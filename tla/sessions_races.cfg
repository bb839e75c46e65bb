SPECIFICATION Spec
CONSTANTS
  SessionIds = {s1, s2, s3}
  Clients = {c1, c2}
  s1 = s1
  s2 = s2
  s3 = s3
  c1 = c1
  c2 = c2
  None = None
  PerSecond = 10
  AccessTTL = 1
  Leeway = 1
  Margin = 2
  RefreshTTL = 9
  MaxDevices = 2
  MaxTime = 4
SYMMETRY IdsAndClients
INVARIANTS OneLivePerFamily NoSessionAcrossChange
PROPERTIES DeviceSpec
CHECK_DEADLOCK FALSE
