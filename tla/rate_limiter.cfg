CONSTANTS
  c1 = c1
  c2 = c2
  Clients = {c1, c2}
  None = None
  Limit = 3
  Window = 3
  Second = 2
  FailOpen = FALSE
  MaxDelay = 1
  MaxTime = 7
SYMMETRY Callers
SPECIFICATION Spec
INVARIANTS NoBurst
PROPERTIES
  HeadersHonest
CHECK_DEADLOCK FALSE
