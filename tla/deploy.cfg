CONSTANTS
  Replicas = {"old", "new", "edited"}
  Files <- MCFiles
  None = None
  Lost = Lost
  MaxWork = 1
  MaxConns = 1
  MaxFaults = 2
SPECIFICATION LiveSpec
INVARIANTS OnAVersion ServesItsSchema FailsForCause
PROPERTIES NothingHangs
CHECK_DEADLOCK FALSE
