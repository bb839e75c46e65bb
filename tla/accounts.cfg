SPECIFICATION Spec
CONSTANTS
  Codes = {k1, k2, k3}
  Passwords = {pw1}
  Clients = {c1, c2}
  None = None
  Cooldown = 1
  MaxPerWindow = 1
  Window = 2
  TTL = 3
  MaxVerifyTries = 2
  MaxLoginAttempts = 2
  LoginLockWindow = 2
  PhoneLength = 11
  PhoneColumn = 20
  MaxRequests = 5
  MaxTime = 3
SYMMETRY Names
INVARIANTS VerifiedByCode QuotaHolds SupersededDead BurstLocks
PROPERTIES CodeSpec
CHECK_DEADLOCK FALSE
