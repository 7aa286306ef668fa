SPECIFICATION Spec
CONSTANTS
  Threads = {t1, t2}
  Sessions = {s1, s2}
  Tokens = {k1, k2}
  Passwords = {p1, p2}
  None = None
  Absolute = 3
  Idle = 2
  TokenLife = 1
  Window = 3
  Threshold = 1
  MaxDelay = 2
  MaxTime = 4
  Allowances <- ForSessions
SYMMETRY Interchangeable
INVARIANTS CurrentCredential FailuresTakeTime
PROPERTIES RevocationBoundary TokenSpentOnce CleanupSparesNewFile
CHECK_DEADLOCK FALSE
