SPECIFICATION FairSpec
CONSTANTS
  Threads = {t1, t2}
  Tokens = {k1, k2}
  None = None
  TokenLife = 1
  Window = 3
  Threshold = 1
  MaxDelay = 2
  MaxTime = 3
  Allowances <- ForSetup
CHECK_DEADLOCK FALSE
INVARIANTS GuessesTakeTime
PROPERTIES OneRegistration SetupFilesRemoved
