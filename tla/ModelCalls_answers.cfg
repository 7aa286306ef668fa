SPECIFICATION FairSpec
CONSTANTS
  c1 = c1  c2 = c2  a1 = a1  a2 = a2  a3 = a3  e1 = e1  e2 = e2  t1 = t1
  Null = Null  NoOne = NoOne  NoRequest = NoRequest
  Callers = {c1, c2}
  Requests = {a1, a2}
  PurposeOf <- MCPurposeOf
  ReserveOf <- MCReserveOf
  Limits = {8}
  Bills = {3, 4}
  Timeout = 2
  Window = 0
  RateLimit = 1
  MonthLength = 3
  MaxTime = 2
  Allowances <- AnswersAllowances
INVARIANTS SentOnce HonestCharges OneAnswer
PROPERTIES SettledFinal CallsReturn
