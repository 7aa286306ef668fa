SPECIFICATION Spec
CONSTANTS
  c1 = c1  c2 = c2  a1 = a1  a2 = a2  a3 = a3  e1 = e1  e2 = e2  t1 = t1
  Null = Null  NoOne = NoOne  NoRequest = NoRequest
  Callers = {c1, c2}
  Requests = {t1, e1, e2}
  PurposeOf <- MCPurposeOf
  ReserveOf <- MCReserveOf
  Limits = {4, 5}
  Bills = {2}
  Timeout = 1
  Window = 1
  RateLimit = 2
  MonthLength = 1
  MaxTime = 1
  Allowances <- SettingsAllowances
SYMMETRY Symmetry
INVARIANTS BudgetKept
PROPERTIES ImplementsLedger AdmittedUnderPolicy
