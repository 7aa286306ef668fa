SPECIFICATION Spec
CONSTANTS
  a1 = a1  a2 = a2  c1 = c1  c2 = c2  q1 = q1  q2 = q2  q3 = q3  q4 = q4  x1 = x1  x2 = x2
  NoOne = NoOne
  Apis = {a1, a2}
  Clients = {c1}
  Requests = {q1, q2}
  Contents = {x1}
  ClientOps = {"register", "replace", "reprocess", "index"}
  MaxRuns = 2
  PendingKeys = {1, 2, 3}
  QueueLimit = 2
  Budgets <- ProcessesBudgets
SYMMETRY Symmetry
INVARIANTS VersionsAccounted
PROPERTIES ResultsCurrent ImplementsQueue
