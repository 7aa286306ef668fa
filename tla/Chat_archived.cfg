SPECIFICATION Spec
CONSTANTS
  s1 = s1  s2 = s2  i1 = i1  i2 = i2  i3 = i3  r1 = r1  r2 = r2  m1 = m1  q1 = q1  d1 = d1
  None = None
  Syncs = {s1, s2}
  Items = {i1, i2, i3}
  Root = i1
  Repos = {r1, r2}
  Children <- MCChildren
  PathStatus <- MCStatus
  Models = {m1}
  Texts <- MCTexts
  MaxTokens = 2
  OverlapTokens = 1
  Requests = {q1}
  MaxTopK = 2
  Drafters = {d1}
  DraftTypes = {"issue"}
  Allowances <- ArchivedBudgets
SYMMETRY Symmetry
CHECK_DEADLOCK FALSE
PROPERTIES
  ArchivedNotRetrieved
