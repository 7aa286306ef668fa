SPECIFICATION Spec
CONSTANTS
  a1 = a1  a2 = a2  r1 = r1  x1 = x1  x2 = x2  t1 = t1  t2 = t2
  None = None
  Apis = {a1, a2}
  Readers = {r1}
  Originals = {1}
  Keys = {1, 2}
  Contents = {x1}
  Texts = {t1, t2}
  MaxScope = 2
  MaxParts = 2
  Losing = {"reprocess", "index"}
  Budgets <- StoreBudgets
SYMMETRY Symmetry
INVARIANTS FilesKept RemovedIsGone UnavailableOnlyByFault IndexFaithful
PROPERTIES SuccessMeansSearchable
