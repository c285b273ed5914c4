SPECIFICATION Spec
CONSTANTS
  e1 = e1
  e2 = e2
  j1 = j1
  j2 = j2
  m1 = m1
  m2 = m2
  q1 = q1
  None = None
  Employees = {e1, e2}
  Jobs = {j1}
  Employers = {m1, m2}
  Queries = {q1}
  MaxBatches = 2
  MaxVersion = 1
  Limit = 1
SYMMETRY Symmetry
INVARIANTS
  TypeOK
  PageIsWholeOrGone
  CompletedHasASet
  ServedWasLinked
PROPERTIES
  NoneMeansNever
  WalksGoForward
