SPECIFICATION Spec
CONSTANTS
  r1 = r1
  r2 = r2
  Requests = {r1, r2}
  Places = {1, 2}
  Budget = 2
  MaxObjects = 4
  MaxRequests = 3
  Faults = {"upload", "db", "commitLost", "delete", "crash"}
  MaxFaults = 2
SYMMETRY Symmetry
INVARIANTS
  TypeOK
  DocumentsAreStored
  DocumentsMatch
  FailuresLeaveNothing
