SPECIFICATION Spec
CONSTANTS
  r1 = r1
  r2 = r2
  Requests = {r1}
  Places = {1, 2}
  Budget = 2
  MaxObjects = 3
  MaxRequests = 1
  Faults = {}
  MaxFaults = 0
SYMMETRY Symmetry
INVARIANT
  LegalFormIsStored
