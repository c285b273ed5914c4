SPECIFICATION Spec
CONSTANTS
  r1 = r1
  r2 = r2
  n1 = n1
  n2 = n2
  None = None
  New = New
  Requests = {r1, r2}
  Names = {n1, n2}
  MaxObjects = 4
  MaxRequests = 3
  Faults = {}
  MaxFaults = 0
SYMMETRY Symmetry
PROPERTY
  KeptStaysActive
