SPECIFICATION Spec
CONSTANTS
  u1 = u1
  u2 = u2
  u3 = u3
  r1 = r1
  r2 = r2
  c1 = c1
  c2 = c2
  NoOne = NoOne
  Users = {u1, u2, u3}
  Legacy = {u1}
  Unchecked = {u2, u3}
  Requests = {r1, r2}
  Calls = {c1, c2}
  MaxRequests = 2
  MaxCalls = 3
  Faults = {"db", "commitLost", "crash"}
  MaxFaults = 1
SYMMETRY Symmetry
INVARIANTS
  TypeOK
  OneKindOfProfile
  AnswersAreTrue
  WritesAreNotified
PROPERTIES
  OnlyOwnersWrite
