SPECIFICATION FairSpec
CONSTANTS
  r1 = r1
  r2 = r2
  r3 = r3
  Requests = {r1, r2}
  Items = {1, 2}
  MaxWrites = 3
  Faults = {"db", "commitLost", "check", "publish", "crash"}
  MaxFaults = 1
INVARIANTS
  TypeOK
  ShownSetsAreWhole
  LatestIsAnnounced
PROPERTIES
  CompleteStaysComplete
  CompletionIsAnnounced
