SPECIFICATION FairSpec
CONSTANTS
  e1 = e1
  e2 = e2
  j1 = j1
  j2 = j2
  p1 = p1
  p2 = p2
  w1 = w1
  w2 = w2
  f1 = f1
  None = None
  Employees = {e1}
  Jobs = {j1}
  MaxBatches = 2
  MaxVersion = 1
  Foreign = {f1}
  MaxReceive = 2
  MaxMessages = 1
  Publishers = {p1}
  Workers = {w1, w2}
  Probe = {"available", "unavailable"}
  Faults = {"db", "commitLost", "send", "sendLost", "ack", "expiry", "shutdown", "crashWorker"}
  MaxFaults = 2
INVARIANTS
  Accounted
  AckedIsSettled
PROPERTIES
  Settles
