SPECIFICATION Spec
CONSTANTS
  e1 = e1
  e2 = e2
  j1 = j1
  j2 = j2
  p1 = p1
  p2 = p2
  w1 = w1
  w2 = w2
  f1 = f1
  None = None
  Employees = {e1}
  Jobs = {j1}
  MaxBatches = 3
  MaxVersion = 2
  Foreign = {}
  MaxReceive = 2
  MaxMessages = 1
  Publishers = {p1, p2}
  Workers = {w1, w2}
  Probe = {"available", "unavailable"}
  Faults = {"db", "commitLost", "createLost", "close", "send", "ack", "shutdown", "crashWorker", "crashPublisher"}
  MaxFaults = 1
SYMMETRY Symmetry
PROPERTIES
  TerminalIsFinal
  PrunesOnlyOlder
  CompletedSetIsFixed
  ImplementsLifecycle
  ImplementsTables
