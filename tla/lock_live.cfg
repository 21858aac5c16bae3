SPECIFICATION FairSpec
CONSTANTS
  a1 = a1
  a2 = a2
  a3 = a3
  p1 = p1
  p2 = p2
  p3 = p3
  Attempts = {a1, a2, a3}
  Pids = {p1, p2}
  PidOf <- TwoProcesses
  Wait = 1
  Grace = 2
  Faults = {"crash", "stall"}
  NoFile = NoFile
CHECK_DEADLOCK FALSE
PROPERTIES
  Settles
  AbandonedIsRecovered
