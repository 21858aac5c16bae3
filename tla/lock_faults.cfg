SPECIFICATION Spec
CONSTANTS
  a1 = a1
  a2 = a2
  a3 = a3
  p1 = p1
  p2 = p2
  p3 = p3
  Attempts = {a1, a2, a3}
  Pids = {p1, p2}
  PidOf <- TwoProcesses
  Wait = 1
  Grace = 4
  Faults = {"crash", "io", "stall", "share", "reuse"}
  NoFile = NoFile
CHECK_DEADLOCK FALSE
INVARIANTS
  TypeOK
  SafeUnlessBreached
  RecoversOnlyTheDead
  HolderIsOnDisk
PROPERTIES
  ImplementsMutex
  OnlyOwnerRemoves
