SPECIFICATION Spec
CONSTANTS
  t1 = t1
  t2 = t2
  t3 = t3
  Threads = {t1, t2}
  MaxCalls = 1
  MaxOthers = 0
  Nobody = Nobody
  Other = Other
CHECK_DEADLOCK FALSE
INVARIANTS
  QuietlyReabsorbed
