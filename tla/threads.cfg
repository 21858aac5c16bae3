SPECIFICATION FairSpec
CONSTANTS
  t1 = t1
  t2 = t2
  t3 = t3
  Threads = {t1, t2, t3}
  MaxCalls = 1
  MaxOthers = 2
  Nobody = Nobody
  Other = Other
CHECK_DEADLOCK FALSE
INVARIANTS
  TypeOK
  OneHwid
  KeyIsGone
  RefreshedUnlessRaced
PROPERTIES
  Returns
