SPECIFICATION Spec
CONSTANTS
  p1 = p1
  p2 = p2
  Apps = {p1, p2}
  Extra <- DiskLock
  Installed <- NineSlots
  Drifting = {"monitor_edid"}
  LegacyLocks = {{"slstore", "gpu_id"}}
  MaxKeys = 1
  MaxDrift = 1
  MaxTamper = 0
  NoApp = NoApp
  NoHelper = NoHelper
  NoSession = NoSession
  NoSnap = NoSnap
CHECK_DEADLOCK FALSE
PROPERTIES
  MigrationAbsorbsNothing
