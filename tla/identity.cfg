SPECIFICATION Spec
CONSTANTS
  p1 = p1
  p2 = p2
  Apps = {p1, p2}
  Extra <- ManyLocks
  Installed <- NineSlots
  Drifting = {"cpu_id", "tpm_ek", "mac"}
  LegacyLocks = {{"slstore", "mac"}, {"slstore", "cpu_id"}}
  MaxKeys = 2
  MaxDrift = 1
  MaxTamper = 1
  NoApp = NoApp
  NoHelper = NoHelper
  NoSession = NoSession
  NoSnap = NoSnap
CHECK_DEADLOCK FALSE
INVARIANTS
  TypeOK
  OneIdentity
  RetiredStaysRetired
  HelperParses
  ToleratesTwo
  PendingIsHonest
PROPERTIES
  ImplementsPair
  LocksNeverWeaken
  LocksAbsorbNothing
