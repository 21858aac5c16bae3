SPECIFICATION Spec
CONSTANTS
  alice = alice
  bob = bob
  setup = setup
  player = player
  other = other
  Users = {alice, bob}
  Programs = {setup, player, other}
  UserOf <- MCUserOf
  Elevated = {setup, other}
  HKLM = HKLM
  MaxSecrets = 3
  MaxWrites = 3
  NoRoot = NoRoot
  NoProgram = NoProgram
INVARIANTS
  TypeOK
  RefusedOnlyWhenBreached
  EnrollsOnlyWhenNone
PROPERTIES
  ImplementsPairs
  CommitReplacesItsOwn
  WritesAreReadNext
CHECK_DEADLOCK FALSE
