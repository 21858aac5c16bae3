SPECIFICATION Spec
CONSTANTS
  alice = alice
  bob = bob
  setup = setup
  player = player
  other = other
  Users = {alice}
  Programs = {setup, player}
  UserOf <- OneUserOf
  Elevated = {setup}
  HKLM = HKLM
  MaxSecrets = 1
  MaxWrites = 2
  NoRoot = NoRoot
  NoProgram = NoProgram
INVARIANTS
  PairIsOneGeneration
CHECK_DEADLOCK FALSE
