SPECIFICATION Spec
CONSTANTS
  P = 10007
  Limbs = 2
  Names = {1, 2, 3, 4, 5, 6, 7, 8, 9}
  Values = {1, 2}
  Installed = {{1, 2, 3, 4, 5, 6, 7, 8, 9}, {1, 2, 4, 5, 6, 7, 8, 9}}
  Drifting = {2, 3, 4, 5, 9}
  Locks = {{9}, {4, 9}}
  Hash <- MCHash
  Random <- MCRandom
  MaxDraws = 26
  MaxChanges = 3
  NoHelper = NoHelper
  NoResult = NoResult
INVARIANTS
  TypeOK
  MatchesReference
  KeyComesBack
  BlameIsDeserved
  ThresholdIsExact
CHECK_DEADLOCK FALSE
