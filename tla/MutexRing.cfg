SPECIFICATION Spec
CONSTANTS
  N = 2
  k = 3
INVARIANTS
  TypeOK
  NothingLost
  PrintsThreeN
PROPERTY
  Terminates
