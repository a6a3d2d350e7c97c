SPECIFICATION Spec
CONSTANTS
  Procnum = 3
  Count = 5
  MayFail = TRUE
INVARIANTS
  TypeOK
  ResultComplete
  NoZombies
PROPERTY
  Returns
CHECK_DEADLOCK FALSE
