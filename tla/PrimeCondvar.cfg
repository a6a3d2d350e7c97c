SPECIFICATION PrimesSpec
CONSTANTS
  N = 3
  Totals = {2, 3, 5}
  Spurious = {FALSE, TRUE}
INVARIANTS
  PrintsPrimesInOrder
  ExclusiveAfterHandshake
  StopsOnlyWhenTold
PROPERTY
  CompletesAfterHandshake
CHECK_DEADLOCK FALSE
