SPECIFICATION Spec
CONSTANTS
  PerFunction = 5
  Libraries = {{"sqr"}, {"sqr", "x2"}}
  Leftovers = {0, 1}
  ServerName = name1
  ClientNames = {name1, name2}
INVARIANTS
  TakeTurns
PROPERTY
  ImplementsRpc
CHECK_DEADLOCK FALSE
