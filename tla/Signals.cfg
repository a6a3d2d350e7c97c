SPECIFICATION SignalsSpec
CONSTANTS
  Number = 5
  MaxSent = 2
  Peers = {p1, p2}
  Starts = {3, 4}
  Patient = {p1}
  MaxPending = 2
INVARIANTS
  CountersAreRight
  TurnsAreKept
PROPERTIES
  SignalsAreHeard
CHECK_DEADLOCK FALSE
