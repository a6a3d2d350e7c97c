SPECIFICATION Spec
CONSTANTS
  Client = {c1, c2}
  None = None
  Requests = {"readable", "unreadable", "missing", "malformed"}
  Blocks = 2
  Capacity = 2
  MaxFiles = 2
  MaxSignals = 2
  MayHangUp = TRUE
INVARIANTS
  AnsweredInFull
  AtMostOneLate
PROPERTY
  BusySignalEnds
