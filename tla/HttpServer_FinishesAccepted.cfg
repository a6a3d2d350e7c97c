SPECIFICATION Spec
CONSTANTS
  Client = {c1}
  None = None
  Requests = {"readable"}
  Blocks = 2
  Capacity = 2
  MaxFiles = 3
  MaxSignals = 1
  MayHangUp = FALSE
INVARIANT
  FinishesAccepted
