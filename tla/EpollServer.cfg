SPECIFICATION Spec
CONSTANTS
  Client = {c1, c2, c3}
  None = None
  MaxConnections = 2
  MaxFd = 1
  MaxSend = 2
  Capacity = 1
  MaySignal = TRUE
  MayHangUp = TRUE
INVARIANTS
  DescriptorIsOwn
  ClosesEverything
  EchoInOrder
PROPERTIES
  SignalOutsideWindowEnds
  EveryPieceReturns
CHECK_DEADLOCK FALSE
