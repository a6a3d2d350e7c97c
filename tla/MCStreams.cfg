SPECIFICATION Spec
CONSTANTS
  N = 3
  MaxWritten = 1
  Clients = {c1, c2}
  MaxPieces = 2
  MaxSignals = 2
  Request = 2
  Header = 2
  HttpBuffer = 3
  HttpBodies <- MCHttpBodies
  Garbage = 1
  MaxFile = 4
  Modulus = 8
  MaxErrors = 2
  Questions = 3
  MaxArrived = 1
  HeaderLen = 4
  BodyLengths = {0, 3}
  DecryptBuffer = 2
  Lines = {1, 2}
  Kinds = {"error:", "warning:", "note:"}
  MaxOutput = 4
  Capacity = 2
  SplitInputs <- MCSplitInputs
  Full = 2
  OldSizes = {0, 2}
INVARIANTS
  StreamsAreWhole
  AnsweredBeforeExit
PROPERTIES
  SignalEndsServer
  StreamsEnd
CHECK_DEADLOCK FALSE
