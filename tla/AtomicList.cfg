SPECIFICATION Spec
CONSTANTS
  N = 2
  K = 3
  Sentinel = Sentinel
  Null = Null
  Garbage = Garbage
INVARIANTS
  TypeOK
  ListIntact
  NoUseAfterFree
  PrintsEveryValueOnce
PROPERTIES
  ImplementsAppendLog
  Terminates
