SPECIFICATION ProcessesSpec
CONSTANTS
  Stages = 3
  PipeInput <- MCPipeInput
  PipeSize = 4
  Counts = {0, 1, 4}
  Limits = {2, 5, 9}
  FirstNumbers = {1, 2, 3, 50, 97, 98, 99, 100, 104}
  THREADS_NUM = 3
  IntModulus = 4
  SumInputs <- MCSumInputs
  MAX_NUM_OF_WORDS = 4
  Texts = {0, 1, 3, 4, 5}
  Block = 2
  Exprs = {e1, e2, e3}
  Invalid = {e2}
  Long = {e3}
  MaxCalls = 3
INVARIANTS
  PipelineComposes
  ResultsAreWhole
PROPERTIES
  AllProceed
CHECK_DEADLOCK FALSE
