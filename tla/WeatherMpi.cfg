SPECIFICATION FairSpec
CONSTANTS
  P = 3
  Chunk = 2
  Data = 3
  Inputs <- MCInputs
  Record <- MCRecord
  S = 0
  DenseLimit = 2
  LLong = 1000
  Absent <- MCAbsent
INVARIANTS SplitExact MpiReportExact
PROPERTIES MpiEnds
CHECK_DEADLOCK FALSE
