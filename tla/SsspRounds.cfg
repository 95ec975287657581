SPECIFICATION VFairSpec
CONSTANTS
  V = 4
  Graphs <- MCGraphs
  Modes = {"frontier", "full"}
  Task = {0, 1}
  Home <- MCHome
  MaxLost = 1
INVARIANTS RoundExact EdgesRelaxed ResultShortest VerifyAgrees
PROPERTIES VerifyEnds
CHECK_DEADLOCK FALSE
