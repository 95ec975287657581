SPECIFICATION Spec
CONSTANTS
  s1 = s1 s2 = s2 x1 = x1 r1 = r1 r2 = r2 r3 = r3 r4 = r4 r5 = r5
  Free = Free
  Record = {r1, r2, r3, r4, r5}
  Station <- MCStation
  W = 2
  QSize = 1
  Window = 1
  Dist = "station"
  Session = {s1, s2}
  Batches <- TwoSessions
  Query = {x1}
  Waiting = {}
  Detailed = {x1}
  Fickle = {}
  Mortal = {0}
INVARIANTS Conduit CompleteIsExact CompleteIsAcked NoHalfBatch SettledExact AheadByOneBatch ReportCoherent
CHECK_DEADLOCK FALSE
