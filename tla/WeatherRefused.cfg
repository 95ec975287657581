SPECIFICATION Spec
CONSTANTS
  s1 = s1 s2 = s2 x1 = x1 r1 = r1 r2 = r2 r3 = r3 r4 = r4 r5 = r5
  Free = Free
  Record = {r1, r2, r3, r4, r5}
  Station <- MCStation
  W = 2
  QSize = 1
  Window = 1
  Dist = "rr"
  Session = {s1, s2}
  Batches <- TwoSessions
  Query = {}
  Waiting = {}
  Detailed = {}
  Fickle = {s1}
  Mortal = {}
PROPERTIES RefusedWhileRunning
