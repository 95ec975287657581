SPECIFICATION FairSpec
CONSTANTS
  c1 = c1 e1 = e1 e2 = e2 s1 = s1 s2 = s2
  Nobody = Nobody
  Blank = ""
  Name <- MCName
  Strip <- MCStrip
  Char = {"x", "u", "v", "w"}
  Call <- FanoutCalls
  Menu <- FanoutMenu
  PoolSize = 2
  Reading = {s1, s2}
PROPERTIES EditsAnswered
