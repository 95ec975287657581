SPECIFICATION Spec
CONSTANTS
  c1 = c1 e1 = e1 e2 = e2 s1 = s1 s2 = s2
  Nobody = Nobody
  Blank = ""
  Name <- MCName
  Strip <- MCStrip
  Char = {"x", "u", "v", "w"}
  Call <- ServiceCalls
  Menu <- ServiceMenu
  PoolSize = 3
  Reading = {s1}
INVARIANTS NoLostEdit CreatedOnce StreamExact
PROPERTIES ImplementsAbstract
