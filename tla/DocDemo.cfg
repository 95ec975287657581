SPECIFICATION DemoFairSpec
CONSTANTS
  create = create observe = observe e1 = e1 e2 = e2 get = get other = other
  Nobody = Nobody
  Blank = ""
  Name = {"", "a"}
  Strip <- MCStrip
  Char = {"x", "u", "v", "w"}
  Call <- MCCall
  Menu <- MCMenu
  PoolSize = 3
  Reading = {observe}
  Creator = create
  Observer = observe
  Editor <- MCEditor
  Getter = get
  Foreign = {other}
  Document = "a"
  Position = 1
INVARIANTS NoGhostSubscriber DemoServerPasses DemoStreamPasses
PROPERTIES SubscriberCatchesUp CancelledLeaves EditsAnswered
