SPECIFICATION FairSpec
CONSTANTS
  f1 = f1 f2 = f2
  NoFeed = NoFeed
  Name = {"doc", "exit"}
  Shared = {"doc"}
  EofName = "exit"
  Feed <- MCFeed
  MaxVersion = 1
  MaxCrash = 1
  MaxCommand = 4
INVARIANTS OneFeed CleanExit
PROPERTIES PrintsInOrder EntryGoes ClientEnds
CHECK_DEADLOCK FALSE
