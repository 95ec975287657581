SPECIFICATION FairSpec
CONSTANTS
  Configs <- MCConfigs
  Batches = 1
  MaxCrash = 1
INVARIANTS NoLeftOver MismatchIsFailure LoadFigures
PROPERTIES BenchEnds
