SPECIFICATION VSpec
CONSTANTS
  W = 2
  Infinity = 1000
  MaxCut = 2
  Inputs <- MCInputs
INVARIANTS ReportExact OnlyBadBatchStops FinalExact BatchExact
