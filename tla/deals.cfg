SPECIFICATION Spec
CONSTANTS
  MaxCalls = 3
  Names = {"Acme", "ACME", "A_me"}
  Analyses <- MCAnalyses
  MaxRuns = 2
  MaxLosses = 1
INVARIANTS
  OneNameIsOneDeal
  ViewsShowOneRun
  DeltasCiteWhatTheyCompare
CHECK_DEADLOCK FALSE
