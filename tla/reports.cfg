CONSTANTS
  Workers = {w1, w2}
  Readers = {"r1"}
  Analyses <- MCAnalyses
  MaxDeliveries = 3
  MaxPatches = 1
  MaxCrashes = 1
SPECIFICATION Spec
INVARIANTS
  RunsAreNumbered
  FinishedIsOfOneRun
  IdsAreTheInsights
  CountsReconcile
PROPERTY
  DeletedIsFinal
SYMMETRY Interchangeable
CHECK_DEADLOCK FALSE
