CONSTANTS
  Workers = {w1, w2}
  Ops = {"upload", "process", "reanalyze", "cancel"}
  RecapEnabled = TRUE
  Overlap = TRUE
  Faults = {"PyAIJobTimeout"}
  JobOutcomes = {"completed", "failed"}
  RecapOutcomes = {"ready"}
  MaxRetries = 1
  MaxCrashes = 0
  MaxRedeliveries = 1
  MaxRequests = 3
  w1 = w1
  w2 = w2
SPECIFICATION Spec
SYMMETRY WorkerSymmetry
INVARIANTS
  ShippedIsComplete
CHECK_DEADLOCK FALSE
