CONSTANTS
  Workers = {w1}
  Ops = {"upload", "process", "cancel"}
  Faults = {}
  JobOutcomes = {"completed"}
  RecapOutcomes = {"ready"}
  RecapEnabled = TRUE
  Overlap = TRUE
  MaxRetries = 0
  MaxCrashes = 0
  MaxRedeliveries = 0
  MaxRequests = 3
  w1 = w1
  w2 = w2
SPECIFICATION Spec
PROPERTY
  CancelledIsFinal
CHECK_DEADLOCK FALSE
