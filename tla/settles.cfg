CONSTANTS
  Workers = {w1}
  Ops = {"upload", "process", "reanalyze", "patch_speakers"}
  RecapEnabled = TRUE
  Overlap = FALSE
  Faults = {"PyAISubmitFailed", "PyAIJobTimeout", "BlobUploadFailed",
            "MLServiceUnavailable", "Unexpected", "EnqueueLost"}
  JobOutcomes = {"completed", "failed"}
  RecapOutcomes = {"ready", "none"}
  MaxRetries = 2
  MaxCrashes = 1
  MaxRedeliveries = 0
  MaxRequests = 3
  w1 = w1
  w2 = w2
SPECIFICATION Spec
PROPERTIES
  CallSettles
  WorkEnds
CHECK_DEADLOCK FALSE
