CONSTANTS
  Workers = {w1}
  Ops = {"upload", "process", "reanalyze", "cancel", "patch_speakers"}
  RecapEnabled = TRUE
  Overlap = FALSE
  Faults = {"PyAISubmitFailed", "PyAIAuthFailed", "PyAIJobTimeout", "BlobUploadFailed",
            "MLServiceUnavailable", "Unexpected", "ReplyLost", "EnqueueLost", "WorkerLost"}
  JobOutcomes = {"completed", "failed", "error"}
  RecapOutcomes = {"ready", "unavailable", "none"}
  MaxRetries = 1
  MaxCrashes = 1
  MaxRedeliveries = 1
  MaxRequests = 4
  w1 = w1
  w2 = w2
SPECIFICATION Spec
INVARIANTS
  NoStuckCall
  FinishedCallIsConsistent
PROPERTIES
  CancelledIsFinal
  ShippedIsLeftAlone
  KeepsLifecycle
CHECK_DEADLOCK FALSE
