CONSTANTS
  Calls <- MCCalls
  BatchSize = 2
  MaxChars = 4
  MaxOdd = 1
  MaxPatches = 1
  MaxLate = 1
SPECIFICATION Spec
INVARIANTS
  ScoresFindTheirSegments
  UnscoredIsNotNeutral
  IndexIsWholeOrAbsent
  ChunksAreCutWhereTheyMust
  MomentsSpanTheirText
  MetricsDescribeTheCall
PROPERTY
  CorrectionsStay
CHECK_DEADLOCK FALSE
