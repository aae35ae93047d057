CONSTANTS
  Workers = {"w1", "w2"}
  Deadline = 3
  Interval = 2
  MaxPosts = 1
  MaxDeaths = 1
  MaxClock = 5
SPECIFICATION Spec
INVARIANTS
  TimeoutIsFresh
  SignalIsHeard
PROPERTIES
  PausesAreKept
  WaitEnds
CHECK_DEADLOCK FALSE
