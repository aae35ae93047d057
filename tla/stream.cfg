CONSTANTS
  Writers = {"worker", "request"}
  Budget = 2
  MaxEvents = 4
  MaxConnections = 3
SPECIFICATION Spec
INVARIANTS
  TheEndIsHeard
  NoReplay
PROPERTY
  StreamEnds
CHECK_DEADLOCK FALSE
