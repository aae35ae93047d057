CONSTANTS
  Requests = {"r1"}
  Names = {"a.mp3"}
  MaxAudioBytes = 2
  FetchedBytes = 1
  MaxRestarts = 0
SPECIFICATION Spec
INVARIANT NoEmptyAudioIsQueued
CHECK_DEADLOCK FALSE
