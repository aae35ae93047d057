CONSTANTS
  Requests = {"r1", "r2"}
  Names = {"a.mp3", "b.mp3"}
  MaxAudioBytes = 3
  FetchedBytes = 2
  MaxRestarts = 1
SPECIFICATION Spec
INVARIANTS
  AudioIsWhatWasAccepted
  PlaysWhatWasAsked
PROPERTY
  UploadEnds
CHECK_DEADLOCK FALSE
