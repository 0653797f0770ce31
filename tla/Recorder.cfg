\* Up to two starts of arecord.
SPECIFICATION FairSpec
CONSTANTS
  Config = {a}
  FastConfig = FastConfig
  MaxStarts = 2
  Backlog = 2
  AudioCapacity = 2
  ArecordMayDie = TRUE
CHECK_DEADLOCK FALSE
INVARIANTS FormatKept StopStops
PROPERTIES ImplementsDevice CommandCompletes DepartureEndsRecording
