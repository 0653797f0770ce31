\* One start of an arecord that runs until it is stopped.
SPECIFICATION FairSpec
CONSTANTS
  Config = {a}
  FastConfig = FastConfig
  MaxStarts = 1
  Backlog = 1
  AudioCapacity = 1
  ArecordMayDie = FALSE
CHECK_DEADLOCK FALSE
PROPERTY LostPeerStopsRecording
