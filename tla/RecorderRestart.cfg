\* Two different configs, and an arecord that runs until it is stopped.
SPECIFICATION Spec
CONSTANTS
  Config = {a, b}
  FastConfig = FastConfig
  MaxStarts = 2
  Backlog = 1
  AudioCapacity = 1
  ArecordMayDie = FALSE
CHECK_DEADLOCK FALSE
PROPERTY StartTakesEffect
