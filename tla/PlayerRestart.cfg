\* Two different configurations, and an aplay that runs until it is stopped.
SPECIFICATION Spec
CONSTANTS
  Config = {a, b}
  MaxStarts = 2
  QueueCapacity = 1
  AplayMayDie = FALSE
CHECK_DEADLOCK FALSE
PROPERTY StartTakesEffect
