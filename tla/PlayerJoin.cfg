\* One start of aplay that meets the stop of the supervisor.
SPECIFICATION FairSpec
CONSTANTS
  Config = {a, b}
  MaxStarts = 1
  QueueCapacity = 1
  AplayMayDie = FALSE
CHECK_DEADLOCK FALSE
PROPERTY SupervisorStopReturns
