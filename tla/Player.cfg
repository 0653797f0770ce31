\* Up to three starts of aplay, a queue of two chunks.
SPECIFICATION FairSpec
CONSTANTS
  Config = {a, b}
  MaxStarts = 3
  QueueCapacity = 2
  AplayMayDie = TRUE
CHECK_DEADLOCK FALSE
INVARIANTS StopPlayStops QuietDeparture
PROPERTIES ImplementsDevice RequestCompletes QuietStopReturns LostPeerFallsSilent
