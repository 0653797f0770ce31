\* Three values of the play status; the session may be shut down at any time.
SPECIFICATION FairSpec
CONSTANTS
  Status = {Playing, Paused, Idle}
  RouteCapacity = 2
  MaxLines = 2
CHECK_DEADLOCK FALSE
INVARIANTS OneListener NoRepeats
PROPERTIES HeardStatusDelivered DeadListenerReplaced KillEndsMonitor
