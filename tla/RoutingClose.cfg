\* Two peers on two workers, queues of one message.
SPECIFICATION FairSpec
CONSTANTS
  Peer = {p1, p2}
  Workers = 2
  RouteCapacity = 1
  ControlCapacity = 1
  Reading = {p1, p2}
  MaxFrames = 3
  MaxReports = 1
CHECK_DEADLOCK FALSE
PROPERTY ClosedTasksEnd
