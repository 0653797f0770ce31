\* Two peers on one worker, queues of one message.
SPECIFICATION FairSpec
CONSTANTS
  Peer = {p1, p2}
  Workers = 1
  RouteCapacity = 1
  ControlCapacity = 1
  Reading = {p1}
  MaxFrames = 3
  MaxReports = 1
CHECK_DEADLOCK FALSE
INVARIANT CloseCanBeSent
PROPERTIES ShutdownCompletes ServedWhileWorkersFree
