\* One file that comes and goes.
SPECIFICATION FairSpec
CONSTANTS
  MaxFiles = 2
  MaxLines = 1
  MaxEvents = 2
CHECK_DEADLOCK FALSE
PROPERTY FollowsPath
