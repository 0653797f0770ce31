\* Two files that may each be truncated, moved away, moved back and replaced.
SPECIFICATION FairSpec
CONSTANTS
  MaxFiles = 2
  MaxLines = 2
  MaxEvents = 2
CHECK_DEADLOCK FALSE
INVARIANTS OnceInOrder
PROPERTIES HeardLineDelivered TruncationNoticed AppearanceNoticed CloseEndsMonitor
