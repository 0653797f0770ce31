\* Two handles on the control queue (the registry and the router) and one on
\* the audio queue (the recorder). The writer may end, after which nothing moves.
SPECIFICATION FairSpec
CONSTANTS
  ControlSender = {registry, router}
  AudioSender = {recorder}
  NoSender = NoSender
  ControlCapacity = 2
  AudioCapacity = 2
CHECK_DEADLOCK FALSE
INVARIANTS NoLostWakeup ClearIsAnswerable
PROPERTIES ForcedCloseEnds ControlServed
