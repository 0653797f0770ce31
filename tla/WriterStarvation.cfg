\* A recorder that goes on for ever and a peer that reads what it is sent.
SPECIFICATION FairSpec
CONSTANTS
  ControlSender = {registry}
  AudioSender = {recorder}
  NoSender = NoSender
  ControlCapacity = 1
  AudioCapacity = 2
CHECK_DEADLOCK FALSE
PROPERTY ControlNotStarved
