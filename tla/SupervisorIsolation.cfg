\* Two inbound peers and nothing that can fail but the peers' own tasks.
SPECIFICATION Spec
CONSTANTS
  Conn = {c1, c2}
  NoConn = NoConn
  ListenEnabled = TRUE
  ConnectEnabled = FALSE
  PlaybackMayDie = FALSE
CHECK_DEADLOCK FALSE
PROPERTY PeerExitStaysLocal
