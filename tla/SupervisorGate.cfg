\* Outbound connections only: the connector and the exits of earlier sessions.
SPECIFICATION Spec
CONSTANTS
  Conn = {c1, c2, c3}
  NoConn = NoConn
  ListenEnabled = FALSE
  ConnectEnabled = TRUE
  PlaybackMayDie = FALSE
INVARIANT AtMostOneOutbound
