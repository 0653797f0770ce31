SPECIFICATION FairSpec
CONSTANTS
  Conn = {c1, c2}
  NoConn = NoConn
  ListenEnabled = TRUE
  ConnectEnabled = TRUE
  PlaybackMayDie = TRUE
INVARIANTS GateNotStuck NoExitLost NothingLeftBehind
PROPERTIES ImplementsLifecycle DetachedForCause GateReopens DepartureCompletes RouterFailureEndsSession
