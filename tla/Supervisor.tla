----------------------------- MODULE Supervisor -----------------------------
(***************************************************************************)
(* The long-running control plane of the client: the listener and the      *)
(* connector that produce websocket connections, the event bus, the        *)
(* supervisor thread that attaches peers to a session, detaches them and   *)
(* ends the session, the reader and writer task of every peer with their   *)
(* exit waiters, the router thread of every session, and the gate          *)
(* (ConnectServerStatus) that holds the connector back while an outbound   *)
(* peer is connected.                                                      *)
(*                                                                         *)
(* Every handler of the supervisor is split where it blocks (the 200 ms    *)
(* grace period of handle_peer_departure, the joins of shutdown) and at    *)
(* each later write that another thread can see; between two such points   *)
(* nothing but the registry and the gate is shared, and the model keeps    *)
(* the order of the writes to both.                                        *)
(*                                                                         *)
(* A peer is named by its connection: allocate_peer_id hands each attached *)
(* connection a number of its own, which the code only compares.           *)
(*                                                                         *)
(* Left out: the listener's rebind loop, the error path of attach_peer     *)
(* (spawn_peer_tasks and install_ws_handle fail only when a close state or *)
(* a handle is already installed in an object made two lines earlier) and  *)
(* a failing send on the bus (its receiver lives as long as the program).  *)
(***************************************************************************)
EXTENDS Naturals, Sequences, FiniteSets

CONSTANTS
  Conn,             \* the websocket connections that may ever be established
  NoConn,           \* "no connection": the peer field of a router's exit
  ListenEnabled,    \* RunConfig::listen_enabled
  ConnectEnabled,   \* RunConfig::server_url is set
  PlaybackMayDie    \* whether aplay may die, which makes AudioPlayer::enqueue fail

ASSUME NoConnAssumption == NoConn \notin Conn
ASSUME ModeAssumption ==
  /\ ListenEnabled \in BOOLEAN
  /\ ConnectEnabled \in BOOLEAN
  /\ PlaybackMayDie \in BOOLEAN

VARIABLES
  connector,      \* what the connector thread is about to do
  pending,        \* the connection the connector has made and not handed over
  gate,           \* ConnectServerStatus::state: an outbound peer is connected
  bus,            \* the supervisor's mpsc channel of SupervisorEvents
  sup,            \* where the supervisor thread is in the handler it runs
  leaving,        \* the peer whose departure it is handling
  closedOutbound, \* SessionShutdownSummary: the session held an outbound peer
  session,        \* session_id of the active SessionRuntime, 0 for None
  routers,        \* state of the router thread of each session so far
  registry,       \* the session's PeerContextRegistry
  peerTasks,      \* SessionRuntime::peer_tasks
  source,         \* PeerSource of each connection, "none" before it exists
  sessionOf,      \* the session each connection was attached to
  task,           \* state of the reader and the writer task of each peer
  aborted         \* the peers whose WsPeerHandle::close has run

ingressVars == <<connector, pending, gate>>
supVars     == <<sup, leaving, closedOutbound>>
sessionVars == <<session, registry, peerTasks>>
peerVars    == <<source, sessionOf, task, aborted>>
vars == <<connector, pending, gate, bus, sup, leaving, closedOutbound, session, routers,
          registry, peerTasks, source, sessionOf, task, aborted>>

Half == {"reader", "writer"}

\* A task runs, ends, and is then reported by its exit waiter.
TaskState == {"idle", "running", "exited", "reported"}

\* "closing": SessionControl::Close waits in the router's channel.
RouterState == {"running", "closing", "failed", "reported"}

SupStep == {"recv", "detach", "detached", "shutdown", "join"}

ConnectorStep == {"wait", "connect", "mark", "send"}

Event == [kind: {"PendingPeer", "PeerTaskExited", "RouterExited"},
          peer: Conn \cup {NoConn}, session: Nat]

PendingPeer(c)    == [kind |-> "PendingPeer", peer |-> c, session |-> 0]
PeerTaskExited(c) == [kind |-> "PeerTaskExited", peer |-> c, session |-> sessionOf[c]]
RouterExited(s)   == [kind |-> "RouterExited", peer |-> NoConn, session |-> s]

Outbound(c) == source[c] = "outbound"

OutboundIn(S) == \E c \in S : Outbound(c)

\* The gate after a call of mark_disconnected that is made under a condition.
OpenGateIf(condition) == IF condition THEN FALSE ELSE gate

TypeOK ==
  /\ connector \in ConnectorStep
  /\ pending \in Conn \cup {NoConn}
  /\ gate \in BOOLEAN
  /\ bus \in Seq(Event)
  /\ sup \in SupStep
  /\ leaving \in Conn \cup {NoConn}
  /\ closedOutbound \in BOOLEAN
  /\ session \in Nat
  /\ routers \in Seq(RouterState)
  /\ registry \in SUBSET Conn
  /\ peerTasks \in SUBSET Conn
  /\ source \in [Conn -> {"none", "listener", "outbound"}]
  /\ sessionOf \in [Conn -> Nat]
  /\ task \in [Conn -> [Half -> TaskState]]
  /\ aborted \in SUBSET Conn
  /\ pending # NoConn <=> connector \in {"mark", "send"}
  /\ leaving # NoConn <=> sup \in {"detach", "detached"}
  /\ session \in 0..Len(routers)

Init ==
  /\ connector = "wait"
  /\ pending = NoConn
  /\ gate = FALSE
  /\ bus = <<>>
  /\ sup = "recv"
  /\ leaving = NoConn
  /\ closedOutbound = FALSE
  /\ session = 0
  /\ routers = <<>>
  /\ registry = {}
  /\ peerTasks = {}
  /\ source = [c \in Conn |-> "none"]
  /\ sessionOf = [c \in Conn |-> 0]
  /\ task = [c \in Conn |-> [h \in Half |-> "idle"]]
  /\ aborted = {}

-----------------------------------------------------------------------------
\* Ingress: the listener and the connector.

\* The listener completes a websocket handshake and hands the peer over.
ListenerAccepts(c) ==
  /\ ListenEnabled
  /\ source[c] = "none"
  /\ source' = [source EXCEPT ![c] = "listener"]
  /\ bus' = Append(bus, PendingPeer(c))
  /\ UNCHANGED <<ingressVars, supVars, sessionVars, routers, sessionOf, task, aborted>>

\* wait_until_inactive returns: the gate is read once, before connecting.
ConnectorPasses ==
  /\ ConnectEnabled
  /\ connector = "wait"
  /\ ~gate
  /\ connector' = "connect"
  /\ UNCHANGED <<pending, gate, bus, supVars, sessionVars, routers, peerVars>>

\* A failed attempt is retried from the top of the loop after a second.
ConnectFails ==
  /\ connector = "connect"
  /\ connector' = "wait"
  /\ UNCHANGED <<pending, gate, bus, supVars, sessionVars, routers, peerVars>>

ConnectSucceeds(c) ==
  /\ connector = "connect"
  /\ source[c] = "none"
  /\ source' = [source EXCEPT ![c] = "outbound"]
  /\ pending' = c
  /\ connector' = "mark"
  /\ UNCHANGED <<gate, bus, supVars, sessionVars, routers, sessionOf, task, aborted>>

\* mark_connected sets the flag and wakes nobody.
MarkConnected ==
  /\ connector = "mark"
  /\ gate' = TRUE
  /\ connector' = "send"
  /\ UNCHANGED <<pending, bus, supVars, sessionVars, routers, peerVars>>

SendPending ==
  /\ connector = "send"
  /\ bus' = Append(bus, PendingPeer(pending))
  /\ pending' = NoConn
  /\ connector' = "wait"
  /\ UNCHANGED <<gate, supVars, sessionVars, routers, peerVars>>

-----------------------------------------------------------------------------
\* The tasks of the peers and the router threads, each with its exit waiter.

\* The reader ends on a close frame, an undecodable frame, a socket error or
\* an end of stream; the writer on a write error, a close frame it sent or its
\* close signal; both when they are aborted.
TaskExits(c, h) ==
  /\ task[c][h] = "running"
  /\ task' = [task EXCEPT ![c][h] = "exited"]
  /\ UNCHANGED <<ingressVars, bus, supVars, sessionVars, routers, source, sessionOf, aborted>>

\* Mutant: only the reader has an exit waiter.
ReportReaderExitOnly(c, h) ==
  /\ task[c][h] = "exited"
  /\ task' = [task EXCEPT ![c][h] = "reported"]
  /\ bus' = IF h = "reader" THEN Append(bus, PeerTaskExited(c)) ELSE bus
  /\ UNCHANGED <<ingressVars, supVars, sessionVars, routers, source, sessionOf, aborted>>

ReportTaskExit(c, h) ==
  /\ task[c][h] = "exited"
  /\ task' = [task EXCEPT ![c][h] = "reported"]
  /\ bus' = Append(bus, PeerTaskExited(c))
  /\ UNCHANGED <<ingressVars, supVars, sessionVars, routers, source, sessionOf, aborted>>

\* The writer's queues lose their receivers with the writer, so a dispatch to a
\* peer whose writer has ended is an error, which ends the router. send_control
\* clones the senders and lets go of the registry before it sends, so a peer
\* that has left the registry in the meantime counts as well.
DispatchFails ==
  \E c \in Conn : sessionOf[c] = session /\ task[c]["writer"] \in {"exited", "reported"}

\* A play frame of a registered peer whose aplay has died is an error too.
PlayFails == PlaybackMayDie /\ registry # {}

RouterFails ==
  /\ session # 0
  /\ routers[session] = "running"
  /\ DispatchFails \/ PlayFails
  /\ routers' = [routers EXCEPT ![session] = "failed"]
  /\ UNCHANGED <<ingressVars, bus, supVars, sessionVars, peerVars>>

\* A router that has failed, or that reaches the Close in its channel, ends and
\* its waiter reports it.
ReportRouterExit(s) ==
  /\ routers[s] \in {"failed", "closing"}
  /\ routers' = [routers EXCEPT ![s] = "reported"]
  /\ bus' = Append(bus, RouterExited(s))
  /\ UNCHANGED <<ingressVars, supVars, sessionVars, peerVars>>

-----------------------------------------------------------------------------
\* The supervisor thread.

\* The next event on the bus, which the supervisor takes when it is idle.
Receives(kind) ==
  /\ sup = "recv"
  /\ bus # <<>>
  /\ Head(bus).kind = kind
  /\ bus' = Tail(bus)

\* Mutant: the session number of an exit is not compared.
AnySessionMatches == session # 0

\* The event names the session that is active now.
SessionMatches == session = Head(bus).session

\* Mutant: every peer gets a session of its own.
StartSessionPerPeer ==
  /\ Receives("PendingPeer")
  /\ LET c == Head(bus).peer
         s == Len(routers) + 1
     IN /\ session' = s
        /\ routers' = Append(routers, "running")
        /\ registry' = registry \cup {c}
        /\ peerTasks' = peerTasks \cup {c}
        /\ sessionOf' = [sessionOf EXCEPT ![c] = s]
        /\ task' = [task EXCEPT ![c] = [h \in Half |-> "running"]]
  /\ UNCHANGED <<ingressVars, supVars, source, aborted>>

\* The first peer creates the session; every peer is then attached to it.
HandlePendingPeer ==
  /\ Receives("PendingPeer")
  /\ LET c == Head(bus).peer
         s == IF session = 0 THEN Len(routers) + 1 ELSE session
     IN /\ session' = s
        /\ routers' = IF session = 0 THEN Append(routers, "running") ELSE routers
        /\ registry' = registry \cup {c}
        /\ peerTasks' = peerTasks \cup {c}
        /\ sessionOf' = [sessionOf EXCEPT ![c] = s]
        /\ task' = [task EXCEPT ![c] = [h \in Half |-> "running"]]
  /\ UNCHANGED <<ingressVars, supVars, source, aborted>>

\* The exit of a task whose session is over.
HandleStaleTaskExit ==
  /\ Receives("PeerTaskExited")
  /\ ~SessionMatches
  /\ gate' = OpenGateIf(Outbound(Head(bus).peer))
  /\ UNCHANGED <<connector, pending, supVars, sessionVars, routers, peerVars>>

\* The second exit of a peer that was detached after its first one.
HandleRepeatedTaskExit ==
  /\ Receives("PeerTaskExited")
  /\ SessionMatches
  /\ Head(bus).peer \notin peerTasks
  /\ UNCHANGED <<ingressVars, supVars, sessionVars, routers, peerVars>>

\* handle_peer_departure up to its grace period.
HandleTaskExit ==
  /\ Receives("PeerTaskExited")
  /\ SessionMatches
  /\ Head(bus).peer \in peerTasks
  /\ peerTasks' = peerTasks \ {Head(bus).peer}
  /\ leaving' = Head(bus).peer
  /\ sup' = "detach"
  /\ UNCHANGED <<ingressVars, closedOutbound, session, registry, routers, peerVars>>

\* Mutant: the departed peer is dropped without closing its handle.
RemovePeerWithoutClose ==
  /\ sup = "detach"
  /\ registry' = registry \ {leaving}
  /\ sup' = "detached"
  /\ UNCHANGED <<ingressVars, bus, leaving, closedOutbound, session, peerTasks, routers,
                 peerVars>>

\* The grace period is over: the peer leaves the registry and is force-closed.
RemovePeer ==
  /\ sup = "detach"
  /\ registry' = registry \ {leaving}
  /\ aborted' = aborted \cup {leaving}
  /\ sup' = "detached"
  /\ UNCHANGED <<ingressVars, bus, leaving, closedOutbound, session, peerTasks, routers,
                 source, sessionOf, task>>

\* Mutant: the gate is opened only when a session ends.
FinishDepartureKeepsGate ==
  /\ sup = "detached"
  /\ sup' = IF registry = {} THEN "shutdown" ELSE "recv"
  /\ leaving' = NoConn
  /\ UNCHANGED <<ingressVars, bus, closedOutbound, sessionVars, routers, peerVars>>

\* The gate opens for a departed outbound peer; the last peer ends the session.
FinishDeparture ==
  /\ sup = "detached"
  /\ gate' = OpenGateIf(Outbound(leaving))
  /\ sup' = IF registry = {} THEN "shutdown" ELSE "recv"
  /\ leaving' = NoConn
  /\ UNCHANGED <<connector, pending, bus, closedOutbound, sessionVars, routers, peerVars>>

HandleStaleRouterExit ==
  /\ Receives("RouterExited")
  /\ ~SessionMatches
  /\ UNCHANGED <<ingressVars, supVars, sessionVars, routers, peerVars>>

\* Mutant: the exit of the router is only logged.
LogRouterExit ==
  /\ Receives("RouterExited")
  /\ SessionMatches
  /\ UNCHANGED <<ingressVars, supVars, sessionVars, routers, peerVars>>

HandleRouterExit ==
  /\ Receives("RouterExited")
  /\ SessionMatches
  /\ sup' = "shutdown"
  /\ UNCHANGED <<ingressVars, leaving, closedOutbound, sessionVars, routers, peerVars>>

\* Mutant: the drained peers are not force-closed.
DrainWithoutClosing ==
  /\ sup = "shutdown"
  /\ closedOutbound' = OutboundIn(registry)
  /\ registry' = {}
  /\ peerTasks' = {}
  /\ routers' = [routers EXCEPT ![session] = IF @ = "running" THEN "closing" ELSE @]
  /\ sup' = "join"
  /\ UNCHANGED <<ingressVars, bus, leaving, session, peerVars>>

\* SessionRuntime::shutdown up to its joins: the outbound peers are counted,
\* the registry is drained, Close is queued for the router (a router that has
\* already ended has no receiver for it) and every peer is force-closed.
DrainSession ==
  /\ sup = "shutdown"
  /\ closedOutbound' = OutboundIn(registry)
  /\ registry' = {}
  /\ peerTasks' = {}
  /\ routers' = [routers EXCEPT ![session] = IF @ = "running" THEN "closing" ELSE @]
  /\ aborted' = aborted \cup registry
  /\ sup' = "join"
  /\ UNCHANGED <<ingressVars, bus, leaving, session, source, sessionOf, task>>

\* Mutant: the summary of the shutdown is dropped.
FinishShutdownKeepsGate ==
  /\ sup = "join"
  /\ closedOutbound' = FALSE
  /\ session' = 0
  /\ sup' = "recv"
  /\ UNCHANGED <<ingressVars, bus, leaving, registry, peerTasks, routers, peerVars>>

\* The monitors are joined and the supervisor forgets the session. The router
\* is not joined: it ends on its own.
FinishShutdown ==
  /\ sup = "join"
  /\ gate' = OpenGateIf(closedOutbound)
  /\ closedOutbound' = FALSE
  /\ session' = 0
  /\ sup' = "recv"
  /\ UNCHANGED <<connector, pending, bus, leaving, registry, peerTasks, routers, peerVars>>

-----------------------------------------------------------------------------
ConnectorNext ==
  \/ ConnectorPasses
  \/ ConnectFails
  \/ \E c \in Conn : ConnectSucceeds(c)
  \/ MarkConnected
  \/ SendPending

SupervisorNext ==
  \/ HandlePendingPeer
  \/ HandleStaleTaskExit
  \/ HandleRepeatedTaskExit
  \/ HandleTaskExit
  \/ RemovePeer
  \/ FinishDeparture
  \/ HandleStaleRouterExit
  \/ HandleRouterExit
  \/ DrainSession
  \/ FinishShutdown

RouterNext ==
  \/ RouterFails
  \/ \E s \in 1..Len(routers) : ReportRouterExit(s)

Next ==
  \/ \E c \in Conn : ListenerAccepts(c)
  \/ ConnectorNext
  \/ \E c \in Conn, h \in Half : TaskExits(c, h) \/ ReportTaskExit(c, h)
  \/ RouterNext
  \/ SupervisorNext

Spec == Init /\ [][Next]_vars

\* Threads that can take a step do take one: the supervisor never stops between
\* two events, the connector never stops between connecting and handing the peer
\* over, a router told to close ends, and the exit waiters report. Nothing makes a
\* peer arrive, a connect succeed or a healthy task end. An aborted task owes
\* nothing either: it ends when a worker of the runtime polls it, and the other
\* tasks may hold all the workers (Routing, ClosedTasksEnd).
Fairness ==
  /\ WF_vars(SupervisorNext)
  /\ WF_vars(ConnectorPasses)
  /\ WF_vars(MarkConnected)
  /\ WF_vars(SendPending)
  /\ \A c \in Conn, h \in Half : WF_vars(ReportTaskExit(c, h))
  /\ WF_vars(\E s \in 1..Len(routers) : ReportRouterExit(s))

FairSpec == Spec /\ Fairness

-----------------------------------------------------------------------------
\* What the control plane guarantees.

OnBus(e) == \E i \in 1..Len(bus) : bus[i] = e

\* The connector never waits for an event that cannot come: while the gate is
\* closed there is an outbound peer that is being handed over, waits on the
\* bus, is attached, or is being detached right before the gate is opened.
GateNotStuck ==
  gate => \/ connector = "send"
          \/ \E i \in 1..Len(bus) : bus[i].kind = "PendingPeer" /\ Outbound(bus[i].peer)
          \/ OutboundIn(registry)
          \/ sup = "detached" /\ Outbound(leaving)
          \/ sup = "join" /\ closedOutbound

\* Between two events a session exists exactly while peers are attached, and
\* the supervisor's own table names the same peers as the shared registry.
SessionHasPeers ==
  sup = "recv" => /\ session = 0 <=> registry = {}
                  /\ peerTasks = registry

\* No task outlives its peer unnoticed: a peer that was attached and is not in
\* the registry any more has been force-closed.
NoOrphanTasks ==
  \A c \in Conn : \A h \in Half : task[c][h] = "running" => c \in registry \cup aborted

\* No session without a router: when the router of the active session has
\* ended and its waiter has reported, the report still waits on the bus or the
\* session is already being shut down.
NoZombieSession ==
  session # 0 /\ routers[session] = "reported" =>
    OnBus(RouterExited(session)) \/ sup \in {"shutdown", "join"}

\* No peer without tasks: while a reported exit of an attached peer has not
\* detached it, a report of that peer still waits on the bus.
NoZombiePeer ==
  \A c \in peerTasks : \A h \in Half :
    task[c][h] = "reported" => OnBus(PeerTaskExited(c)) \/ sup \in {"shutdown", "join"}

\* The router of every session but the active one has been told to close or
\* has ended.
OldRoutersEnd ==
  \A s \in 1..Len(routers) : routers[s] = "running" => s = session

\* No exit is lost: whoever of the active session has ended and is still counted
\* in has a report on its way, in whatever order exits, arrivals and shutdowns
\* come.
NoExitLost == NoZombieSession /\ NoZombiePeer

\* What the active session does not hold has been told to end: the tasks of
\* peers that have left, and the routers of earlier sessions.
NothingLeftBehind == NoOrphanTasks /\ OldRoutersEnd

\* A peer is only ever detached for a cause of its own: one of its tasks has
\* ended, or the router of its session has. No exit of an earlier session and
\* no exit of another peer removes it.
DetachedForCause ==
  [][\A c \in registry \ registry' :
       \/ \E h \in Half : task[c][h] \in {"exited", "reported"}
       \/ routers[sessionOf[c]] \in {"failed", "reported"}]_vars

\* README: at any time at most one outbound peer is connected. The code lets
\* the connector through on the exit of a task of an earlier session, too.
Connected(c) ==
  /\ c \in registry
  /\ leaving # c
  /\ \A h \in Half : task[c][h] = "running"

AtMostOneOutbound ==
  \A c, d \in Conn :
    Outbound(c) /\ Outbound(d) /\ Connected(c) /\ Connected(d) => c = d

\* README: the exit of a reader or a writer closes that peer only. With nothing
\* else that could fail, no peer whose tasks both run would ever be detached.
PeerExitStaysLocal ==
  [][\A c \in registry \ registry' : \E h \in Half : task[c][h] # "running"]_vars

\* The sessions the supervisor runs are the ones the README describes. A
\* session counts as in service from its first attach until its registry is
\* empty again: the rest of its shutdown touches no peer.
InService == registry # {}

Lifecycle == INSTANCE SessionLifecycle WITH
  Peer     <- Conn,
  current  <- IF InService THEN session ELSE 0,
  started  <- Len(routers),
  members  <- registry,
  seen     <- {c \in Conn : task[c]["reader"] # "idle"},
  routerUp <- InService => routers[session] = "running"

ImplementsLifecycle == Lifecycle!Spec

\* When a task of an attached outbound peer ends, the connector is let through
\* again (README: an outbound disconnect opens the gate).
GateReopens ==
  \A c \in Conn :
    (c \in registry /\ Outbound(c) /\ \E h \in Half : task[c][h] = "exited") ~> ~gate

\* A peer one of whose tasks has ended leaves the registry and the supervisor's own
\* table, and the other task is aborted, whatever else is on the bus.
DepartureCompletes ==
  \A c \in Conn :
    (\E h \in Half : task[c][h] = "exited")
      ~> c \in aborted /\ c \notin registry \cup peerTasks

\* A router that fails ends its session.
RouterFailureEndsSession ==
  \A s \in 1..Cardinality(Conn) :
    (s \in DOMAIN routers /\ routers[s] = "failed") ~> session # s
=============================================================================
