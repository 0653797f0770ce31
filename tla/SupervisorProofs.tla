-------------------------- MODULE SupervisorProofs --------------------------
(***************************************************************************)
(* Proofs about Supervisor for every set of connections and every mode.    *)
(***************************************************************************)
EXTENDS Supervisor, TLAPS

-----------------------------------------------------------------------------
\* The inductive invariant behind the safety properties, in named parts.

\* The connector holds a fresh outbound connection from connect to send.
PendingIsFresh ==
  pending # NoConn =>
    /\ Outbound(pending)
    /\ task[pending] = [h \in Half |-> "idle"]
    /\ \A i \in 1..Len(bus) : bus[i].kind = "PendingPeer" => bus[i].peer # pending

\* A connection waits on the bus at most once, with its tasks not started.
QueuedPeersAreFresh ==
  \A i \in 1..Len(bus) : bus[i].kind = "PendingPeer" =>
    /\ bus[i].peer \in Conn
    /\ bus[i].session = 0
    /\ source[bus[i].peer] # "none"
    /\ task[bus[i].peer] = [h \in Half |-> "idle"]
    /\ \A j \in 1..Len(bus) : bus[j].kind = "PendingPeer" /\ bus[j].peer = bus[i].peer => j = i

\* An exit on the bus is the exit of a task that has been reported.
QueuedExitsAreReal ==
  \A i \in 1..Len(bus) :
    /\ bus[i].kind = "PeerTaskExited" =>
         /\ bus[i].peer \in Conn
         /\ bus[i].session = sessionOf[bus[i].peer]
         /\ \E h \in Half : task[bus[i].peer][h] = "reported"
    /\ bus[i].kind = "RouterExited" =>
         /\ bus[i].peer = NoConn
         /\ bus[i].session \in 1..Len(routers)
         /\ routers[bus[i].session] = "reported"

\* A connection that does not exist yet has no trace.
NoTraceBefore ==
  \A c \in Conn : source[c] = "none" =>
    /\ task[c] = [h \in Half |-> "idle"]
    /\ pending # c

\* What the supervisor's place in its handler says about the session.
SupervisorPlace ==
  /\ sup = "recv"     => (session = 0 <=> registry = {}) /\ peerTasks = registry
  /\ sup = "detach"   => /\ session # 0
                         /\ leaving \in registry
                         /\ peerTasks = registry \ {leaving}
                         /\ \E h \in Half : task[leaving][h] \in {"exited", "reported"}
  /\ sup = "detached" => session # 0 /\ peerTasks = registry
  /\ sup = "shutdown" => /\ session # 0
                         /\ peerTasks = registry
                         /\ registry = {} \/ routers[session] = "reported"
  /\ sup = "join"     => session # 0 /\ registry = {} /\ peerTasks = {}
                         /\ routers[session] # "running"

\* The members of the registry were attached to the active session.
MembersOfSession ==
  \A c \in registry : sessionOf[c] = session /\ task[c]["reader"] # "idle"

IInv ==
  /\ TypeOK
  /\ PendingIsFresh
  /\ QueuedPeersAreFresh
  /\ QueuedExitsAreReal
  /\ NoTraceBefore
  /\ SupervisorPlace
  /\ MembersOfSession
  /\ GateNotStuck
  /\ NoOrphanTasks
  /\ NoZombieSession
  /\ NoZombiePeer
  /\ OldRoutersEnd

-----------------------------------------------------------------------------
(***************************************************************************)
(* Type correctness.                                                       *)
(***************************************************************************)

\* The events the threads build are events of the bus.
LEMMA EventTypes ==
  ASSUME TypeOK
  PROVE  /\ \A c \in Conn : PendingPeer(c) \in Event /\ PeerTaskExited(c) \in Event
         /\ \A s \in Nat : RouterExited(s) \in Event
BY DEF TypeOK, Event, PendingPeer, PeerTaskExited, RouterExited

\* What the supervisor finds when it takes an event off the bus.
LEMMA ReceivedEvent ==
  ASSUME TypeOK, NEW k, Receives(k)
  PROVE  /\ sup = "recv"
         /\ Head(bus) \in Event
         /\ Head(bus) = bus[1]
         /\ Head(bus).kind = k
         /\ bus' = Tail(bus)
         /\ bus' \in Seq(Event)
         /\ Len(bus) \in Nat \ {0}
         /\ Len(bus') = Len(bus) - 1
         /\ \A i \in 1..Len(bus') : bus'[i] = bus[i + 1]
BY DEF TypeOK, Receives

\* The program starts in a well-typed state.
LEMMA TypeInit == Init => TypeOK
<1> SUFFICES ASSUME Init PROVE TypeOK
  OBVIOUS
<1>1. bus \in Seq(Event) /\ routers \in Seq(RouterState) /\ session \in 0..Len(routers)
  BY DEF Init
<1> QED
  BY <1>1 DEF Init, TypeOK, ConnectorStep, SupStep, TaskState

\* The listener and the connector keep the types.
LEMMA TypeIngress ==
  ASSUME TypeOK, (\E c \in Conn : ListenerAccepts(c)) \/ ConnectorNext
  PROVE  TypeOK'
<1>1. ASSUME NEW c \in Conn, ListenerAccepts(c) PROVE TypeOK'
  BY <1>1, EventTypes, NoConnAssumption
     DEF ListenerAccepts, TypeOK, ingressVars, supVars, sessionVars
<1>2. CASE ConnectorPasses
  BY <1>2 DEF ConnectorPasses, TypeOK, ConnectorStep, supVars, sessionVars, peerVars
<1>3. CASE ConnectFails
  BY <1>3 DEF ConnectFails, TypeOK, ConnectorStep, supVars, sessionVars, peerVars
<1>4. ASSUME NEW c \in Conn, ConnectSucceeds(c) PROVE TypeOK'
  BY <1>4, NoConnAssumption
     DEF ConnectSucceeds, TypeOK, ConnectorStep, supVars, sessionVars
<1>5. CASE MarkConnected
  BY <1>5 DEF MarkConnected, TypeOK, ConnectorStep, supVars, sessionVars, peerVars
<1>6. CASE SendPending
  BY <1>6, EventTypes, NoConnAssumption
     DEF SendPending, TypeOK, ConnectorStep, supVars, sessionVars, peerVars
<1> QED
  BY <1>1, <1>2, <1>3, <1>4, <1>5, <1>6 DEF ConnectorNext

\* The peers' tasks, the routers and their exit waiters keep the types.
LEMMA TypeThreads ==
  ASSUME TypeOK,
         (\E c \in Conn, h \in Half : TaskExits(c, h) \/ ReportTaskExit(c, h)) \/ RouterNext
  PROVE  TypeOK'
<1>1. ASSUME NEW c \in Conn, NEW h \in Half, TaskExits(c, h) PROVE TypeOK'
  BY <1>1 DEF TaskExits, TypeOK, TaskState, ingressVars, supVars, sessionVars
<1>2. ASSUME NEW c \in Conn, NEW h \in Half, ReportTaskExit(c, h) PROVE TypeOK'
  BY <1>2, EventTypes
     DEF ReportTaskExit, TypeOK, TaskState, ingressVars, supVars, sessionVars
<1>3. CASE RouterFails
  BY <1>3 DEF RouterFails, TypeOK, RouterState, ingressVars, supVars, sessionVars, peerVars
<1>4. ASSUME NEW s \in 1..Len(routers), ReportRouterExit(s) PROVE TypeOK'
  BY <1>4, EventTypes
     DEF ReportRouterExit, TypeOK, RouterState, ingressVars, supVars, sessionVars, peerVars
<1> QED
  BY <1>1, <1>2, <1>3, <1>4 DEF RouterNext

\* The supervisor keeps the types: the peer it attaches is a connection, and
\* the router it tells to close is the one of an existing session.
LEMMA TypeSupervisor ==
  ASSUME TypeOK, QueuedPeersAreFresh, SupervisorPlace, SupervisorNext
  PROVE  TypeOK'
<1> USE DEF ingressVars, supVars, sessionVars, peerVars
<1>1. CASE HandlePendingPeer
  <2>1. Receives("PendingPeer")
    BY <1>1 DEF HandlePendingPeer
  <2>2. Head(bus).peer \in Conn
    BY <2>1, ReceivedEvent DEF QueuedPeersAreFresh
  <2> QED
    BY <1>1, <2>1, <2>2, ReceivedEvent DEF HandlePendingPeer, TypeOK, RouterState, TaskState
<1>2. CASE HandleStaleTaskExit
  BY <1>2, ReceivedEvent DEF HandleStaleTaskExit, TypeOK, OpenGateIf
<1>3. CASE HandleRepeatedTaskExit
  BY <1>3, ReceivedEvent DEF HandleRepeatedTaskExit, TypeOK
<1>4. CASE HandleTaskExit
  BY <1>4, ReceivedEvent, NoConnAssumption DEF HandleTaskExit, TypeOK, SupStep
<1>5. CASE RemovePeer
  BY <1>5 DEF RemovePeer, TypeOK, SupStep
<1>6. CASE FinishDeparture
  BY <1>6 DEF FinishDeparture, TypeOK, SupStep, OpenGateIf
<1>7. CASE HandleStaleRouterExit
  BY <1>7, ReceivedEvent DEF HandleStaleRouterExit, TypeOK
<1>8. CASE HandleRouterExit
  BY <1>8, ReceivedEvent DEF HandleRouterExit, TypeOK, SupStep
<1>9. CASE DrainSession
  <2>1. closedOutbound' \in BOOLEAN
    BY <1>9 DEF DrainSession, OutboundIn
  <2>2. session \in 1..Len(routers)
    BY <1>9 DEF DrainSession, TypeOK, SupervisorPlace
  <2>3. routers' \in Seq(RouterState) /\ Len(routers') = Len(routers)
    BY <1>9, <2>2 DEF DrainSession, TypeOK, RouterState
  <2> QED
    BY <1>9, <2>1, <2>3 DEF DrainSession, TypeOK, SupStep
<1>10. CASE FinishShutdown
  <2>1. gate' \in BOOLEAN
    BY <1>10 DEF FinishShutdown, TypeOK, OpenGateIf
  <2>2. session' \in 0..Len(routers)
    BY <1>10 DEF FinishShutdown, TypeOK
  <2> QED
    BY <1>10, <2>1, <2>2 DEF FinishShutdown, TypeOK, SupStep
<1> QED
  BY <1>1, <1>2, <1>3, <1>4, <1>5, <1>6, <1>7, <1>8, <1>9, <1>10 DEF SupervisorNext

-----------------------------------------------------------------------------
(***************************************************************************)
(* The bus. Every step leaves it alone, appends one event of a known kind, *)
(* or takes its first event while the supervisor is idle.                  *)
(***************************************************************************)

\* The steps that put an event on the bus.
LEMMA AppendedEvent ==
  ASSUME TypeOK, NEW e \in Event, bus' = Append(bus, e)
  PROVE  /\ Len(bus) \in Nat
         /\ Len(bus') = Len(bus) + 1
         /\ \A i \in 1..Len(bus) : bus'[i] = bus[i]
         /\ bus'[Len(bus) + 1] = e
         /\ \A i \in 1..Len(bus') : i \in 1..Len(bus) \/ i = Len(bus) + 1
BY DEF TypeOK

\* An event that waits stays on the bus when another one is appended or taken.
LEMMA StaysOnBus ==
  ASSUME TypeOK, NEW e \in Event, OnBus(e),
         \/ \E a \in Event : bus' = Append(bus, a)
         \/ bus # <<>> /\ bus' = Tail(bus) /\ Head(bus) # e
         \/ bus' = bus
  PROVE  \E i \in 1..Len(bus') : bus'[i] = e
<1>1. PICK i \in 1..Len(bus) : bus[i] = e
  BY DEF OnBus
<1>2. CASE \E a \in Event : bus' = Append(bus, a)
  <2>1. PICK a \in Event : bus' = Append(bus, a)
    BY <1>2
  <2>2. i \in 1..Len(bus') /\ bus'[i] = e
    BY <1>1, <2>1, AppendedEvent
  <2> QED
    BY <2>2
<1>3. CASE bus # <<>> /\ bus' = Tail(bus) /\ Head(bus) # e
  <2>1. i # 1
    BY <1>1, <1>3
  <2>2. i - 1 \in 1..Len(bus') /\ bus'[i - 1] = e
    BY <1>1, <1>3, <2>1 DEF TypeOK
  <2> QED
    BY <2>2
<1>4. CASE bus' = bus
  BY <1>1, <1>4
<1> QED
  BY <1>2, <1>3, <1>4

-----------------------------------------------------------------------------
(***************************************************************************)
(* Connections are fresh until they are attached.                          *)
(***************************************************************************)

\* The connection the connector holds stays fresh until it is handed over.
LEMMA PendingStep ==
  ASSUME IInv, Next
  PROVE  PendingIsFresh'
<1> USE DEF ingressVars, supVars, sessionVars, peerVars
<1>t. TypeOK /\ PendingIsFresh /\ QueuedPeersAreFresh /\ NoTraceBefore
  BY DEF IInv
<1>1. ASSUME NEW c \in Conn, ListenerAccepts(c) PROVE PendingIsFresh'
  <2>1. pending # c /\ PendingPeer(c) \in Event /\ bus' = Append(bus, PendingPeer(c))
    BY <1>1, <1>t, EventTypes DEF ListenerAccepts, NoTraceBefore
  <2> QED
    BY <1>1, <1>t, <2>1, AppendedEvent
       DEF ListenerAccepts, PendingIsFresh, PendingPeer, Outbound, TypeOK
<1>2. ASSUME NEW c \in Conn, ConnectSucceeds(c) PROVE PendingIsFresh'
  BY <1>2, <1>t
     DEF ConnectSucceeds, PendingIsFresh, NoTraceBefore, QueuedPeersAreFresh, Outbound, TypeOK
<1>3. CASE SendPending
  BY <1>3 DEF SendPending, PendingIsFresh
<1>4. CASE ConnectorPasses \/ ConnectFails \/ MarkConnected
  BY <1>4, <1>t DEF ConnectorPasses, ConnectFails, MarkConnected, PendingIsFresh, Outbound
<1>5. ASSUME NEW c \in Conn, NEW h \in Half, TaskExits(c, h) PROVE PendingIsFresh'
  <2>1. pending # NoConn => pending # c
    BY <1>5, <1>t DEF TaskExits, PendingIsFresh
  <2> QED
    BY <1>5, <1>t, <2>1 DEF TaskExits, PendingIsFresh, Outbound, TypeOK
<1>6. ASSUME NEW c \in Conn, NEW h \in Half, ReportTaskExit(c, h) PROVE PendingIsFresh'
  <2>1. pending # NoConn => pending # c
    BY <1>6, <1>t DEF ReportTaskExit, PendingIsFresh
  <2>2. PeerTaskExited(c) \in Event /\ bus' = Append(bus, PeerTaskExited(c))
    BY <1>6, <1>t, EventTypes DEF ReportTaskExit
  <2> QED
    BY <1>6, <1>t, <2>1, <2>2, AppendedEvent
       DEF ReportTaskExit, PendingIsFresh, PeerTaskExited, Outbound, TypeOK
<1>7. CASE RouterFails
  BY <1>7, <1>t DEF RouterFails, PendingIsFresh, Outbound
<1>8. ASSUME NEW s \in 1..Len(routers), ReportRouterExit(s) PROVE PendingIsFresh'
  <2>1. RouterExited(s) \in Event /\ bus' = Append(bus, RouterExited(s))
    BY <1>8, <1>t, EventTypes DEF ReportRouterExit
  <2> QED
    BY <1>8, <1>t, <2>1, AppendedEvent
       DEF ReportRouterExit, PendingIsFresh, RouterExited, Outbound, TypeOK
<1>9. CASE HandlePendingPeer
  <2>1. Receives("PendingPeer")
    BY <1>9 DEF HandlePendingPeer
  <2>2. pending # NoConn => pending # Head(bus).peer
    BY <2>1, <1>t, ReceivedEvent DEF PendingIsFresh
  <2>3. pending # NoConn => task'[pending] = task[pending]
    BY <1>9, <1>t, <2>2 DEF HandlePendingPeer, TypeOK
  <2>4. pending' = pending /\ source' = source
    BY <1>9 DEF HandlePendingPeer
  <2>5. pending # NoConn =>
          \A i \in 1..Len(bus') : bus'[i].kind = "PendingPeer" => bus'[i].peer # pending
    BY <1>t, <2>1, ReceivedEvent DEF PendingIsFresh
  <2> QED
    BY <1>t, <2>3, <2>4, <2>5 DEF PendingIsFresh, Outbound
<1>10. CASE HandleStaleTaskExit \/ HandleRepeatedTaskExit \/ HandleTaskExit
  <2>1. Receives("PeerTaskExited")
    BY <1>10 DEF HandleStaleTaskExit, HandleRepeatedTaskExit, HandleTaskExit
  <2> QED
    BY <1>10, <1>t, <2>1, ReceivedEvent
       DEF HandleStaleTaskExit, HandleRepeatedTaskExit, HandleTaskExit, PendingIsFresh, Outbound
<1>11. CASE HandleStaleRouterExit \/ HandleRouterExit
  <2>1. Receives("RouterExited")
    BY <1>11 DEF HandleStaleRouterExit, HandleRouterExit
  <2> QED
    BY <1>11, <1>t, <2>1, ReceivedEvent
       DEF HandleStaleRouterExit, HandleRouterExit, PendingIsFresh, Outbound
<1>12. CASE RemovePeer \/ FinishDeparture \/ DrainSession \/ FinishShutdown
  BY <1>12, <1>t
     DEF RemovePeer, FinishDeparture, DrainSession, FinishShutdown, PendingIsFresh, Outbound
<1> QED
  BY <1>1, <1>2, <1>3, <1>4, <1>5, <1>6, <1>7, <1>8, <1>9, <1>10, <1>11, <1>12
     DEF Next, ConnectorNext, RouterNext, SupervisorNext

\* A connection on the bus stays there once, with its tasks not started.
LEMMA QueuedPeersStep ==
  ASSUME IInv, Next
  PROVE  QueuedPeersAreFresh'
<1> USE DEF ingressVars, supVars, sessionVars, peerVars
<1>t. TypeOK /\ PendingIsFresh /\ QueuedPeersAreFresh /\ NoTraceBefore
  BY DEF IInv
<1>1. ASSUME NEW c \in Conn, ListenerAccepts(c) PROVE QueuedPeersAreFresh'
  <2>1. PendingPeer(c) \in Event /\ bus' = Append(bus, PendingPeer(c))
    BY <1>1, <1>t, EventTypes DEF ListenerAccepts
  <2>2. \A i \in 1..Len(bus) : bus[i].kind = "PendingPeer" => bus[i].peer # c
    BY <1>1, <1>t DEF ListenerAccepts, QueuedPeersAreFresh
  <2>3. task[c] = [h \in Half |-> "idle"] /\ source'[c] = "listener" /\ task' = task
    BY <1>1, <1>t DEF ListenerAccepts, NoTraceBefore, TypeOK
  <2>4. \A d \in Conn : d # c => source'[d] = source[d]
    BY <1>1, <1>t DEF ListenerAccepts, TypeOK
  <2> QED
    BY <1>t, <2>1, <2>2, <2>3, <2>4, AppendedEvent DEF QueuedPeersAreFresh, PendingPeer
<1>2. ASSUME NEW c \in Conn, ConnectSucceeds(c) PROVE QueuedPeersAreFresh'
  <2>1. \A i \in 1..Len(bus) : bus[i].kind = "PendingPeer" => bus[i].peer # c
    BY <1>2, <1>t DEF ConnectSucceeds, QueuedPeersAreFresh
  <2> QED
    BY <1>2, <1>t, <2>1 DEF ConnectSucceeds, QueuedPeersAreFresh, TypeOK
<1>3. CASE SendPending
  <2>1. pending \in Conn
    BY <1>3, <1>t DEF SendPending, TypeOK
  <2>2. PendingPeer(pending) \in Event /\ bus' = Append(bus, PendingPeer(pending))
    BY <1>3, <1>t, <2>1, EventTypes DEF SendPending
  <2>3. /\ task[pending] = [h \in Half |-> "idle"]
        /\ source[pending] # "none"
        /\ \A i \in 1..Len(bus) : bus[i].kind = "PendingPeer" => bus[i].peer # pending
    BY <1>t, <2>1, NoConnAssumption DEF PendingIsFresh, Outbound
  <2>4. task' = task /\ source' = source
    BY <1>3 DEF SendPending
  <2> QED
    BY <1>t, <2>1, <2>2, <2>3, <2>4, AppendedEvent DEF QueuedPeersAreFresh, PendingPeer
<1>4. CASE ConnectorPasses \/ ConnectFails \/ MarkConnected
  BY <1>4, <1>t DEF ConnectorPasses, ConnectFails, MarkConnected, QueuedPeersAreFresh
<1>5. ASSUME NEW c \in Conn, NEW h \in Half, TaskExits(c, h) PROVE QueuedPeersAreFresh'
  <2>1. \A i \in 1..Len(bus) : bus[i].kind = "PendingPeer" => bus[i].peer # c
    BY <1>5, <1>t DEF TaskExits, QueuedPeersAreFresh
  <2> QED
    BY <1>5, <1>t, <2>1 DEF TaskExits, QueuedPeersAreFresh, TypeOK
<1>6. ASSUME NEW c \in Conn, NEW h \in Half, ReportTaskExit(c, h) PROVE QueuedPeersAreFresh'
  <2>1. \A i \in 1..Len(bus) : bus[i].kind = "PendingPeer" => bus[i].peer # c
    BY <1>6, <1>t DEF ReportTaskExit, QueuedPeersAreFresh
  <2>2. PeerTaskExited(c) \in Event /\ bus' = Append(bus, PeerTaskExited(c))
    BY <1>6, <1>t, EventTypes DEF ReportTaskExit
  <2>3. source' = source /\ \A d \in Conn : d # c => task'[d] = task[d]
    BY <1>6, <1>t DEF ReportTaskExit, TypeOK
  <2> QED
    BY <1>t, <2>1, <2>2, <2>3, AppendedEvent DEF QueuedPeersAreFresh, PeerTaskExited
<1>7. CASE RouterFails
  BY <1>7, <1>t DEF RouterFails, QueuedPeersAreFresh
<1>8. ASSUME NEW s \in 1..Len(routers), ReportRouterExit(s) PROVE QueuedPeersAreFresh'
  <2>1. RouterExited(s) \in Event /\ bus' = Append(bus, RouterExited(s))
    BY <1>8, <1>t, EventTypes DEF ReportRouterExit
  <2>2. source' = source /\ task' = task
    BY <1>8 DEF ReportRouterExit
  <2> QED
    BY <1>t, <2>1, <2>2, AppendedEvent DEF QueuedPeersAreFresh, RouterExited
<1>9. ASSUME NEW k, Receives(k), source' = source,
             \A i \in 2..Len(bus) : bus[i].kind = "PendingPeer" =>
               task'[bus[i].peer] = task[bus[i].peer]
      PROVE  QueuedPeersAreFresh'
  <2>1. \A i \in 1..Len(bus') : i + 1 \in 2..Len(bus) /\ bus'[i] = bus[i + 1]
    BY <1>9, <1>t, ReceivedEvent
  <2>2. SUFFICES ASSUME NEW i \in 1..Len(bus'), bus'[i].kind = "PendingPeer"
                 PROVE  /\ bus'[i].peer \in Conn
                        /\ bus'[i].session = 0
                        /\ source[bus'[i].peer] # "none"
                        /\ task'[bus'[i].peer] = [h \in Half |-> "idle"]
                        /\ \A j \in 1..Len(bus') :
                             bus'[j].kind = "PendingPeer" /\ bus'[j].peer = bus'[i].peer => j = i
    BY <1>9 DEF QueuedPeersAreFresh
  <2>3. i + 1 \in 1..Len(bus) /\ bus[i + 1].kind = "PendingPeer" /\ bus'[i] = bus[i + 1]
    BY <2>1, <2>2
  <2>4. ASSUME NEW j \in 1..Len(bus'), bus'[j].kind = "PendingPeer", bus'[j].peer = bus'[i].peer
        PROVE  j = i
    <3>1. j + 1 \in 1..Len(bus) /\ bus'[j] = bus[j + 1]
      BY <2>1
    <3>2. j + 1 = i + 1
      BY <1>t, <2>3, <2>4, <3>1 DEF QueuedPeersAreFresh
    <3> QED
      BY <3>2
  <2> QED
    BY <1>9, <1>t, <2>1, <2>3, <2>4 DEF QueuedPeersAreFresh
<1>10. CASE HandlePendingPeer
  <2>1. Receives("PendingPeer") /\ source' = source
    BY <1>10 DEF HandlePendingPeer
  <2>2. \A i \in 2..Len(bus) : bus[i].kind = "PendingPeer" => bus[i].peer # Head(bus).peer
    BY <1>t, <2>1, ReceivedEvent DEF QueuedPeersAreFresh
  <2>3. \A d \in Conn : d # Head(bus).peer => task'[d] = task[d]
    BY <1>10, <1>t DEF HandlePendingPeer, TypeOK
  <2>4. \A i \in 2..Len(bus) : bus[i].kind = "PendingPeer" =>
          task'[bus[i].peer] = task[bus[i].peer]
    BY <1>t, <2>2, <2>3, 2 \in Nat DEF QueuedPeersAreFresh, TypeOK
  <2> QED
    BY <1>9, <2>1, <2>4
<1>11. CASE HandleStaleTaskExit \/ HandleRepeatedTaskExit \/ HandleTaskExit
  <2>1. Receives("PeerTaskExited") /\ source' = source /\ task' = task
    BY <1>11 DEF HandleStaleTaskExit, HandleRepeatedTaskExit, HandleTaskExit
  <2> QED
    BY <1>9, <2>1
<1>12. CASE HandleStaleRouterExit \/ HandleRouterExit
  <2>1. Receives("RouterExited") /\ source' = source /\ task' = task
    BY <1>12 DEF HandleStaleRouterExit, HandleRouterExit
  <2> QED
    BY <1>9, <2>1
<1>13. CASE RemovePeer \/ FinishDeparture \/ DrainSession \/ FinishShutdown
  BY <1>13, <1>t DEF RemovePeer, FinishDeparture, DrainSession, FinishShutdown, QueuedPeersAreFresh
<1> QED
  BY <1>1, <1>2, <1>3, <1>4, <1>5, <1>6, <1>7, <1>8, <1>10, <1>11, <1>12, <1>13
     DEF Next, ConnectorNext, RouterNext, SupervisorNext

\* The exits on the bus stay exits of tasks and routers that have ended.
LEMMA QueuedExitsStep ==
  ASSUME IInv, Next
  PROVE  QueuedExitsAreReal'
<1> USE DEF ingressVars, supVars, sessionVars, peerVars
<1>t. TypeOK /\ QueuedPeersAreFresh /\ QueuedExitsAreReal
  BY DEF IInv
<1>1. ASSUME NEW c \in Conn, ListenerAccepts(c) \/ (SendPending /\ pending = c)
      PROVE  QueuedExitsAreReal'
  <2>1. PendingPeer(c) \in Event /\ bus' = Append(bus, PendingPeer(c))
    BY <1>1, <1>t, EventTypes DEF ListenerAccepts, SendPending
  <2>2. task' = task /\ sessionOf' = sessionOf /\ routers' = routers
    BY <1>1 DEF ListenerAccepts, SendPending
  <2> QED
    BY <1>t, <2>1, <2>2, AppendedEvent DEF QueuedExitsAreReal, PendingPeer
<1>2. SendPending => pending \in Conn
  BY <1>t DEF SendPending, TypeOK
<1>3. ASSUME NEW c \in Conn,
             ConnectorPasses \/ ConnectFails \/ ConnectSucceeds(c) \/ MarkConnected
      PROVE  QueuedExitsAreReal'
  BY <1>3, <1>t
     DEF ConnectorPasses, ConnectFails, ConnectSucceeds, MarkConnected, QueuedExitsAreReal
<1>4. CASE ConnectorPasses \/ ConnectFails \/ MarkConnected
  BY <1>4, <1>t DEF ConnectorPasses, ConnectFails, MarkConnected, QueuedExitsAreReal
<1>5. ASSUME NEW c \in Conn, NEW h \in Half, TaskExits(c, h) PROVE QueuedExitsAreReal'
  <2>1. bus' = bus /\ sessionOf' = sessionOf /\ routers' = routers
    BY <1>5 DEF TaskExits
  <2>2. \A d \in Conn, g \in Half : task[d][g] = "reported" => task'[d][g] = "reported"
    BY <1>5, <1>t DEF TaskExits, TypeOK
  <2> QED
    BY <1>t, <2>1, <2>2 DEF QueuedExitsAreReal
<1>6. ASSUME NEW c \in Conn, NEW h \in Half, ReportTaskExit(c, h) PROVE QueuedExitsAreReal'
  <2>1. PeerTaskExited(c) \in Event /\ bus' = Append(bus, PeerTaskExited(c))
    BY <1>6, <1>t, EventTypes DEF ReportTaskExit
  <2>2. sessionOf' = sessionOf /\ routers' = routers
    BY <1>6 DEF ReportTaskExit
  <2>3. \A d \in Conn, g \in Half : task[d][g] = "reported" => task'[d][g] = "reported"
    BY <1>6, <1>t DEF ReportTaskExit, TypeOK
  <2>4. task'[c][h] = "reported"
    BY <1>6, <1>t DEF ReportTaskExit, TypeOK
  <2> QED
    BY <1>t, <2>1, <2>2, <2>3, <2>4, AppendedEvent DEF QueuedExitsAreReal, PeerTaskExited
<1>7. CASE RouterFails
  <2>1. bus' = bus /\ sessionOf' = sessionOf /\ task' = task
    BY <1>7 DEF RouterFails
  <2>2. Len(routers') = Len(routers)
        /\ \A s \in 1..Len(routers) : routers[s] = "reported" => routers'[s] = "reported"
    BY <1>7, <1>t DEF RouterFails, TypeOK
  <2> QED
    BY <1>t, <2>1, <2>2 DEF QueuedExitsAreReal
<1>8. ASSUME NEW s \in 1..Len(routers), ReportRouterExit(s) PROVE QueuedExitsAreReal'
  <2>1. RouterExited(s) \in Event /\ bus' = Append(bus, RouterExited(s))
    BY <1>8, <1>t, EventTypes DEF ReportRouterExit
  <2>2. sessionOf' = sessionOf /\ task' = task
    BY <1>8 DEF ReportRouterExit
  <2>3. Len(routers') = Len(routers) /\ routers'[s] = "reported"
        /\ \A r \in 1..Len(routers) : routers[r] = "reported" => routers'[r] = "reported"
    BY <1>8, <1>t DEF ReportRouterExit, TypeOK
  <2> QED
    BY <1>t, <2>1, <2>2, <2>3, AppendedEvent DEF QueuedExitsAreReal, RouterExited
<1>9. ASSUME NEW k, Receives(k), sessionOf' = sessionOf, task' = task, routers' = routers
      PROVE  QueuedExitsAreReal'
  BY <1>9, <1>t, ReceivedEvent DEF QueuedExitsAreReal
<1>10. CASE HandlePendingPeer
  <2> DEFINE c == Head(bus).peer
  <2>1. Receives("PendingPeer")
    BY <1>10 DEF HandlePendingPeer
  <2>2. c \in Conn /\ task[c] = [h \in Half |-> "idle"]
    BY <1>t, <2>1, ReceivedEvent DEF QueuedPeersAreFresh
  <2>3. \A d \in Conn : d # c => task'[d] = task[d] /\ sessionOf'[d] = sessionOf[d]
    BY <1>10, <1>t DEF HandlePendingPeer, TypeOK
  <2>4. /\ Len(routers') >= Len(routers)
        /\ Len(routers) \in Nat /\ Len(routers') \in Nat
        /\ \A s \in 1..Len(routers) : routers'[s] = routers[s]
    BY <1>10, <1>t DEF HandlePendingPeer, TypeOK, RouterState
  <2>5. \A i \in 1..Len(bus) : bus[i].kind = "PeerTaskExited" => bus[i].peer # c
    BY <1>t, <2>2 DEF QueuedExitsAreReal
  <2>6. \A i \in 1..Len(bus') : i + 1 \in 1..Len(bus) /\ bus'[i] = bus[i + 1]
    BY <1>t, <2>1, ReceivedEvent
  <2> HIDE DEF c
  <2>7. \A i \in 1..Len(bus') : bus'[i].kind = "PeerTaskExited" =>
          /\ bus'[i].peer \in Conn
          /\ bus'[i].session = sessionOf'[bus'[i].peer]
          /\ \E h \in Half : task'[bus'[i].peer][h] = "reported"
    BY <1>t, <2>3, <2>5, <2>6 DEF QueuedExitsAreReal
  <2>8. \A i \in 1..Len(bus') : bus'[i].kind = "RouterExited" =>
          /\ bus'[i].peer = NoConn
          /\ bus'[i].session \in 1..Len(routers')
          /\ routers'[bus'[i].session] = "reported"
    BY <1>t, <2>4, <2>6 DEF QueuedExitsAreReal
  <2> QED
    BY <2>7, <2>8 DEF QueuedExitsAreReal
<1>11. CASE HandleStaleTaskExit \/ HandleRepeatedTaskExit \/ HandleTaskExit
  <2>1. Receives("PeerTaskExited") /\ UNCHANGED <<sessionOf, task, routers>>
    BY <1>11 DEF HandleStaleTaskExit, HandleRepeatedTaskExit, HandleTaskExit
  <2> QED
    BY <1>9, <2>1
<1>12. CASE HandleStaleRouterExit \/ HandleRouterExit
  <2>1. Receives("RouterExited") /\ UNCHANGED <<sessionOf, task, routers>>
    BY <1>12 DEF HandleStaleRouterExit, HandleRouterExit
  <2> QED
    BY <1>9, <2>1
<1>13. CASE RemovePeer \/ FinishDeparture \/ FinishShutdown
  BY <1>13, <1>t DEF RemovePeer, FinishDeparture, FinishShutdown, QueuedExitsAreReal
<1>14. CASE DrainSession
  <2>1. bus' = bus /\ sessionOf' = sessionOf /\ task' = task
    BY <1>14 DEF DrainSession
  <2>2. Len(routers') = Len(routers)
        /\ \A s \in 1..Len(routers) : routers[s] = "reported" => routers'[s] = "reported"
    BY <1>14, <1>t DEF DrainSession, TypeOK
  <2> QED
    BY <1>t, <2>1, <2>2 DEF QueuedExitsAreReal
<1> QED
  BY <1>1, <1>2, <1>3, <1>4, <1>5, <1>6, <1>7, <1>8, <1>10, <1>11, <1>12, <1>13, <1>14
     DEF Next, ConnectorNext, RouterNext, SupervisorNext

\* A connection that does not exist yet keeps having no trace.
LEMMA NoTraceStep ==
  ASSUME IInv, Next
  PROVE  NoTraceBefore'
<1> USE DEF ingressVars, supVars, sessionVars, peerVars
<1>t. TypeOK /\ QueuedPeersAreFresh /\ NoTraceBefore
  BY DEF IInv
<1>1. ASSUME NEW c \in Conn, ListenerAccepts(c) \/ ConnectSucceeds(c) PROVE NoTraceBefore'
  BY <1>1, <1>t DEF ListenerAccepts, ConnectSucceeds, NoTraceBefore, TypeOK
<1>2. CASE ConnectorPasses \/ ConnectFails \/ MarkConnected
  BY <1>2, <1>t DEF ConnectorPasses, ConnectFails, MarkConnected, NoTraceBefore
<1>3. CASE SendPending
  BY <1>3, <1>t, NoConnAssumption DEF SendPending, NoTraceBefore
<1>4. ASSUME NEW c \in Conn, NEW h \in Half, TaskExits(c, h) \/ ReportTaskExit(c, h)
      PROVE  NoTraceBefore'
  <2>1. source' = source /\ pending' = pending /\ source[c] # "none"
    BY <1>4, <1>t DEF TaskExits, ReportTaskExit, NoTraceBefore
  <2>2. \A d \in Conn : d # c => task'[d] = task[d]
    BY <1>4, <1>t DEF TaskExits, ReportTaskExit, TypeOK
  <2> QED
    BY <1>t, <2>1, <2>2 DEF NoTraceBefore
<1>5. ASSUME NEW s \in 1..Len(routers), RouterFails \/ ReportRouterExit(s)
      PROVE  NoTraceBefore'
  BY <1>5, <1>t DEF RouterFails, ReportRouterExit, NoTraceBefore
<1>6. CASE RouterFails
  BY <1>6, <1>t DEF RouterFails, NoTraceBefore
<1>7. CASE HandlePendingPeer
  <2>1. Receives("PendingPeer") /\ source' = source /\ pending' = pending
    BY <1>7 DEF HandlePendingPeer
  <2>2. source[Head(bus).peer] # "none"
    BY <1>t, <2>1, ReceivedEvent DEF QueuedPeersAreFresh
  <2>3. \A d \in Conn : d # Head(bus).peer => task'[d] = task[d]
    BY <1>7, <1>t DEF HandlePendingPeer, TypeOK
  <2> QED
    BY <1>t, <2>1, <2>2, <2>3 DEF NoTraceBefore
<1>8. CASE SupervisorNext /\ ~HandlePendingPeer
  <2>1. UNCHANGED <<source, task, pending>>
    BY <1>8 DEF SupervisorNext, HandleStaleTaskExit, HandleRepeatedTaskExit, HandleTaskExit,
         RemovePeer, FinishDeparture, HandleStaleRouterExit, HandleRouterExit, DrainSession,
         FinishShutdown
  <2> QED
    BY <1>t, <2>1 DEF NoTraceBefore
<1> QED
  BY <1>1, <1>2, <1>3, <1>4, <1>5, <1>6, <1>7, <1>8 DEF Next, ConnectorNext, RouterNext,
     SupervisorNext

-----------------------------------------------------------------------------
(***************************************************************************)
(* The supervisor's own data.                                              *)
(***************************************************************************)

\* The reports of an ended router and of an ended task are final, and a router
\* that is not running does not run again.
LEMMA ThreadsOnlyEnd ==
  ASSUME TypeOK,
         (\E c \in Conn, h \in Half : TaskExits(c, h) \/ ReportTaskExit(c, h)) \/ RouterNext
  PROVE  /\ Len(routers') = Len(routers)
         /\ \A s \in 1..Len(routers) :
              /\ routers[s] = "reported" => routers'[s] = "reported"
              /\ routers'[s] = "running" => routers[s] = "running"
         /\ \A c \in Conn, h \in Half :
              /\ task[c][h] \in {"exited", "reported"} => task'[c][h] \in {"exited", "reported"}
              /\ task'[c][h] = "running" => task[c][h] = "running"
              /\ task[c][h] # "idle" => task'[c][h] # "idle"
         /\ UNCHANGED <<connector, pending, gate, supVars, sessionVars, source, sessionOf,
                        aborted>>
<1> USE DEF ingressVars, supVars, sessionVars, peerVars
<1>1. ASSUME NEW c \in Conn, NEW h \in Half, TaskExits(c, h) \/ ReportTaskExit(c, h)
      PROVE  /\ routers' = routers
             /\ \A d \in Conn, g \in Half :
                  /\ task[d][g] \in {"exited", "reported"} =>
                       task'[d][g] \in {"exited", "reported"}
                  /\ task'[d][g] = "running" => task[d][g] = "running"
                  /\ task[d][g] # "idle" => task'[d][g] # "idle"
             /\ UNCHANGED <<connector, pending, gate, supVars, sessionVars, source, sessionOf,
                            aborted>>
  BY <1>1 DEF TaskExits, ReportTaskExit, TypeOK
<1>2. CASE RouterFails
  BY <1>2 DEF RouterFails, TypeOK
<1>3. ASSUME NEW s \in 1..Len(routers), ReportRouterExit(s)
      PROVE  /\ Len(routers') = Len(routers)
             /\ \A r \in 1..Len(routers) :
                  /\ routers[r] = "reported" => routers'[r] = "reported"
                  /\ routers'[r] = "running" => routers[r] = "running"
             /\ task' = task
             /\ UNCHANGED <<connector, pending, gate, supVars, sessionVars, source, sessionOf,
                            aborted>>
  BY <1>3 DEF ReportRouterExit, TypeOK
<1> QED
  BY <1>1, <1>2, <1>3 DEF RouterNext

\* The ingress threads touch no task, no session and nothing of the supervisor.
LEMMA IngressFrame ==
  ASSUME (\E c \in Conn : ListenerAccepts(c)) \/ ConnectorNext
  PROVE  UNCHANGED <<supVars, sessionVars, routers, sessionOf, task, aborted>>
BY DEF ListenerAccepts, ConnectorNext, ConnectorPasses, ConnectFails, ConnectSucceeds,
       MarkConnected, SendPending, ingressVars, supVars, sessionVars, peerVars

\* Wherever the supervisor is, its tables fit the place.
LEMMA PlaceStep ==
  ASSUME IInv, Next
  PROVE  SupervisorPlace'
<1> USE DEF ingressVars, supVars, sessionVars, peerVars
<1>t. TypeOK /\ SupervisorPlace /\ QueuedExitsAreReal
  BY DEF IInv
<1>1. CASE (\E c \in Conn : ListenerAccepts(c)) \/ ConnectorNext
  BY <1>1, <1>t, IngressFrame DEF SupervisorPlace
<1>2. CASE (\E c \in Conn, h \in Half : TaskExits(c, h) \/ ReportTaskExit(c, h)) \/ RouterNext
  <2>1. session # 0 => session \in 1..Len(routers)
    BY <1>t DEF TypeOK
  <2>2. sup = "detach" => leaving \in Conn
    BY <1>t DEF TypeOK, SupervisorPlace
  <2>3. sup = "detach" => \E h \in Half : task'[leaving][h] \in {"exited", "reported"}
    BY <1>2, <1>t, <2>2, ThreadsOnlyEnd DEF SupervisorPlace
  <2>4. session # 0 => /\ routers[session] = "reported" => routers'[session] = "reported"
                       /\ routers[session] # "running" => routers'[session] # "running"
    BY <1>2, <1>t, <2>1, ThreadsOnlyEnd
  <2>5. UNCHANGED <<supVars, sessionVars>>
    BY <1>2, <1>t, ThreadsOnlyEnd
  <2> QED
    BY <1>t, <2>3, <2>4, <2>5 DEF SupervisorPlace
<1>3. CASE HandlePendingPeer
  BY <1>3, <1>t DEF HandlePendingPeer, Receives, SupervisorPlace, TypeOK
<1>4. CASE HandleStaleTaskExit \/ HandleRepeatedTaskExit \/ HandleStaleRouterExit
  BY <1>4, <1>t
     DEF HandleStaleTaskExit, HandleRepeatedTaskExit, HandleStaleRouterExit, SupervisorPlace
<1>5. CASE HandleTaskExit
  <2>1. Receives("PeerTaskExited") /\ Head(bus).peer \in peerTasks
    BY <1>5 DEF HandleTaskExit
  <2>2. \E h \in Half : task[Head(bus).peer][h] = "reported"
    BY <1>t, <2>1, ReceivedEvent DEF QueuedExitsAreReal
  <2>3. sup = "recv" /\ peerTasks = registry /\ session # 0
    BY <1>t, <2>1 DEF Receives, SupervisorPlace
  <2> QED
    BY <1>5, <2>1, <2>2, <2>3 DEF HandleTaskExit, SupervisorPlace
<1>6. CASE RemovePeer
  BY <1>6, <1>t DEF RemovePeer, SupervisorPlace
<1>7. CASE FinishDeparture
  BY <1>7, <1>t DEF FinishDeparture, SupervisorPlace
<1>8. CASE HandleRouterExit
  <2>1. Receives("RouterExited") /\ session = Head(bus).session
    BY <1>8 DEF HandleRouterExit, SessionMatches
  <2>2. session # 0 /\ routers[session] = "reported"
    BY <1>t, <2>1, ReceivedEvent DEF QueuedExitsAreReal, TypeOK
  <2>3. sup = "recv" /\ peerTasks = registry
    BY <1>t, <2>1 DEF Receives, SupervisorPlace
  <2> QED
    BY <1>8, <2>2, <2>3 DEF HandleRouterExit, SupervisorPlace
<1>9. CASE DrainSession
  <2>1. session \in 1..Len(routers) /\ session # 0
    BY <1>9, <1>t DEF DrainSession, SupervisorPlace, TypeOK
  <2>2. routers'[session] # "running"
    BY <1>9, <1>t, <2>1 DEF DrainSession, TypeOK
  <2> QED
    BY <1>9, <2>1, <2>2 DEF DrainSession, SupervisorPlace
<1>10. CASE FinishShutdown
  BY <1>10, <1>t DEF FinishShutdown, SupervisorPlace
<1> QED
  BY <1>1, <1>2, <1>3, <1>4, <1>5, <1>6, <1>7, <1>8, <1>9, <1>10 DEF Next, SupervisorNext

\* The registry holds peers of the active session only.
LEMMA MembersStep ==
  ASSUME IInv, Next
  PROVE  MembersOfSession'
<1> USE DEF ingressVars, supVars, sessionVars, peerVars
<1>t. TypeOK /\ SupervisorPlace /\ MembersOfSession /\ QueuedPeersAreFresh
  BY DEF IInv
<1>1. CASE (\E c \in Conn : ListenerAccepts(c)) \/ ConnectorNext
  BY <1>1, <1>t, IngressFrame DEF MembersOfSession
<1>2. CASE (\E c \in Conn, h \in Half : TaskExits(c, h) \/ ReportTaskExit(c, h)) \/ RouterNext
  <2>1. \A c \in registry : task'[c]["reader"] # "idle"
    BY <1>2, <1>t, ThreadsOnlyEnd, "reader" \in Half DEF MembersOfSession, TypeOK, Half
  <2> QED
    BY <1>2, <1>t, <2>1, ThreadsOnlyEnd DEF MembersOfSession
<1>3. CASE HandlePendingPeer
  <2> DEFINE c == Head(bus).peer
  <2>1. Receives("PendingPeer") /\ registry' = registry \cup {c}
    BY <1>3 DEF HandlePendingPeer
  <2>2. c \in Conn
    BY <1>t, <2>1, ReceivedEvent DEF QueuedPeersAreFresh
  <2>3. sessionOf'[c] = session' /\ task'[c]["reader"] = "running"
    BY <1>3, <1>t, <2>2 DEF HandlePendingPeer, TypeOK, Half
  <2>4. \A d \in Conn : d # c => sessionOf'[d] = sessionOf[d] /\ task'[d] = task[d]
    BY <1>3, <1>t DEF HandlePendingPeer, TypeOK
  <2>5. registry # {} => session' = session
    BY <1>3, <1>t, <2>1 DEF HandlePendingPeer, SupervisorPlace, Receives
  <2>6. registry \subseteq Conn
    BY <1>t DEF TypeOK
  <2> HIDE DEF c
  <2> QED
    BY <1>t, <2>1, <2>3, <2>4, <2>5, <2>6 DEF MembersOfSession
<1>4. CASE SupervisorNext /\ ~HandlePendingPeer /\ ~FinishShutdown
  <2>1. registry' \subseteq registry /\ UNCHANGED <<session, sessionOf, task>>
    BY <1>4 DEF SupervisorNext, HandleStaleTaskExit, HandleRepeatedTaskExit, HandleTaskExit,
         RemovePeer, FinishDeparture, HandleStaleRouterExit, HandleRouterExit, DrainSession
  <2> QED
    BY <1>t, <2>1 DEF MembersOfSession
<1>5. CASE FinishShutdown
  BY <1>5, <1>t DEF FinishShutdown, MembersOfSession, SupervisorPlace
<1> QED
  BY <1>1, <1>2, <1>3, <1>4, <1>5 DEF Next

\* The steps of the peers' tasks and of the routers lose no event.
LEMMA ThreadsKeepBus ==
  ASSUME TypeOK,
         (\E c \in Conn, h \in Half : TaskExits(c, h) \/ ReportTaskExit(c, h)) \/ RouterNext
  PROVE  bus' = bus \/ \E a \in Event : bus' = Append(bus, a)
BY EventTypes DEF RouterNext, TaskExits, ReportTaskExit, RouterFails, ReportRouterExit, TypeOK

\* Neither do the steps of the listener and the connector.
LEMMA IngressKeepsBus ==
  ASSUME TypeOK, (\E c \in Conn : ListenerAccepts(c)) \/ ConnectorNext
  PROVE  bus' = bus \/ \E a \in Event : bus' = Append(bus, a)
<1>1. ASSUME NEW c \in Conn, ListenerAccepts(c)
      PROVE  \E a \in Event : bus' = Append(bus, a)
  BY <1>1, EventTypes DEF ListenerAccepts
<1>2. CASE SendPending
  <2>1. pending \in Conn
    BY <1>2 DEF SendPending, TypeOK
  <2> QED
    BY <1>2, <2>1, EventTypes DEF SendPending
<1> QED
  BY <1>1, <1>2 DEF ConnectorNext, ConnectorPasses, ConnectFails, ConnectSucceeds, MarkConnected

-----------------------------------------------------------------------------
(***************************************************************************)
(* The gate.                                                               *)
(***************************************************************************)

\* An outbound connection that waits on the bus stays there unless its event is
\* the one that is taken.
LEMMA QueuedOutboundStays ==
  ASSUME TypeOK, QueuedPeersAreFresh,
         \A c \in Conn : Outbound(c) => Outbound(c)',
         NEW i \in 1..Len(bus), bus[i].kind = "PendingPeer", Outbound(bus[i].peer),
         \/ bus' = bus
         \/ \E a \in Event : bus' = Append(bus, a)
         \/ bus # <<>> /\ bus' = Tail(bus) /\ i # 1
  PROVE  (\E j \in 1..Len(bus) : bus[j].kind = "PendingPeer" /\ Outbound(bus[j].peer))'
<1>1. bus[i].peer \in Conn /\ source'[bus[i].peer] = "outbound"
  BY DEF QueuedPeersAreFresh, Outbound
<1>2. CASE bus' = bus
  BY <1>1, <1>2 DEF Outbound
<1>3. CASE \E a \in Event : bus' = Append(bus, a)
  <2>1. i \in 1..Len(bus') /\ bus'[i] = bus[i]
    BY <1>3, AppendedEvent
  <2> QED
    BY <1>1, <2>1 DEF Outbound
<1>4. CASE bus # <<>> /\ bus' = Tail(bus) /\ i # 1
  <2>1. i - 1 \in 1..Len(bus') /\ bus'[i - 1] = bus[i]
    BY <1>4 DEF TypeOK
  <2> QED
    BY <1>1, <2>1 DEF Outbound
<1> QED
  BY <1>2, <1>3, <1>4

\* Whatever closes or has closed the gate will open it: every step either opens
\* it or passes the outbound peer on to the next place it can be in.
LEMMA GateStep ==
  ASSUME IInv, Next
  PROVE  GateNotStuck'
<1> USE DEF ingressVars, supVars, sessionVars, peerVars
<1>t. /\ TypeOK /\ PendingIsFresh /\ QueuedPeersAreFresh /\ SupervisorPlace
      /\ NoTraceBefore /\ GateNotStuck
  BY DEF IInv
<1> DEFINE Queued == \E i \in 1..Len(bus) : bus[i].kind = "PendingPeer" /\ Outbound(bus[i].peer)
<1>g. ASSUME gate' => gate,
             gate' /\ connector = "send" => connector' = "send" \/ Queued',
             Queued => Queued',
             gate' /\ OutboundIn(registry) =>
               \/ OutboundIn(registry)'
               \/ (sup = "detached" /\ Outbound(leaving))'
               \/ (sup = "join" /\ closedOutbound)',
             gate' /\ sup = "detached" /\ Outbound(leaving) =>
               (sup = "detached" /\ Outbound(leaving))',
             gate' /\ sup = "join" /\ closedOutbound => (sup = "join" /\ closedOutbound)'
      PROVE  GateNotStuck'
  BY <1>t, <1>g DEF GateNotStuck
<1>1. ASSUME NEW c \in Conn, ListenerAccepts(c) \/ ConnectSucceeds(c) PROVE GateNotStuck'
  <2>1. \A d \in Conn : Outbound(d) => Outbound(d)'
    BY <1>1, <1>t DEF ListenerAccepts, ConnectSucceeds, Outbound, TypeOK
  <2>2. bus' = bus \/ \E a \in Event : bus' = Append(bus, a)
    BY <1>1, <1>t, EventTypes DEF ListenerAccepts, ConnectSucceeds
  <2>3. Queued => Queued'
    BY <1>t, <2>1, <2>2, QueuedOutboundStays
  <2>4. registry \subseteq Conn /\ (sup = "detached" => leaving \in Conn)
    BY <1>t DEF TypeOK
  <2>5. UNCHANGED <<gate, supVars, sessionVars>> /\ (connector = "send" => connector' = "send")
    BY <1>1 DEF ListenerAccepts, ConnectSucceeds
  <2>6. OutboundIn(registry) => OutboundIn(registry)'
    BY <2>1, <2>4, <2>5 DEF OutboundIn
  <2>7. sup = "detached" /\ Outbound(leaving) => (sup = "detached" /\ Outbound(leaving))'
    BY <2>1, <2>4, <2>5 DEF Outbound
  <2> HIDE DEF Queued
  <2> QED
    BY <2>3, <2>5, <2>6, <2>7, <1>g
<1>2. CASE ConnectorPasses \/ ConnectFails
  BY <1>2, <1>t DEF ConnectorPasses, ConnectFails, GateNotStuck, OutboundIn, Outbound
<1>3. CASE MarkConnected
  BY <1>3 DEF MarkConnected, GateNotStuck
<1>4. CASE SendPending
  <2>1. pending \in Conn /\ Outbound(pending)
    BY <1>4, <1>t DEF SendPending, TypeOK, PendingIsFresh
  <2>2. bus' = Append(bus, PendingPeer(pending)) /\ PendingPeer(pending) \in Event
    BY <1>4, <1>t, <2>1, EventTypes DEF SendPending
  <2>3. source' = source
    BY <1>4 DEF SendPending
  <2>4. /\ Len(bus) + 1 \in 1..Len(bus')
        /\ bus'[Len(bus) + 1].kind = "PendingPeer"
        /\ source'[bus'[Len(bus) + 1].peer] = "outbound"
    BY <1>t, <2>1, <2>2, <2>3, AppendedEvent DEF PendingPeer, Outbound
  <2> QED
    BY <2>4 DEF GateNotStuck, Outbound
<1>5. CASE (\E c \in Conn, h \in Half : TaskExits(c, h) \/ ReportTaskExit(c, h)) \/ RouterNext
  <2>1. UNCHANGED <<connector, gate, source, supVars, sessionVars>>
    BY <1>5, <1>t, ThreadsOnlyEnd
  <2>2. bus' = bus \/ \E a \in Event : bus' = Append(bus, a)
    BY <1>5, <1>t, ThreadsKeepBus
  <2>3. Queued => Queued'
    BY <1>t, <2>1, <2>2, QueuedOutboundStays DEF Outbound
  <2> HIDE DEF Queued
  <2> QED
    BY <2>1, <2>3, <1>g DEF OutboundIn, Outbound
<1>6. CASE HandlePendingPeer
  <2> DEFINE c == Head(bus).peer
  <2>1. Receives("PendingPeer") /\ registry' = registry \cup {c}
    BY <1>6 DEF HandlePendingPeer
  <2>2. UNCHANGED <<connector, gate, source, supVars>>
    BY <1>6 DEF HandlePendingPeer
  <2>3. OutboundIn(registry) \/ Outbound(c) => OutboundIn(registry)'
    BY <2>1, <2>2 DEF OutboundIn, Outbound
  <2>4. ASSUME Queued, ~Outbound(c) PROVE Queued'
    <3>1. PICK i \in 1..Len(bus) : bus[i].kind = "PendingPeer" /\ Outbound(bus[i].peer)
      BY <2>4
    <3>2. i # 1 /\ bus # <<>> /\ bus' = Tail(bus)
      BY <1>t, <2>1, <2>4, <3>1, ReceivedEvent DEF Receives
    <3>3. \A d \in Conn : Outbound(d) => Outbound(d)'
      BY <2>2 DEF Outbound
    <3> QED
      BY <1>t, <3>1, <3>2, <3>3, QueuedOutboundStays
  <2>5. sup = "recv" /\ sup' = "recv"
    BY <2>1, <2>2 DEF Receives
  <2> HIDE DEF c
  <2> QED
    BY <1>t, <2>2, <2>3, <2>4, <2>5 DEF GateNotStuck
<1>7. ASSUME NEW k, Receives(k), k # "PendingPeer", UNCHANGED <<connector, source>>
      PROVE  Queued => Queued'
  <2>1. SUFFICES ASSUME NEW i \in 1..Len(bus), bus[i].kind = "PendingPeer",
                        Outbound(bus[i].peer)
                 PROVE  Queued'
    OBVIOUS
  <2>2. i # 1 /\ bus # <<>> /\ bus' = Tail(bus)
    BY <1>t, <1>7, <2>1, ReceivedEvent DEF Receives
  <2>3. \A d \in Conn : Outbound(d) => Outbound(d)'
    BY <1>7 DEF Outbound
  <2> QED
    BY <1>t, <2>1, <2>2, <2>3, QueuedOutboundStays
<1>8. CASE HandleStaleTaskExit \/ HandleRepeatedTaskExit \/ HandleTaskExit
  <2>1. Receives("PeerTaskExited") /\ UNCHANGED <<connector, source, registry>>
    BY <1>8 DEF HandleStaleTaskExit, HandleRepeatedTaskExit, HandleTaskExit
  <2>2. sup = "recv"
    BY <2>1 DEF Receives
  <2>3. Queued => Queued'
    BY <1>7, <2>1
  <2>4. gate' = gate \/ gate' = FALSE
    BY <1>8 DEF HandleStaleTaskExit, HandleRepeatedTaskExit, HandleTaskExit, OpenGateIf
  <2>5. gate' => gate
    BY <2>4
  <2> HIDE DEF Queued
  <2> QED
    BY <2>1, <2>2, <2>3, <2>5, <1>g DEF OutboundIn, Outbound
<1>9. CASE HandleStaleRouterExit \/ HandleRouterExit
  <2>1. Receives("RouterExited") /\ UNCHANGED <<connector, source, registry, gate>>
    BY <1>9 DEF HandleStaleRouterExit, HandleRouterExit
  <2>2. sup = "recv"
    BY <2>1 DEF Receives
  <2>3. Queued => Queued'
    BY <1>7, <2>1
  <2> HIDE DEF Queued
  <2> QED
    BY <2>1, <2>2, <2>3, <1>g DEF OutboundIn, Outbound
<1>10. ASSUME UNCHANGED <<connector, bus, source>>, gate' => gate,
              gate' /\ OutboundIn(registry) =>
               \/ OutboundIn(registry)'
               \/ (sup = "detached" /\ Outbound(leaving))'
               \/ (sup = "join" /\ closedOutbound)',
              sup \in {"detach", "shutdown"} \/ ~gate'
                \/ (sup = "detached" /\ ~Outbound(leaving))
                \/ (sup = "join" /\ ~closedOutbound)
       PROVE  GateNotStuck'
  BY <1>t, <1>10 DEF GateNotStuck, Outbound
<1>11. CASE RemovePeer
  <2>1. registry' = registry \ {leaving} /\ sup' = "detached" /\ leaving' = leaving
        /\ sup = "detach" /\ UNCHANGED <<connector, bus, source, gate>>
    BY <1>11 DEF RemovePeer
  <2>2. OutboundIn(registry) =>
               \/ OutboundIn(registry)'
               \/ (sup = "detached" /\ Outbound(leaving))'
    BY <2>1 DEF OutboundIn, Outbound
  <2> QED
    BY <2>1, <2>2, <1>10
<1>12. CASE FinishDeparture
  <2>1. registry' = registry /\ UNCHANGED <<connector, bus, source>> /\ sup = "detached"
        /\ gate' = OpenGateIf(Outbound(leaving))
    BY <1>12 DEF FinishDeparture
  <2> QED
    BY <2>1, <1>10 DEF OpenGateIf, OutboundIn, Outbound
<1>13. CASE DrainSession
  BY <1>13, <1>10 DEF DrainSession, OutboundIn, Outbound
<1>14. CASE FinishShutdown
  <2>1. UNCHANGED <<connector, bus, source, registry>> /\ sup = "join"
        /\ gate' = OpenGateIf(closedOutbound)
    BY <1>14 DEF FinishShutdown
  <2> QED
    BY <2>1, <1>10 DEF OpenGateIf, OutboundIn, Outbound
<1> QED
  BY <1>1, <1>2, <1>3, <1>4, <1>5, <1>6, <1>8, <1>9, <1>11, <1>12, <1>13, <1>14
     DEF Next, ConnectorNext, SupervisorNext

-----------------------------------------------------------------------------
(***************************************************************************)
(* Nothing outlives its peer or its session unnoticed.                     *)
(***************************************************************************)

\* A task that runs belongs to a registered peer or to one that was aborted.
LEMMA OrphanStep ==
  ASSUME IInv, Next
  PROVE  NoOrphanTasks'
<1> USE DEF ingressVars, supVars, sessionVars, peerVars
<1>t. TypeOK /\ NoOrphanTasks
  BY DEF IInv
<1>1. CASE (\E c \in Conn : ListenerAccepts(c)) \/ ConnectorNext
  BY <1>1, <1>t, IngressFrame DEF NoOrphanTasks
<1>2. CASE (\E c \in Conn, h \in Half : TaskExits(c, h) \/ ReportTaskExit(c, h)) \/ RouterNext
  BY <1>2, <1>t, ThreadsOnlyEnd DEF NoOrphanTasks
<1>3. CASE HandlePendingPeer
  <2>1. registry' = registry \cup {Head(bus).peer} /\ aborted' = aborted
    BY <1>3 DEF HandlePendingPeer
  <2>2. \A d \in Conn : d # Head(bus).peer => task'[d] = task[d]
    BY <1>3, <1>t DEF HandlePendingPeer, TypeOK
  <2> QED
    BY <1>t, <2>1, <2>2 DEF NoOrphanTasks
<1>4. CASE SupervisorNext /\ ~HandlePendingPeer
  <2>1. registry \cup aborted \subseteq registry' \cup aborted' /\ task' = task
    BY <1>4 DEF SupervisorNext, HandleStaleTaskExit, HandleRepeatedTaskExit, HandleTaskExit,
         RemovePeer, FinishDeparture, HandleStaleRouterExit, HandleRouterExit, DrainSession,
         FinishShutdown
  <2> QED
    BY <1>t, <2>1 DEF NoOrphanTasks
<1> QED
  BY <1>1, <1>2, <1>3, <1>4 DEF Next

\* The report of the active session's router is not lost: no step takes it off
\* the bus but the one that starts the shutdown.
LEMMA ZombieSessionStep ==
  ASSUME IInv, Next
  PROVE  NoZombieSession'
<1> USE DEF ingressVars, supVars, sessionVars, peerVars
<1>t. TypeOK /\ SupervisorPlace /\ NoZombieSession
  BY DEF IInv
<1>s. session # 0 => session \in 1..Len(routers) /\ RouterExited(session) \in Event
  BY <1>t, EventTypes DEF TypeOK
<1>o. OnBus(RouterExited(session))' <=>
        \E i \in 1..Len(bus') : bus'[i] = RouterExited(session')
  BY DEF OnBus, RouterExited
<1>1. CASE (\E c \in Conn : ListenerAccepts(c)) \/ ConnectorNext
  <2>1. UNCHANGED <<supVars, session, routers>>
    BY <1>1, IngressFrame
  <2>2. bus' = bus \/ \E a \in Event : bus' = Append(bus, a)
    BY <1>1, <1>t, IngressKeepsBus
  <2> QED
    BY <1>t, <1>s, <1>o, <2>1, <2>2, StaysOnBus DEF NoZombieSession
<1>2. CASE \E c \in Conn, h \in Half : TaskExits(c, h) \/ ReportTaskExit(c, h)
  <2>1. UNCHANGED <<supVars, session, routers>>
    BY <1>2 DEF TaskExits, ReportTaskExit
  <2>2. bus' = bus \/ \E a \in Event : bus' = Append(bus, a)
    BY <1>2, <1>t, ThreadsKeepBus
  <2> QED
    BY <1>t, <1>s, <1>o, <2>1, <2>2, StaysOnBus DEF NoZombieSession
<1>3. CASE RouterFails
  <2>1. UNCHANGED <<bus, supVars, session>>
    BY <1>3 DEF RouterFails
  <2>2. session # 0 /\ routers'[session] = "failed"
    BY <1>3, <1>t, <1>s DEF RouterFails, TypeOK
  <2> QED
    BY <2>1, <2>2 DEF NoZombieSession
<1>4. ASSUME NEW s \in 1..Len(routers), ReportRouterExit(s) PROVE NoZombieSession'
  <2>1. UNCHANGED <<supVars, session>> /\ bus' = Append(bus, RouterExited(s))
        /\ RouterExited(s) \in Event
    BY <1>4, <1>t, EventTypes DEF ReportRouterExit, TypeOK
  <2>2. CASE s = session
    BY <1>t, <1>o, <2>1, <2>2, AppendedEvent DEF NoZombieSession
  <2>3. CASE s # session
    <3>1. session # 0 => routers'[session] = routers[session]
      BY <1>4, <1>t, <1>s, <2>3 DEF ReportRouterExit, TypeOK
    <3> QED
      BY <1>t, <1>s, <1>o, <2>1, <3>1, StaysOnBus DEF NoZombieSession
  <2> QED
    BY <2>2, <2>3
<1>5. CASE HandlePendingPeer
  <2>1. Receives("PendingPeer") /\ sup' = sup
    BY <1>5 DEF HandlePendingPeer
  <2>2. CASE session = 0
    <3>1. session' = Len(routers) + 1 /\ routers' = Append(routers, "running")
      BY <1>5, <2>2 DEF HandlePendingPeer
    <3>2. routers'[session'] = "running"
      BY <1>t, <3>1 DEF TypeOK, RouterState
    <3> QED
      BY <3>2 DEF NoZombieSession
  <2>3. CASE session # 0
    <3>1. UNCHANGED <<session, routers>>
      BY <1>5, <2>3 DEF HandlePendingPeer
    <3>2. Head(bus) # RouterExited(session) /\ bus # <<>> /\ bus' = Tail(bus)
      BY <2>1 DEF Receives, RouterExited
    <3> QED
      BY <1>t, <1>s, <1>o, <2>1, <3>1, <3>2, StaysOnBus DEF NoZombieSession
  <2> QED
    BY <2>2, <2>3
<1>6. CASE \/ HandleStaleTaskExit \/ HandleRepeatedTaskExit \/ HandleTaskExit
           \/ HandleStaleRouterExit
  <2>1. /\ UNCHANGED <<session, routers>> /\ sup = "recv"
        /\ bus # <<>> /\ bus' = Tail(bus)
    BY <1>6 DEF HandleStaleTaskExit, HandleRepeatedTaskExit, HandleTaskExit,
       HandleStaleRouterExit, Receives
  <2>2. Head(bus) # RouterExited(session)
    BY <1>6 DEF HandleStaleTaskExit, HandleRepeatedTaskExit, HandleTaskExit,
       HandleStaleRouterExit, Receives, RouterExited, SessionMatches
  <2> QED
    BY <1>t, <1>s, <1>o, <2>1, <2>2, StaysOnBus DEF NoZombieSession
<1>7. CASE HandleRouterExit \/ DrainSession
  BY <1>7 DEF HandleRouterExit, DrainSession, NoZombieSession
<1>8. CASE RemovePeer \/ FinishDeparture
  <2>1. UNCHANGED <<bus, session, routers>> /\ sup \in {"detach", "detached"}
    BY <1>8 DEF RemovePeer, FinishDeparture
  <2> QED
    BY <1>t, <1>o, <2>1 DEF NoZombieSession, OnBus
<1>9. CASE FinishShutdown
  BY <1>9 DEF FinishShutdown, NoZombieSession
<1> QED
  BY <1>1, <1>2, <1>3, <1>4, <1>5, <1>6, <1>7, <1>8, <1>9 DEF Next, RouterNext, SupervisorNext

\* The report of an attached peer's task is not lost: the supervisor takes it
\* for a report of an earlier session only if it is one.
LEMMA ZombiePeerStep ==
  ASSUME IInv, Next
  PROVE  NoZombiePeer'
<1> USE DEF ingressVars, supVars, sessionVars, peerVars
<1>t. /\ TypeOK /\ SupervisorPlace /\ NoZombiePeer /\ MembersOfSession
      /\ QueuedPeersAreFresh
  BY DEF IInv
<1>e. \A c \in Conn : PeerTaskExited(c) \in Event
  BY <1>t, EventTypes
<1>c. peerTasks \subseteq registry /\ registry \subseteq Conn
  BY <1>t DEF SupervisorPlace, TypeOK, SupStep
<1>s. SUFFICES ASSUME NEW c \in peerTasks', NEW h \in Half, task'[c][h] = "reported",
                      sup' \notin {"shutdown", "join"}
               PROVE  \E i \in 1..Len(bus') :
                        bus'[i] = [kind |-> "PeerTaskExited", peer |-> c, session |-> sessionOf'[c]]
  BY DEF NoZombiePeer, OnBus, PeerTaskExited
<1>g. ASSUME c \in peerTasks, sessionOf'[c] = sessionOf[c], task[c][h] = "reported",
             sup \notin {"shutdown", "join"},
             \/ bus' = bus
             \/ \E a \in Event : bus' = Append(bus, a)
             \/ bus # <<>> /\ bus' = Tail(bus) /\ Head(bus) # PeerTaskExited(c)
      PROVE  \E i \in 1..Len(bus') :
               bus'[i] = [kind |-> "PeerTaskExited", peer |-> c, session |-> sessionOf'[c]]
  <2>1. OnBus(PeerTaskExited(c)) /\ PeerTaskExited(c) \in Event
    BY <1>t, <1>e, <1>c, <1>g DEF NoZombiePeer
  <2>2. \E i \in 1..Len(bus') : bus'[i] = PeerTaskExited(c)
    BY <1>t, <1>g, <2>1, StaysOnBus
  <2> QED
    BY <1>g, <2>2 DEF PeerTaskExited
<1>1. CASE (\E d \in Conn : ListenerAccepts(d)) \/ ConnectorNext
  BY <1>1, <1>t, <1>s, <1>g, IngressFrame, IngressKeepsBus
<1>2. CASE RouterNext
  BY <1>2, <1>t, <1>s, <1>g, ThreadsKeepBus DEF RouterNext, RouterFails, ReportRouterExit
<1>3. ASSUME NEW d \in Conn, NEW g \in Half, TaskExits(d, g) \/ ReportTaskExit(d, g)
      PROVE  \E i \in 1..Len(bus') :
               bus'[i] = [kind |-> "PeerTaskExited", peer |-> c, session |-> sessionOf'[c]]
  <2>1. UNCHANGED <<sup, peerTasks, sessionOf>>
    BY <1>3 DEF TaskExits, ReportTaskExit
  <2>2. bus' = bus \/ \E a \in Event : bus' = Append(bus, a)
    BY <1>3, <1>t, ThreadsKeepBus
  <2>3. CASE task[c][h] = "reported"
    BY <1>s, <1>g, <2>1, <2>2, <2>3
  <2>4. CASE task[c][h] # "reported"
    <3>1. ReportTaskExit(d, g) /\ c = d
      BY <1>3, <1>t, <1>s, <1>c, <2>1, <2>4 DEF TaskExits, ReportTaskExit, TypeOK
    <3>2. bus' = Append(bus, PeerTaskExited(c)) /\ PeerTaskExited(c) \in Event
      BY <3>1, <1>e DEF ReportTaskExit
    <3> QED
      BY <1>t, <2>1, <3>2, AppendedEvent DEF PeerTaskExited
  <2> QED
    BY <2>3, <2>4
<1>4. CASE HandlePendingPeer
  <2>1. Receives("PendingPeer") /\ sup' = sup /\ peerTasks' = peerTasks \cup {Head(bus).peer}
    BY <1>4 DEF HandlePendingPeer
  <2>2. Head(bus).peer \in Conn
    BY <1>t, <2>1, ReceivedEvent DEF QueuedPeersAreFresh
  <2>3. c # Head(bus).peer
    BY <1>4, <1>t, <1>s, <2>2 DEF HandlePendingPeer, TypeOK
  <2>4. c \in peerTasks /\ c \in Conn
    BY <1>s, <1>c, <2>1, <2>3
  <2>5. sessionOf'[c] = sessionOf[c] /\ task'[c] = task[c]
    BY <1>4, <1>t, <2>3, <2>4 DEF HandlePendingPeer, TypeOK
  <2>6. bus # <<>> /\ bus' = Tail(bus) /\ Head(bus) # PeerTaskExited(c)
    BY <2>1 DEF Receives, PeerTaskExited
  <2> QED
    BY <1>s, <1>g, <2>1, <2>4, <2>5, <2>6
<1>5. CASE HandleStaleTaskExit
  <2>1. UNCHANGED <<sup, peerTasks, sessionOf, task>> /\ bus # <<>> /\ bus' = Tail(bus)
        /\ session # Head(bus).session
    BY <1>5 DEF HandleStaleTaskExit, Receives, SessionMatches
  <2>2. sessionOf[c] = session
    BY <1>t, <1>s, <1>c, <2>1 DEF MembersOfSession
  <2>3. Head(bus) # PeerTaskExited(c)
    BY <2>1, <2>2 DEF PeerTaskExited
  <2> QED
    BY <1>s, <1>g, <2>1, <2>3
<1>6. CASE HandleRepeatedTaskExit \/ HandleTaskExit
  <2>1. /\ sup = "recv" /\ peerTasks' \subseteq peerTasks /\ UNCHANGED <<sessionOf, task>>
        /\ bus # <<>> /\ bus' = Tail(bus)
    BY <1>6 DEF HandleRepeatedTaskExit, HandleTaskExit, Receives
  <2>2. Head(bus).peer \notin peerTasks'
    BY <1>6 DEF HandleRepeatedTaskExit, HandleTaskExit
  <2>3. Head(bus) # PeerTaskExited(c)
    BY <1>s, <2>2 DEF PeerTaskExited
  <2>4. c \in peerTasks /\ sup \notin {"shutdown", "join"}
    BY <1>s, <2>1
  <2> QED
    BY <1>s, <1>g, <2>1, <2>3, <2>4
<1>7. CASE HandleStaleRouterExit
  <2>1. /\ UNCHANGED <<sup, peerTasks, sessionOf, task>> /\ bus # <<>> /\ bus' = Tail(bus)
        /\ Head(bus).kind = "RouterExited"
    BY <1>7 DEF HandleStaleRouterExit, Receives
  <2>2. Head(bus) # PeerTaskExited(c)
    BY <2>1 DEF PeerTaskExited
  <2> QED
    BY <1>s, <1>g, <2>1, <2>2
<1>8. CASE RemovePeer \/ FinishDeparture
  BY <1>8, <1>s, <1>g DEF RemovePeer, FinishDeparture
<1>9. CASE HandleRouterExit \/ DrainSession
  BY <1>9, <1>s DEF HandleRouterExit, DrainSession
<1>10. CASE FinishShutdown
  BY <1>10, <1>s, <1>t DEF FinishShutdown, SupervisorPlace
<1> QED
  BY <1>1, <1>2, <1>3, <1>4, <1>5, <1>6, <1>7, <1>8, <1>9, <1>10 DEF Next, SupervisorNext

\* A session is started only when there is none, and is forgotten only after its
\* router was told to close.
LEMMA OldRoutersStep ==
  ASSUME IInv, Next
  PROVE  OldRoutersEnd'
<1> USE DEF ingressVars, supVars, sessionVars, peerVars
<1>t. TypeOK /\ SupervisorPlace /\ OldRoutersEnd
  BY DEF IInv
<1>1. CASE (\E c \in Conn : ListenerAccepts(c)) \/ ConnectorNext
  BY <1>1, <1>t, IngressFrame DEF OldRoutersEnd
<1>2. CASE (\E c \in Conn, h \in Half : TaskExits(c, h) \/ ReportTaskExit(c, h)) \/ RouterNext
  BY <1>2, <1>t, ThreadsOnlyEnd DEF OldRoutersEnd
<1>3. CASE HandlePendingPeer
  BY <1>3, <1>t DEF HandlePendingPeer, OldRoutersEnd, TypeOK, RouterState
<1>4. CASE \/ HandleStaleTaskExit \/ HandleRepeatedTaskExit \/ HandleTaskExit
           \/ RemovePeer \/ FinishDeparture \/ HandleStaleRouterExit \/ HandleRouterExit
  BY <1>4, <1>t
     DEF HandleStaleTaskExit, HandleRepeatedTaskExit, HandleTaskExit, RemovePeer,
         FinishDeparture, HandleStaleRouterExit, HandleRouterExit, OldRoutersEnd
<1>5. CASE DrainSession
  BY <1>5, <1>t DEF DrainSession, OldRoutersEnd, TypeOK, SupervisorPlace
<1>6. CASE FinishShutdown
  BY <1>6, <1>t DEF FinishShutdown, OldRoutersEnd, TypeOK, SupervisorPlace
<1> QED
  BY <1>1, <1>2, <1>3, <1>4, <1>5, <1>6 DEF Next, SupervisorNext

-----------------------------------------------------------------------------
(***************************************************************************)
(* The invariant, and the theorems it carries.                             *)
(***************************************************************************)

\* The program starts with nothing on the bus and nothing attached.
LEMMA InitIInv == Init => IInv
<1> SUFFICES ASSUME Init PROVE IInv
  OBVIOUS
<1>1. TypeOK
  BY TypeInit
<1>2. Len(bus) = 0 /\ Len(routers) = 0
  BY DEF Init
<1>3. PendingIsFresh /\ QueuedPeersAreFresh /\ QueuedExitsAreReal
  BY <1>2 DEF Init, PendingIsFresh, QueuedPeersAreFresh, QueuedExitsAreReal
<1>4. NoTraceBefore /\ SupervisorPlace /\ MembersOfSession
  BY NoConnAssumption DEF Init, NoTraceBefore, SupervisorPlace, MembersOfSession
<1>5. GateNotStuck /\ NoOrphanTasks /\ NoZombieSession /\ NoZombiePeer /\ OldRoutersEnd
  BY <1>2 DEF Init, GateNotStuck, NoOrphanTasks, NoZombieSession, NoZombiePeer, OldRoutersEnd
<1> QED
  BY <1>1, <1>3, <1>4, <1>5 DEF IInv

\* Every step of the program keeps the invariant.
LEMMA NextIInv ==
  ASSUME IInv, Next
  PROVE  IInv'
<1>1. TypeOK'
  BY TypeIngress, TypeThreads, TypeSupervisor DEF IInv, Next
<1> QED
  BY <1>1, PendingStep, QueuedPeersStep, QueuedExitsStep, NoTraceStep, PlaceStep, MembersStep,
     GateStep, OrphanStep, ZombieSessionStep, ZombiePeerStep, OldRoutersStep DEF IInv

\* A step that changes no variable keeps it.
LEMMA StutterIInv ==
  ASSUME IInv, UNCHANGED vars
  PROVE  IInv'
BY DEF vars, IInv, TypeOK, PendingIsFresh, QueuedPeersAreFresh, QueuedExitsAreReal, NoTraceBefore,
       SupervisorPlace, MembersOfSession, GateNotStuck, NoOrphanTasks, NoZombieSession,
       NoZombiePeer, OldRoutersEnd, OnBus, Outbound, OutboundIn, RouterExited, PeerTaskExited,
       Event

\* The inductive invariant holds throughout.
THEOREM Invariance == Spec => []IInv
<1>1. Init => IInv
  BY InitIInv
<1>2. IInv /\ [Next]_vars => IInv'
  BY NextIInv, StutterIInv
<1> QED
  BY <1>1, <1>2, PTL DEF Spec

\* Every variable keeps its type, and the fields that belong to a handler are
\* set exactly while it runs.
THEOREM TypeCorrect == Spec => []TypeOK
<1>1. IInv => TypeOK
  BY DEF IInv
<1> QED
  BY <1>1, Invariance, PTL

\* A closed gate always has a cause that will open it: the connector never
\* waits for ever (ConnectServerStatus).
THEOREM GateSafe == Spec => []GateNotStuck
<1>1. IInv => GateNotStuck
  BY DEF IInv
<1> QED
  BY <1>1, Invariance, PTL

\* When the supervisor is idle a session exists exactly while peers are attached.
THEOREM SessionSafe == Spec => []SessionHasPeers
<1>1. IInv => SessionHasPeers
  BY DEF IInv, SupervisorPlace, SessionHasPeers
<1> QED
  BY <1>1, Invariance, PTL

\* A task that still runs belongs to a registered or to a force-closed peer.
THEOREM TasksSafe == Spec => []NoOrphanTasks
<1>1. IInv => NoOrphanTasks
  BY DEF IInv
<1> QED
  BY <1>1, Invariance, PTL

\* The end of the active session's router is never overlooked.
THEOREM RouterExitSeen == Spec => []NoZombieSession
<1>1. IInv => NoZombieSession
  BY DEF IInv
<1> QED
  BY <1>1, Invariance, PTL

\* The end of an attached peer's task is never overlooked.
THEOREM TaskExitSeen == Spec => []NoZombiePeer
<1>1. IInv => NoZombiePeer
  BY DEF IInv
<1> QED
  BY <1>1, Invariance, PTL

\* Only the router of the active session keeps running.
THEOREM RoutersSafe == Spec => []OldRoutersEnd
<1>1. IInv => OldRoutersEnd
  BY DEF IInv
<1> QED
  BY <1>1, Invariance, PTL

\* No exit of the active session is lost.
THEOREM ExitsSafe == Spec => []NoExitLost
<1>1. IInv => NoExitLost
  BY DEF IInv, NoExitLost
<1> QED
  BY <1>1, Invariance, PTL

\* Nothing that runs is left behind by the active session.
THEOREM LeftoversSafe == Spec => []NothingLeftBehind
<1>1. IInv => NothingLeftBehind
  BY DEF IInv, NothingLeftBehind
<1> QED
  BY <1>1, Invariance, PTL

-----------------------------------------------------------------------------
(***************************************************************************)
(* What a single step may do.                                              *)
(***************************************************************************)

\* The registry grows in HandlePendingPeer and shrinks in two places only.
LEMMA RegistryFrame ==
  ASSUME Next, ~HandlePendingPeer, ~RemovePeer, ~DrainSession
  PROVE  registry' = registry
BY DEF Next, ConnectorNext, RouterNext, SupervisorNext, ListenerAccepts, ConnectorPasses,
       ConnectFails, ConnectSucceeds, MarkConnected, SendPending, TaskExits, ReportTaskExit,
       RouterFails, ReportRouterExit, HandleStaleTaskExit, HandleRepeatedTaskExit, HandleTaskExit,
       FinishDeparture, HandleStaleRouterExit, HandleRouterExit, FinishShutdown, sessionVars

\* A peer is detached because a task of its own or the router of its own
\* session has ended, never because of a late event of another session.
THEOREM DetachCause == Spec => DetachedForCause
<1>1. ASSUME IInv, Next, NEW c \in registry \ registry'
      PROVE  \/ \E h \in Half : task[c][h] \in {"exited", "reported"}
             \/ routers[sessionOf[c]] \in {"failed", "reported"}
  <2>1. CASE RemovePeer
    <3>1. c = leaving /\ sup = "detach"
      BY <1>1, <2>1 DEF RemovePeer
    <3> QED
      BY <1>1, <3>1 DEF IInv, SupervisorPlace
  <2>2. CASE DrainSession
    <3>1. routers[session] = "reported"
      BY <1>1, <2>2 DEF DrainSession, IInv, SupervisorPlace
    <3>2. sessionOf[c] = session
      BY <1>1 DEF IInv, MembersOfSession
    <3> QED
      BY <3>1, <3>2
  <2>3. CASE HandlePendingPeer
    BY <1>1, <2>3 DEF HandlePendingPeer
  <2> QED
    BY <1>1, <2>1, <2>2, <2>3, RegistryFrame
<1>2. IInv /\ [Next]_vars =>
        [\A c \in registry \ registry' :
           \/ \E h \in Half : task[c][h] \in {"exited", "reported"}
           \/ routers[sessionOf[c]] \in {"failed", "reported"}]_vars
  BY <1>1
<1> QED
  BY <1>2, Invariance, PTL DEF Spec, DetachedForCause

-----------------------------------------------------------------------------
(***************************************************************************)
(* The supervisor implements the session life cycle of the README.         *)
(***************************************************************************)

\* The program starts in an initial state of the life cycle.
LEMMA LifecycleInit == Init => Lifecycle!Init
BY DEF Init, Lifecycle!Init, InService, Half

\* A step that touches no session data, no router and starts no task stutters.
LEMMA LifecycleStutter ==
  ASSUME UNCHANGED <<session, registry, routers>>,
         \A c \in Conn : task'[c]["reader"] # "idle" <=> task[c]["reader"] # "idle"
  PROVE  UNCHANGED Lifecycle!vars
BY DEF Lifecycle!vars, InService

\* Every step of the program is a step of the life cycle or a stutter.
LEMMA LifecycleNext ==
  ASSUME IInv, Next
  PROVE  Lifecycle!Next \/ UNCHANGED Lifecycle!vars
<1> USE DEF ingressVars, supVars, sessionVars, peerVars
<1>t. /\ TypeOK /\ SupervisorPlace /\ QueuedPeersAreFresh
      /\ (session # 0 => session \in 1..Len(routers))
  BY DEF IInv, TypeOK
<1>1. CASE (\E c \in Conn : ListenerAccepts(c)) \/ ConnectorNext
  BY <1>1, IngressFrame, LifecycleStutter
<1>2. ASSUME NEW c \in Conn, NEW h \in Half, TaskExits(c, h) \/ ReportTaskExit(c, h)
      PROVE  UNCHANGED Lifecycle!vars
  <2>1. UNCHANGED <<session, registry, routers>>
    BY <1>2 DEF TaskExits, ReportTaskExit
  <2>2. \A d \in Conn, g \in Half : task[d][g] # "idle" => task'[d][g] # "idle"
    BY <1>2, <1>t, ThreadsOnlyEnd
  <2>3. task[c][h] # "idle" /\ \A d \in Conn, g \in Half :
          task'[d][g] = task[d][g] \/ (d = c /\ g = h)
    BY <1>2, <1>t DEF TaskExits, ReportTaskExit, TypeOK
  <2>4. \A d \in Conn : task'[d]["reader"] # "idle" <=> task[d]["reader"] # "idle"
    BY <2>2, <2>3 DEF Half
  <2> QED
    BY <2>1, <2>4, LifecycleStutter
<1>3. CASE RouterFails
  <2>1. UNCHANGED <<session, registry, task>> /\ session # 0 /\ routers[session] = "running"
    BY <1>3 DEF RouterFails
  <2>2. Len(routers') = Len(routers) /\ routers'[session] = "failed"
    BY <1>3, <1>t, <2>1 DEF RouterFails, TypeOK
  <2>3. CASE registry = {}
    BY <2>1, <2>2, <2>3 DEF Lifecycle!vars, InService
  <2>4. CASE registry # {}
    <3>1. Lifecycle!RouterStops
      BY <2>1, <2>2, <2>4 DEF Lifecycle!RouterStops, InService
    <3> QED
      BY <3>1 DEF Lifecycle!Next
  <2> QED
    BY <2>3, <2>4
<1>4. ASSUME NEW s \in 1..Len(routers), ReportRouterExit(s)
      PROVE  UNCHANGED Lifecycle!vars
  <2>1. UNCHANGED <<session, registry, task>>
    BY <1>4 DEF ReportRouterExit
  <2>2. Len(routers') = Len(routers)
        /\ (session # 0 => (routers'[session] = "running" <=> routers[session] = "running"))
    BY <1>4, <1>t DEF ReportRouterExit, TypeOK
  <2>3. registry # {} => session # 0
    BY <1>t DEF SupervisorPlace, TypeOK, SupStep
  <2> QED
    BY <2>1, <2>2, <2>3 DEF Lifecycle!vars, InService
<1>5. CASE HandlePendingPeer
  <2>0. Receives("PendingPeer")
    BY <1>5 DEF HandlePendingPeer
  <2>c. Head(bus).peer \in Conn
    BY <1>t, <2>0, ReceivedEvent DEF QueuedPeersAreFresh
  <2>p. PICK c \in Conn : c = Head(bus).peer
    BY <2>c
  <2>1. registry' = registry \cup {c}
    BY <1>5, <2>p DEF HandlePendingPeer
  <2>2. task[c] = [h \in Half |-> "idle"]
    BY <1>t, <2>0, <2>p, ReceivedEvent DEF QueuedPeersAreFresh
  <2>3. task'[c]["reader"] = "running"
    BY <1>5, <1>t, <2>p DEF HandlePendingPeer, TypeOK, Half
  <2>4. \A d \in Conn : d # c => task'[d] = task[d]
    BY <1>5, <1>t, <2>p DEF HandlePendingPeer, TypeOK
  <2>5. task[c]["reader"] = "idle"
    BY <2>2 DEF Half
  <2>6. {d \in Conn : task'[d]["reader"] # "idle"}
          = {d \in Conn : task[d]["reader"] # "idle"} \cup {c}
    BY <2>2, <2>3, <2>4
  <2>7. CASE session = 0
    <3>1. session' = Len(routers) + 1 /\ routers' = Append(routers, "running") /\ registry = {}
      BY <1>5, <1>t, <2>0, <2>7 DEF HandlePendingPeer, Receives, SupervisorPlace
    <3>2. Len(routers') = Len(routers) + 1 /\ routers'[session'] = "running"
      BY <1>t, <3>1 DEF TypeOK, RouterState
    <3>3. Lifecycle!Begin(c)
      BY <2>1, <2>5, <2>6, <3>1, <3>2 DEF Lifecycle!Begin, InService
    <3> QED
      BY <3>3 DEF Lifecycle!Next
  <2>8. CASE session # 0
    <3>1. UNCHANGED <<session, routers>> /\ registry # {}
      BY <1>5, <1>t, <2>0, <2>8 DEF HandlePendingPeer, Receives, SupervisorPlace
    <3>2. Lifecycle!Join(c)
      BY <2>1, <2>5, <2>6, <2>8, <3>1 DEF Lifecycle!Join, InService
    <3> QED
      BY <3>2 DEF Lifecycle!Next
  <2> QED
    BY <2>7, <2>8
<1>6. CASE \/ HandleStaleTaskExit \/ HandleRepeatedTaskExit \/ HandleTaskExit
           \/ FinishDeparture \/ HandleStaleRouterExit \/ HandleRouterExit
  BY <1>6, LifecycleStutter
     DEF HandleStaleTaskExit, HandleRepeatedTaskExit, HandleTaskExit, FinishDeparture,
         HandleStaleRouterExit, HandleRouterExit
<1>7. CASE RemovePeer
  <2>1. /\ UNCHANGED <<session, routers, task>> /\ registry' = registry \ {leaving}
        /\ leaving \in registry /\ session # 0 /\ leaving \in Conn
    BY <1>7, <1>t DEF RemovePeer, SupervisorPlace, TypeOK
  <2>2. CASE registry = {leaving}
    <3>1. Lifecycle!End
      BY <2>1, <2>2 DEF Lifecycle!End, InService
    <3> QED
      BY <3>1 DEF Lifecycle!Next
  <2>3. CASE registry # {leaving}
    <3>1. Lifecycle!Leave(leaving)
      BY <2>1, <2>3 DEF Lifecycle!Leave, InService
    <3> QED
      BY <2>1, <3>1 DEF Lifecycle!Next
  <2> QED
    BY <2>2, <2>3
<1>8. CASE DrainSession
  <2>1. UNCHANGED <<session, task>> /\ registry' = {} /\ session # 0
    BY <1>8, <1>t DEF DrainSession, SupervisorPlace
  <2>2. Len(routers') = Len(routers)
    BY <1>8, <1>t DEF DrainSession, TypeOK
  <2>3. CASE registry = {}
    BY <2>1, <2>2, <2>3 DEF Lifecycle!vars, InService
  <2>4. CASE registry # {}
    <3>1. routers[session] = "reported"
      BY <1>8, <1>t, <2>4 DEF DrainSession, SupervisorPlace
    <3>2. Lifecycle!End
      BY <2>1, <2>2, <2>4, <3>1 DEF Lifecycle!End, InService
    <3> QED
      BY <3>2 DEF Lifecycle!Next
  <2> QED
    BY <2>3, <2>4
<1>9. CASE FinishShutdown
  <2>1. UNCHANGED <<registry, routers, task>> /\ registry = {}
    BY <1>9, <1>t DEF FinishShutdown, SupervisorPlace
  <2> QED
    BY <2>1 DEF Lifecycle!vars, InService
<1> QED
  BY <1>1, <1>2, <1>3, <1>4, <1>5, <1>6, <1>7, <1>8, <1>9 DEF Next, RouterNext, SupervisorNext

\* The sessions the supervisor runs are the sessions the README describes.
THEOREM Refinement == Spec => ImplementsLifecycle
<1>1. Init => Lifecycle!Init
  BY LifecycleInit
<1>2. IInv /\ [Next]_vars => [Lifecycle!Next]_(Lifecycle!vars)
  <2>1. ASSUME UNCHANGED vars PROVE UNCHANGED Lifecycle!vars
    BY <2>1, LifecycleStutter DEF vars
  <2> QED
    BY <2>1, LifecycleNext
<1> QED
  BY <1>1, <1>2, Invariance, PTL DEF Spec, ImplementsLifecycle, Lifecycle!Spec
=============================================================================
