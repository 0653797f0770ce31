------------------------------- MODULE Routing -------------------------------
(***************************************************************************)
(* The bounded queues of one session and who waits at them: the readers of *)
(* the peers and the monitors fill the route channel, the router empties   *)
(* it into the peers' control queues, the writers empty those into the     *)
(* connections; the supervisor detaches peers and shuts the session down,  *)
(* for which it puts a Close into the route channel as well.               *)
(*                                                                         *)
(* Readers and writers are tasks of one tokio runtime with a fixed number  *)
(* of worker threads. A reader sends into the route channel without        *)
(* block_in_place: while it waits for room it keeps its worker. A writer   *)
(* that waits for a signal does so in block_in_place and keeps none; one   *)
(* that waits for its connection has to be polled by a worker to go on,    *)
(* and to be aborted.                                                      *)
(*                                                                         *)
(* All peers are attached and nobody joins the session. A command executes *)
(* in one step; Player and Recorder have them in full. Close messages to a *)
(* peer and the audio queue are in WriterPump, the control plane with more *)
(* sessions than one in Supervisor.                                        *)
(***************************************************************************)
EXTENDS Naturals, Sequences, FiniteSets

CONSTANTS
  Peer,             \* the peers of the session
  Workers,          \* worker_threads(2)
  RouteCapacity,    \* sync_channel::<SessionControl>(256)
  ControlCapacity,  \* sync_channel::<OutboundControl>(256)
  Reading,          \* the peers that read what they are sent
  MaxFrames,        \* bound: frames each peer sends
  MaxReports        \* bound: reports the monitors make

ASSUME PeerAssumption == IsFiniteSet(Peer) /\ Peer # {}
ASSUME ReadingAssumption == Reading \subseteq Peer
ASSUME BoundAssumption ==
  /\ {Workers, RouteCapacity, ControlCapacity} \subseteq Nat \ {0}
  /\ {MaxFrames, MaxReports} \subseteq Nat

VARIABLES
  registered,  \* PeerContextRegistry
  closed,      \* the peers whose WsPeerHandle has been closed
  frames,      \* how many frames each peer has sent
  reader,      \* "reading", "blocked" at the route channel, "exited"
  route,       \* the route channel
  router,      \* "running" or "ended"
  todo,        \* the peers the router still has to send its message to
  control,     \* how many messages each control queue holds
  writer,      \* "waiting" for a signal, "draining", "pending" at its connection, "exited"
  monitor,     \* "watching", "blocked" at the route channel, "ended"
  reports,     \* how many reports the monitors have made
  supervisor   \* "running", "sendClose", "joinMonitors", "done"

readerVars  == <<frames, reader>>
routerVars  == <<router, todo>>
monitorVars == <<monitor, reports>>
sessionVars == <<registered, closed, supervisor>>
vars == <<registered, closed, frames, reader, route, router, todo, control, writer, monitor,
          reports, supervisor>>

\* What travels through the route channel: a frame, named after its peer, a
\* report of a monitor, or the supervisor's Close.
Item == Peer \cup {"report", "close"}

TypeOK ==
  /\ registered \subseteq Peer
  /\ closed \subseteq Peer
  /\ frames \in [Peer -> 0..MaxFrames]
  /\ reader \in [Peer -> {"reading", "blocked", "exited"}]
  /\ route \in Seq(Item)
  /\ Len(route) <= RouteCapacity
  /\ router \in {"running", "ended"}
  /\ todo \subseteq Peer
  /\ control \in [Peer -> 0..ControlCapacity]
  /\ writer \in [Peer -> {"waiting", "draining", "pending", "exited"}]
  /\ monitor \in {"watching", "blocked", "ended"}
  /\ reports \in 0..MaxReports
  /\ supervisor \in {"running", "sendClose", "joinMonitors", "done"}

Init ==
  /\ registered = Peer
  /\ closed = {}
  /\ frames = [p \in Peer |-> 0]
  /\ reader = [p \in Peer |-> "reading"]
  /\ route = <<>>
  /\ router = "running"
  /\ todo = {}
  /\ control = [p \in Peer |-> 0]
  /\ writer = [p \in Peer |-> "waiting"]
  /\ monitor = "watching"
  /\ reports = 0
  /\ supervisor = "running"

Blocked == {p \in Peer : reader[p] = "blocked"}

\* A worker that can poll a task.
FreeWorker == Cardinality(Blocked) < Workers

RouteHasRoom == Len(route) < RouteCapacity

-----------------------------------------------------------------------------
\* The readers.

\* A frame arrives and is decoded, and the reader starts to send it.
Receives(p) ==
  /\ reader[p] = "reading"
  /\ FreeWorker
  /\ frames[p] < MaxFrames
  /\ frames' = [frames EXCEPT ![p] = @ + 1]
  /\ reader' = [reader EXCEPT ![p] = "blocked"]
  /\ UNCHANGED <<sessionVars, route, routerVars, control, writer, monitorVars>>

Forwards(p) ==
  /\ reader[p] = "blocked"
  /\ router = "running"
  /\ RouteHasRoom
  /\ route' = Append(route, p)
  /\ reader' = [reader EXCEPT ![p] = "reading"]
  /\ UNCHANGED <<sessionVars, frames, routerVars, control, writer, monitorVars>>

\* The router has ended, and the reader ends.
FailsToForward(p) ==
  /\ reader[p] = "blocked"
  /\ router = "ended"
  /\ reader' = [reader EXCEPT ![p] = "exited"]
  /\ UNCHANGED <<sessionVars, frames, route, routerVars, control, writer, monitorVars>>

\* The peer has closed the connection, the connection or a frame is broken, or
\* the task is aborted: for all of them it has to be polled.
ReaderExits(p) ==
  /\ reader[p] = "reading"
  /\ FreeWorker
  /\ reader' = [reader EXCEPT ![p] = "exited"]
  /\ UNCHANGED <<sessionVars, frames, route, routerVars, control, writer, monitorVars>>

-----------------------------------------------------------------------------
\* The monitors.

Reports ==
  /\ monitor = "watching"
  /\ reports < MaxReports
  /\ reports' = reports + 1
  /\ monitor' = "blocked"
  /\ UNCHANGED <<sessionVars, readerVars, route, routerVars, control, writer>>

ReportIsRouted ==
  /\ monitor = "blocked"
  /\ router = "running"
  /\ RouteHasRoom
  /\ route' = Append(route, "report")
  /\ monitor' = "watching"
  /\ UNCHANGED <<sessionVars, readerVars, routerVars, control, writer, reports>>

\* The report cannot be sent any more, or the session asks the monitor to end.
MonitorEnds ==
  /\ \/ monitor = "blocked" /\ router = "ended"
     \/ monitor = "watching" /\ supervisor = "joinMonitors"
  /\ monitor' = "ended"
  /\ UNCHANGED <<sessionVars, readerVars, route, routerVars, control, writer, reports>>

MonitorGoesOn == ReportIsRouted \/ MonitorEnds

-----------------------------------------------------------------------------
\* The router.

\* Whom the router sends something to when it takes m: a report goes to all
\* peers, a request is answered to its peer if it is still there, any other
\* frame is not answered.
Targets(m) ==
  CASE m = "report" -> {registered}
    [] m = "close"  -> {{}}
    [] OTHER        -> {{}, {m} \cap registered}

Takes ==
  /\ router = "running"
  /\ todo = {}
  /\ route # <<>>
  /\ route' = Tail(route)
  /\ todo' \in Targets(Head(route))
  /\ router' = IF Head(route) = "close" THEN "ended" ELSE "running"
  /\ UNCHANGED <<sessionVars, readerVars, control, writer, monitorVars>>

\* Waits while the queue is full and the writer is there.
Dispatches(q) ==
  /\ q \in todo
  /\ writer[q] # "exited"
  /\ control[q] < ControlCapacity
  /\ control' = [control EXCEPT ![q] = @ + 1]
  /\ todo' = todo \ {q}
  /\ UNCHANGED <<sessionVars, readerVars, route, router, writer, monitorVars>>

\* Mutant: a dispatch that fails is tried again.
RetriesDispatch(q) ==
  /\ q \in todo
  /\ writer[q] = "exited"
  /\ UNCHANGED vars

\* The error ends the router.
FailsToDispatch(q) ==
  /\ q \in todo
  /\ writer[q] = "exited"
  /\ router' = "ended"
  /\ todo' = {}
  /\ UNCHANGED <<sessionVars, readerVars, route, control, writer, monitorVars>>

RouterNext == Takes \/ \E q \in Peer : Dispatches(q) \/ FailsToDispatch(q)

-----------------------------------------------------------------------------
\* The writers.

Wakes(p) ==
  /\ writer[p] = "waiting"
  /\ control[p] > 0
  /\ writer' = [writer EXCEPT ![p] = "draining"]
  /\ UNCHANGED <<sessionVars, readerVars, route, routerVars, control, monitorVars>>

\* The connection takes the message at once, or the task is suspended.
TakesMessage(p) ==
  /\ writer[p] = "draining"
  /\ control[p] > 0
  /\ control' = [control EXCEPT ![p] = @ - 1]
  /\ \E next \in {"draining", "pending"} : writer' = [writer EXCEPT ![p] = next]
  /\ UNCHANGED <<sessionVars, readerVars, route, routerVars, monitorVars>>

Sleeps(p) ==
  /\ writer[p] = "draining"
  /\ control[p] = 0
  /\ writer' = [writer EXCEPT ![p] = "waiting"]
  /\ UNCHANGED <<sessionVars, readerVars, route, routerVars, control, monitorVars>>

\* The peer has read, the connection takes the message, and a worker polls the
\* task.
Resumes(p) ==
  /\ writer[p] = "pending"
  /\ FreeWorker
  /\ writer' = [writer EXCEPT ![p] = "draining"]
  /\ UNCHANGED <<sessionVars, readerVars, route, routerVars, control, monitorVars>>

\* The writer sees that it is to close, or its connection fails; suspended it
\* has to be polled for that, and to be aborted. The queue goes with it.
WriterExits(p) ==
  /\ \/ writer[p] = "waiting" /\ p \in closed
     \/ writer[p] = "draining"
     \/ writer[p] = "pending" /\ FreeWorker
  /\ writer' = [writer EXCEPT ![p] = "exited"]
  /\ control' = [control EXCEPT ![p] = 0]
  /\ UNCHANGED <<sessionVars, readerVars, route, routerVars, monitorVars>>

WriterGoesOn(p) == Wakes(p) \/ TakesMessage(p) \/ Sleeps(p)

-----------------------------------------------------------------------------
\* The supervisor.

\* Mutant: the peer is forgotten and its handle not closed.
ForgetsPeer(p) ==
  /\ supervisor = "running"
  /\ p \in registered
  /\ reader[p] = "exited" \/ writer[p] = "exited"
  /\ registered' = registered \ {p}
  /\ supervisor' = IF registered = {p} THEN "sendClose" ELSE "running"
  /\ UNCHANGED <<closed, readerVars, route, routerVars, control, writer, monitorVars>>

\* handle_peer_departure, and shutdown after the last peer.
Departs(p) ==
  /\ supervisor = "running"
  /\ p \in registered
  /\ reader[p] = "exited" \/ writer[p] = "exited"
  /\ registered' = registered \ {p}
  /\ closed' = closed \cup {p}
  /\ supervisor' = IF registered = {p} THEN "sendClose" ELSE "running"
  /\ UNCHANGED <<readerVars, route, routerVars, control, writer, monitorVars>>

\* The router has failed, and the session is shut down with all its peers.
RouterFailed ==
  /\ supervisor = "running"
  /\ router = "ended"
  /\ registered' = {}
  /\ supervisor' = "sendClose"
  /\ UNCHANGED <<closed, readerVars, route, routerVars, control, writer, monitorVars>>

\* Mutant: the Close goes to the router and the handles are not closed.
SendsCloseOnly ==
  /\ supervisor = "sendClose"
  /\ \/ router = "running" /\ RouteHasRoom /\ route' = Append(route, "close")
     \/ router = "ended" /\ UNCHANGED route
  /\ supervisor' = "joinMonitors"
  /\ UNCHANGED <<registered, closed, readerVars, routerVars, control, writer, monitorVars>>

\* send(Close), which waits for room or for the end of the router; then the
\* handles of the peers that were left are closed.
SendsClose ==
  /\ supervisor = "sendClose"
  /\ \/ router = "running" /\ RouteHasRoom /\ route' = Append(route, "close")
     \/ router = "ended" /\ UNCHANGED route
  /\ closed' = Peer
  /\ supervisor' = "joinMonitors"
  /\ UNCHANGED <<registered, readerVars, routerVars, control, writer, monitorVars>>

JoinsMonitors ==
  /\ supervisor = "joinMonitors"
  /\ monitor = "ended"
  /\ supervisor' = "done"
  /\ UNCHANGED <<registered, closed, readerVars, route, routerVars, control, writer,
                 monitorVars>>

SupervisorNext == RouterFailed \/ SendsClose \/ JoinsMonitors \/ \E p \in Peer : Departs(p)

-----------------------------------------------------------------------------
Next ==
  \/ \E p \in Peer : Receives(p) \/ Forwards(p) \/ FailsToForward(p) \/ ReaderExits(p)
  \/ Reports
  \/ MonitorGoesOn
  \/ RouterNext
  \/ \E p \in Peer : WriterGoesOn(p) \/ Resumes(p) \/ WriterExits(p)
  \/ SupervisorNext

Spec == Init /\ [][Next]_vars

\* A thread that can go on does. A task that is ready is polled when a worker
\* is free again and again: the run queue is fair, and no task runs for ever.
\* Nobody owes a frame or a report; a peer that reads lets its writer go on.
ThreadsGoOn ==
  \/ RouterNext
  \/ SupervisorNext
  \/ MonitorGoesOn
  \/ \E p \in Peer : Forwards(p) \/ FailsToForward(p) \/ WriterGoesOn(p)

Fairness ==
  /\ WF_vars(ThreadsGoOn)
  /\ SF_vars(\E p \in Reading : Resumes(p))
  /\ SF_vars(\E p \in closed : ReaderExits(p) \/ WriterExits(p))

FairSpec == Spec /\ Fairness

-----------------------------------------------------------------------------
\* What the queues guarantee.

\* With a worker that is free again and again a shutdown comes to its end,
\* although it sends into a channel that may be full while the router waits for
\* a peer that does not read, and waits for monitors that send into the same
\* channel.
ShutdownCompletes ==
  []<>FreeWorker => (supervisor = "sendClose" ~> supervisor = "done")

\* A shutdown that has to wait for room in the route channel of a running router
\* has closed every handle before: the tasks of the peer at whose queue the
\* router waits have been told to end.
CloseCanBeSent == supervisor = "sendClose" /\ router = "running" => closed = Peer

\* In a session with no more peers than workers they can: one of the two tasks of
\* that peer has exited already, and if it is not the writer, then its reader
\* has left a worker to the others.
ShutdownHasWorker ==
  Cardinality(Peer) <= Workers /\ supervisor = "sendClose" /\ router = "running" =>
    FreeWorker \/ \A q \in todo : writer[q] # "pending"

\* WsPeerHandle::close: in the end both tasks of a closed peer exit, and a
\* router that waits at its queue comes back.
TasksEnd(p) == reader[p] = "exited" /\ writer[p] = "exited" /\ p \notin todo

ClosedTasksEnd == []<>(\A p \in closed : TasksEnd(p))

\* Nothing waits: the route channel and the control queues are empty.
Settled ==
  \/ router = "ended"
  \/ route = <<>> /\ todo = {} /\ Blocked = {} /\ \A p \in Peer : control[p] = 0

\* Neither the router nor a reader that sends nor a writer that has not been
\* suspended can go on.
StandsStill ==
  /\ router = "running"
  /\ todo = {} => route = <<>>
  /\ \A q \in todo : writer[q] # "exited" /\ control[q] = ControlCapacity
  /\ RouteHasRoom => Blocked = {}
  /\ \A p \in Peer : writer[p] # "draining" /\ (writer[p] = "waiting" => control[p] = 0)

\* The queues hold each other up in one way only: with something unserved the
\* session stands still because every writer the router waits for is suspended, or,
\* if it waits for none, because a suspended writer has messages left, and then a
\* worker is free to poll it.
OnlyWritersHoldUp ==
  StandsStill /\ ~Settled =>
    /\ \A q \in todo : writer[q] = "pending"
    /\ todo = {} => FreeWorker /\ \E p \in Peer : writer[p] = "pending" /\ control[p] > 0

\* With peers that read, and a worker that is free again and again, everything
\* that is sent into the session is routed and written in the end, and the
\* tasks of detached peers exit.
ServedWhileWorkersFree ==
  []<>FreeWorker /\ (\A p \in Peer \ Reading : []<>(writer[p] # "pending"))
    => <>[](Settled /\ \A p \in Peer \ registered : TasksEnd(p))
=============================================================================
