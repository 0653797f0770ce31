---------------------------- MODULE RoutingProofs ----------------------------
(***************************************************************************)
(* Proofs about Routing for any set of peers, any number of workers and    *)
(* any capacities.                                                         *)
(***************************************************************************)
EXTENDS Routing, SequenceTheorems, FiniteSetTheorems, TLAPS

-----------------------------------------------------------------------------
\* The inductive invariant, in named parts.

\* As long as no shutdown has begun every peer is registered or has been closed.
NobodyForgotten == supervisor = "running" => registered \cup closed = Peer

\* Up to the end of the session a peer is closed only for the exit of one of its
\* tasks.
ClosedHaveExited ==
  supervisor \in {"running", "sendClose"} =>
    \A p \in closed : reader[p] = "exited" \/ writer[p] = "exited"

\* The control queue goes with its writer.
ExitedIsEmpty == \A p \in Peer : writer[p] = "exited" => control[p] = 0

IInv == TypeOK /\ NobodyForgotten /\ CloseCanBeSent /\ ClosedHaveExited /\ ExitedIsEmpty

ReaderNext(p) == Receives(p) \/ Forwards(p) \/ FailsToForward(p) \/ ReaderExits(p)
MonitorNext   == Reports \/ MonitorGoesOn
WriterNext(p) == WriterGoesOn(p) \/ Resumes(p) \/ WriterExits(p)

-----------------------------------------------------------------------------
(***************************************************************************)
(* The invariant holds at first and is kept by every step.                 *)
(***************************************************************************)

\* All peers are registered and the queues are empty.
LEMMA Initially == Init => IInv
<1> SUFFICES ASSUME Init PROVE IInv
    OBVIOUS
<1> USE BoundAssumption
<1>1. TypeOK
  <2>1. route \in Seq(Item) /\ Len(route) = 0
        BY DEF Init
  <2>2. QED
        BY <2>1 DEF Init, TypeOK
<1>2. NobodyForgotten /\ CloseCanBeSent /\ ClosedHaveExited /\ ExitedIsEmpty
      BY DEF Init, NobodyForgotten, CloseCanBeSent, ClosedHaveExited, ExitedIsEmpty
<1>3. QED
      BY <1>1, <1>2 DEF IInv

\* Something is put into the route channel, which has room.
LEMMA RouteGrows ==
  ASSUME route \in Seq(Item), Len(route) <= RouteCapacity, RouteHasRoom, NEW m \in Item
  PROVE  Append(route, m) \in Seq(Item) /\ Len(Append(route, m)) <= RouteCapacity
BY BoundAssumption DEF RouteHasRoom

\* A reader reads, waits at the route channel or exits.
LEMMA ReaderTypes ==
  ASSUME TypeOK, NEW p \in Peer, ReaderNext(p)
  PROVE  TypeOK'
<1> USE BoundAssumption DEF readerVars, routerVars, monitorVars, sessionVars
<1>1. CASE Receives(p)
      BY <1>1 DEF TypeOK, Receives
<1>2. CASE Forwards(p)
  <2>1. p \in Item
        BY DEF Item
  <2>2. route' \in Seq(Item) /\ Len(route') <= RouteCapacity
        BY <1>2, <2>1, RouteGrows DEF TypeOK, Forwards
  <2>3. QED
        BY <1>2, <2>2 DEF TypeOK, Forwards
<1>3. CASE FailsToForward(p)
      BY <1>3 DEF TypeOK, FailsToForward
<1>4. CASE ReaderExits(p)
      BY <1>4 DEF TypeOK, ReaderExits
<1>5. QED
      BY <1>1, <1>2, <1>3, <1>4 DEF ReaderNext

\* A monitor reports, or ends.
LEMMA MonitorTypes ==
  ASSUME TypeOK, MonitorNext
  PROVE  TypeOK'
<1> USE BoundAssumption DEF readerVars, routerVars, monitorVars, sessionVars
<1>1. CASE Reports
      BY <1>1 DEF TypeOK, Reports
<1>2. CASE ReportIsRouted
  <2>1. "report" \in Item
        BY DEF Item
  <2>2. route' \in Seq(Item) /\ Len(route') <= RouteCapacity
        BY <1>2, <2>1, RouteGrows DEF TypeOK, ReportIsRouted
  <2>3. QED
        BY <1>2, <2>2 DEF TypeOK, ReportIsRouted
<1>3. CASE MonitorEnds
      BY <1>3 DEF TypeOK, MonitorEnds
<1>4. QED
      BY <1>1, <1>2, <1>3 DEF MonitorNext, MonitorGoesOn

\* The router takes from one queue and puts into others.
LEMMA RouterTypes ==
  ASSUME TypeOK, RouterNext
  PROVE  TypeOK'
<1> USE BoundAssumption DEF readerVars, routerVars, monitorVars, sessionVars
<1>1. CASE Takes
  <2>1. Head(route) \in Item /\ Tail(route) \in Seq(Item) /\ Len(Tail(route)) <= RouteCapacity
        BY <1>1 DEF TypeOK, Takes
  <2>2. \A s \in Targets(Head(route)) : s \subseteq Peer
        BY DEF TypeOK, Targets
  <2>3. todo' \subseteq Peer
        BY <1>1, <2>2 DEF Takes
  <2>4. QED
        BY <1>1, <2>1, <2>3 DEF TypeOK, Takes
<1>2. CASE \E q \in Peer : Dispatches(q)
  <2>1. PICK q \in Peer : Dispatches(q)
        BY <1>2
  <2>2. QED
        BY <2>1 DEF TypeOK, Dispatches
<1>3. CASE \E q \in Peer : FailsToDispatch(q)
      BY <1>3 DEF TypeOK, FailsToDispatch
<1>4. QED
      BY <1>1, <1>2, <1>3 DEF RouterNext

\* A writer wakes, takes from its queue, sleeps or exits.
LEMMA WriterTypes ==
  ASSUME TypeOK, NEW p \in Peer, WriterNext(p)
  PROVE  TypeOK'
<1> USE BoundAssumption DEF readerVars, routerVars, monitorVars, sessionVars
<1>1. CASE Wakes(p)
      BY <1>1 DEF TypeOK, Wakes
<1>2. CASE TakesMessage(p)
      BY <1>2 DEF TypeOK, TakesMessage
<1>3. CASE Sleeps(p)
      BY <1>3 DEF TypeOK, Sleeps
<1>4. CASE Resumes(p)
      BY <1>4 DEF TypeOK, Resumes
<1>5. CASE WriterExits(p)
      BY <1>5 DEF TypeOK, WriterExits
<1>6. QED
      BY <1>1, <1>2, <1>3, <1>4, <1>5 DEF WriterNext, WriterGoesOn

\* Only the supervisor can break the other two parts; the router can end but
\* not come back.
LEMMA OthersKeep ==
  ASSUME IInv,
         \/ \E p \in Peer : ReaderNext(p) \/ WriterNext(p)
         \/ MonitorNext
         \/ RouterNext
  PROVE  NobodyForgotten' /\ CloseCanBeSent'
<1>1. UNCHANGED sessionVars /\ (router' = router \/ router' = "ended")
  <2> USE DEF routerVars, sessionVars
  <2>1. CASE \E p \in Peer : ReaderNext(p)
        BY <2>1 DEF ReaderNext, Receives, Forwards, FailsToForward, ReaderExits
  <2>2. CASE \E p \in Peer : WriterNext(p)
        BY <2>2 DEF WriterNext, WriterGoesOn, Wakes, TakesMessage, Sleeps, Resumes, WriterExits
  <2>3. CASE MonitorNext
        BY <2>3 DEF MonitorNext, Reports, MonitorGoesOn, ReportIsRouted, MonitorEnds
  <2>4. CASE RouterNext
        BY <2>4 DEF RouterNext, Takes, Dispatches, FailsToDispatch, IInv, TypeOK
  <2>5. QED
        BY <2>1, <2>2, <2>3, <2>4
<1>2. QED
      BY <1>1 DEF IInv, NobodyForgotten, CloseCanBeSent, sessionVars

\* A task that has exited does not come back, and nobody else is closed.
LEMMA ClosedStep ==
  ASSUME TypeOK, ClosedHaveExited, Next
  PROVE  ClosedHaveExited'
<1> USE DEF ClosedHaveExited, TypeOK, readerVars, routerVars, monitorVars, sessionVars
<1>1. CASE \E p \in Peer : ReaderNext(p)
      BY <1>1 DEF ReaderNext, Receives, Forwards, FailsToForward, ReaderExits
<1>2. CASE \E p \in Peer : WriterNext(p)
      BY <1>2 DEF WriterNext, WriterGoesOn, Wakes, TakesMessage, Sleeps, Resumes, WriterExits
<1>3. CASE MonitorNext \/ RouterNext
      BY <1>3 DEF MonitorNext, Reports, MonitorGoesOn, ReportIsRouted, MonitorEnds,
                  RouterNext, Takes, Dispatches, FailsToDispatch
<1>4. CASE SupervisorNext
      BY <1>4 DEF SupervisorNext, RouterFailed, SendsClose, JoinsMonitors, Departs
<1>5. QED
      BY <1>1, <1>2, <1>3, <1>4 DEF Next, ReaderNext, WriterNext, MonitorNext

\* Nothing is put into the queue of a writer that has exited.
LEMMA ExitedStep ==
  ASSUME TypeOK, ExitedIsEmpty, Next
  PROVE  ExitedIsEmpty'
<1> USE DEF ExitedIsEmpty, TypeOK, readerVars, routerVars, monitorVars, sessionVars
<1>1. CASE \E p \in Peer : ReaderNext(p)
      BY <1>1 DEF ReaderNext, Receives, Forwards, FailsToForward, ReaderExits
<1>2. CASE \E p \in Peer : WriterNext(p)
      BY <1>2 DEF WriterNext, WriterGoesOn, Wakes, TakesMessage, Sleeps, Resumes, WriterExits
<1>3. CASE MonitorNext \/ RouterNext
      BY <1>3 DEF MonitorNext, Reports, MonitorGoesOn, ReportIsRouted, MonitorEnds,
                  RouterNext, Takes, Dispatches, FailsToDispatch
<1>4. CASE SupervisorNext
      BY <1>4 DEF SupervisorNext, RouterFailed, SendsClose, JoinsMonitors, Departs
<1>5. QED
      BY <1>1, <1>2, <1>3, <1>4 DEF Next, ReaderNext, WriterNext, MonitorNext

\* The supervisor registers nobody, and closes whom it removes.
LEMMA SupervisorKeeps ==
  ASSUME IInv, SupervisorNext
  PROVE  TypeOK' /\ NobodyForgotten' /\ CloseCanBeSent'
<1> USE BoundAssumption
    DEF IInv, NobodyForgotten, CloseCanBeSent, readerVars, routerVars, monitorVars, sessionVars
<1>1. CASE RouterFailed
      BY <1>1 DEF TypeOK, RouterFailed
<1>2. CASE SendsClose
  <2>1. "close" \in Item
        BY DEF Item
  <2>2. route' \in Seq(Item) /\ Len(route') <= RouteCapacity
        BY <1>2, <2>1, RouteGrows DEF TypeOK, SendsClose
  <2>3. QED
        BY <1>2, <2>2 DEF TypeOK, SendsClose
<1>3. CASE JoinsMonitors
      BY <1>3 DEF TypeOK, JoinsMonitors
<1>4. CASE \E p \in Peer : Departs(p)
  <2>1. PICK p \in Peer : Departs(p)
        BY <1>4
  <2>2. TypeOK'
        BY <2>1 DEF TypeOK, Departs
  <2>3. registered' \cup closed' = Peer
        BY <2>1 DEF TypeOK, Departs
  <2>4. supervisor' = "sendClose" => registered' = {}
        BY <2>1 DEF TypeOK, Departs
  <2>5. QED
        BY <2>2, <2>3, <2>4
<1>5. QED
      BY <1>1, <1>2, <1>3, <1>4 DEF SupervisorNext

\* IInv is inductive.
LEMMA Inductive == IInv /\ [Next]_vars => IInv'
<1> SUFFICES ASSUME IInv, [Next]_vars PROVE IInv'
    OBVIOUS
<1>1. CASE Next
  <2>1. ClosedHaveExited' /\ ExitedIsEmpty'
        BY <1>1, ClosedStep, ExitedStep DEF IInv
  <2>2. CASE \E p \in Peer : ReaderNext(p)
        BY <2>1, <2>2, ReaderTypes, OthersKeep DEF IInv
  <2>3. CASE MonitorNext
        BY <2>1, <2>3, MonitorTypes, OthersKeep DEF IInv
  <2>4. CASE RouterNext
        BY <2>1, <2>4, RouterTypes, OthersKeep DEF IInv
  <2>5. CASE \E p \in Peer : WriterNext(p)
        BY <2>1, <2>5, WriterTypes, OthersKeep DEF IInv
  <2>6. CASE SupervisorNext
        BY <2>1, <2>6, SupervisorKeeps DEF IInv
  <2>7. QED
        BY <1>1, <2>2, <2>3, <2>4, <2>5, <2>6 DEF Next, ReaderNext, WriterNext, MonitorNext
<1>2. CASE UNCHANGED vars
      BY <1>2 DEF vars, IInv, TypeOK, NobodyForgotten, CloseCanBeSent, ClosedHaveExited,
                  ExitedIsEmpty
<1>3. QED
      BY <1>1, <1>2

\* The peer at whose queue the router waits has lost its reader, if it still has
\* its writer: the readers that keep a worker are fewer than the peers.
LEMMA WorkerIsLeft ==
  ASSUME IInv, Cardinality(Peer) <= Workers, supervisor = "sendClose", router = "running",
         NEW q \in todo, writer[q] = "pending"
  PROVE  FreeWorker
<1>1. q \in Peer /\ reader[q] = "exited"
      BY DEF IInv, TypeOK, CloseCanBeSent, ClosedHaveExited
<1>2. Blocked \subseteq Peer \ {q}
      BY <1>1 DEF Blocked
<1>3. /\ IsFiniteSet(Peer \ {q})
      /\ Cardinality(Peer \ {q}) = Cardinality(Peer) - 1
      /\ Cardinality(Peer) \in Nat
      BY <1>1, PeerAssumption, FS_RemoveElement, FS_CardinalityType
<1>4. Cardinality(Blocked) <= Cardinality(Peer \ {q}) /\ Cardinality(Blocked) \in Nat
      BY <1>2, <1>3, FS_Subset, FS_CardinalityType
<1>5. QED
      BY <1>3, <1>4, BoundAssumption DEF FreeWorker

\* Whatever waits somewhere waits for a message that a writer can take, and only
\* a writer that is suspended does not take it.
LEMMA StillForWriters ==
  ASSUME IInv, StandsStill, ~Settled
  PROVE  /\ \A q \in todo : writer[q] = "pending"
         /\ todo = {} => FreeWorker /\ \E p \in Peer : writer[p] = "pending" /\ control[p] > 0
<1>1. TypeOK /\ ExitedIsEmpty
      BY DEF IInv
<1>2. \A p \in Peer : control[p] > 0 => writer[p] = "pending"
  <2> SUFFICES ASSUME NEW p \in Peer, control[p] > 0 PROVE writer[p] = "pending"
      OBVIOUS
  <2>1. control[p] # 0 /\ writer[p] \in {"waiting", "draining", "pending", "exited"}
        BY <1>1, BoundAssumption DEF TypeOK
  <2>2. QED
        BY <1>1, <2>1 DEF StandsStill, ExitedIsEmpty
<1>3. \A q \in todo : q \in Peer /\ control[q] > 0
      BY <1>1, BoundAssumption DEF TypeOK, StandsStill
<1>4. ASSUME todo = {}
      PROVE  FreeWorker /\ \E p \in Peer : writer[p] = "pending" /\ control[p] > 0
  <2>1. route = <<>> /\ Len(route) = 0
        BY <1>4 DEF StandsStill
  <2>2. Blocked = {}
        BY <2>1, BoundAssumption DEF StandsStill, RouteHasRoom
  <2>3. FreeWorker
        BY <2>2, FS_EmptySet, BoundAssumption DEF FreeWorker
  <2>4. PICK p \in Peer : control[p] # 0
        BY <1>4, <2>1, <2>2 DEF Settled
  <2>5. control[p] > 0
        BY <1>1, <2>4, BoundAssumption DEF TypeOK
  <2>6. QED
        BY <1>2, <2>3, <2>5
<1>5. QED
      BY <1>2, <1>3, <1>4

-----------------------------------------------------------------------------
(***************************************************************************)
(* The theorems.                                                           *)
(***************************************************************************)

\* The inductive invariant holds in every behaviour.
THEOREM Invariance == Spec => []IInv
<1>1. Init => IInv
      BY Initially
<1>2. IInv /\ [Next]_vars => IInv'
      BY Inductive
<1>3. QED
      BY <1>1, <1>2, PTL DEF Spec

\* The type invariant, with the bounds of the route channel and the control
\* queues.
THEOREM TypeCorrect == Spec => []TypeOK
<1>1. IInv => TypeOK
      BY DEF IInv
<1>2. QED
      BY <1>1, Invariance, PTL

\* A shutdown that waits for room in the route channel of a router that runs
\* has closed every peer (session.rs, shutdown): whatever queue the router
\* waits at, its tasks have been told to end.
THEOREM CloseSafe == Spec => []CloseCanBeSent
<1>1. IInv => CloseCanBeSent
      BY DEF IInv
<1>2. QED
      BY <1>1, Invariance, PTL

\* In a session with no more peers than worker threads (supervisor.rs makes two)
\* the writer such a shutdown depends on can be polled, and aborted.
THEOREM ShutdownWorkerSafe == Spec => []ShutdownHasWorker
<1>1. IInv => ShutdownHasWorker
      BY WorkerIsLeft DEF ShutdownHasWorker
<1>2. QED
      BY <1>1, Invariance, PTL

\* Readers, router and writers wait for each other in no circle of their own: if
\* all of them stand still, then for writers that are suspended (router.rs, the
\* dispatch; ws_pump.rs, the writer task), whatever the queues hold.
THEOREM HoldUpSafe == Spec => []OnlyWritersHoldUp
<1>1. IInv => OnlyWritersHoldUp
      BY StillForWriters DEF OnlyWritersHoldUp
<1>2. QED
      BY <1>1, Invariance, PTL
=============================================================================
