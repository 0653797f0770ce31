------------------------- MODULE PlayingMonitorProofs -------------------------
(***************************************************************************)
(* Proofs about PlayingMonitor for any set of statuses, any capacity of    *)
(* the route channel and any number of broadcasts in the pipe.             *)
(***************************************************************************)
EXTENDS PlayingMonitor, SequenceTheorems, TLAPS

-----------------------------------------------------------------------------
\* The inductive invariant, in named parts.

\* The report before the i-th one on the route channel.
Before(i) == IF i = 1 THEN delivered ELSE route[i - 1]

\* The report made last.
Newest == IF route = <<>> THEN delivered ELSE route[Len(route)]

ReportsDiffer == \A i \in 1..Len(route) : route[i] # Before(i)

\* What the query has returned when it is compared with the last report.
EmitsStatus == monitor = "emit" => answer \in Status

\* As long as somebody receives the reports the monitor knows the newest one,
\* or has yet to send it.
LastIsNewest ==
  IF monitor = "send"
  THEN last \in Status /\ (routing => last # Newest)
  ELSE routing => last = Newest

\* The reports nobody has received go with the receiver.
NothingUnrouted == ~routing => route = <<>>

\* A listener that is given up has ended and has been read to its end, unless
\* reading has failed.
ReadToEnd ==
  monitor \in {"reap", "wait"} => result = "error" \/ (process = "dead" /\ lines = 0)

IInv ==
  /\ TypeOK
  /\ OneListener
  /\ ReadToEnd
  /\ ReportsDiffer
  /\ EmitsStatus
  /\ LastIsNewest
  /\ NothingUnrouted

\* The parts that speak of the reports.
Reported == ReportsDiffer /\ EmitsStatus /\ LastIsNewest /\ NothingUnrouted

-----------------------------------------------------------------------------
(***************************************************************************)
(* The route channel.                                                      *)
(***************************************************************************)

\* NoRepeats in terms of the channel alone.
LEMMA DifferMeansNoRepeats ==
  ASSUME TypeOK, ReportsDiffer
  PROVE  NoRepeats
<1> DEFINE reports == <<delivered>> \o route
<1>1. ASSUME NEW i \in 1..Len(route) PROVE reports[i] = Before(i) /\ reports[i + 1] = route[i]
  <2>1. route \in Seq(Status) /\ Len(route) \in Nat /\ Len(<<delivered>>) = 1
        BY DEF TypeOK
  <2>2. Len(reports) = Len(route) + 1
        BY <2>1
  <2>3. \A j \in 1..(Len(route) + 1) :
          reports[j] = IF j = 1 THEN delivered ELSE route[j - 1]
        BY <2>1
  <2>4. QED
        BY <2>1, <2>3 DEF Before
<1>2. QED
      BY <1>1 DEF NoRepeats, ReportsDiffer

\* A report that differs from the newest one is put at the end.
LEMMA SendKeeps ==
  ASSUME TypeOK, Reported, Sends
  PROVE  TypeOK' /\ Reported'
<1> USE DEF Sends, Reported, environmentVars, stopVars
<1>1. last \in Status /\ last # Newest
      BY DEF LastIsNewest
<1>2. /\ route \in Seq(Status)
      /\ route' = Append(route, last)
      /\ Len(route') = Len(route) + 1
      /\ \A i \in 1..Len(route) : route'[i] = route[i]
      /\ route'[Len(route) + 1] = last
      /\ route' \in Seq(Status)
      /\ Len(route) \in Nat
      BY <1>1 DEF TypeOK
<1>3. TypeOK'
  <2>1. Len(route') <= RouteCapacity
        BY <1>2, CapacityAssumption
  <2>2. QED
        BY <1>2, <2>1 DEF TypeOK
<1>4. ReportsDiffer'
  <2>1. ASSUME NEW i \in 1..(Len(route) + 1) PROVE route'[i] # Before(i)'
    <3>1. CASE i \in 1..Len(route)
      <4>1. i = 1 \/ i - 1 \in 1..Len(route)
            BY <1>2, <3>1
      <4>2. Before(i)' = Before(i)
            BY <1>2, <4>1 DEF Before
      <4>3. QED
            BY <1>2, <3>1, <4>2 DEF ReportsDiffer
    <3>2. CASE i = Len(route) + 1
      <4>1. CASE route = <<>>
            BY <1>1, <1>2, <3>2, <4>1 DEF Before, Newest
      <4>2. CASE route # <<>>
        <5>1. Len(route) \in 1..Len(route) /\ i # 1 /\ i - 1 = Len(route)
              BY <1>2, <3>2, <4>2
        <5>2. Before(i)' = Newest
              BY <1>2, <4>2, <5>1 DEF Before, Newest
        <5>3. QED
              BY <1>1, <1>2, <3>2, <5>2
      <4>3. QED
            BY <4>1, <4>2
    <3>3. QED
          BY <1>2, <3>1, <3>2
  <2>2. QED
        BY <1>2, <2>1 DEF ReportsDiffer
<1>5. Newest' = last
      BY <1>2 DEF Newest
<1>6. QED
      BY <1>3, <1>4, <1>5 DEF EmitsStatus, LastIsNewest, NothingUnrouted

\* The first report becomes the one the others are compared with.
LEMMA RouteKeeps ==
  ASSUME TypeOK, Reported, Routes
  PROVE  TypeOK' /\ Reported'
<1> USE DEF Routes, Reported, environmentVars, monitorVars, stopVars
<1>1. /\ route \in Seq(Status)
      /\ route # <<>>
      /\ Len(route) \in Nat \ {0}
      /\ route' \in Seq(Status)
      /\ Len(route') = Len(route) - 1
      /\ \A i \in 1..(Len(route) - 1) : route'[i] = route[i + 1]
      /\ delivered' = route[1]
      /\ route[1] \in Status
      BY DEF TypeOK
<1>2. TypeOK'
  <2>1. Len(route') <= RouteCapacity
        BY <1>1, CapacityAssumption DEF TypeOK
  <2>2. QED
        BY <1>1, <2>1 DEF TypeOK
<1>3. ReportsDiffer'
  <2>1. ASSUME NEW i \in 1..(Len(route) - 1) PROVE route'[i] # Before(i)'
    <3>1. route'[i] = route[i + 1] /\ i + 1 \in 1..Len(route) /\ Before(i + 1) = route[i]
          BY <1>1 DEF Before
    <3>2. Before(i)' = route[i]
      <4>1. CASE i = 1
            BY <1>1, <4>1 DEF Before
      <4>2. CASE i # 1
        <5>1. i - 1 \in 1..(Len(route) - 1) /\ (i - 1) + 1 = i
              BY <1>1, <4>2
        <5>2. QED
              BY <1>1, <4>2, <5>1 DEF Before
      <4>3. QED
            BY <4>1, <4>2
    <3>3. QED
          BY <3>1, <3>2 DEF ReportsDiffer
  <2>2. QED
        BY <1>1, <2>1 DEF ReportsDiffer
<1>4. Newest' = Newest
  <2>1. CASE Len(route) = 1
        BY <1>1, <2>1 DEF Newest
  <2>2. CASE Len(route) # 1
    <3>1. Len(route') # 0 /\ Len(route') \in 1..(Len(route) - 1) /\ Len(route') + 1 = Len(route)
          BY <1>1, <2>2
    <3>2. route' # <<>>
          BY <3>1
    <3>3. QED
          BY <1>1, <3>1, <3>2 DEF Newest
  <2>3. QED
        BY <2>1, <2>2
<1>5. QED
      BY <1>2, <1>3, <1>4 DEF EmitsStatus, LastIsNewest, NothingUnrouted

\* Who leaves the channel alone leaves the reports as they are.
LEMMA ReportsUntouched ==
  ASSUME Reported, UNCHANGED <<route, delivered, routing, last>>,
         monitor' = "emit" => answer' \in Status,
         monitor' = "send" => monitor = "send",
         monitor = "send" => monitor' = "send" \/ ~routing
  PROVE  Reported'
<1>1. Newest' = Newest /\ ReportsDiffer'
      BY DEF Reported, Newest, ReportsDiffer, Before
<1>2. EmitsStatus' /\ NothingUnrouted'
      BY DEF Reported, EmitsStatus, NothingUnrouted
<1>3. LastIsNewest'
      BY <1>1 DEF Reported, LastIsNewest
<1>4. QED
      BY <1>1, <1>2, <1>3 DEF Reported

-----------------------------------------------------------------------------
(***************************************************************************)
(* The invariant holds at first and is kept by every step.                 *)
(***************************************************************************)

\* No listener, no report.
LEMMA Initially == Init => IInv
<1> SUFFICES ASSUME Init PROVE IInv
    OBVIOUS
<1>1. route \in Seq(Status) /\ Len(route) = 0
      BY DEF Init
<1>2. TypeOK
  <2>1. Len(route) <= RouteCapacity /\ 0 \in 0..MaxLines
        BY <1>1, CapacityAssumption
  <2>2. QED
        BY <1>1, <2>1 DEF Init, TypeOK
<1>3. ReportsDiffer /\ LastIsNewest
      BY <1>1 DEF Init, ReportsDiffer, LastIsNewest, Newest
<1>4. QED
      BY <1>2, <1>3 DEF Init, IInv, OneListener, ReadToEnd, EmitsStatus, NothingUnrouted

\* The listener is read to its end by the time it is waited for, and a dead one
\* writes nothing more.
LEMMA ReadToEndStep ==
  ASSUME IInv, [Next]_vars
  PROVE  ReadToEnd'
<1> USE DEF IInv, TypeOK, ReadToEnd, environmentVars, monitorVars, routerVars, stopVars
<1>1. CASE StatusChanges \/ Subscribes \/ ListenerDies
      BY <1>1 DEF StatusChanges, Subscribes, ListenerDies, Running
<1>2. CASE MonitorNext
      BY <1>2 DEF MonitorNext, ChecksShutdown, Spawns, SpawnFails, Stores, Queries, QueryFails,
                  EmitsIfChanged, Sends, SendFails, ReadsLine, ReadsEnd, ReadFails, Reaps, Waited
<1>3. CASE Routes \/ RouterEnds \/ RequestsStop \/ KillsListener \/ JoinsMonitor
      BY <1>3 DEF Routes, RouterEnds, RequestsStop, KillsListener, JoinsMonitor, Running
<1>4. CASE UNCHANGED vars
      BY <1>4 DEF vars
<1>5. QED
      BY <1>1, <1>2, <1>3, <1>4 DEF Next

\* Steps of the monitor other than those about a report.
LEMMA MonitorKeeps ==
  ASSUME IInv, MonitorNext, ~Sends, ~EmitsIfChanged, ~SendFails
  PROVE  IInv'
<1> USE CapacityAssumption DEF environmentVars, routerVars, stopVars
<1>1. TypeOK' /\ OneListener'
  <2> USE DEF IInv, TypeOK, OneListener
  <2>1. CASE ChecksShutdown
        BY <2>1 DEF ChecksShutdown
  <2>2. CASE Spawns
        BY <2>2 DEF Spawns
  <2>3. CASE SpawnFails
        BY <2>3 DEF SpawnFails
  <2>4. CASE Stores
        BY <2>4 DEF Stores
  <2>5. CASE Queries
        BY <2>5 DEF Queries
  <2>6. CASE QueryFails
        BY <2>6 DEF QueryFails
  <2>7. CASE ReadsLine
        BY <2>7 DEF ReadsLine
  <2>8. CASE ReadsEnd
        BY <2>8 DEF ReadsEnd
  <2>9. CASE ReadFails
        BY <2>9 DEF ReadFails
  <2>10. CASE Reaps
        BY <2>10 DEF Reaps
  <2>11. CASE Waited
        BY <2>11 DEF Waited
  <2>12. QED
        BY <2>1, <2>2, <2>3, <2>4, <2>5, <2>6, <2>7, <2>8, <2>9, <2>10, <2>11 DEF MonitorNext
<1>2. /\ UNCHANGED <<route, delivered, routing, last>>
      /\ monitor # "send" /\ monitor' # "send"
      /\ monitor' = "emit" => answer' \in Status
      BY DEF MonitorNext, ChecksShutdown, Spawns, SpawnFails, Stores, Queries, QueryFails,
             ReadsLine, ReadsEnd, ReadFails, Reaps, Waited, IInv, TypeOK
<1>3. Reported'
      BY <1>2, ReportsUntouched DEF IInv, Reported
<1>4. ReadToEnd'
      BY ReadToEndStep DEF Next
<1>5. QED
      BY <1>1, <1>3, <1>4 DEF IInv, Reported

\* The answer is compared with the last report, and a change is to be sent.
LEMMA EmitKeeps ==
  ASSUME IInv, EmitsIfChanged
  PROVE  IInv'
<1> USE DEF IInv, EmitsIfChanged, environmentVars, routerVars, stopVars
<1>1. answer \in Status
      BY DEF EmitsStatus
<1>2. TypeOK' /\ OneListener'
      BY <1>1 DEF TypeOK, OneListener
<1>3. Newest' = Newest /\ ReportsDiffer'
      BY DEF Newest, ReportsDiffer, Before
<1>4. LastIsNewest'
      BY <1>1, <1>3 DEF LastIsNewest
<1>5. ReadToEnd'
      BY ReadToEndStep DEF Next, MonitorNext
<1>6. QED
      BY <1>2, <1>3, <1>4, <1>5 DEF EmitsStatus, NothingUnrouted

\* The player, the listener, the router's end and the shutdown.
LEMMA OthersKeep ==
  ASSUME IInv,
         \/ StatusChanges \/ Subscribes \/ ListenerDies
         \/ RequestsStop \/ KillsListener \/ JoinsMonitor
  PROVE  IInv'
<1> USE CapacityAssumption DEF environmentVars, monitorVars, routerVars, stopVars
<1>1. TypeOK' /\ OneListener'
  <2> USE DEF IInv, TypeOK, OneListener, Running
  <2>1. CASE StatusChanges
    <3>1. status' \in Status /\ lines' \in 0..MaxLines
          BY <2>1 DEF StatusChanges
    <3>2. QED
          BY <2>1, <3>1 DEF StatusChanges
  <2>2. CASE Subscribes
        BY <2>2 DEF Subscribes
  <2>3. CASE ListenerDies
        BY <2>3 DEF ListenerDies
  <2>4. CASE RequestsStop
        BY <2>4 DEF RequestsStop
  <2>5. CASE KillsListener
        BY <2>5 DEF KillsListener
  <2>6. CASE JoinsMonitor
        BY <2>6 DEF JoinsMonitor
  <2>7. QED
        BY <2>1, <2>2, <2>3, <2>4, <2>5, <2>6
<1>2. UNCHANGED <<monitor, answer, route, delivered, routing, last>>
      BY DEF StatusChanges, Subscribes, ListenerDies, RequestsStop, KillsListener, JoinsMonitor
<1>3. Reported'
      BY <1>2, ReportsUntouched DEF IInv, Reported, EmitsStatus
<1>4. ReadToEnd'
      BY ReadToEndStep DEF Next
<1>5. QED
      BY <1>1, <1>3, <1>4 DEF IInv, Reported

\* IInv is inductive.
LEMMA Inductive == IInv /\ [Next]_vars => IInv'
<1> SUFFICES ASSUME IInv, [Next]_vars PROVE IInv'
    OBVIOUS
<1>r. ReadToEnd'
      BY ReadToEndStep
<1>1. CASE Sends
  <2>1. TypeOK' /\ Reported'
        BY <1>1, SendKeeps DEF IInv, Reported
  <2>2. OneListener'
        BY <1>1 DEF IInv, OneListener, Sends, environmentVars
  <2>3. QED
        BY <1>r, <2>1, <2>2 DEF IInv, Reported
<1>2. CASE EmitsIfChanged
      BY <1>2, EmitKeeps
<1>3. CASE SendFails
  <2> USE <1>3 DEF SendFails, environmentVars, routerVars, stopVars
  <2>1. TypeOK' /\ OneListener'
        BY DEF IInv, TypeOK, OneListener
  <2>2. Reported'
        BY ReportsUntouched DEF IInv, Reported
  <2>3. QED
        BY <1>r, <2>1, <2>2 DEF IInv, Reported
<1>4. CASE MonitorNext /\ ~Sends /\ ~EmitsIfChanged /\ ~SendFails
      BY <1>4, MonitorKeeps
<1>5. CASE Routes
  <2>1. TypeOK' /\ Reported'
        BY <1>5, RouteKeeps DEF IInv, Reported
  <2>2. OneListener'
        BY <1>5 DEF IInv, OneListener, Routes, environmentVars, monitorVars
  <2>3. QED
        BY <1>r, <2>1, <2>2 DEF IInv, Reported
<1>6. CASE RouterEnds
  <2> USE <1>6 DEF RouterEnds, environmentVars, monitorVars, stopVars
  <2>1. route' = <<>> /\ route' \in Seq(Status) /\ Len(route') = 0
        OBVIOUS
  <2>2. Len(route') <= RouteCapacity
        BY <2>1, CapacityAssumption
  <2>3. TypeOK'
    <3>1. routing' \in BOOLEAN
          OBVIOUS
    <3>2. UNCHANGED <<status, process, lines, slot, monitor, answer, last, result, delivered,
                      shutdown, stopper>>
          OBVIOUS
    <3>3. QED
          BY <2>1, <2>2, <3>1, <3>2 DEF IInv, TypeOK
  <2>4. OneListener'
        BY DEF IInv, OneListener
  <2>5. Reported'
        BY <2>1 DEF IInv, Reported, ReportsDiffer, EmitsStatus, LastIsNewest, NothingUnrouted
  <2>6. QED
        BY <1>r, <2>3, <2>4, <2>5 DEF IInv, Reported
<1>7. CASE \/ StatusChanges \/ Subscribes \/ ListenerDies
           \/ RequestsStop \/ KillsListener \/ JoinsMonitor
      BY <1>7, OthersKeep
<1>8. CASE UNCHANGED vars
      BY <1>8 DEF vars, environmentVars, monitorVars, routerVars, stopVars, IInv, TypeOK,
                  OneListener, ReadToEnd, ReportsDiffer, Before, EmitsStatus, LastIsNewest, Newest,
                  NothingUnrouted
<1>9. QED
      BY <1>1, <1>2, <1>3, <1>4, <1>5, <1>6, <1>7, <1>8 DEF Next

-----------------------------------------------------------------------------
(***************************************************************************)
(* A status that is heard stays on its way.                                *)
(***************************************************************************)

\* A report stays on the channel until it is taken or the channel is gone.
LEMMA QueuedReportStays ==
  ASSUME TypeOK, [Next]_vars, routing', NEW s \in Status, delivered' # s,
         NEW i \in 1..Len(route), route[i] = s
  PROVE  \E j \in 1..Len(route') : route'[j] = s
<1>1. route \in Seq(Status) /\ Len(route) \in Nat
      BY DEF TypeOK
<1>2. CASE Sends
  <2>1. route' = Append(route, last)
        BY <1>2 DEF Sends
  <2>2. Len(route') = Len(route) + 1 /\ i \in 1..(Len(route) + 1) /\ route'[i] = route[i]
        BY <1>1, <2>1
  <2>3. QED
        BY <2>2
<1>3. CASE Routes
  <2>1. route # <<>> /\ delivered' = Head(route) /\ route' = Tail(route)
        BY <1>3 DEF Routes
  <2>2. i # 1
        BY <1>1, <2>1
  <2>3. /\ i - 1 \in 1..(Len(route) - 1)
        /\ (i - 1) + 1 = i
        /\ Len(route') = Len(route) - 1
        BY <1>1, <2>1, <2>2
  <2>4. route'[i - 1] = route[i]
        BY <1>1, <2>1, <2>3
  <2>5. QED
        BY <2>3, <2>4
<1>4. CASE RouterEnds
      BY <1>4 DEF RouterEnds
<1>5. CASE UNCHANGED route
      BY <1>5
<1>6. CASE Next /\ ~Sends /\ ~Routes /\ ~RouterEnds
  <2>1. UNCHANGED route
        BY <1>6 DEF Next, StatusChanges, Subscribes, ListenerDies, MonitorNext, ChecksShutdown,
                    Spawns, SpawnFails, Stores, Queries, QueryFails, EmitsIfChanged, SendFails,
                    ReadsLine, ReadsEnd, ReadFails, Reaps, Waited, RequestsStop, KillsListener,
                    JoinsMonitor, routerVars
  <2>2. QED
        BY <1>5, <2>1
<1>7. QED
      BY <1>2, <1>4, <1>3, <1>5, <1>6 DEF vars

\* An answer that is not sent equals the newest report, which is on the channel
\* or has just been delivered: it is no longer on its way only if it has arrived.
LEMMA AnswerIsSentOrNewest ==
  ASSUME IInv, EmitsIfChanged, routing, NEW s \in Status, answer = s, delivered # s
  PROVE  \/ monitor' = "send" /\ last' = s
         \/ \E i \in 1..Len(route) : route[i] = s
<1>1. last' = s /\ monitor' = (IF answer = last THEN "read" ELSE "send")
      BY DEF EmitsIfChanged
<1>2. CASE answer # last
      BY <1>1, <1>2
<1>3. CASE answer = last
  <2>1. Newest = s
        BY <1>3 DEF IInv, LastIsNewest, EmitsIfChanged
  <2>2. route # <<>> /\ route[Len(route)] = s
        BY <2>1 DEF Newest
  <2>3. Len(route) \in 1..Len(route)
        BY <2>2 DEF IInv, TypeOK
  <2>4. QED
        BY <2>2, <2>3
<1>4. QED
      BY <1>2, <1>3

\* Wherever a status is on its way, the next step takes it on or leaves it there.
LEMMA StatusStaysPending ==
  ASSUME IInv, [Next]_vars, NEW s \in Status, StatusPending(s),
         delivered' # s, status' = s, ~Excused'
  PROVE  StatusPending(s)'
<1> USE DEF environmentVars, monitorVars, routerVars, stopVars
<1>1. /\ TypeOK /\ status = s
      /\ ~shutdown' /\ routing' /\ answer' # "failed" /\ result' # "error"
      BY DEF IInv, StatusPending, Excused
<1>2. CASE \E i \in 1..Len(route) : route[i] = s
      BY <1>1, <1>2, QueuedReportStays DEF StatusPending
<1>3. CASE monitor = "send" /\ last = s
  <2>1. CASE Sends
    <3>1. route' = Append(route, s) /\ route \in Seq(Status) /\ Len(route) \in Nat
          BY <1>1, <1>3, <2>1 DEF Sends, TypeOK
    <3>2. Len(route') = Len(route) + 1 /\ route'[Len(route) + 1] = s
          BY <3>1
    <3>3. Len(route) + 1 \in 1..Len(route')
          BY <3>1, <3>2
    <3>4. QED
          BY <3>2, <3>3 DEF StatusPending
  <2>2. CASE ~Sends
    <3>1. UNCHANGED <<monitor, last>>
          BY <1>1, <1>3, <2>2
             DEF Next, StatusChanges, Subscribes, ListenerDies, MonitorNext, ChecksShutdown,
                 Spawns, SpawnFails, Stores, Queries, QueryFails, EmitsIfChanged, SendFails,
                 ReadsLine, ReadsEnd, ReadFails, Reaps, Waited, Routes, RouterEnds, RequestsStop,
                 KillsListener, JoinsMonitor, vars
    <3>2. QED
          BY <1>3, <3>1 DEF StatusPending
  <2>3. QED
        BY <2>1, <2>2
<1>4. CASE monitor = "emit" /\ answer = s
  <2>1. CASE EmitsIfChanged
    <3>1. routing /\ UNCHANGED <<route, delivered>>
          BY <1>1, <2>1 DEF EmitsIfChanged
    <3>2. \/ monitor' = "send" /\ last' = s
          \/ \E i \in 1..Len(route) : route[i] = s
          BY <1>4, <2>1, <3>1, AnswerIsSentOrNewest
    <3>3. QED
          BY <3>1, <3>2 DEF StatusPending
  <2>2. CASE ~EmitsIfChanged
    <3>1. UNCHANGED <<monitor, answer>>
          BY <1>1, <1>4, <2>2
             DEF Next, StatusChanges, Subscribes, ListenerDies, MonitorNext, ChecksShutdown,
                 Spawns, SpawnFails, Stores, Queries, QueryFails, Sends, SendFails,
                 ReadsLine, ReadsEnd, ReadFails, Reaps, Waited, Routes, RouterEnds, RequestsStop,
                 KillsListener, JoinsMonitor, vars
    <3>2. QED
          BY <1>4, <3>1 DEF StatusPending
  <2>3. QED
        BY <2>1, <2>2
<1>5. CASE monitor \in {"loop", "spawn", "store", "query"}
  <2>1. CASE MonitorNext
    <3>1. ChecksShutdown => monitor' = "spawn"
      <4> SUFFICES ASSUME ChecksShutdown PROVE monitor' = "spawn"
          OBVIOUS
      <4>1. shutdown' = shutdown
            BY DEF ChecksShutdown
      <4>2. ~shutdown
            BY <1>1, <4>1
      <4>3. QED
            BY <4>2 DEF ChecksShutdown
    <3>2. ~ChecksShutdown => \/ monitor' \in {"loop", "spawn", "store", "query"}
                             \/ monitor' = "emit" /\ answer' = s
          BY <1>1, <1>5, <2>1
             DEF MonitorNext, Spawns, SpawnFails, Stores, Queries, QueryFails, EmitsIfChanged,
                 Sends, SendFails, ReadsLine, ReadsEnd, ReadFails, Reaps, Waited
    <3>3. QED
          BY <3>1, <3>2 DEF StatusPending
  <2>2. CASE ~MonitorNext
    <3>1. UNCHANGED monitor
          BY <2>2 DEF Next, StatusChanges, Subscribes, ListenerDies, Routes, RouterEnds,
                      RequestsStop, KillsListener, JoinsMonitor, vars
    <3>2. QED
          BY <1>5, <3>1 DEF StatusPending
  <2>3. QED
        BY <2>1, <2>2
<1>6. CASE lines > 0
  <2>1. CASE ReadsLine
        BY <2>1 DEF ReadsLine, StatusPending
  <2>2. CASE ReadFails
        BY <1>1, <2>2 DEF ReadFails
  <2>3. CASE Waited
    <3>1. monitor = "wait" /\ result' = result
          BY <2>3 DEF Waited
    <3>2. lines = 0
          BY <1>1, <3>1 DEF IInv, ReadToEnd
    <3>3. QED
          BY <1>6, <3>2
  <2>4. CASE ~ReadsLine /\ ~ReadFails /\ ~Waited
    <3>1. UNCHANGED lines
          BY <1>1, <2>4
             DEF Next, StatusChanges, Subscribes, ListenerDies, MonitorNext, ChecksShutdown,
                 Spawns, SpawnFails, Stores, Queries, QueryFails, EmitsIfChanged, Sends, SendFails,
                 ReadsEnd, Reaps, Routes, RouterEnds, RequestsStop, KillsListener, JoinsMonitor,
                 vars
    <3>2. QED
          BY <1>6, <3>1 DEF StatusPending
  <2>5. QED
        BY <2>1, <2>2, <2>3, <2>4
<1>7. QED
      BY <1>2, <1>3, <1>4, <1>5, <1>6 DEF StatusPending

-----------------------------------------------------------------------------
(***************************************************************************)
(* The theorems.                                                           *)
(***************************************************************************)

\* The inductive invariant holds in every behaviour.
THEOREM Invariance == Spec => []IInv
<1>1. Init => IInv
      BY Initially
<1>2. IInv /\ [Next]_vars => IInv'
      BY Inductive
<1>3. QED
      BY <1>1, <1>2, PTL DEF Spec

\* The type invariant, with the bound of the route channel.
THEOREM TypeCorrect == Spec => []TypeOK
<1>1. IInv => TypeOK
      BY DEF IInv
<1>2. QED
      BY <1>1, Invariance, PTL

\* One "ubus listen" at a time, and none that the shutdown could not find while
\* the monitor uses it (playing.rs, spawn_playing_monitor).
THEOREM ListenerSafe == Spec => []OneListener
<1>1. IInv => OneListener
      BY DEF IInv
<1>2. QED
      BY <1>1, Invariance, PTL

\* No two reports in a row are equal (playing.rs, emit_playing_state_if_changed).
THEOREM ReportsSafe == Spec => []NoRepeats
<1>1. IInv => NoRepeats
      BY DifferMeansNoRepeats DEF IInv
<1>2. QED
      BY <1>1, Invariance, PTL

\* What the monitor has heard of, or has yet to ask for, is not dropped on the way
\* to the router, whatever happens to the listener in between (playing.rs,
\* spawn_playing_monitor and emit_playing_state_if_changed).
THEOREM StatusSafe == Spec => NoStatusForgotten
<1>1. IInv /\ [Next]_vars =>
        \A s \in Status : StatusPending(s) =>
          StatusPending(s)' \/ delivered' = s \/ status' # s \/ Excused'
      BY StatusStaysPending
<1>2. IInv /\ [Next]_vars =>
        [\A s \in Status : StatusPending(s) =>
           StatusPending(s)' \/ delivered' = s \/ status' # s \/ Excused']_vars
      BY <1>1
<1>3. QED
      BY <1>2, Invariance, PTL DEF Spec, NoStatusForgotten
=============================================================================
