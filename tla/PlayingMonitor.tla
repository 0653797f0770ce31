---------------------------- MODULE PlayingMonitor ----------------------------
(***************************************************************************)
(* The playing monitor of one session: the thread that runs "ubus listen", *)
(* asks for the play status after each broadcast and reports the changes   *)
(* to the router, and the session's shutdown, which kills the listener     *)
(* process to wake the thread and then joins it.                           *)
(*                                                                         *)
(* The thread and the shutdown share the flag shutdown_requested and the   *)
(* slot that holds the listener's Child; everything else is the thread's   *)
(* own. The listener process, the player and the ubus broker between them  *)
(* are external: a listener hears a broadcast once it has subscribed.      *)
(***************************************************************************)
EXTENDS Naturals, Sequences

CONSTANTS
  Status,          \* what the play status maps to: "Playing", "Paused", "Idle"
  RouteCapacity,   \* sync_channel::<SessionControl>(256)
  MaxLines         \* bound: lines in the pipe from the listener

ASSUME CapacityAssumption == RouteCapacity \in Nat \ {0} /\ MaxLines \in Nat \ {0}
ASSUME StatusAssumption == {"none", "failed"} \cap Status = {}

VARIABLES
  status,      \* what the player does
  process,     \* the listener process
  lines,       \* broadcasts in the pipe that have not been read
  slot,        \* the shared slot holds the process
  monitor,     \* where the monitor thread is
  answer,      \* what the query of this round has returned
  last,        \* the status reported last
  result,      \* "error" once reading from the listener has failed
  route,       \* reports on the session's route channel
  delivered,   \* the report the router took last
  routing,     \* the router runs
  shutdown,    \* shutdown_requested
  stopper      \* where the shutdown of the session is

environmentVars == <<status, process, lines>>
monitorVars     == <<slot, monitor, answer, last, result>>
routerVars      == <<route, delivered, routing>>
stopVars        == <<shutdown, stopper>>
vars == <<status, process, lines, slot, monitor, answer, last, result,
          route, delivered, routing, shutdown, stopper>>

TypeOK ==
  /\ status \in Status
  /\ process \in {"none", "started", "subscribed", "dead"}
  /\ lines \in 0..MaxLines
  /\ slot \in BOOLEAN
  /\ monitor \in {"loop", "spawn", "store", "query", "emit", "send", "read", "reap", "wait",
                  "exited"}
  /\ answer \in Status \cup {"none", "failed"}
  /\ last \in Status \cup {"none"}
  /\ result \in {"ok", "error"}
  /\ route \in Seq(Status)
  /\ Len(route) <= RouteCapacity
  /\ delivered \in Status \cup {"none"}
  /\ routing \in BOOLEAN
  /\ shutdown \in BOOLEAN
  /\ stopper \in {"running", "kill", "join", "done"}

Init ==
  /\ status \in Status
  /\ process = "none"
  /\ lines = 0
  /\ slot = FALSE
  /\ monitor = "loop"
  /\ answer = "none"
  /\ last = "none"
  /\ result = "ok"
  /\ route = <<>>
  /\ delivered = "none"
  /\ routing = TRUE
  /\ shutdown = FALSE
  /\ stopper = "running"

Running == process \in {"started", "subscribed"}

-----------------------------------------------------------------------------
\* The player and the listener process.

\* The broadcast of a change reaches the listener if it has subscribed.
StatusChanges ==
  /\ lines < MaxLines
  /\ \E s \in Status \ {status} : status' = s
  /\ lines' = IF process = "subscribed" THEN lines + 1 ELSE lines
  /\ UNCHANGED <<process, monitorVars, routerVars, stopVars>>

Subscribes ==
  /\ process = "started"
  /\ process' = "subscribed"
  /\ UNCHANGED <<status, lines, monitorVars, routerVars, stopVars>>

ListenerDies ==
  /\ Running
  /\ process' = "dead"
  /\ UNCHANGED <<status, lines, monitorVars, routerVars, stopVars>>

-----------------------------------------------------------------------------
\* The monitor thread.

ChecksShutdown ==
  /\ monitor = "loop"
  /\ monitor' = IF shutdown THEN "exited" ELSE "spawn"
  /\ UNCHANGED <<environmentVars, slot, answer, last, result, routerVars, stopVars>>

Spawns ==
  /\ monitor = "spawn"
  /\ process' = "started"
  /\ monitor' = "store"
  /\ UNCHANGED <<status, lines, slot, answer, last, result, routerVars, stopVars>>

\* The next attempt is made a second later, unless it has to stop.
SpawnFails ==
  /\ monitor = "spawn"
  /\ monitor' = "loop"
  /\ UNCHANGED <<environmentVars, slot, answer, last, result, routerVars, stopVars>>

\* Mutant: no query when a listener has been started.
StoresOnly ==
  /\ monitor = "store"
  /\ slot' = TRUE
  /\ answer' = "none"
  /\ monitor' = "read"
  /\ UNCHANGED <<environmentVars, last, result, routerVars, stopVars>>

Stores ==
  /\ monitor = "store"
  /\ slot' = TRUE
  /\ answer' = "none"
  /\ monitor' = "query"
  /\ UNCHANGED <<environmentVars, last, result, routerVars, stopVars>>

Queries ==
  /\ monitor = "query"
  /\ answer' = status
  /\ monitor' = "emit"
  /\ UNCHANGED <<environmentVars, slot, last, result, routerVars, stopVars>>

QueryFails ==
  /\ monitor = "query"
  /\ answer' = "failed"
  /\ monitor' = "read"
  /\ UNCHANGED <<environmentVars, slot, last, result, routerVars, stopVars>>

EmitsIfChanged ==
  /\ monitor = "emit"
  /\ last' = answer
  /\ monitor' = IF answer = last THEN "read" ELSE "send"
  /\ UNCHANGED <<environmentVars, slot, answer, result, routerVars, stopVars>>

\* The send waits while the channel is full.
Sends ==
  /\ monitor = "send"
  /\ routing
  /\ Len(route) < RouteCapacity
  /\ route' = Append(route, last)
  /\ monitor' = "read"
  /\ UNCHANGED <<environmentVars, slot, answer, last, result, delivered, routing, stopVars>>

\* The channel has lost its receiver: the thread ends and leaves the listener.
SendFails ==
  /\ monitor = "send"
  /\ ~routing
  /\ monitor' = "exited"
  /\ UNCHANGED <<environmentVars, slot, answer, last, result, routerVars, stopVars>>

\* A line that is no play status broadcast is passed over.
ReadsLine ==
  /\ monitor = "read"
  /\ lines > 0
  /\ lines' = lines - 1
  /\ answer' = "none"
  /\ monitor' = "query"
  /\ UNCHANGED <<status, process, slot, last, result, routerVars, stopVars>>

ReadsEnd ==
  /\ monitor = "read"
  /\ lines = 0
  /\ process = "dead"
  /\ monitor' = "reap"
  /\ UNCHANGED <<environmentVars, slot, answer, last, result, routerVars, stopVars>>

\* A line that is not valid UTF-8 is an error of read_line.
ReadFails ==
  /\ monitor = "read"
  /\ lines > 0
  /\ lines' = lines - 1
  /\ result' = "error"
  /\ monitor' = "reap"
  /\ UNCHANGED <<status, process, slot, answer, last, routerVars, stopVars>>

\* stop_play_status_listener takes the child out of the slot and waits for it.
Reaps ==
  /\ monitor = "reap"
  /\ slot' = FALSE
  /\ monitor' = "wait"
  /\ UNCHANGED <<environmentVars, answer, last, result, routerVars, stopVars>>

\* Mutant: the end of the listener's output is an end of the thread as well.
EndsWithListener ==
  /\ monitor = "wait"
  /\ process = "dead"
  /\ process' = "none"
  /\ lines' = 0
  /\ monitor' = "exited"
  /\ UNCHANGED <<status, slot, answer, last, result, routerVars, stopVars>>

\* Mutant: the child is dropped and not waited for.
WaitsForNobody ==
  /\ monitor = "wait"
  /\ lines' = 0
  /\ monitor' = "loop"
  /\ UNCHANGED <<status, process, slot, answer, last, result, routerVars, stopVars>>

\* Mutant: every listener starts with a fresh idea of what has been reported.
WaitedAndForgets ==
  /\ monitor = "wait"
  /\ process = "dead"
  /\ process' = "none"
  /\ lines' = 0
  /\ last' = "none"
  /\ monitor' = IF result = "error" THEN "exited" ELSE "loop"
  /\ UNCHANGED <<status, slot, answer, result, routerVars, stopVars>>

\* What is left in the pipe goes with it.
Waited ==
  /\ monitor = "wait"
  /\ process = "dead"
  /\ process' = "none"
  /\ lines' = 0
  /\ monitor' = IF result = "error" THEN "exited" ELSE "loop"
  /\ UNCHANGED <<status, slot, answer, last, result, routerVars, stopVars>>

MonitorNext ==
  \/ ChecksShutdown
  \/ Spawns
  \/ SpawnFails
  \/ Stores
  \/ Queries
  \/ QueryFails
  \/ EmitsIfChanged
  \/ Sends
  \/ SendFails
  \/ ReadsLine
  \/ ReadsEnd
  \/ ReadFails
  \/ Reaps
  \/ Waited

-----------------------------------------------------------------------------
\* The router and the shutdown of the session.

Routes ==
  /\ routing
  /\ route # <<>>
  /\ delivered' = Head(route)
  /\ route' = Tail(route)
  /\ UNCHANGED <<environmentVars, monitorVars, routing, stopVars>>

RouterEnds ==
  /\ routing
  /\ routing' = FALSE
  /\ route' = <<>>
  /\ UNCHANGED <<environmentVars, monitorVars, delivered, stopVars>>

\* request_stop sets the flag first.
RequestsStop ==
  /\ stopper = "running"
  /\ shutdown' = TRUE
  /\ stopper' = "kill"
  /\ UNCHANGED <<environmentVars, monitorVars, routerVars>>

\* Mutant: the flag is thought to be enough.
KillsNothing ==
  /\ stopper = "kill"
  /\ stopper' = "join"
  /\ UNCHANGED <<environmentVars, monitorVars, routerVars, shutdown>>

\* kill_current_listener_process: nothing to kill when the slot is empty.
KillsListener ==
  /\ stopper = "kill"
  /\ process' = IF slot /\ Running THEN "dead" ELSE process
  /\ stopper' = "join"
  /\ UNCHANGED <<status, lines, monitorVars, routerVars, shutdown>>

JoinsMonitor ==
  /\ stopper = "join"
  /\ monitor = "exited"
  /\ stopper' = "done"
  /\ UNCHANGED <<environmentVars, monitorVars, routerVars, shutdown>>

Next ==
  \/ StatusChanges
  \/ Subscribes
  \/ ListenerDies
  \/ MonitorNext
  \/ Routes
  \/ RouterEnds
  \/ RequestsStop
  \/ KillsListener
  \/ JoinsMonitor

Spec == Init /\ [][Next]_vars

\* A thread that can go on does, and so does the router as long as it runs; a
\* listener that runs subscribes, and "ubus listen" can be started again at
\* some time. Nothing makes the player change or the session shut down.
Fairness ==
  /\ WF_vars(MonitorNext)
  /\ SF_vars(Spawns)
  /\ WF_vars(Subscribes)
  /\ WF_vars(Routes)
  /\ WF_vars(KillsListener \/ JoinsMonitor)

FairSpec == Spec /\ Fairness

-----------------------------------------------------------------------------
\* What the monitor guarantees.

\* No listener is started while an earlier one runs, and none that runs is
\* forgotten as long as the monitor goes on.
OneListener ==
  /\ monitor \in {"loop", "spawn"} => process = "none"
  /\ monitor \in {"query", "emit", "send", "read"} => slot

\* "Only a change is reported" (README, Event "playing"): no two reports in a
\* row are equal, whatever restarts lie between them.
NoRepeats ==
  LET reports == <<delivered>> \o route IN
  \A i \in 1..Len(route) : reports[i] # reports[i + 1]

\* The reports come to an end, or to nothing, for one of these reasons. A failed
\* query excuses nothing beyond its round: the next line is asked for anew.
Excused == shutdown \/ ~routing \/ answer = "failed" \/ result = "error"

\* A status is delivered if the monitor has been told of it, or has yet to make
\* the first query of its listener, and it lasts and no query fails.
HeardStatusDelivered ==
  \A s \in Status :
    status = s /\ (lines > 0 \/ monitor \in {"spawn", "store", "query"})
      ~> delivered = s \/ status # s \/ Excused

\* The safety part of it: a status the monitor has been told of, or has yet to ask
\* for, stays on its way from the pipe or the query to the router, across deaths
\* and restarts of the listener. One that is not sent is the one reported last.
StatusPending(s) ==
  /\ status = s
  /\ \/ lines > 0
     \/ monitor \in {"loop", "spawn", "store", "query"}
     \/ monitor = "emit" /\ answer = s
     \/ monitor = "send" /\ last = s
     \/ \E i \in 1..Len(route) : route[i] = s

NoStatusForgotten ==
  [][\A s \in Status : StatusPending(s) =>
       StatusPending(s)' \/ delivered' = s \/ status' # s \/ Excused']_vars

\* A listener that dies is replaced by another, wherever the monitor is by then,
\* unless the monitor has to end.
DeadListenerReplaced == process = "dead" ~> Running \/ shutdown \/ ~routing \/ result = "error"

\* Killing the listener wakes a thread that waits for its output, and the join
\* returns.
KillEndsMonitor ==
  stopper = "kill" /\ monitor = "read" ~> stopper = "done" \/ result = "error"
=============================================================================
