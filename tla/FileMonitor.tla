----------------------------- MODULE FileMonitor -----------------------------
(***************************************************************************)
(* The inotify monitor that follows a log file: it reads the lines that    *)
(* are appended to the file, or waits in the directory for the file to     *)
(* appear. instruction and kws are monitors of this kind; the callbacks    *)
(* are those of instruction, which report every line and every reset.      *)
(* Around it the programs that write, truncate, delete, rename and replace *)
(* the file at any time, and the shutdown of the session.                  *)
(*                                                                         *)
(* Files are numbered, 0 is no file. Lines are numbered as they are        *)
(* written, and a file is the sequence of its lines: what is read of a     *)
(* line that is half written, and chunks of the read buffer, are left out. *)
(* The kernel's part is external: a file that is unlinked while somebody   *)
(* holds it open changes its attributes and is not deleted, an event equal *)
(* to the last one in the queue is not queued again, and of the events that*)
(* find the queue full only the fact is queued.                            *)
(*                                                                         *)
(* Left out: errors of system calls other than a missing file, and the     *)
(* removal of the directory.                                               *)
(***************************************************************************)
EXTENDS Naturals, SequencesExt

CONSTANTS
  MaxFiles,    \* bound: files that are ever at the path
  MaxLines,    \* bound: lines that are ever written
  MaxEvents    \* fs.inotify.max_queued_events

ASSUME BoundAssumption == {MaxFiles, MaxLines, MaxEvents} \subseteq Nat

VARIABLES
  path,        \* the file at the path
  place,       \* where each file is
  content,     \* the lines of each file
  written,     \* the line written last
  monitor,     \* where the monitor thread is
  reader,      \* the file it has open
  position,    \* how many of its lines it has read
  buffer,      \* lines read and not handed over
  watched,     \* the file its inotify watch is on
  watchesDir,  \* the watch is on the directory
  queue,       \* the events in the kernel
  batch,       \* the events read and not handled
  delivered,   \* the line handed over last
  routing,     \* the route channel has its receiver
  shutdown,    \* shutdown_requested
  signalled,   \* the shutdown eventfd has been written
  stopper      \* where the shutdown of the session is

fileVars  == <<path, place, content, written>>
readVars  == <<reader, position, buffer, delivered>>
watchVars == <<watched, watchesDir, queue, batch>>
stopVars  == <<shutdown, signalled, stopper>>
vars == <<path, place, content, written, monitor, reader, position, buffer, watched,
          watchesDir, queue, batch, delivered, routing, shutdown, signalled, stopper>>

InodeId == 1..MaxFiles
Line    == 1..MaxLines

\* "gone" stands for IN_MOVE_SELF and IN_DELETE_SELF, "created" for IN_CREATE
\* and IN_MOVED_TO with the name of the file.
Event == {"modify", "attrib", "gone", "created", "overflow"}

TypeOK ==
  /\ path \in InodeId \cup {0}
  /\ place \in [InodeId -> {"fresh", "path", "away", "gone"}]
  /\ content \in [InodeId -> Seq(Line)]
  /\ written \in 0..MaxLines
  /\ monitor \in {"loop", "open", "watch", "absent", "poll", "sleep", "handle", "fill", "lines",
                  "exited"}
  /\ reader \in InodeId \cup {0}
  /\ position \in Nat
  /\ buffer \in Seq(Line)
  /\ watched \in InodeId \cup {0}
  /\ watchesDir \in BOOLEAN
  /\ queue \in Seq(Event)
  /\ batch \in Seq(Event)
  /\ delivered \in 0..MaxLines
  /\ routing \in BOOLEAN
  /\ shutdown \in BOOLEAN
  /\ signalled \in BOOLEAN
  /\ stopper \in {"running", "signal", "join", "done"}
  /\ \A i \in InodeId : place[i] = "path" <=> path = i
  /\ watchesDir => watched = 0 /\ reader = 0

Init ==
  /\ path \in {0, 1} \cap (InodeId \cup {0})
  /\ place = [i \in InodeId |-> IF i = path THEN "path" ELSE "fresh"]
  /\ content = [i \in InodeId |-> <<>>]
  /\ written = 0
  /\ monitor = "loop"
  /\ reader = 0
  /\ position = 0
  /\ buffer = <<>>
  /\ watched = 0
  /\ watchesDir = FALSE
  /\ queue = <<>>
  /\ batch = <<>>
  /\ delivered = 0
  /\ routing = TRUE
  /\ shutdown = FALSE
  /\ signalled = FALSE
  /\ stopper = "running"

-----------------------------------------------------------------------------
\* The programs that write the file, and the events the kernel makes of it.

Put(q, e) ==
  IF Len(q) <= MaxEvents /\ (q = <<>> \/ Last(q) # e)
  THEN Append(q, IF Len(q) < MaxEvents THEN e ELSE "overflow")
  ELSE q

\* The queue after a change of file i: q, if the file is watched.
Notices(i, q) == queue' = IF watched = i THEN q ELSE queue

\* The queue with the events of the last link of file i being removed.
Unlinked(i) ==
  LET q == Put(queue, "attrib") IN IF reader = i THEN q ELSE Put(q, "gone")

AppendsLine ==
  /\ path # 0
  /\ written < MaxLines
  /\ written' = written + 1
  /\ content' = [content EXCEPT ![path] = Append(@, written')]
  /\ Notices(path, Put(queue, "modify"))
  /\ UNCHANGED <<path, place, monitor, readVars, watched, watchesDir, batch, routing, stopVars>>

\* A log that is rotated is emptied. (Behind one that is cut in the middle the reset
\* to 0 would read again what is left of it.)
Truncates ==
  /\ path # 0
  /\ content[path] # <<>>
  /\ content' = [content EXCEPT ![path] = <<>>]
  /\ Notices(path, Put(queue, "modify"))
  /\ UNCHANGED <<path, place, written, monitor, readVars, watched, watchesDir, batch, routing,
                 stopVars>>

Deletes ==
  /\ path # 0
  /\ path' = 0
  /\ place' = [place EXCEPT ![path] = "gone"]
  /\ Notices(path, Unlinked(path))
  /\ UNCHANGED <<content, written, monitor, readVars, watched, watchesDir, batch, routing, stopVars>>

MovesAway ==
  /\ path # 0
  /\ path' = 0
  /\ place' = [place EXCEPT ![path] = "away"]
  /\ Notices(path, Put(queue, "gone"))
  /\ UNCHANGED <<content, written, monitor, readVars, watched, watchesDir, batch, routing, stopVars>>

\* A new file, or one that is moved back.
Appears(i) ==
  /\ path = 0
  /\ place[i] \in {"fresh", "away"}
  /\ path' = i
  /\ place' = [place EXCEPT ![i] = "path"]
  /\ IF watchesDir THEN queue' = Put(queue, "created") ELSE Notices(i, Put(queue, "gone"))
  /\ UNCHANGED <<content, written, monitor, readVars, watched, watchesDir, batch, routing, stopVars>>

\* A file is renamed to the path of another, which loses its last link.
Replaces(i) ==
  /\ path # 0
  /\ place[i] \in {"fresh", "away"}
  /\ path' = i
  /\ place' = [place EXCEPT ![path] = "gone", ![i] = "path"]
  /\ IF watchesDir THEN queue' = Put(queue, "created")
     ELSE IF watched = i THEN Notices(i, Put(queue, "gone"))
     ELSE Notices(path, Unlinked(path))
  /\ UNCHANGED <<content, written, monitor, readVars, watched, watchesDir, batch, routing, stopVars>>

\* Bound: once an event has been lost the programs wait until the queue is read.
OneLoss == ~Contains(queue, "overflow")

FileNext ==
  /\ OneLoss
  /\ \/ AppendsLine
     \/ Truncates
     \/ Deletes
     \/ MovesAway
     \/ \E i \in InodeId : Appears(i) \/ Replaces(i)

-----------------------------------------------------------------------------
\* The monitor thread: the file or the directory is opened and watched.

\* The thread lets go of the file and of its inotify descriptor.
LetsGo ==
  /\ reader' = 0
  /\ position' = 0
  /\ buffer' = <<>>
  /\ watched' = 0
  /\ watchesDir' = FALSE
  /\ queue' = <<>>
  /\ batch' = <<>>

Reopens == monitor' = "loop" /\ LetsGo
Exits   == monitor' = "exited" /\ LetsGo

LooksUp ==
  /\ monitor = "loop"
  /\ monitor' = IF shutdown THEN "exited" ELSE IF path = 0 THEN "absent" ELSE "open"
  /\ UNCHANGED <<fileVars, readVars, watchVars, routing, stopVars>>

\* The file is opened and the reader put to its end.
Opens ==
  /\ monitor = "open"
  /\ reader' = path
  /\ position' = IF path = 0 THEN 0 ELSE Len(content[path])
  /\ monitor' = IF path = 0 THEN "absent" ELSE "watch"
  /\ UNCHANGED <<fileVars, buffer, delivered, watchVars, routing, stopVars>>

\* The watch is on the file that is at the path now. None there is an error,
\* which ends the thread.
WatchesFile ==
  /\ monitor = "watch"
  /\ ~shutdown
  /\ path # 0
  /\ watched' = path
  /\ monitor' = "poll"
  /\ UNCHANGED <<fileVars, readVars, watchesDir, queue, batch, routing, stopVars>>

FailsToWatch ==
  /\ monitor = "watch"
  /\ shutdown \/ path = 0
  /\ Exits
  /\ UNCHANGED <<fileVars, delivered, routing, stopVars>>

WatchesDir ==
  /\ monitor = "absent"
  /\ watchesDir' = ~shutdown
  /\ monitor' = IF shutdown THEN "exited" ELSE "poll"
  /\ UNCHANGED <<fileVars, readVars, watched, queue, batch, routing, stopVars>>

-----------------------------------------------------------------------------
\* The monitor thread: events.

ChecksFlag ==
  /\ monitor = "poll"
  /\ ~shutdown
  /\ monitor' = "sleep"
  /\ UNCHANGED <<fileVars, readVars, watchVars, routing, stopVars>>

SeesFlag ==
  /\ monitor = "poll"
  /\ shutdown
  /\ Exits
  /\ UNCHANGED <<fileVars, delivered, routing, stopVars>>

\* poll returns; the eventfd comes first.
WakesToClose ==
  /\ monitor = "sleep"
  /\ signalled
  /\ Exits
  /\ UNCHANGED <<fileVars, delivered, routing, stopVars>>

WakesToEvents ==
  /\ monitor = "sleep"
  /\ ~signalled
  /\ queue # <<>>
  /\ batch' = queue
  /\ queue' = <<>>
  /\ monitor' = "handle"
  /\ UNCHANGED <<fileVars, readVars, watched, watchesDir, routing, stopVars>>

BatchDone ==
  /\ monitor = "handle"
  /\ batch = <<>>
  /\ monitor' = "poll"
  /\ UNCHANGED <<fileVars, readVars, watchVars, routing, stopVars>>

NextEvent == monitor = "handle" /\ batch # <<>>

\* Mutant: what happens in the directory is not looked at.
HandlesMoveOfFile ==
  /\ NextEvent
  /\ \/ Head(batch) = "gone"
     \/ Head(batch) = "attrib" /\ path = 0
  /\ Reopens
  /\ UNCHANGED <<fileVars, delivered, routing, stopVars>>

\* The file has left the path, or has appeared in the directory.
HandlesMove ==
  /\ NextEvent
  /\ \/ Head(batch) \in {"gone", "created"}
     \/ Head(batch) = "attrib" /\ path = 0
  /\ Reopens
  /\ UNCHANGED <<fileVars, delivered, routing, stopVars>>

\* That events have been lost is logged and no more.
IgnoresOverflow ==
  /\ NextEvent
  /\ Head(batch) = "overflow"
  /\ batch' = Tail(batch)
  /\ UNCHANGED <<fileVars, monitor, readVars, watched, watchesDir, queue, routing, stopVars>>

Truncated == Len(content[reader]) < position

\* Mutant: a file that has nothing new counts as truncated.
ResetIfNothingNew == position' = IF Len(content[reader]) <= position THEN 0 ELSE position

\* Mutant: the reset is reported and the reader stays where it is.
ResetNothing == position' = position

\* on_reset reports the reset, which fails when nobody receives it.
ResetIfNeeded == position' = IF Truncated THEN 0 ELSE position

HandlesChange ==
  /\ NextEvent
  /\ \/ Head(batch) = "modify"
     \/ Head(batch) = "attrib" /\ path # 0
  /\ ~(Truncated /\ ~routing)
  /\ ResetIfNeeded
  /\ batch' = Tail(batch)
  /\ monitor' = IF Head(batch) = "modify" THEN "fill" ELSE "handle"
  /\ UNCHANGED <<fileVars, reader, buffer, delivered, watched, watchesDir, queue, routing, stopVars>>

ResetFails ==
  /\ NextEvent
  /\ \/ Head(batch) = "modify"
     \/ Head(batch) = "attrib" /\ path # 0
  /\ Truncated /\ ~routing
  /\ Exits
  /\ UNCHANGED <<fileVars, delivered, routing, stopVars>>

\* What there is to read is read at once.
Fills ==
  /\ monitor = "fill"
  /\ LET n == Len(content[reader])
     IN IF position < n
        THEN /\ buffer' = SubSeq(content[reader], position + 1, n)
             /\ position' = n
             /\ monitor' = "lines"
        ELSE /\ monitor' = "handle"
             /\ UNCHANGED <<buffer, position>>
  /\ UNCHANGED <<fileVars, reader, delivered, watchVars, routing, stopVars>>

\* Mutant: one line of what was read for every event.
DeliversFirst ==
  /\ monitor = "lines"
  /\ buffer # <<>>
  /\ routing
  /\ delivered' = Head(buffer)
  /\ buffer' = <<>>
  /\ monitor' = "handle"
  /\ UNCHANGED <<fileVars, reader, position, watchVars, routing, stopVars>>

\* on_line sends a report for the line.
Delivers ==
  /\ monitor = "lines"
  /\ buffer # <<>>
  /\ routing
  /\ delivered' = Head(buffer)
  /\ buffer' = Tail(buffer)
  /\ UNCHANGED <<fileVars, monitor, reader, position, watchVars, routing, stopVars>>

DeliveryFails ==
  /\ monitor = "lines"
  /\ buffer # <<>>
  /\ ~routing
  /\ Exits
  /\ UNCHANGED <<fileVars, delivered, routing, stopVars>>

BufferEmpty ==
  /\ monitor = "lines"
  /\ buffer = <<>>
  /\ monitor' = "fill"
  /\ UNCHANGED <<fileVars, readVars, watchVars, routing, stopVars>>

MonitorNext ==
  \/ LooksUp
  \/ Opens
  \/ WatchesFile
  \/ FailsToWatch
  \/ WatchesDir
  \/ ChecksFlag
  \/ SeesFlag
  \/ WakesToClose
  \/ WakesToEvents
  \/ BatchDone
  \/ HandlesMove
  \/ IgnoresOverflow
  \/ HandlesChange
  \/ ResetFails
  \/ Fills
  \/ Delivers
  \/ DeliveryFails
  \/ BufferEmpty

-----------------------------------------------------------------------------
\* The shutdown of the session and its router.

RouterEnds ==
  /\ routing
  /\ routing' = FALSE
  /\ UNCHANGED <<fileVars, monitor, readVars, watchVars, stopVars>>

\* close() sets the flag first and then writes the eventfd.
SetsFlag ==
  /\ stopper = "running"
  /\ shutdown' = TRUE
  /\ stopper' = "signal"
  /\ UNCHANGED <<fileVars, monitor, readVars, watchVars, routing, signalled>>

\* Mutant: the flag is thought to be enough.
SignalsNobody ==
  /\ stopper = "signal"
  /\ stopper' = "join"
  /\ UNCHANGED <<fileVars, monitor, readVars, watchVars, routing, shutdown, signalled>>

Signals ==
  /\ stopper = "signal"
  /\ signalled' = TRUE
  /\ stopper' = "join"
  /\ UNCHANGED <<fileVars, monitor, readVars, watchVars, routing, shutdown>>

Joins ==
  /\ stopper = "join"
  /\ monitor = "exited"
  /\ stopper' = "done"
  /\ UNCHANGED <<fileVars, monitor, readVars, watchVars, routing, shutdown, signalled>>

Next ==
  \/ FileNext
  \/ MonitorNext
  \/ RouterEnds
  \/ SetsFlag
  \/ Signals
  \/ Joins

Spec == Init /\ [][Next]_vars

\* The monitor and a shutdown that has begun go on. Nothing is said of the
\* programs that write the file.
Fairness ==
  /\ WF_vars(MonitorNext)
  /\ WF_vars(Signals \/ Joins)

FairSpec == Spec /\ Fairness

-----------------------------------------------------------------------------
\* What the monitor guarantees.

\* No line is handed over twice, and none after a later one, whatever becomes
\* of the file in the meantime.
OnceInOrder ==
  \A i \in DOMAIN buffer :
    buffer[i] > (IF i = 1 THEN delivered ELSE buffer[i - 1])

\* Line n is in the file that is read and watched, behind the reader, and the
\* event that tells of it has yet to be handled.
Unread(n) == reader # 0 /\ \E k \in DOMAIN content[reader] : k > position /\ content[reader][k] = n

Heard(n) ==
  /\ Unread(n)
  /\ watched = reader
  /\ Contains(queue, "modify") \/ Contains(batch, "modify") \/ monitor = "fill"

\* The report of line n is not due any more.
NotDue(n) ==
  \/ reader = 0
  \/ ~Contains(content[reader], n)
  \/ shutdown
  \/ ~routing

\* One event is enough for any number of lines: a line that an event tells of
\* is handed over unless the file is moved or truncated first.
HeardLineDelivered == \A n \in Line : Heard(n) ~> delivered = n \/ NotDue(n)

\* An event that has yet to be handled tells that the file is shorter than what has
\* been read of it.
TruncationPending ==
  /\ reader # 0 /\ watched = reader
  /\ Truncated
  /\ Contains(queue, "modify") \/ Contains(batch, "modify")

\* A reader that stands behind the end of a truncated file goes back to its start
\* once an event has told of it; behind the end it would read nothing any more.
TruncationNoticed ==
  TruncationPending ~> reader = 0 \/ ~Truncated \/ shutdown \/ ~routing

\* close() ends the monitor wherever it is, and the join returns.
CloseEndsMonitor == shutdown ~> stopper = "done"

\* A monitor that waits in the directory and is told that the file appears reads
\* and watches it, whatever the file has been through before.
AppearanceNoticed ==
  \A i \in InodeId :
    /\ path = i
    /\ watchesDir
    /\ Contains(queue, "created") \/ Contains(batch, "created")
    ~> (reader = i /\ watched = i) \/ path # i \/ shutdown

\* The safety part of the three, with the steps on the way named: what an event
\* has told of is pending until it is done or not due any more, and no step of
\* the programs, the kernel's queue or the thread lets it drop in between.
LinePending(n) == Heard(n) \/ Contains(buffer, n)

NoHeardLineLost ==
  [][\A n \in Line : LinePending(n) => LinePending(n)' \/ delivered' = n \/ NotDue(n)']_vars

NoTruncationMissed ==
  [][TruncationPending =>
       TruncationPending' \/ reader' = 0 \/ ~Truncated' \/ shutdown' \/ ~routing']_vars

AppearancePending(i) ==
  /\ path = i
  /\ \/ watchesDir /\ (Contains(queue, "created") \/ Contains(batch, "created"))
     \/ monitor \in {"loop", "open"}
     \/ monitor = "watch" /\ reader = i

NoAppearanceMissed ==
  [][\A i \in InodeId : AppearancePending(i) =>
       AppearancePending(i)' \/ (reader' = i /\ watched' = i) \/ path' # i \/ shutdown']_vars

\* "While the file exists the monitor listens to it, while it does not it waits
\* for it to appear again": a file that stays at the path is read and watched.
FollowsPath ==
  \A i \in InodeId :
    path = i ~> (reader = i /\ watched = i) \/ path # i \/ monitor = "exited"
=============================================================================
