-------------------------- MODULE FileMonitorProofs --------------------------
(***************************************************************************)
(* Proofs about FileMonitor for any number of files, lines and events.     *)
(***************************************************************************)
EXTENDS FileMonitor, SequenceTheorems, TLAPS

-----------------------------------------------------------------------------
\* The inductive invariant, in named parts.

\* Files grow at their end, by lines that are newer than all others.
LinesGrow ==
  \A i \in InodeId :
    /\ \A k \in 1..Len(content[i]) : content[i][k] <= written
    /\ \A j, k \in 1..Len(content[i]) : j < k => content[i][j] < content[i][k]

\* The line read last, handed over or not.
LastRead == IF buffer = <<>> THEN delivered ELSE buffer[Len(buffer)]

\* Nothing is read before it is written.
ReadIsWritten ==
  /\ delivered <= written
  /\ \A k \in 1..Len(buffer) : buffer[k] <= written

\* What the file holds behind the reader, or after a truncation that has not
\* been noticed yet anywhere, is newer than what has been read.
AheadIsNewer ==
  reader # 0 =>
    \A k \in 1..Len(content[reader]) :
      k > position \/ Len(content[reader]) < position => content[reader][k] > LastRead

\* Where the monitor has lines in its buffer, a file open, or a watch.
BufferPlace == monitor # "lines" => buffer = <<>>

ReaderPlace ==
  /\ monitor \in {"watch", "fill", "lines"} \/ watched # 0 => reader # 0
  /\ monitor \in {"loop", "open", "absent", "exited"} => reader = 0

Unwatched ==
  monitor \in {"loop", "open", "watch", "absent", "exited"} =>
    watched = 0 /\ ~watchesDir /\ queue = <<>> /\ batch = <<>>

\* A watch on the directory makes events of its own only.
DirectoryEvent  == {"created", "overflow"}
DirectoryEvents ==
  watched = 0 => queue \in Seq(DirectoryEvent) /\ batch \in Seq(DirectoryEvent)

Lines  == LinesGrow /\ ReadIsWritten /\ AheadIsNewer /\ OnceInOrder
Places == BufferPlace /\ ReaderPlace /\ Unwatched /\ DirectoryEvents

IInv == TypeOK /\ Lines /\ Places

-----------------------------------------------------------------------------
(***************************************************************************)
(* The event queue.                                                        *)
(***************************************************************************)

\* An event that is queued, merged or lost.
LEMMA PutType ==
  ASSUME NEW S, NEW q \in Seq(S), NEW e \in S, "overflow" \in S
  PROVE  Put(q, e) \in Seq(S)
BY DEF Put

\* A queue changes only for a watch, and according to it.
QueueKept ==
  /\ queue' \in Seq(Event)
  /\ watched = 0 => queue' \in Seq(DirectoryEvent)
  /\ watched = 0 /\ ~watchesDir => queue' = queue

\* A change of a file is queued for its watch.
LEMMA NoticesKeeps ==
  ASSUME TypeOK, DirectoryEvents, NEW i \in InodeId, NEW q \in Seq(Event), Notices(i, q)
  PROVE  QueueKept
BY DEF TypeOK, InodeId, DirectoryEvents, Notices, QueueKept

\* So is the removal of a file's last link.
LEMMA UnlinkedType ==
  ASSUME TypeOK, NEW i
  PROVE  Unlinked(i) \in Seq(Event)
<1>1. Put(queue, "attrib") \in Seq(Event)
      BY PutType DEF TypeOK, Event
<1>2. Put(Put(queue, "attrib"), "gone") \in Seq(Event)
      BY <1>1, PutType DEF Event
<1>3. QED
      BY <1>1, <1>2 DEF Unlinked

\* Whatever happens to the files.
LEMMA FilesQueue ==
  ASSUME TypeOK, DirectoryEvents, FileNext
  PROVE  QueueKept
<1>1. \A e \in Event : Put(queue, e) \in Seq(Event)
      BY PutType DEF TypeOK, Event
<1>2. path # 0 => path \in InodeId
      BY DEF TypeOK
<1>3. \A i \in InodeId : \A e \in Event : Notices(i, Put(queue, e)) => QueueKept
      BY <1>1, NoticesKeeps
<1>4. \A i \in InodeId : Notices(i, Unlinked(i)) => QueueKept
      BY UnlinkedType, NoticesKeeps
<1>5. watchesDir /\ queue' = Put(queue, "created") => QueueKept
  <2> SUFFICES ASSUME watchesDir, queue' = Put(queue, "created") PROVE QueueKept
      OBVIOUS
  <2>1. queue \in Seq(DirectoryEvent)
        BY DEF TypeOK, DirectoryEvents
  <2>2. queue' \in Seq(DirectoryEvent)
        BY <2>1, PutType DEF DirectoryEvent
  <2>3. QED
        BY <1>1, <2>2 DEF QueueKept, Event
<1>6. CASE AppendsLine \/ Truncates
      BY <1>2, <1>3, <1>6 DEF AppendsLine, Truncates, Event
<1>7. CASE Deletes \/ MovesAway
      BY <1>2, <1>3, <1>4, <1>7 DEF Deletes, MovesAway, Event
<1>8. ASSUME NEW i \in InodeId, Appears(i) PROVE QueueKept
      BY <1>3, <1>5, <1>8 DEF Appears, Event
<1>9. ASSUME NEW i \in InodeId, Replaces(i) PROVE QueueKept
      BY <1>2, <1>3, <1>4, <1>5, <1>9 DEF Replaces, Event
<1>10. QED
      BY <1>6, <1>7, <1>8, <1>9 DEF FileNext

-----------------------------------------------------------------------------
(***************************************************************************)
(* The files.                                                              *)
(***************************************************************************)

\* Nobody who changes a file touches the monitor.
LEMMA FilesLeaveMonitor ==
  ASSUME FileNext
  PROVE  UNCHANGED <<monitor, readVars, watched, watchesDir, batch, routing, stopVars>>
BY DEF FileNext, AppendsLine, Truncates, Deletes, MovesAway, Appears, Replaces

\* The places of the files and the lines in them.
LEMMA FilesType ==
  ASSUME IInv, FileNext
  PROVE  TypeOK'
<1>1. queue' \in Seq(Event)
      BY FilesQueue DEF IInv, Places, QueueKept
<1>2. UNCHANGED <<monitor, readVars, watched, watchesDir, batch, routing, stopVars>>
      BY FilesLeaveMonitor
<1>3. /\ path' \in InodeId \cup {0}
      /\ place' \in [InodeId -> {"fresh", "path", "away", "gone"}]
      /\ \A i \in InodeId : place'[i] = "path" <=> path' = i
  <2> USE DEF IInv, TypeOK, InodeId
  <2>1. CASE AppendsLine \/ Truncates
        BY <2>1 DEF AppendsLine, Truncates
  <2>2. CASE Deletes \/ MovesAway
    <3>1. /\ path \in InodeId /\ path' = 0
          /\ \E p \in {"gone", "away"} : place' = [place EXCEPT ![path] = p]
          BY <2>2 DEF Deletes, MovesAway
    <3>2. \A i \in InodeId : place'[i] # "path" /\ path' # i
          BY <3>1
    <3>3. place' \in [InodeId -> {"fresh", "path", "away", "gone"}]
          BY <3>1
    <3>4. QED
          BY <3>1, <3>2, <3>3
  <2>3. CASE \E i \in InodeId : Appears(i)
        BY <2>3 DEF Appears
  <2>4. CASE \E i \in InodeId : Replaces(i)
        BY <2>4 DEF Replaces
  <2>5. QED
        BY <2>1, <2>2, <2>3, <2>4 DEF FileNext
<1>4. content' \in [InodeId -> Seq(Line)] /\ written' \in 0..MaxLines
  <2> USE BoundAssumption DEF IInv, TypeOK
  <2>1. CASE AppendsLine
    <3>1. path \in InodeId /\ written' \in Line /\ written' \in 0..MaxLines
          BY <2>1 DEF AppendsLine, Line
    <3>2. Append(content[path], written') \in Seq(Line)
          BY <3>1
    <3>3. QED
          BY <2>1, <3>1, <3>2 DEF AppendsLine
  <2>2. CASE Truncates
    <3>1. <<>> \in Seq(Line)
          OBVIOUS
    <3>2. QED
          BY <2>2, <3>1 DEF Truncates
  <2>3. CASE UNCHANGED <<content, written>>
        BY <2>3
  <2>4. QED
        BY <2>1, <2>2, <2>3 DEF FileNext, Deletes, MovesAway, Appears, Replaces
<1>5. QED
      BY <1>1, <1>2, <1>3, <1>4 DEF IInv, TypeOK, readVars, stopVars

\* A new line is newer than all.
LEMMA AppendKeeps ==
  ASSUME IInv, AppendsLine
  PROVE  Lines'
<1> USE BoundAssumption DEF IInv, Lines
<1>1. /\ path \in InodeId
      /\ written \in Nat
      /\ written' = written + 1
      /\ UNCHANGED <<reader, position, buffer, delivered>>
      /\ delivered \in Nat
      /\ position \in Nat
      /\ buffer \in Seq(Nat)
      BY DEF TypeOK, AppendsLine, readVars, Line
<1>2. \A i \in InodeId : content[i] \in Seq(Nat) /\ Len(content[i]) \in Nat
      BY DEF TypeOK, Line
<1>3. \A i \in InodeId \ {path} : content'[i] = content[i]
      BY DEF TypeOK, AppendsLine
<1>4. /\ Len(content'[path]) = Len(content[path]) + 1
      /\ \A k \in 1..Len(content[path]) : content'[path][k] = content[path][k]
      /\ content'[path][Len(content[path]) + 1] = written + 1
  <2>1. content'[path] = Append(content[path], written + 1)
        BY <1>1 DEF TypeOK, AppendsLine
  <2>2. QED
        BY <1>1, <1>2, <2>1
<1>5. LinesGrow'
  <2>1. ASSUME NEW i \in InodeId
        PROVE  /\ \A k \in 1..Len(content'[i]) : content'[i][k] <= written'
               /\ \A j, k \in 1..Len(content'[i]) : j < k => content'[i][j] < content'[i][k]
    <3>1. /\ \A k \in 1..Len(content[i]) : content[i][k] <= written /\ content[i][k] \in Nat
          /\ \A j, k \in 1..Len(content[i]) : j < k => content[i][j] < content[i][k]
          BY <1>2 DEF LinesGrow
    <3>2. CASE i = path
      <4>1. \A k \in 1..(Len(content[path]) + 1) :
              \/ k \in 1..Len(content[path])
              \/ k = Len(content[path]) + 1
            BY <1>1, <1>2
      <4>2. ASSUME NEW k \in 1..Len(content'[path]) PROVE content'[path][k] <= written'
        <5>1. CASE k \in 1..Len(content[path])
          <6>1. content[path][k] <= written /\ content[path][k] \in Nat
                BY <3>1, <3>2, <5>1
          <6>2. content'[path][k] = content[path][k]
                BY <1>4, <5>1
          <6>3. QED
                BY <1>1, <6>1, <6>2
        <5>2. CASE k = Len(content[path]) + 1
              BY <1>1, <1>4, <5>2
        <5>3. QED
              BY <1>4, <4>1, <5>1, <5>2
      <4>3. ASSUME NEW j \in 1..Len(content'[path]), NEW k \in 1..Len(content'[path]), j < k
            PROVE  content'[path][j] < content'[path][k]
        <5>1. j \in 1..Len(content[path])
              BY <1>1, <1>2, <1>4, <4>3
        <5>2. CASE k \in 1..Len(content[path])
              BY <1>4, <3>1, <3>2, <4>3, <5>1, <5>2
        <5>3. CASE k = Len(content[path]) + 1
          <6>1. content'[path][k] = written + 1
                BY <1>4, <5>3
          <6>2. content[path][j] <= written /\ content[path][j] \in Nat
                BY <3>1, <3>2, <5>1
          <6>3. content'[path][j] = content[path][j]
                BY <1>4, <5>1
          <6>4. QED
                BY <1>1, <6>1, <6>2, <6>3
        <5>4. QED
              BY <1>4, <4>1, <5>2, <5>3
      <4>4. QED
            BY <3>2, <4>2, <4>3
    <3>3. CASE i # path
          BY <1>1, <1>3, <3>1, <3>3
    <3>4. QED
          BY <3>2, <3>3
  <2>2. QED
        BY <2>1 DEF LinesGrow
<1>6. ReadIsWritten'
      BY <1>1 DEF ReadIsWritten
<1>7. LastRead' = LastRead /\ LastRead \in Nat /\ LastRead <= written
      BY <1>1 DEF LastRead, ReadIsWritten
<1>8. AheadIsNewer'
  <2>1. CASE reader = path
    <3>1. \A k \in 1..Len(content[path]) : content[path][k] \in Nat
          BY <1>1, <1>2
    <3>2. ASSUME NEW k \in 1..(Len(content[path]) + 1),
                 k > position \/ Len(content[path]) + 1 < position
          PROVE  content'[path][k] > LastRead
      <4>1. CASE k = Len(content[path]) + 1
            BY <1>1, <1>4, <1>7, <4>1
      <4>2. CASE k \in 1..Len(content[path])
        <5>1. k > position \/ Len(content[path]) < position
              BY <1>1, <1>2, <3>2
        <5>2. reader # 0
              BY <1>1, <2>1 DEF InodeId
        <5>3. QED
              BY <1>4, <2>1, <4>2, <5>1, <5>2 DEF AheadIsNewer
      <4>3. QED
            BY <1>1, <1>2, <4>1, <4>2
    <3>3. QED
          BY <1>1, <1>4, <1>7, <2>1, <3>2 DEF AheadIsNewer
  <2>2. CASE reader # path
        BY <1>1, <1>3, <1>7, <2>2 DEF AheadIsNewer, TypeOK
  <2>3. QED
        BY <2>1, <2>2
<1>9. OnceInOrder'
      BY <1>1 DEF OnceInOrder
<1>10. QED
      BY <1>5, <1>6, <1>8, <1>9

\* An empty file has nothing old to read.
LEMMA TruncateKeeps ==
  ASSUME IInv, Truncates
  PROVE  Lines'
<1> USE DEF IInv, Lines
<1>1. /\ path \in InodeId
      /\ UNCHANGED <<written, reader, position, buffer, delivered>>
      BY DEF TypeOK, Truncates, readVars
<1>2. /\ \A i \in InodeId \ {path} : content'[i] = content[i]
      /\ content'[path] = <<>> /\ Len(content'[path]) = 0
      BY DEF TypeOK, Truncates
<1>3. LinesGrow'
  <2>1. ASSUME NEW i \in InodeId
        PROVE  /\ \A k \in 1..Len(content'[i]) : content'[i][k] <= written'
               /\ \A j, k \in 1..Len(content'[i]) : j < k => content'[i][j] < content'[i][k]
    <3>1. CASE i = path
          BY <1>2, <3>1
    <3>2. CASE i # path
          BY <1>1, <1>2, <3>2 DEF LinesGrow
    <3>3. QED
          BY <3>1, <3>2
  <2>2. QED
        BY <2>1 DEF LinesGrow
<1>4. AheadIsNewer'
  <2>1. CASE reader = path
        BY <1>1, <1>2, <2>1 DEF AheadIsNewer
  <2>2. CASE reader # path
        BY <1>1, <1>2, <2>2 DEF AheadIsNewer, TypeOK, LastRead
  <2>3. QED
        BY <2>1, <2>2
<1>5. ReadIsWritten' /\ OnceInOrder'
      BY <1>1 DEF ReadIsWritten, OnceInOrder
<1>6. QED
      BY <1>3, <1>4, <1>5

\* Lines are kept by those who change neither files nor what has been read.
LEMMA LinesUntouched ==
  ASSUME Lines, UNCHANGED <<content, written, readVars>>
  PROVE  Lines'
BY DEF Lines, readVars, LinesGrow, ReadIsWritten, AheadIsNewer, LastRead, OnceInOrder

\* Every change of the files keeps the invariant.
LEMMA FilesKeep ==
  ASSUME IInv, FileNext
  PROVE  IInv'
<1>1. TypeOK'
      BY FilesType
<1>2. Lines'
  <2>1. CASE AppendsLine
        BY <2>1, AppendKeeps
  <2>2. CASE Truncates
        BY <2>2, TruncateKeeps
  <2>3. CASE UNCHANGED <<content, written, readVars>>
        BY <2>3, LinesUntouched DEF IInv
  <2>4. QED
        BY <2>1, <2>2, <2>3 DEF FileNext, Deletes, MovesAway, Appears, Replaces
<1>3. Places'
  <2>1. QueueKept
        BY FilesQueue DEF IInv, Places
  <2>2. UNCHANGED <<monitor, readVars, watched, watchesDir, batch, routing, stopVars>>
        BY FilesLeaveMonitor
  <2>3. QED
        BY <2>1, <2>2 DEF IInv, Places, BufferPlace, ReaderPlace, Unwatched, DirectoryEvents,
                          QueueKept, readVars
<1>4. QED
      BY <1>1, <1>2, <1>3 DEF IInv

-----------------------------------------------------------------------------
(***************************************************************************)
(* The monitor.                                                            *)
(***************************************************************************)

\* The thread lets go of everything, to look again or to end.
LEMMA LetGoKeeps ==
  ASSUME IInv, LetsGo, monitor' \in {"loop", "exited"},
         UNCHANGED <<fileVars, delivered, routing, stopVars>>
  PROVE  IInv'
<1> USE DEF IInv, LetsGo, fileVars, stopVars
<1>1. /\ <<>> \in Seq(Line) /\ <<>> \in Seq(Event) /\ <<>> \in Seq(DirectoryEvent)
      /\ Len(buffer') = 0
      BY DEF LetsGo
<1>2. TypeOK'
      BY <1>1 DEF TypeOK
<1>3. Lines'
      BY <1>1 DEF Lines, LinesGrow, ReadIsWritten, AheadIsNewer, OnceInOrder
<1>4. Places'
      BY <1>1 DEF Places, BufferPlace, ReaderPlace, Unwatched, DirectoryEvents
<1>5. QED
      BY <1>2, <1>3, <1>4

\* The steps that end with it.
LEMMA ReopensOrExits ==
  ASSUME IInv, FailsToWatch \/ SeesFlag \/ WakesToClose \/ HandlesMove \/ ResetFails
               \/ DeliveryFails
  PROVE  IInv'
BY LetGoKeeps DEF FailsToWatch, SeesFlag, WakesToClose, HandlesMove, ResetFails, DeliveryFails,
                  Reopens, Exits

\* The file is looked up, opened at its end, and watched.
LEMMA OpeningKeeps ==
  ASSUME IInv, LooksUp \/ Opens \/ WatchesFile \/ WatchesDir
  PROVE  IInv'
<1> USE DEF IInv, fileVars, watchVars, stopVars
<1>1. CASE LooksUp
  <2>1. TypeOK'
        BY <1>1 DEF TypeOK, LooksUp, readVars
  <2>2. Places'
        BY <1>1 DEF Places, BufferPlace, ReaderPlace, Unwatched, DirectoryEvents, LooksUp, readVars
  <2>3. QED
        BY <1>1, <2>1, <2>2, LinesUntouched DEF LooksUp
<1>2. CASE Opens
  <2>1. \A i \in InodeId : Len(content[i]) \in Nat
        BY DEF TypeOK
  <2>2. TypeOK'
        BY <1>2, <2>1 DEF TypeOK, Opens, Places, Unwatched
  <2>3. reader' # 0 => position' = Len(content[reader']) /\ position' \in Nat
        BY <1>2, <2>1 DEF Opens, TypeOK
  <2>4. AheadIsNewer'
        BY <1>2, <2>3 DEF Opens, AheadIsNewer
  <2>5. Lines'
        BY <1>2, <2>4 DEF Opens, Lines, LinesGrow, ReadIsWritten, OnceInOrder
  <2>6. Places'
        BY <1>2 DEF Opens, Places, BufferPlace, ReaderPlace, Unwatched, DirectoryEvents
  <2>7. QED
        BY <2>2, <2>5, <2>6
<1>3. CASE WatchesFile
  <2>1. TypeOK'
        BY <1>3 DEF TypeOK, WatchesFile, readVars, Places, Unwatched
  <2>2. Places'
        BY <1>3 DEF Places, BufferPlace, ReaderPlace, Unwatched, DirectoryEvents, WatchesFile,
                    readVars
  <2>3. QED
        BY <1>3, <2>1, <2>2, LinesUntouched DEF WatchesFile
<1>4. CASE WatchesDir
  <2>1. TypeOK'
        BY <1>4 DEF TypeOK, WatchesDir, readVars, Places, ReaderPlace, Unwatched
  <2>2. Places'
        BY <1>4 DEF Places, BufferPlace, ReaderPlace, Unwatched, DirectoryEvents, WatchesDir,
                    readVars
  <2>3. QED
        BY <1>4, <2>1, <2>2, LinesUntouched DEF WatchesDir
<1>5. QED
      BY <1>1, <1>2, <1>3, <1>4

\* The thread sleeps and reads events.
LEMMA WakingKeeps ==
  ASSUME IInv, ChecksFlag \/ WakesToEvents \/ BatchDone \/ IgnoresOverflow \/ BufferEmpty
  PROVE  IInv'
<1> USE DEF IInv, fileVars, watchVars, stopVars
<1>1. CASE ChecksFlag \/ BatchDone \/ BufferEmpty
  <2>1. TypeOK'
        BY <1>1 DEF TypeOK, ChecksFlag, BatchDone, BufferEmpty, readVars
  <2>2. Places'
        BY <1>1 DEF Places, BufferPlace, ReaderPlace, Unwatched, DirectoryEvents, ChecksFlag,
                    BatchDone, BufferEmpty, readVars
  <2>3. QED
        BY <1>1, <2>1, <2>2, LinesUntouched DEF ChecksFlag, BatchDone, BufferEmpty
<1>2. CASE WakesToEvents
  <2>1. <<>> \in Seq(Event) /\ <<>> \in Seq(DirectoryEvent)
        OBVIOUS
  <2>2. TypeOK'
        BY <1>2, <2>1 DEF TypeOK, WakesToEvents, readVars
  <2>3. Places'
        BY <1>2, <2>1 DEF Places, BufferPlace, ReaderPlace, Unwatched, DirectoryEvents,
                          WakesToEvents, readVars
  <2>4. QED
        BY <1>2, <2>2, <2>3, LinesUntouched DEF WakesToEvents
<1>3. CASE IgnoresOverflow
  <2>1. \A S : batch \in Seq(S) => Tail(batch) \in Seq(S)
        BY <1>3 DEF IgnoresOverflow, NextEvent
  <2>2. TypeOK'
        BY <1>3, <2>1 DEF TypeOK, IgnoresOverflow, readVars
  <2>3. Places'
        BY <1>3, <2>1 DEF Places, BufferPlace, ReaderPlace, Unwatched, DirectoryEvents,
                          IgnoresOverflow, NextEvent, readVars
  <2>4. QED
        BY <1>3, <2>2, <2>3, LinesUntouched DEF IgnoresOverflow
<1>4. QED
      BY <1>1, <1>2, <1>3

\* After a truncation the file is read from its start.
LEMMA ChangeKeeps ==
  ASSUME IInv, HandlesChange
  PROVE  IInv'
<1> USE DEF IInv, fileVars, stopVars
<1>1. /\ batch # <<>> /\ monitor = "handle"
      /\ monitor' \in {"fill", "handle"}
      /\ batch' = Tail(batch)
      /\ position' = IF Truncated THEN 0 ELSE position
      /\ UNCHANGED <<content, written, reader, buffer, delivered, watched, watchesDir, queue>>
      BY DEF HandlesChange, NextEvent, ResetIfNeeded
<1>2. \A S : batch \in Seq(S) => Tail(batch) \in Seq(S)
      BY <1>1
<1>3. reader # 0
  <2>1. watched # 0
    <3> SUFFICES ASSUME watched = 0 PROVE FALSE
        OBVIOUS
    <3>1. batch \in Seq(DirectoryEvent)
          BY DEF Places, DirectoryEvents
    <3>2. Head(batch) \in DirectoryEvent
          BY <1>1, <3>1
    <3>3. QED
          BY <3>2 DEF HandlesChange, DirectoryEvent
  <2>2. QED
        BY <2>1 DEF Places, ReaderPlace
<1>4. TypeOK'
      BY <1>1, <1>2 DEF TypeOK, HandlesChange
<1>5. AheadIsNewer'
      BY <1>1, <1>3 DEF Lines, AheadIsNewer, LastRead, Truncated, TypeOK
<1>6. Lines'
      BY <1>1, <1>5 DEF Lines, LinesGrow, ReadIsWritten, OnceInOrder
<1>7. Places'
      BY <1>1, <1>2, <1>3 DEF Places, BufferPlace, ReaderPlace, Unwatched, DirectoryEvents
<1>8. QED
      BY <1>4, <1>6, <1>7

\* What is ahead of the reader is read.
LEMMA FillKeeps ==
  ASSUME IInv, Fills
  PROVE  IInv'
<1> DEFINE file == content[reader]
<1> USE DEF IInv, fileVars, watchVars, stopVars
<1>1. /\ monitor = "fill" /\ buffer = <<>> /\ reader \in InodeId
      /\ file \in Seq(Line) /\ Len(file) \in Nat /\ position \in Nat
      /\ \A k \in 1..Len(file) : file[k] \in Nat
  <2>1. /\ monitor = "fill" /\ buffer = <<>> /\ reader \in InodeId
        /\ file \in Seq(Line) /\ position \in Nat
        BY DEF Fills, TypeOK, Places, BufferPlace, ReaderPlace
  <2>2. \A k \in 1..Len(file) : file[k] \in Line
        BY <2>1
  <2>3. QED
        BY <2>1, <2>2 DEF Line
<1>2. CASE position < Len(file)
  <2>1. /\ monitor' = "lines" /\ position' = Len(file)
        /\ buffer' = SubSeq(file, position + 1, Len(file))
        /\ UNCHANGED <<content, written, reader, delivered, queue, batch, watched, watchesDir>>
        BY <1>1, <1>2 DEF Fills
  <2>2. /\ buffer' \in Seq(Line)
        /\ Len(buffer') = Len(file) - position
        /\ \A k \in 1..(Len(file) - position) :
             buffer'[k] = file[position + k] /\ position + k \in 1..Len(file)
        BY <1>1, <1>2, <2>1
  <2>3. TypeOK'
        BY <1>1, <2>1, <2>2 DEF TypeOK, Fills
  <2>4. ReadIsWritten'
        BY <1>1, <2>1, <2>2 DEF Lines, LinesGrow, ReadIsWritten
  <2>5. AheadIsNewer'
        BY <1>1, <2>1 DEF AheadIsNewer
  <2>6. OnceInOrder'
    <3>1. ASSUME NEW k \in 1..(Len(file) - position)
          PROVE  buffer'[k] > (IF k = 1 THEN delivered ELSE buffer'[k - 1])
      <4>1. CASE k = 1
        <5>1. position + 1 \in 1..Len(file) /\ position + 1 > position
              BY <1>1, <1>2
        <5>2. file[position + 1] > delivered
              BY <1>1, <5>1 DEF Lines, AheadIsNewer, LastRead, TypeOK, InodeId
        <5>3. QED
              BY <2>2, <4>1, <5>2
      <4>2. CASE k # 1
        <5>1. /\ k - 1 \in 1..(Len(file) - position)
              /\ position + (k - 1) < position + k
              BY <1>1, <4>2
        <5>2. file[position + (k - 1)] < file[position + k]
              BY <1>1, <2>2, <5>1 DEF Lines, LinesGrow
        <5>3. /\ buffer'[k] = file[position + k]
              /\ buffer'[k - 1] = file[position + (k - 1)]
              BY <2>2, <5>1
        <5>4. file[position + k] \in Nat /\ file[position + (k - 1)] \in Nat
              BY <1>1, <2>2, <5>1
        <5>5. QED
              BY <4>2, <5>2, <5>3, <5>4
      <4>3. QED
            BY <4>1, <4>2
    <3>2. DOMAIN buffer' = 1..(Len(file) - position)
          BY <2>2
    <3>3. QED
          BY <2>1, <3>1, <3>2 DEF OnceInOrder
  <2>7. Places'
        BY <1>1, <2>1 DEF Places, BufferPlace, ReaderPlace, Unwatched, DirectoryEvents, InodeId
  <2>8. QED
        BY <2>1, <2>3, <2>4, <2>5, <2>6, <2>7 DEF Lines, LinesGrow
<1>3. CASE ~(position < Len(file))
  <2>1. /\ monitor' = "handle"
        /\ UNCHANGED <<content, written, readVars, queue, batch, watched, watchesDir>>
        BY <1>1, <1>3 DEF Fills, readVars
  <2>2. TypeOK'
        BY <1>1, <2>1 DEF TypeOK, Fills, readVars
  <2>3. Places'
        BY <1>1, <2>1 DEF Places, BufferPlace, ReaderPlace, Unwatched, DirectoryEvents, readVars
  <2>4. QED
        BY <2>1, <2>2, <2>3, LinesUntouched
<1>4. QED
      BY <1>2, <1>3

\* The first line of the buffer is handed over.
LEMMA DeliverKeeps ==
  ASSUME IInv, Delivers
  PROVE  IInv'
<1> USE DEF IInv, fileVars, watchVars, stopVars
<1>1. /\ buffer \in Seq(Line) /\ Len(buffer) \in Nat \ {0}
      /\ buffer' \in Seq(Line) /\ Len(buffer') = Len(buffer) - 1
      /\ \A k \in 1..(Len(buffer) - 1) : buffer'[k] = buffer[k + 1]
      /\ delivered' = buffer[1] /\ buffer[1] \in Line
  <2>1. buffer \in Seq(Line) /\ buffer # <<>> /\ buffer' = Tail(buffer)
        BY DEF Delivers, TypeOK
  <2>2. delivered' = Head(buffer)
        BY DEF Delivers
  <2>3. QED
        BY <2>1, <2>2
<1>2. UNCHANGED <<content, written, reader, position, monitor, queue, batch, watched, watchesDir>>
      BY DEF Delivers
<1>3. TypeOK'
  <2>1. delivered' \in 0..MaxLines
        BY <1>1, BoundAssumption DEF Line
  <2>2. QED
        BY <1>1, <1>2, <2>1 DEF TypeOK, Delivers
<1>4. ReadIsWritten'
      BY <1>1, <1>2 DEF Lines, ReadIsWritten
<1>5. OnceInOrder'
  <2>1. ASSUME NEW k \in 1..(Len(buffer) - 1)
        PROVE  buffer'[k] > (IF k = 1 THEN delivered' ELSE buffer'[k - 1])
    <3>1. k + 1 \in DOMAIN buffer /\ k + 1 # 1 /\ (k + 1) - 1 = k
          BY <1>1
    <3>2. buffer[k + 1] > buffer[k]
          BY <3>1 DEF Lines, OnceInOrder
    <3>3. buffer'[k] = buffer[k + 1]
          BY <1>1
    <3>4. k # 1 => k - 1 \in 1..(Len(buffer) - 1) /\ buffer'[k - 1] = buffer[k]
      <4> SUFFICES ASSUME k # 1 PROVE k - 1 \in 1..(Len(buffer) - 1) /\ buffer'[k - 1] = buffer[k]
          OBVIOUS
      <4>1. k - 1 \in 1..(Len(buffer) - 1) /\ (k - 1) + 1 = k
            BY <1>1
      <4>2. QED
            BY <1>1, <4>1
    <3>5. QED
          BY <1>1, <3>2, <3>3, <3>4
  <2>2. DOMAIN buffer' = 1..(Len(buffer) - 1)
        BY <1>1
  <2>3. QED
        BY <2>1, <2>2 DEF OnceInOrder
<1>6. LastRead' = LastRead
  <2>1. CASE Len(buffer) = 1
    <3>1. buffer' = <<>> /\ buffer # <<>>
      <4>1. buffer' \in Seq(Line) /\ Len(buffer') = 0
            BY <1>1, <2>1
      <4>2. buffer' = <<>>
            BY <4>1, EmptySeq
      <4>3. QED
            BY <1>1, <4>2
    <3>2. QED
          BY <1>1, <2>1, <3>1 DEF LastRead
  <2>2. CASE Len(buffer) # 1
    <3>1. Len(buffer') # 0 /\ Len(buffer') \in 1..(Len(buffer) - 1) /\ Len(buffer') + 1 = Len(buffer)
          BY <1>1, <2>2
    <3>2. buffer' # <<>> /\ buffer # <<>>
          BY <1>1, <3>1
    <3>3. QED
          BY <1>1, <3>1, <3>2 DEF LastRead
  <2>3. QED
        BY <2>1, <2>2
<1>7. Lines'
      BY <1>2, <1>4, <1>5, <1>6 DEF Lines, LinesGrow, AheadIsNewer
<1>8. Places'
      BY <1>2 DEF Delivers, Places, BufferPlace, ReaderPlace, Unwatched, DirectoryEvents
<1>9. QED
      BY <1>3, <1>7, <1>8

-----------------------------------------------------------------------------
(***************************************************************************)
(* The invariant holds at first and is kept by every step.                 *)
(***************************************************************************)

\* Empty files, nothing read, nothing watched.
LEMMA Initially == Init => IInv
<1> SUFFICES ASSUME Init PROVE IInv
    OBVIOUS
<1>1. /\ <<>> \in Seq(Line) /\ <<>> \in Seq(Event) /\ <<>> \in Seq(DirectoryEvent)
      /\ Len(<<>>) = 0
      OBVIOUS
<1>2. TypeOK
  <2>1. 0 \in 0..MaxLines /\ 0 \in Nat /\ 0 \notin InodeId
        BY BoundAssumption DEF InodeId
  <2>2. /\ path \in InodeId \cup {0}
        /\ place \in [InodeId -> {"fresh", "path", "away", "gone"}]
        /\ \A i \in InodeId : place[i] = "path" <=> path = i
        BY DEF Init
  <2>3. content \in [InodeId -> Seq(Line)]
        BY <1>1 DEF Init
  <2>4. QED
        BY <1>1, <2>1, <2>2, <2>3 DEF Init, TypeOK
<1>3. Lines
      BY <1>1 DEF Init, Lines, LinesGrow, ReadIsWritten, AheadIsNewer, OnceInOrder
<1>4. Places
      BY <1>1 DEF Init, Places, BufferPlace, ReaderPlace, Unwatched, DirectoryEvents
<1>5. QED
      BY <1>2, <1>3, <1>4 DEF IInv

\* The router's end, the shutdown, and no step at all.
LEMMA OthersKeep ==
  ASSUME IInv, RouterEnds \/ SetsFlag \/ Signals \/ Joins \/ UNCHANGED vars
  PROVE  IInv'
<1>1. /\ UNCHANGED <<fileVars, monitor, readVars, watchVars>>
      /\ routing' \in BOOLEAN /\ shutdown' \in BOOLEAN /\ signalled' \in BOOLEAN
      /\ stopper' \in {"running", "signal", "join", "done"}
      BY DEF IInv, TypeOK, RouterEnds, SetsFlag, Signals, Joins, vars, fileVars, readVars,
             watchVars, stopVars
<1>2. TypeOK'
      BY <1>1 DEF IInv, TypeOK, fileVars, readVars, watchVars
<1>3. Lines'
      BY <1>1, LinesUntouched DEF IInv, fileVars
<1>4. Places'
      BY <1>1 DEF IInv, Places, BufferPlace, ReaderPlace, Unwatched, DirectoryEvents, readVars,
                  watchVars
<1>5. QED
      BY <1>2, <1>3, <1>4 DEF IInv

\* IInv is inductive.
LEMMA Inductive == IInv /\ [Next]_vars => IInv'
<1> SUFFICES ASSUME IInv, [Next]_vars PROVE IInv'
    OBVIOUS
<1>1. CASE FileNext
      BY <1>1, FilesKeep
<1>2. CASE MonitorNext
      BY <1>2, ReopensOrExits, OpeningKeeps, WakingKeeps, ChangeKeeps, FillKeeps, DeliverKeeps
         DEF MonitorNext
<1>3. CASE RouterEnds \/ SetsFlag \/ Signals \/ Joins \/ UNCHANGED vars
      BY <1>3, OthersKeep
<1>4. QED
      BY <1>1, <1>2, <1>3 DEF Next

-----------------------------------------------------------------------------
(***************************************************************************)
(* The theorems.                                                           *)
(***************************************************************************)

\* The inductive invariant holds in every behaviour.
THEOREM Invariance == Spec => []IInv
<1>1. Init => IInv
      BY Initially
<1>2. IInv /\ [Next]_vars => IInv'
      BY Inductive
<1>3. QED
      BY <1>1, <1>2, PTL DEF Spec

\* The type invariant: a directory is watched without a file in hand.
THEOREM TypeCorrect == Spec => []TypeOK
<1>1. IInv => TypeOK
      BY DEF IInv
<1>2. QED
      BY <1>1, Invariance, PTL

\* Lines are handed over once and in order, whatever becomes of the file and
\* however many events are lost (file.rs, drain_new_lines and
\* handle_file_reset_if_needed).
THEOREM OrderSafe == Spec => []OnceInOrder
<1>1. IInv => OnceInOrder
      BY DEF IInv, Lines
<1>2. QED
      BY <1>1, Invariance, PTL

-----------------------------------------------------------------------------
(***************************************************************************)
(* What an event has told of is not lost.                                  *)
(***************************************************************************)

\* The thread reads events only when it has handled all it has.
BatchPlace == monitor \in {"poll", "sleep"} => batch = <<>>

\* The eventfd is written after the flag.
FlagFirst ==
  /\ stopper # "running" => shutdown
  /\ signalled => shutdown

\* No step begins to sleep with events in hand or signals before the flag.
LEMMA PlacesStep ==
  ASSUME IInv, BatchPlace, FlagFirst, [Next]_vars
  PROVE  BatchPlace' /\ FlagFirst'
<1> USE DEF IInv, TypeOK, BatchPlace, FlagFirst, fileVars, readVars, watchVars, stopVars
<1>1. CASE FileNext
      BY <1>1, FilesLeaveMonitor
<1>2. CASE MonitorNext
  <2>1. BatchPlace'
        BY <1>2 DEF MonitorNext, LooksUp, Opens, WatchesFile, FailsToWatch, WatchesDir, ChecksFlag,
                    SeesFlag, WakesToClose, WakesToEvents, BatchDone, HandlesMove, IgnoresOverflow,
                    HandlesChange, ResetFails, Fills, Delivers, DeliveryFails, BufferEmpty, Reopens,
                    Exits, LetsGo, NextEvent, Places, Unwatched
  <2>2. UNCHANGED <<shutdown, signalled, stopper>>
        BY <1>2 DEF MonitorNext, LooksUp, Opens, WatchesFile, FailsToWatch, WatchesDir, ChecksFlag,
                    SeesFlag, WakesToClose, WakesToEvents, BatchDone, HandlesMove, IgnoresOverflow,
                    HandlesChange, ResetFails, Fills, Delivers, DeliveryFails, BufferEmpty
  <2>3. QED
        BY <2>1, <2>2
<1>3. CASE RouterEnds \/ SetsFlag \/ Signals \/ Joins
      BY <1>3 DEF RouterEnds, SetsFlag, Signals, Joins
<1>4. CASE UNCHANGED vars
      BY <1>4 DEF vars
<1>5. QED
      BY <1>1, <1>2, <1>3, <1>4 DEF Next

\* Both hold in every behaviour.
LEMMA PlacesHold == Spec => [](IInv /\ BatchPlace /\ FlagFirst)
<1>1. Init => BatchPlace /\ FlagFirst
      BY DEF Init, BatchPlace, FlagFirst
<1>2. IInv /\ BatchPlace /\ FlagFirst /\ [Next]_vars => BatchPlace' /\ FlagFirst'
      BY PlacesStep
<1>3. QED
      BY <1>1, <1>2, Invariance, PTL DEF Spec

\* The shutdown cannot be taken back.
LEMMA FlagStays ==
  ASSUME IInv, [Next]_vars, ~shutdown'
  PROVE  ~shutdown
<1>1. CASE SetsFlag
      BY <1>1 DEF SetsFlag
<1>2. CASE Next /\ ~SetsFlag
  <2>1. shutdown' = shutdown
        BY <1>2, FilesLeaveMonitor
           DEF Next, MonitorNext, LooksUp, Opens, WatchesFile, FailsToWatch, WatchesDir, ChecksFlag,
               SeesFlag, WakesToClose, WakesToEvents, BatchDone, HandlesMove, IgnoresOverflow,
               HandlesChange, ResetFails, Fills, Delivers, DeliveryFails, BufferEmpty, RouterEnds,
               Signals, Joins, stopVars
  <2>2. QED
        BY <2>1
<1>3. CASE UNCHANGED vars
      BY <1>3 DEF vars
<1>4. QED
      BY <1>1, <1>2, <1>3

\* An event stays in a queue that others are put to.
LEMMA PutKeeps ==
  ASSUME NEW q \in Seq(Event), NEW e, NEW x, Contains(q, x)
  PROVE  Contains(Put(q, e), x)
<1>1. PICK k \in 1..Len(q) : q[k] = x
      BY DEF Contains
<1>2. \A y : Contains(Append(q, y), x)
  <2> TAKE y
  <2>1. Len(Append(q, y)) = Len(q) + 1 /\ k \in 1..(Len(q) + 1) /\ Append(q, y)[k] = q[k]
        OBVIOUS
  <2>2. QED
        BY <1>1, <2>1 DEF Contains
<1>3. QED
      BY <1>2 DEF Put

\* An event that is not the first one stays when that is taken.
LEMMA TailKeeps ==
  ASSUME NEW S, NEW q \in Seq(S), q # <<>>, NEW x, Contains(q, x), Head(q) # x
  PROVE  Contains(Tail(q), x)
<1>1. PICK k \in 1..Len(q) : q[k] = x
      BY DEF Contains
<1>2. k # 1 /\ k - 1 \in 1..(Len(q) - 1) /\ (k - 1) + 1 = k /\ Len(Tail(q)) = Len(q) - 1
      BY <1>1
<1>3. Tail(q)[k - 1] = q[k]
      BY <1>2
<1>4. QED
      BY <1>1, <1>2, <1>3 DEF Contains

\* Whatever happens to the files, no event disappears from the kernel's queue.
LEMMA FilesKeepEvents ==
  ASSUME IInv, FileNext, NEW x \in Event, Contains(queue, x)
  PROVE  Contains(queue', x)
<1>1. queue \in Seq(Event)
      BY DEF IInv, TypeOK
<1>2. \A e : Contains(Put(queue, e), x)
      BY <1>1, PutKeeps
<1>3. \A i : Contains(Unlinked(i), x)
  <2>1. Put(queue, "attrib") \in Seq(Event)
        BY <1>1, PutType DEF Event
  <2>2. Contains(Put(Put(queue, "attrib"), "gone"), x)
        BY <1>2, <2>1, PutKeeps
  <2>3. QED
        BY <1>2, <2>2 DEF Unlinked
<1>4. \A i, q : Notices(i, q) /\ Contains(q, x) => Contains(queue', x)
      BY DEF Notices
<1>5. CASE AppendsLine \/ Truncates \/ Deletes \/ MovesAway
      BY <1>2, <1>3, <1>4, <1>5 DEF AppendsLine, Truncates, Deletes, MovesAway
<1>6. ASSUME NEW i \in InodeId, Appears(i) \/ Replaces(i) PROVE Contains(queue', x)
      BY <1>2, <1>3, <1>4, <1>6 DEF Appears, Replaces
<1>7. QED
      BY <1>5, <1>6 DEF FileNext

\* A file that is not truncated keeps its lines where they are.
LEMMA FilesKeepLines ==
  ASSUME IInv, FileNext, NEW i \in InodeId, content'[i] # <<>>
  PROVE  \A k \in DOMAIN content[i] : k \in DOMAIN content'[i] /\ content'[i][k] = content[i][k]
<1> USE DEF IInv, TypeOK
<1>1. content[i] \in Seq(Line)
      OBVIOUS
<1>2. CASE AppendsLine /\ path = i
  <2>1. content'[i] = Append(content[i], written')
        BY <1>2 DEF AppendsLine
  <2>2. QED
        BY <1>1, <2>1
<1>3. CASE Truncates /\ path = i
  <2>1. content'[i] = <<>>
        BY <1>3 DEF Truncates
  <2>2. QED
        BY <2>1
<1>4. CASE content'[i] = content[i]
      BY <1>4
<1>5. (AppendsLine \/ Truncates) /\ path # i => content'[i] = content[i]
      BY DEF AppendsLine, Truncates
<1>6. Deletes \/ MovesAway \/ (\E j \in InodeId : Appears(j) \/ Replaces(j)) => content'[i] = content[i]
      BY DEF Deletes, MovesAway, Appears, Replaces
<1>7. QED
      BY <1>2, <1>3, <1>4, <1>5, <1>6 DEF FileNext

\* The steps at which the thread lets go of everything.
LetsGoNow == FailsToWatch \/ SeesFlag \/ WakesToClose \/ HandlesMove \/ ResetFails \/ DeliveryFails

\* The steps that take nothing and put nothing, and do not end the reading.
LEMMA IdleSteps ==
  ASSUME ChecksFlag \/ BatchDone \/ BufferEmpty \/ RouterEnds \/ SetsFlag \/ Signals \/ Joins
         \/ UNCHANGED vars
  PROVE  /\ UNCHANGED <<fileVars, readVars, watchVars>>
         /\ monitor = "fill" => monitor' = "fill"
BY DEF ChecksFlag, BatchDone, BufferEmpty, RouterEnds, SetsFlag, Signals, Joins, vars, fileVars,
       readVars, watchVars

\* The steps of the monitor and the shutdown, in these groups.
LEMMA NextGroups ==
  ASSUME [Next]_vars
  PROVE  \/ FileNext
         \/ LooksUp \/ Opens \/ WatchesDir
         \/ WatchesFile
         \/ LetsGoNow
         \/ WakesToEvents
         \/ IgnoresOverflow
         \/ HandlesChange
         \/ Fills
         \/ Delivers
         \/ ChecksFlag \/ BatchDone \/ BufferEmpty \/ RouterEnds \/ SetsFlag \/ Signals \/ Joins
         \/ UNCHANGED vars
BY DEF Next, MonitorNext, LetsGoNow

\* After them no file is open.
LEMMA LetsGoOfFile ==
  ASSUME LetsGoNow
  PROVE  reader' = 0
BY DEF LetsGoNow, FailsToWatch, SeesFlag, WakesToClose, HandlesMove, ResetFails, DeliveryFails,
       Reopens, Exits, LetsGo

\* A line that is told of stays in the file ahead of the reader with an event to
\* come, or in the buffer, until it is handed over.
LEMMA LineStaysPending ==
  ASSUME IInv, BatchPlace, [Next]_vars, NEW n \in Line, LinePending(n),
         delivered' # n, ~NotDue(n)'
  PROVE  LinePending(n)'
<1> USE DEF fileVars, readVars, watchVars, stopVars
<1>1. /\ TypeOK
      /\ reader' # 0 /\ Contains(content'[reader'], n)
      /\ queue \in Seq(Event) /\ batch \in Seq(Event) /\ buffer \in Seq(Line)
      BY DEF IInv, TypeOK, NotDue
<1>2. CASE FileNext
  <2>1. UNCHANGED <<monitor, reader, position, buffer, watched, batch>>
        BY <1>2, FilesLeaveMonitor
  <2>2. CASE Heard(n)
    <3>1. Contains(queue, "modify") => Contains(queue', "modify")
          BY <1>2, FilesKeepEvents DEF Event
    <3>2. content'[reader] # <<>>
      <4> SUFFICES ASSUME content'[reader] = <<>> PROVE FALSE
          OBVIOUS
      <4>1. Contains(<<>>, n)
            BY <1>1, <2>1
      <4>2. QED
            BY <4>1 DEF Contains
    <3>3. reader \in InodeId
          BY <1>1, <2>1 DEF TypeOK
    <3>4. \A k \in DOMAIN content[reader] :
            k \in DOMAIN content'[reader] /\ content'[reader][k] = content[reader][k]
          BY <1>2, <3>2, <3>3, FilesKeepLines
    <3>5. Unread(n)'
          BY <2>1, <2>2, <3>4 DEF Heard, Unread
    <3>6. QED
          BY <2>1, <2>2, <3>1, <3>5 DEF Heard, LinePending
  <2>3. CASE Contains(buffer, n)
        BY <2>1, <2>3 DEF LinePending
  <2>4. QED
        BY <2>2, <2>3 DEF LinePending
<1>3. CASE LooksUp \/ Opens \/ WatchesDir \/ WatchesFile
  <2>1. buffer = <<>> /\ (reader = 0 \/ watched # reader)
        BY <1>3 DEF LooksUp, Opens, WatchesDir, WatchesFile, IInv, Places, BufferPlace, ReaderPlace,
                    Unwatched
  <2>2. ~Heard(n) /\ ~Contains(buffer, n)
        BY <2>1 DEF Heard, Unread, Contains
  <2>3. QED
        BY <2>2 DEF LinePending
<1>4. CASE LetsGoNow
      BY <1>1, <1>4, LetsGoOfFile
<1>5. CASE WakesToEvents
  <2>1. batch = <<>> /\ monitor = "sleep"
        BY <1>5 DEF WakesToEvents, BatchPlace
  <2>2. buffer = <<>> /\ ~Contains(batch, "modify") /\ ~Contains(buffer, n)
        BY <2>1 DEF IInv, Places, BufferPlace, Contains
  <2>3. Heard(n)
        BY <2>2 DEF LinePending
  <2>4. Contains(queue, "modify") /\ Unread(n) /\ watched = reader
        BY <2>1, <2>2, <2>3 DEF Heard
  <2>5. batch' = queue /\ UNCHANGED <<content, reader, position, watched>>
        BY <1>5 DEF WakesToEvents
  <2>6. QED
        BY <2>4, <2>5 DEF LinePending, Heard, Unread
<1>6. CASE IgnoresOverflow
  <2>1. /\ monitor = "handle" /\ batch # <<>> /\ Head(batch) # "modify" /\ batch' = Tail(batch)
        /\ UNCHANGED <<content, monitor, reader, position, buffer, watched, queue>>
        BY <1>6 DEF IgnoresOverflow, NextEvent
  <2>2. Contains(batch, "modify") => Contains(batch', "modify")
        BY <1>1, <2>1, TailKeeps
  <2>3. QED
        BY <2>1, <2>2 DEF LinePending, Heard, Unread
<1>7. CASE HandlesChange
  <2>1. /\ monitor = "handle" /\ batch # <<>> /\ batch' = Tail(batch)
        /\ monitor' = IF Head(batch) = "modify" THEN "fill" ELSE "handle"
        /\ position' = IF Truncated THEN 0 ELSE position
        /\ UNCHANGED <<content, reader, buffer, watched, queue>>
        BY <1>7 DEF HandlesChange, NextEvent, ResetIfNeeded
  <2>2. buffer = <<>>
        BY <2>1 DEF IInv, Places, BufferPlace
  <2>3. Heard(n)
        BY <2>2 DEF LinePending, Contains
  <2>4. Unread(n)'
    <3>1. reader \in InodeId /\ position \in Nat
          BY <1>1, <2>1 DEF TypeOK
    <3>2. PICK k \in DOMAIN content[reader] : k > position /\ content[reader][k] = n
          BY <2>3 DEF Heard, Unread
    <3>3. DOMAIN content[reader] = 1..Len(content[reader]) /\ Len(content[reader]) \in Nat
          BY <1>1, <3>1 DEF TypeOK
    <3>4. k > position'
          BY <2>1, <3>1, <3>2, <3>3
    <3>5. QED
          BY <1>1, <2>1, <3>2, <3>4 DEF Unread
  <2>5. Contains(queue', "modify") \/ Contains(batch', "modify") \/ monitor' = "fill"
    <3>1. CASE Head(batch) = "modify"
          BY <2>1, <3>1
    <3>2. CASE Head(batch) # "modify"
      <4>1. Contains(batch, "modify") => Contains(batch', "modify")
            BY <1>1, <2>1, <3>2, TailKeeps
      <4>2. QED
            BY <2>1, <2>3, <4>1 DEF Heard
    <3>3. QED
          BY <3>1, <3>2
  <2>6. QED
        BY <2>1, <2>3, <2>4, <2>5 DEF LinePending, Heard
<1>8. CASE Fills
  <2> DEFINE file == content[reader]
  <2>1. monitor = "fill" /\ buffer = <<>>
        BY <1>8 DEF Fills, IInv, Places, BufferPlace
  <2>2. Heard(n)
        BY <2>1 DEF LinePending, Contains
  <2>3. reader \in InodeId /\ position \in Nat /\ file \in Seq(Line) /\ Len(file) \in Nat
        BY <1>1, <2>2 DEF TypeOK, Heard, Unread
  <2>4. PICK k \in 1..Len(file) : k > position /\ file[k] = n
        BY <2>2, <2>3 DEF Heard, Unread
  <2>5. buffer' = SubSeq(file, position + 1, Len(file))
    <3>1. position < Len(file)
          BY <2>3, <2>4
    <3>2. QED
          BY <1>8, <3>1 DEF Fills
  <2>6. /\ Len(buffer') = Len(file) - position
        /\ k - position \in 1..(Len(file) - position)
        /\ position + (k - position) = k
        BY <2>3, <2>4, <2>5
  <2>7. buffer'[k - position] = file[k]
        BY <2>3, <2>4, <2>5, <2>6
  <2>8. QED
        BY <2>4, <2>6, <2>7 DEF LinePending, Contains
<1>9. CASE Delivers
  <2>1. /\ buffer # <<>> /\ delivered' = Head(buffer) /\ buffer' = Tail(buffer)
        /\ UNCHANGED <<content, monitor, reader, position, watched, queue, batch>>
        BY <1>9 DEF Delivers
  <2>2. Contains(buffer, n) => Contains(buffer', n)
        BY <1>1, <2>1, TailKeeps
  <2>3. QED
        BY <2>1, <2>2 DEF LinePending, Heard, Unread
<1>10. CASE ChecksFlag \/ BatchDone \/ BufferEmpty \/ RouterEnds \/ SetsFlag \/ Signals \/ Joins
            \/ UNCHANGED vars
  <2>1. /\ UNCHANGED <<fileVars, readVars, watchVars>>
        /\ monitor = "fill" => monitor' = "fill"
        BY <1>10, IdleSteps
  <2>2. QED
        BY <2>1 DEF LinePending, Heard, Unread
<1>11. QED
      BY <1>2, <1>3, <1>4, <1>5, <1>6, <1>7, <1>8, <1>9, <1>10, NextGroups

\* The event that tells of a truncation stays until the reader is put back.
LEMMA TruncationStaysPending ==
  ASSUME IInv, BatchPlace, [Next]_vars, TruncationPending, reader' # 0, Truncated'
  PROVE  TruncationPending'
<1> USE DEF fileVars, readVars, watchVars, stopVars
<1>1. /\ TypeOK /\ reader # 0 /\ watched = reader /\ Truncated
      /\ queue \in Seq(Event) /\ batch \in Seq(Event)
      BY DEF IInv, TypeOK, TruncationPending
<1>2. CASE FileNext
  <2>1. UNCHANGED <<reader, watched, batch>>
        BY <1>2, FilesLeaveMonitor
  <2>2. Contains(queue, "modify") => Contains(queue', "modify")
        BY <1>2, FilesKeepEvents DEF Event
  <2>3. QED
        BY <1>1, <2>1, <2>2 DEF TruncationPending
<1>3. CASE LooksUp \/ Opens \/ WatchesDir \/ WatchesFile
      BY <1>1, <1>3 DEF LooksUp, Opens, WatchesDir, WatchesFile, IInv, Places, ReaderPlace, Unwatched
<1>4. CASE LetsGoNow
      BY <1>4, LetsGoOfFile
<1>5. CASE WakesToEvents
  <2>1. batch = <<>> /\ batch' = queue /\ UNCHANGED <<reader, watched>>
        BY <1>5 DEF WakesToEvents, BatchPlace
  <2>2. ~Contains(batch, "modify")
        BY <2>1 DEF Contains
  <2>3. QED
        BY <1>1, <2>1, <2>2 DEF TruncationPending
<1>6. CASE IgnoresOverflow
  <2>1. /\ batch # <<>> /\ Head(batch) # "modify" /\ batch' = Tail(batch)
        /\ UNCHANGED <<reader, watched, queue>>
        BY <1>6 DEF IgnoresOverflow, NextEvent
  <2>2. Contains(batch, "modify") => Contains(batch', "modify")
        BY <1>1, <2>1, TailKeeps
  <2>3. QED
        BY <1>1, <2>1, <2>2 DEF TruncationPending
<1>7. CASE HandlesChange
  <2>1. position' = 0 /\ reader' = reader /\ content' = content
        BY <1>1, <1>7 DEF HandlesChange, ResetIfNeeded
  <2>2. reader \in InodeId
        BY <1>1 DEF TypeOK
  <2>3. Len(content[reader]) \in Nat
        BY <1>1, <2>2 DEF TypeOK
  <2>4. ~Truncated'
        BY <2>1, <2>3 DEF Truncated
  <2>5. QED
        BY <2>4
<1>8. CASE Fills \/ Delivers
      BY <1>1, <1>8 DEF Fills, Delivers, TruncationPending
<1>9. CASE ChecksFlag \/ BatchDone \/ BufferEmpty \/ RouterEnds \/ SetsFlag \/ Signals \/ Joins
            \/ UNCHANGED vars
      BY <1>1, <1>9, IdleSteps DEF TruncationPending
<1>10. QED
      BY <1>2, <1>3, <1>4, <1>5, <1>6, <1>7, <1>8, <1>9, NextGroups

\* A monitor that is in the directory handles no change of a file.
LEMMA DirectoryNeverReads ==
  ASSUME IInv, watchesDir
  PROVE  ~HandlesChange /\ ~ResetFails /\ ~Fills /\ ~Delivers /\ ~DeliveryFails /\ ~BufferEmpty
<1>1. watched = 0 /\ reader = 0 /\ batch \in Seq(DirectoryEvent)
      BY DEF IInv, TypeOK, Places, DirectoryEvents
<1>2. batch # <<>> => Head(batch) \in DirectoryEvent
      BY <1>1
<1>3. ~HandlesChange /\ ~ResetFails
      BY <1>2 DEF HandlesChange, ResetFails, NextEvent, DirectoryEvent
<1>4. monitor \notin {"fill", "lines"}
      BY <1>1 DEF IInv, Places, ReaderPlace
<1>5. QED
      BY <1>3, <1>4 DEF Fills, Delivers, DeliveryFails, BufferEmpty

\* The event that tells of the file leads the monitor from the directory through
\* its next round to the file.
LEMMA AppearanceStaysPending ==
  ASSUME IInv, BatchPlace, FlagFirst, [Next]_vars, NEW i \in InodeId, AppearancePending(i),
         ~(reader' = i /\ watched' = i), path' = i, ~shutdown'
  PROVE  AppearancePending(i)'
<1> USE DEF fileVars, readVars, watchVars, stopVars
<1>1. /\ TypeOK /\ path = i /\ i # 0 /\ ~shutdown /\ ~signalled
      /\ queue \in Seq(Event) /\ batch \in Seq(Event)
      BY FlagStays DEF IInv, TypeOK, AppearancePending, InodeId, FlagFirst
<1>2. CASE FileNext
  <2>1. UNCHANGED <<monitor, reader, watchesDir, batch>>
        BY <1>2, FilesLeaveMonitor
  <2>2. Contains(queue, "created") => Contains(queue', "created")
        BY <1>2, FilesKeepEvents DEF Event
  <2>3. QED
        BY <2>1, <2>2 DEF AppearancePending
<1>3. CASE watchesDir /\ ~FileNext
  <2>1. /\ monitor \notin {"loop", "open", "watch", "absent", "exited"}
        /\ Contains(queue, "created") \/ Contains(batch, "created")
        BY <1>1, <1>3 DEF IInv, Places, Unwatched, AppearancePending
  <2>2. ~(LooksUp \/ Opens \/ WatchesDir \/ WatchesFile \/ FailsToWatch)
        BY <2>1 DEF LooksUp, Opens, WatchesDir, WatchesFile, FailsToWatch
  <2>3. ~(HandlesChange \/ ResetFails \/ Fills \/ Delivers \/ DeliveryFails)
        BY <1>3, DirectoryNeverReads
  <2>4. ~(SeesFlag \/ WakesToClose)
        BY <1>1 DEF SeesFlag, WakesToClose
  <2>5. CASE HandlesMove
    <3>1. monitor' = "loop"
          BY <2>5 DEF HandlesMove, Reopens
    <3>2. QED
          BY <3>1 DEF AppearancePending
  <2>6. CASE WakesToEvents
    <3>1. batch = <<>> /\ batch' = queue /\ watchesDir' = watchesDir
          BY <2>6 DEF WakesToEvents, BatchPlace
    <3>2. ~Contains(batch, "created")
          BY <3>1 DEF Contains
    <3>3. QED
          BY <1>3, <2>1, <3>1, <3>2 DEF AppearancePending
  <2>7. CASE IgnoresOverflow
    <3>1. /\ batch # <<>> /\ Head(batch) # "created" /\ batch' = Tail(batch)
          /\ UNCHANGED <<watchesDir, queue>>
          BY <2>7 DEF IgnoresOverflow, NextEvent
    <3>2. Contains(batch, "created") => Contains(batch', "created")
          BY <1>1, <3>1, TailKeeps
    <3>3. QED
          BY <1>3, <2>1, <3>1, <3>2 DEF AppearancePending
  <2>8. CASE ChecksFlag \/ BatchDone \/ BufferEmpty \/ RouterEnds \/ SetsFlag \/ Signals \/ Joins
              \/ UNCHANGED vars
        BY <1>3, <2>1, <2>8, IdleSteps DEF AppearancePending
  <2>9. QED
        BY <1>3, <2>2, <2>3, <2>4, <2>5, <2>6, <2>7, <2>8, NextGroups DEF LetsGoNow
<1>4. CASE monitor \in {"loop", "open"} /\ ~FileNext
  <2>1. CASE LooksUp
    <3>1. monitor' = "open"
          BY <1>1, <1>4, <2>1 DEF LooksUp
    <3>2. QED
          BY <3>1 DEF AppearancePending
  <2>2. CASE Opens
    <3>1. monitor' = "watch" /\ reader' = i
          BY <1>1, <2>2 DEF Opens
    <3>2. QED
          BY <3>1 DEF AppearancePending
  <2>3. CASE ~LooksUp /\ ~Opens
    <3>1. monitor' = monitor
          BY <1>4, <2>3 DEF Next, MonitorNext, WatchesFile, FailsToWatch, WatchesDir, ChecksFlag,
             SeesFlag, WakesToClose, WakesToEvents, BatchDone, HandlesMove, IgnoresOverflow,
             HandlesChange, ResetFails, Fills, Delivers, DeliveryFails, BufferEmpty, NextEvent,
             RouterEnds, SetsFlag, Signals, Joins, vars
    <3>2. QED
          BY <1>4, <3>1 DEF AppearancePending
  <2>4. QED
        BY <2>1, <2>2, <2>3
<1>5. CASE monitor = "watch" /\ reader = i /\ ~FileNext
  <2>1. ~FailsToWatch
        BY <1>1 DEF FailsToWatch
  <2>2. ~WatchesFile
        BY <1>1, <1>5 DEF WatchesFile
  <2>3. UNCHANGED <<monitor, reader>>
        BY <1>5, <2>1, <2>2 DEF Next, MonitorNext, LooksUp, Opens, WatchesDir, ChecksFlag, SeesFlag,
           WakesToClose, WakesToEvents, BatchDone, HandlesMove, IgnoresOverflow, HandlesChange,
           ResetFails, Fills, Delivers, DeliveryFails, BufferEmpty, NextEvent, RouterEnds, SetsFlag,
           Signals, Joins, vars
  <2>4. QED
        BY <1>5, <2>3 DEF AppearancePending
<1>6. QED
      BY <1>2, <1>3, <1>4, <1>5 DEF AppearancePending

\* A line an event has told of stays on its way until it is handed over or not due
\* any more, however events are merged, lost and read (file.rs, drain_new_lines and
\* watch_file_event_loop).
THEOREM LinesSafe == Spec => NoHeardLineLost
<1>1. IInv /\ BatchPlace /\ [Next]_vars =>
        [\A n \in Line : LinePending(n) => LinePending(n)' \/ delivered' = n \/ NotDue(n)']_vars
      BY LineStaysPending
<1>2. QED
      BY <1>1, PlacesHold, PTL DEF Spec, NoHeardLineLost

\* A truncation an event has told of is not forgotten before the reader is put
\* back to the start (file.rs, handle_file_reset_if_needed).
THEOREM TruncationSafe == Spec => NoTruncationMissed
<1>1. IInv /\ BatchPlace /\ [Next]_vars =>
        [TruncationPending =>
           TruncationPending' \/ reader' = 0 \/ ~Truncated' \/ shutdown' \/ ~routing']_vars
      BY TruncationStaysPending
<1>2. QED
      BY <1>1, PlacesHold, PTL DEF Spec, NoTruncationMissed

\* A file the directory has told of is not missed between the event and the watch
\* on it, as long as it stays (file.rs, wait_for_file_recreation, monitor_file).
THEOREM AppearanceSafe == Spec => NoAppearanceMissed
<1>1. IInv /\ BatchPlace /\ FlagFirst /\ [Next]_vars =>
        [\A i \in InodeId : AppearancePending(i) =>
           AppearancePending(i)' \/ (reader' = i /\ watched' = i) \/ path' # i \/ shutdown']_vars
      BY AppearanceStaysPending
<1>2. QED
      BY <1>1, PlacesHold, PTL DEF Spec, NoAppearanceMissed
=============================================================================
