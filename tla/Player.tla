------------------------------- MODULE Player -------------------------------
(***************************************************************************)
(* The player of one peer: the router, which executes the peer's play      *)
(* commands and hands on its play chunks one after the other, and the      *)
(* supervisor, which stops the player when the peer has gone; the aplay    *)
(* processes and the threads that write to them.                           *)
(*                                                                         *)
(* AudioPlayer has one mutex for each of its fields sender, child and task *)
(* and none for all of them. start, enqueue and stop are split wherever    *)
(* they let go of one; sender stays locked while enqueue waits for room in *)
(* the queue, task while its thread is joined. The field stdin is never    *)
(* anything but None and left out.                                         *)
(*                                                                         *)
(* The AudioPlayer ends with the last copy of its PeerContext, of which    *)
(* the registry, a running handler and the supervisor may have one, and    *)
(* its fields are dropped: the sender disconnects the queue, child and     *)
(* task are let go.                                                        *)
(***************************************************************************)
EXTENDS Naturals, Sequences

CONSTANTS
  Config,         \* the AudioConfigs that start_play may ask for
  MaxStarts,      \* bound: how often aplay is started in a behaviour
  QueueCapacity,  \* sync_channel::<Vec<u8>>(50)
  AplayMayDie     \* whether aplay may end by itself

ASSUME BoundAssumption == MaxStarts \in Nat /\ QueueCapacity \in Nat \ {0}
ASSUME AplayAssumption == AplayMayDie \in BOOLEAN

VARIABLES
  attached,  \* the registry holds the peer
  pc,        \* where the router and the supervisor are
  request,   \* what the router executes, or executed last
  config,    \* what the last start_play asks for
  sender,    \* AudioPlayer::sender, 0 for None
  child,     \* AudioPlayer::child, 0 for None
  task,      \* AudioPlayer::task, 0 for None
  joining,   \* the playback whose thread each of the two threads joins
  plays      \* the playbacks started so far

fields == <<sender, child, task>>
vars == <<attached, pc, request, config, sender, child, task, joining, plays>>

Thread == {"router", "supervisor"}

Request == {"start_play", "stop_play", "chunk"}

\* "config": what aplay plays. "alive": aplay runs. "thread": what the thread does
\* that writes to its input. "queue": the chunks that wait for it.
Playback == [config: Config, alive: BOOLEAN, thread: {"recv", "writing", "done"},
             queue: 0..QueueCapacity]

\* The steps of stop, common to both threads.
Stopping == {"take", "join", "joined", "kill"}

RouterStep == Stopping \cup {"idle", "check", "spawn", "setSender", "setChild", "setTask",
                             "enqueue", "send", "answer", "dead"}
SupervisorStep == Stopping \cup {"idle", "leave", "gone"}

TypeOK ==
  /\ attached \in BOOLEAN
  /\ pc \in [Thread -> RouterStep \cup SupervisorStep]
  /\ pc["router"] \in RouterStep
  /\ pc["supervisor"] \in SupervisorStep
  /\ request \in Request
  /\ config \in Config
  /\ plays \in Seq(Playback)
  /\ {sender, child, task} \subseteq 0..Len(plays)
  /\ joining \in [Thread -> 0..Len(plays)]
  /\ attached <=> pc["supervisor"] = "idle"

Init ==
  /\ attached = TRUE
  /\ pc = [t \in Thread |-> "idle"]
  /\ request = "stop_play"
  /\ config \in Config
  /\ sender = 0
  /\ child = 0
  /\ task = 0
  /\ joining = [t \in Thread |-> 0]
  /\ plays = <<>>

Goto(t, step) == pc' = [pc EXCEPT ![t] = step]

\* enqueue has the lock until its chunk is in the queue, stop until the thread
\* has ended.
SenderLocked == pc["router"] = "send"
TaskLocked   == \E t \in Thread : pc[t] = "joined"

\* The playback whose channel has a sender: in the field, or not stored yet.
Connected(i) == sender = i \/ (pc["router"] = "setSender" /\ i = Len(plays))

-----------------------------------------------------------------------------
\* stop, called by the router and by the supervisor.

\* t lets go of the last copy of the PeerContext, and the AudioPlayer with it.
LastUser(t) ==
  IF t = "router" THEN pc["supervisor"] = "gone" ELSE pc["router"] \in {"idle", "dead"}

Dropped(t) ==
  IF LastUser(t) THEN sender' = 0 /\ child' = 0 /\ task' = 0 ELSE UNCHANGED fields

\* Mutant: a copy of the sender survives.
KeepsSender(t) ==
  /\ pc[t] = "take"
  /\ ~SenderLocked
  /\ Goto(t, "join")
  /\ UNCHANGED <<attached, request, config, fields, joining, plays>>

TakesSender(t) ==
  /\ pc[t] = "take"
  /\ ~SenderLocked
  /\ sender' = 0
  /\ Goto(t, "join")
  /\ UNCHANGED <<attached, request, config, child, task, joining, plays>>

TakesTask(t) ==
  /\ pc[t] = "join"
  /\ ~TaskLocked
  /\ task' = 0
  /\ joining' = [joining EXCEPT ![t] = task]
  /\ Goto(t, IF task = 0 THEN "kill" ELSE "joined")
  /\ UNCHANGED <<attached, request, config, sender, child, plays>>

\* Mutant: the thread is not joined.
Detaches(t) ==
  /\ pc[t] = "joined"
  /\ joining' = [joining EXCEPT ![t] = 0]
  /\ Goto(t, "kill")
  /\ UNCHANGED <<attached, request, config, fields, plays>>

Joins(t) ==
  /\ pc[t] = "joined"
  /\ plays[joining[t]].thread = "done"
  /\ joining' = [joining EXCEPT ![t] = 0]
  /\ Goto(t, "kill")
  /\ UNCHANGED <<attached, request, config, fields, plays>>

AfterStop(t) ==
  IF t = "supervisor" THEN "leave" ELSE IF request = "start_play" THEN "spawn" ELSE "answer"

\* Mutant: the child is let go and not killed.
LeavesAplay(t) ==
  /\ pc[t] = "kill"
  /\ child' = 0
  /\ Goto(t, AfterStop(t))
  /\ UNCHANGED <<attached, request, config, sender, task, joining, plays>>

\* child.take(), kill and wait, under the lock of child.
KillsAplay(t) ==
  /\ pc[t] = "kill"
  /\ plays' = [i \in DOMAIN plays |->
                 IF i = child THEN [plays[i] EXCEPT !.alive = FALSE] ELSE plays[i]]
  /\ child' = 0
  /\ Goto(t, AfterStop(t))
  /\ UNCHANGED <<attached, request, config, sender, task, joining>>

StopNext(t) == TakesSender(t) \/ TakesTask(t) \/ Joins(t) \/ KillsAplay(t)

-----------------------------------------------------------------------------
\* The router: one play command, or one chunk, after the other.

\* The handler finds the peer and keeps a copy of its context. (Without the
\* peer a command is answered with an error and a chunk is dropped.)
Begins(r) ==
  /\ pc["router"] = "idle"
  /\ attached
  /\ r = "start_play" => Len(plays) < MaxStarts
  /\ request' = r
  /\ IF r = "start_play" THEN config' \in Config ELSE UNCHANGED config
  /\ Goto("router", CASE r = "start_play" -> "check"
                       [] r = "stop_play"  -> "take"
                       [] r = "chunk"      -> "enqueue")
  /\ UNCHANGED <<attached, fields, joining, plays>>

\* There is a sender: the start is ignored, be aplay alive or not.
IgnoresDuplicate ==
  /\ pc["router"] = "check"
  /\ sender # 0
  /\ Goto("router", "answer")
  /\ UNCHANGED <<attached, request, config, fields, joining, plays>>

StopsOld ==
  /\ pc["router"] = "check"
  /\ sender = 0
  /\ Goto("router", "take")
  /\ UNCHANGED <<attached, request, config, fields, joining, plays>>

\* aplay and the thread that writes to it.
Spawns ==
  /\ pc["router"] = "spawn"
  /\ plays' = Append(plays, [config |-> config, alive |-> TRUE, thread |-> "recv", queue |-> 0])
  /\ Goto("router", "setSender")
  /\ UNCHANGED <<attached, request, config, fields, joining>>

\* No aplay, or no thread for it: then its pipe goes with the thread's closure and
\* it ends by itself, which is left out.
SpawnFails ==
  /\ pc["router"] = "spawn"
  /\ Goto("router", "answer")
  /\ UNCHANGED <<attached, request, config, fields, joining, plays>>

SetsSender ==
  /\ pc["router"] = "setSender"
  /\ sender' = Len(plays)
  /\ Goto("router", "setChild")
  /\ UNCHANGED <<attached, request, config, child, task, joining, plays>>

SetsChild ==
  /\ pc["router"] = "setChild"
  /\ child' = Len(plays)
  /\ Goto("router", "setTask")
  /\ UNCHANGED <<attached, request, config, sender, task, joining, plays>>

SetsTask ==
  /\ pc["router"] = "setTask"
  /\ ~TaskLocked
  /\ task' = Len(plays)
  /\ Goto("router", "answer")
  /\ UNCHANGED <<attached, request, config, sender, child, joining, plays>>

\* The player is not started: the chunk is dropped. Otherwise it is sent with
\* the lock in hand.
Enqueues ==
  /\ pc["router"] = "enqueue"
  /\ Goto("router", IF sender = 0 THEN "answer" ELSE "send")
  /\ UNCHANGED <<attached, request, config, fields, joining, plays>>

\* Waits while the queue is full.
Sends ==
  /\ pc["router"] = "send"
  /\ plays[sender].thread # "done"
  /\ plays[sender].queue < QueueCapacity
  /\ plays' = [plays EXCEPT ![sender].queue = @ + 1]
  /\ Goto("router", "answer")
  /\ UNCHANGED <<attached, request, config, fields, joining>>

\* The thread has ended, and the error ends the router.
SendFails ==
  /\ pc["router"] = "send"
  /\ plays[sender].thread = "done"
  /\ Dropped("router")
  /\ Goto("router", "dead")
  /\ UNCHANGED <<attached, request, config, joining, plays>>

\* Mutant: a copy of the PeerContext survives the handler.
AnswersAndKeepsPlayer ==
  /\ pc["router"] = "answer"
  /\ \E step \in {"idle", "dead"} : Goto("router", step)
  /\ UNCHANGED <<attached, request, config, fields, joining, plays>>

\* The handler's copy of the PeerContext goes. The answer to a peer whose
\* writer has ended ends the router; a chunk is not answered.
Answers ==
  /\ pc["router"] = "answer"
  /\ Dropped("router")
  /\ \/ Goto("router", "idle")
     \/ request # "chunk" /\ Goto("router", "dead")
  /\ UNCHANGED <<attached, request, config, joining, plays>>

RouterNext ==
  \/ StopNext("router")
  \/ IgnoresDuplicate
  \/ StopsOld
  \/ Spawns
  \/ SpawnFails
  \/ SetsSender
  \/ SetsChild
  \/ SetsTask
  \/ Enqueues
  \/ Sends
  \/ SendFails
  \/ Answers

-----------------------------------------------------------------------------
\* The supervisor: the peer leaves the registry and its player is stopped.

Detached ==
  /\ attached
  /\ attached' = FALSE
  /\ Goto("supervisor", "take")
  /\ UNCHANGED <<request, config, fields, joining, plays>>

Leaves ==
  /\ pc["supervisor"] = "leave"
  /\ Dropped("supervisor")
  /\ Goto("supervisor", "gone")
  /\ UNCHANGED <<attached, request, config, joining, plays>>

SupervisorNext == StopNext("supervisor") \/ Leaves

-----------------------------------------------------------------------------
\* The playback threads.

SetPlay(i, p) ==
  /\ plays' = [plays EXCEPT ![i] = p]
  /\ UNCHANGED <<attached, pc, request, config, fields, joining>>

Receives(i) ==
  /\ plays[i].thread = "recv"
  /\ plays[i].queue > 0
  /\ SetPlay(i, [plays[i] EXCEPT !.thread = "writing", !.queue = @ - 1])

\* recv fails once the channel has no sender and is empty.
Disconnects(i) ==
  /\ plays[i].thread = "recv"
  /\ plays[i].queue = 0
  /\ ~Connected(i)
  /\ SetPlay(i, [plays[i] EXCEPT !.thread = "done"])

\* aplay takes the chunk.
Writes(i) ==
  /\ plays[i].thread = "writing"
  /\ plays[i].alive
  /\ SetPlay(i, [plays[i] EXCEPT !.thread = "recv"])

\* aplay has ended. What is in the queue goes with the receiver.
WriteFails(i) ==
  /\ plays[i].thread = "writing"
  /\ ~plays[i].alive
  /\ SetPlay(i, [plays[i] EXCEPT !.thread = "done", !.queue = 0])

PlaybackNext(i) == Receives(i) \/ Disconnects(i) \/ Writes(i) \/ WriteFails(i)

-----------------------------------------------------------------------------
\* aplay.

\* The thread has closed its input.
EndsAtEof(i) ==
  /\ plays[i].alive
  /\ plays[i].thread = "done"
  /\ SetPlay(i, [plays[i] EXCEPT !.alive = FALSE])

Dies(i) ==
  /\ AplayMayDie
  /\ plays[i].alive
  /\ SetPlay(i, [plays[i] EXCEPT !.alive = FALSE])

-----------------------------------------------------------------------------
Next ==
  \/ \E r \in Request : Begins(r)
  \/ RouterNext
  \/ Detached
  \/ SupervisorNext
  \/ \E i \in DOMAIN plays : PlaybackNext(i) \/ EndsAtEof(i) \/ Dies(i)

Spec == Init /\ [][Next]_vars

\* A thread that can go on does. aplay takes what is written to it, or dies,
\* and ends at the end of its input; no peer owes a command.
Fairness ==
  /\ WF_vars(RouterNext)
  /\ WF_vars(SupervisorNext)
  /\ \A i \in 1..MaxStarts :
       WF_vars(i \in DOMAIN plays /\ (PlaybackNext(i) \/ EndsAtEof(i)))

FairSpec == Spec /\ Fairness

-----------------------------------------------------------------------------
\* What the player guarantees.

\* The playback device is not opened twice by one peer: at most one of its
\* aplay processes runs, in every order of starts, stops and departures.
OneAplay ==
  \A i, j \in DOMAIN plays : plays[i].alive /\ plays[j].alive => i = j

\* When stop_play is answered no aplay runs and no thread writes to one, also
\* when the supervisor stops the player at the same time.
StopPlayStops ==
  pc["router"] = "answer" /\ request = "stop_play" =>
    \A i \in DOMAIN plays : ~plays[i].alive /\ plays[i].thread = "done"

\* Starts, stops and departures use the playback device as the abstract device
\* is used: no aplay starts before the last one and its thread have ended.
Device ==
  INSTANCE DeviceUse WITH
    uses    <- Len(plays),
    process <- \E i \in DOMAIN plays : plays[i].alive,
    thread  <- \E i \in DOMAIN plays : plays[i].thread # "done"

ImplementsDevice == Device!Spec

\* A start_play is under way.
StartUnderWay ==
  \/ pc["router"] \in {"check", "spawn", "setSender", "setChild", "setTask"}
  \/ pc["router"] \in Stopping /\ request = "start_play"

\* Unless a start_play is under way or has filled the fields again behind the
\* supervisor, the lost peer is silent when stop returns to the supervisor: no
\* aplay runs and no thread writes, also when the router was stopping it too.
QuietDeparture ==
  pc["supervisor"] = "leave" /\ ~StartUnderWay /\ task = 0 =>
    \A i \in DOMAIN plays : ~plays[i].alive /\ plays[i].thread = "done"

\* Why stop returns. The thread that is joined has lost its sender, so that its
\* recv fails, unless the supervisor joins while a start_play goes past it; and
\* start_play never finds the lock of task taken when it fills the fields.
JoinHasEnd ==
  /\ \A t \in Thread :
       pc[t] = "joined" /\ (pc["router"] \in Stopping \/ request # "start_play") =>
         ~Connected(joining[t])
  /\ pc["router"] = "setTask" => ~TaskLocked

\* The router comes back from every command and every chunk, however full the
\* queue is and whoever has the locks, as long as aplay reads or dies.
RequestCompletes == pc["router"] # "idle" ~> pc["router"] \in {"idle", "dead"}

\* stop returns to the supervisor when no start_play is under way: the router
\* may be in a stop_play, or have the lock of the sender and wait for room.
QuietStopReturns == pc["supervisor"] = "take" /\ ~StartUnderWay ~> pc["supervisor"] = "gone"

\* "Disconnect the sender, so that the thread ends by itself": stop returns to
\* the supervisor, whatever the router does.
SupervisorStopReturns == pc["supervisor"] = "take" ~> pc["supervisor"] = "gone"

\* README: a second start_play stops the old aplay and restarts with the new
\* configuration. A start that is ignored leaves running what it asks for.
StartTakesEffect ==
  [][IgnoresDuplicate => plays[sender].config = config /\ plays[sender].alive]_vars

\* Once the supervisor is done with a lost peer its last aplay ends, also one
\* that a start_play under way has started after the last stop: it ends with
\* the last copy of the PeerContext.
LostPeerFallsSilent ==
  pc["supervisor"] = "gone" ~> \A i \in DOMAIN plays : ~plays[i].alive
=============================================================================
