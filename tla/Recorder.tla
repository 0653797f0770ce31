------------------------------ MODULE Recorder ------------------------------
(***************************************************************************)
(* The recorder of one peer and the two threads that use it: the router,   *)
(* which executes the peer's recording commands one after the other, and   *)
(* the supervisor, which stops the recorder when the peer has gone. With   *)
(* them the arecord processes, the threads that read from them, the queues *)
(* to the peer's writer and the writer as far as it matters to the order   *)
(* of what is sent (WriterPump has it in full).                            *)
(*                                                                         *)
(* AudioRecorder has one mutex for each of its fields child, task and      *)
(* profile and none for all of them, so start_recording_with_profile and   *)
(* stop_recording are split wherever they let go of one of these; the task *)
(* field stays locked while its thread is joined.                          *)
(*                                                                         *)
(* A frame is the profile it was recorded under. A queue that is full      *)
(* loses the frame, which changes nothing here.                            *)
(***************************************************************************)
EXTENDS Naturals, Sequences

CONSTANTS
  Config,           \* the AudioConfigs a start_recording may ask for
  FastConfig,       \* the fixed ones of the fast profiles
  MaxStarts,        \* bound: how often arecord is started in a behaviour
  Backlog,          \* bound: answers in the control queue when a command comes
  AudioCapacity,    \* sync_channel::<Vec<u8>>(128)
  ArecordMayDie     \* whether arecord may end by itself

ASSUME BoundAssumption == {MaxStarts, Backlog, AudioCapacity} \subseteq Nat
ASSUME ArecordAssumption == ArecordMayDie \in BOOLEAN

VARIABLES
  attached,   \* the registry holds the peer
  pc,         \* where the router and the supervisor are
  request,    \* the command the router executes, or executed last
  outcome,    \* what the router is going to answer
  child,      \* AudioRecorder::child, 0 for None
  task,       \* AudioRecorder::task, 0 for None
  joining,    \* the recording whose thread each of the two threads joins
  profile,    \* AudioRecorder::profile
  recs,       \* the recordings started so far
  control,    \* the peer's control queue
  audio,      \* the peer's audio queue
  phase,      \* the queue the peer's writer works on
  hand,       \* what it has taken from it
  acked,      \* the writer has answered the router's ClearAudioQueue
  announced   \* the profile the last answer on the wire has promised

recorderVars == <<child, task, joining, profile>>
routerVars   == <<request, outcome>>
wireVars     == <<control, audio, phase, hand, acked, announced>>
vars == <<attached, pc, request, outcome, child, task, joining, profile, recs,
          control, audio, phase, hand, acked, announced>>

Thread == {"router", "supervisor"}

Profile == {"standard", "kws", "llm"}

Switch == {"llm_start", "llm_stop"}
Start  == {"start_recording", "fast_recording"} \cup Switch

Request ==
  [command: {"start_recording"}, config: Config]
    \cup [command: {"fast_recording", "llm_start", "llm_stop", "stop_recording"},
          config: {FastConfig}]

\* The ArecordProfile a start asks for.
ProfileOf(r) ==
  CASE r.command = "start_recording" -> "standard"
    [] r.command = "llm_start"       -> "llm"
    [] OTHER                         -> "kws"

\* "alive": arecord runs. "reading": the thread on its output runs.
Recording == [profile: Profile, config: Config \cup {FastConfig}, alive: BOOLEAN, reading: BOOLEAN]

\* An answer to the command executed last promises a format when it is an "ok"
\* of a switch. Nobody waits for the answer to a "lateClear".
Text  == {"ok", "reply"}
Clear == {"clear", "lateClear"}

\* The steps of stop_recording, common to both threads.
Stopping == {"kill", "join", "joined", "forget"}

RouterStep == Stopping \cup {"idle", "check", "spawn", "setChild", "setTask", "setProfile",
                             "clear", "ack", "answer", "dead"}
SupervisorStep == Stopping \cup {"idle", "gone"}

TypeOK ==
  /\ attached \in BOOLEAN
  /\ pc \in [Thread -> RouterStep \cup SupervisorStep]
  /\ pc["router"] \in RouterStep
  /\ pc["supervisor"] \in SupervisorStep
  /\ request \in Request
  /\ outcome \in {"ok", "error"}
  /\ recs \in Seq(Recording)
  /\ child \in 0..Len(recs)
  /\ task \in 0..Len(recs)
  /\ joining \in [Thread -> 0..Len(recs)]
  /\ profile \in Profile \cup {"none"}
  /\ control \in Seq(Text \cup Clear)
  /\ audio \in Seq(Profile)
  /\ phase \in {"control", "audio", "exited"}
  /\ hand \in Text \cup Clear \cup Profile \cup {"none"}
  /\ acked \in BOOLEAN
  /\ announced \in Profile \cup {"none"}
  /\ attached <=> pc["supervisor"] = "idle"

Init ==
  /\ attached = TRUE
  /\ pc = [t \in Thread |-> "idle"]
  /\ request = [command |-> "stop_recording", config |-> FastConfig]
  /\ outcome = "ok"
  /\ child = 0
  /\ task = 0
  /\ joining = [t \in Thread |-> 0]
  /\ profile = "none"
  /\ recs = <<>>
  /\ control = <<>>
  /\ audio = <<>>
  /\ phase = "control"
  /\ hand = "none"
  /\ acked = FALSE
  /\ announced = "none"

Goto(t, step) == pc' = [pc EXCEPT ![t] = step]

-----------------------------------------------------------------------------
\* stop_recording, called by the router and by the supervisor.

\* Mutant: the child is let go and not killed.
LeavesArecord(t) ==
  /\ pc[t] = "kill"
  /\ child' = 0
  /\ Goto(t, "join")
  /\ UNCHANGED <<attached, routerVars, task, joining, profile, recs, wireVars>>

\* child.take(), kill and wait, under the lock of child.
KillsArecord(t) ==
  /\ pc[t] = "kill"
  /\ child' = 0
  /\ recs' = [i \in DOMAIN recs |-> IF i = child THEN [recs[i] EXCEPT !.alive = FALSE]
                                                 ELSE recs[i]]
  /\ Goto(t, "join")
  /\ UNCHANGED <<attached, routerVars, task, joining, profile, wireVars>>

TaskLocked == \E t \in Thread : pc[t] = "joined"

\* task.take(): the lock is kept for the join of the thread, if there is one.
TakesTask(t) ==
  /\ pc[t] = "join"
  /\ ~TaskLocked
  /\ task' = 0
  /\ joining' = [joining EXCEPT ![t] = task]
  /\ Goto(t, IF task = 0 THEN "forget" ELSE "joined")
  /\ UNCHANGED <<attached, routerVars, child, profile, recs, wireVars>>

\* Mutant: the thread is not joined.
Detaches(t) ==
  /\ pc[t] = "joined"
  /\ joining' = [joining EXCEPT ![t] = 0]
  /\ Goto(t, "forget")
  /\ UNCHANGED <<attached, routerVars, child, task, profile, recs, wireVars>>

Joins(t) ==
  /\ pc[t] = "joined"
  /\ ~recs[joining[t]].reading
  /\ joining' = [joining EXCEPT ![t] = 0]
  /\ Goto(t, "forget")
  /\ UNCHANGED <<attached, routerVars, child, task, profile, recs, wireVars>>

ForgetsProfile(t) ==
  /\ pc[t] = "forget"
  /\ profile' = "none"
  /\ Goto(t, IF t = "supervisor" THEN "gone"
             ELSE IF request.command \in Start THEN "spawn" ELSE "answer")
  /\ UNCHANGED <<attached, routerVars, child, task, joining, recs, wireVars>>

StopNext(t) == KillsArecord(t) \/ TakesTask(t) \/ Joins(t) \/ ForgetsProfile(t)

-----------------------------------------------------------------------------
\* The router: one recording command after the other.

\* A promise holds until the peer asks for something else.
Superseded(m) == IF m = "ok" THEN "reply" ELSE m

\* The handler finds the peer and keeps a copy of its context. (A command of a
\* peer that is gone is answered with an error, which is dropped.)
Begins(r) ==
  /\ pc["router"] = "idle"
  /\ attached
  /\ r.command \in Start => Len(recs) < MaxStarts
  /\ Len(control) < Backlog
  /\ request' = r
  /\ outcome' = "ok"
  /\ announced' = "none"
  /\ control' = [i \in DOMAIN control |-> Superseded(control[i])]
  /\ hand' = Superseded(hand)
  /\ Goto("router", IF r.command \in Start THEN "check" ELSE "kill")
  /\ UNCHANGED <<attached, recorderVars, recs, audio, phase, acked>>

\* What follows a start that has worked.
AfterStart == IF request.command \in Switch THEN "clear" ELSE "answer"

\* The profile runs already: the start is ignored, its config with it.
IgnoresDuplicate ==
  /\ pc["router"] = "check"
  /\ profile = ProfileOf(request)
  /\ Goto("router", AfterStart)
  /\ UNCHANGED <<attached, routerVars, recorderVars, recs, wireVars>>

\* Mutant: the new arecord is started beside the old one.
KeepsOld ==
  /\ pc["router"] = "check"
  /\ profile # ProfileOf(request)
  /\ Goto("router", "spawn")
  /\ UNCHANGED <<attached, routerVars, recorderVars, recs, wireVars>>

StopsOld ==
  /\ pc["router"] = "check"
  /\ profile # ProfileOf(request)
  /\ Goto("router", "kill")
  /\ UNCHANGED <<attached, routerVars, recorderVars, recs, wireVars>>

Spawns ==
  /\ pc["router"] = "spawn"
  /\ recs' = Append(recs, [profile |-> ProfileOf(request), config |-> request.config,
                           alive |-> TRUE, reading |-> TRUE])
  /\ Goto("router", "setChild")
  /\ UNCHANGED <<attached, routerVars, recorderVars, wireVars>>

\* No arecord, or no thread for it: then its pipe goes with the thread's closure
\* and its next write ends it, which is left out.
SpawnFails ==
  /\ pc["router"] = "spawn"
  /\ outcome' = "error"
  /\ Goto("router", "answer")
  /\ UNCHANGED <<attached, request, recorderVars, recs, wireVars>>

SetsChild ==
  /\ pc["router"] = "setChild"
  /\ child' = Len(recs)
  /\ Goto("router", "setTask")
  /\ UNCHANGED <<attached, routerVars, task, joining, profile, recs, wireVars>>

SetsTask ==
  /\ pc["router"] = "setTask"
  /\ ~TaskLocked
  /\ task' = Len(recs)
  /\ Goto("router", "setProfile")
  /\ UNCHANGED <<attached, routerVars, child, joining, profile, recs, wireVars>>

SetsProfile ==
  /\ pc["router"] = "setProfile"
  /\ profile' = ProfileOf(request)
  /\ Goto("router", AfterStart)
  /\ UNCHANGED <<attached, routerVars, child, task, joining, recs, wireVars>>

\* Mutant: the old frames stay in the queue.
SkipsClear ==
  /\ pc["router"] = "clear"
  /\ Goto("router", "answer")
  /\ UNCHANGED <<attached, routerVars, recorderVars, recs, wireVars>>

\* clear_audio_queue: an error when the writer has gone.
AsksForClear ==
  /\ pc["router"] = "clear"
  /\ \/ /\ phase # "exited"
        /\ control' = Append(control, "clear")
        /\ Goto("router", "ack")
        /\ UNCHANGED outcome
     \/ /\ phase = "exited"
        /\ outcome' = "error"
        /\ Goto("router", "answer")
        /\ UNCHANGED control
  /\ UNCHANGED <<attached, request, recorderVars, recs, audio, phase, hand, acked, announced>>

GetsAck ==
  /\ pc["router"] = "ack"
  /\ acked
  /\ acked' = FALSE
  /\ Goto("router", "answer")
  /\ UNCHANGED <<attached, routerVars, recorderVars, recs, control, audio, phase, hand, announced>>

Late(m) == IF m = "clear" THEN "lateClear" ELSE m

\* Two seconds are over, or the writer has gone with the request.
GetsNoAck ==
  /\ pc["router"] = "ack"
  /\ outcome' = "error"
  /\ acked' = FALSE
  /\ control' = [i \in DOMAIN control |-> Late(control[i])]
  /\ hand' = Late(hand)
  /\ Goto("router", "answer")
  /\ UNCHANGED <<attached, request, recorderVars, recs, audio, phase, announced>>

Answer == IF request.command \in Switch /\ outcome = "ok" THEN "ok" ELSE "reply"

\* The response goes to the peer if it is still there. A peer whose writer has
\* gone ends the router.
Answers ==
  /\ pc["router"] = "answer"
  /\ IF attached /\ phase = "exited" THEN Goto("router", "dead") ELSE Goto("router", "idle")
  /\ control' = IF attached /\ phase # "exited" THEN Append(control, Answer) ELSE control
  /\ UNCHANGED <<attached, routerVars, recorderVars, recs, audio, phase, hand, acked, announced>>

CommandNext ==
  \/ StopNext("router")
  \/ IgnoresDuplicate
  \/ StopsOld
  \/ Spawns
  \/ SpawnFails
  \/ SetsChild
  \/ SetsTask
  \/ SetsProfile
  \/ AsksForClear
  \/ GetsAck
  \/ GetsNoAck
  \/ Answers

-----------------------------------------------------------------------------
\* The supervisor: the peer leaves the registry and its recorder is stopped.

Detached ==
  /\ attached
  /\ attached' = FALSE
  /\ Goto("supervisor", "kill")
  /\ UNCHANGED <<routerVars, recorderVars, recs, wireVars>>

-----------------------------------------------------------------------------
\* arecord and the recorder threads.

Dies(i) ==
  /\ ArecordMayDie
  /\ recs[i].alive
  /\ recs' = [recs EXCEPT ![i].alive = FALSE]
  /\ UNCHANGED <<attached, pc, routerVars, recorderVars, wireVars>>

\* A frame is in the queue. What arecord wrote before it ended is read as well.
Captures(i) ==
  /\ recs[i].reading
  /\ phase # "exited"
  /\ Len(audio) < AudioCapacity
  /\ audio' = Append(audio, recs[i].profile)
  /\ UNCHANGED <<attached, pc, routerVars, recorderVars, recs, control, phase, hand, acked,
                 announced>>

\* The thread ends at the end of arecord's output, and only there: a queue
\* without a receiver ends the loop over the frames at hand, not the thread.
StopsReading(i) ==
  /\ recs[i].reading
  /\ ~recs[i].alive
  /\ recs' = [recs EXCEPT ![i].reading = FALSE]
  /\ UNCHANGED <<attached, pc, routerVars, recorderVars, wireVars>>

-----------------------------------------------------------------------------
\* The writer: what there is in the control queue first, then the audio queue.

TakesControl ==
  /\ phase = "control"
  /\ hand = "none"
  /\ control # <<>>
  /\ hand' = Head(control)
  /\ control' = Tail(control)
  /\ UNCHANGED <<attached, pc, routerVars, recorderVars, recs, audio, phase, acked, announced>>

ClearsFrame ==
  /\ hand \in Clear
  /\ audio # <<>>
  /\ audio' = Tail(audio)
  /\ UNCHANGED <<attached, pc, routerVars, recorderVars, recs, control, phase, hand, acked,
                 announced>>

Cleared ==
  /\ hand \in Clear
  /\ audio = <<>>
  /\ acked' = (acked \/ hand = "clear")
  /\ hand' = "none"
  /\ UNCHANGED <<attached, pc, routerVars, recorderVars, recs, control, audio, phase, announced>>

SendsText ==
  /\ hand \in Text
  /\ announced' = IF hand = "ok" THEN ProfileOf(request) ELSE announced
  /\ hand' = "none"
  /\ UNCHANGED <<attached, pc, routerVars, recorderVars, recs, control, audio, phase, acked>>

ControlDrained ==
  /\ phase = "control"
  /\ hand = "none"
  /\ control = <<>>
  /\ phase' = "audio"
  /\ UNCHANGED <<attached, pc, routerVars, recorderVars, recs, control, audio, hand, acked,
                 announced>>

TakesAudio ==
  /\ phase = "audio"
  /\ hand = "none"
  /\ audio # <<>>
  /\ hand' = Head(audio)
  /\ audio' = Tail(audio)
  /\ UNCHANGED <<attached, pc, routerVars, recorderVars, recs, control, phase, acked, announced>>

SendsAudio ==
  /\ hand \in Profile
  /\ hand' = "none"
  /\ UNCHANGED <<attached, pc, routerVars, recorderVars, recs, control, audio, phase, acked,
                 announced>>

AudioDrained ==
  /\ phase = "audio"
  /\ hand = "none"
  /\ audio = <<>>
  /\ phase' = "control"
  /\ UNCHANGED <<attached, pc, routerVars, recorderVars, recs, control, audio, hand, acked,
                 announced>>

\* The connection fails or is closed; the queues go with their receivers.
WriterExits ==
  /\ phase # "exited"
  /\ phase' = "exited"
  /\ hand' = "none"
  /\ control' = <<>>
  /\ audio' = <<>>
  /\ UNCHANGED <<attached, pc, routerVars, recorderVars, recs, acked, announced>>

WriterNext ==
  \/ TakesControl
  \/ ClearsFrame
  \/ Cleared
  \/ SendsText
  \/ ControlDrained
  \/ TakesAudio
  \/ SendsAudio
  \/ AudioDrained
  \/ WriterExits

-----------------------------------------------------------------------------
Next ==
  \/ \E r \in Request : Begins(r)
  \/ CommandNext
  \/ Detached
  \/ StopNext("supervisor")
  \/ \E i \in DOMAIN recs : Dies(i) \/ Captures(i) \/ StopsReading(i)
  \/ WriterNext

Spec == Init /\ [][Next]_vars

\* A thread that can go on does, and a thread that reads from a dead arecord
\* comes to the end of its output. No peer owes a command, and no writer owes
\* an answer: the router stops waiting for it after two seconds.
Fairness ==
  /\ WF_vars(CommandNext)
  /\ WF_vars(StopNext("supervisor"))
  /\ WF_vars(\E i \in DOMAIN recs : StopsReading(i))

FairSpec == Spec /\ Fairness

-----------------------------------------------------------------------------
\* What the recorder guarantees.

\* The capture device is never opened twice: at most one arecord runs.
OneArecord ==
  \A i, j \in DOMAIN recs : recs[i].alive /\ recs[j].alive => i = j

\* After llm_start_ok, and after llm_stop_ok, the peer is sent frames of the
\* format it was promised and no other until it asks for something else
\* (README, "llm_start" and "llm_stop").
FormatKept ==
  announced # "none" =>
    /\ \A i \in DOMAIN audio : audio[i] = announced
    /\ hand \in Profile => hand = announced

\* When stop_recording is answered nothing records any more.
StopStops ==
  pc["router"] = "answer" /\ request.command = "stop_recording" =>
    \A i \in DOMAIN recs : ~recs[i].alive /\ ~recs[i].reading

\* Starts, stops and departures use the capture device as the abstract device
\* is used: no arecord starts before the last one and its thread have ended.
Device ==
  INSTANCE DeviceUse WITH
    uses    <- Len(recs),
    process <- \E i \in DOMAIN recs : recs[i].alive,
    thread  <- \E i \in DOMAIN recs : recs[i].reading

ImplementsDevice == Device!Spec

\* Unless a start stores its recording, or has stored it, behind the supervisor's
\* back, the peer that has gone leaves nothing behind: no arecord runs and no
\* thread reads, also when the router was stopping the recorder too.
QuietDeparture ==
  pc["supervisor"] = "gone" /\ pc["router"] \notin {"setChild", "setTask"} /\ task = 0 =>
    \A i \in DOMAIN recs : ~recs[i].alive /\ ~recs[i].reading

\* Why stop_recording returns. The thread that is joined reads from an arecord
\* that has ended, unless the supervisor joins while a start goes past it; and
\* a start never finds the lock of task taken when it stores its thread.
JoinHasEnd ==
  /\ \A t \in Thread :
       pc[t] = "joined" /\ (pc["router"] \in Stopping \/ request.command \notin Start) =>
         ~recs[joining[t]].alive
  /\ pc["router"] = "setTask" => ~TaskLocked

\* Every command is answered: the router never waits for a recorder thread
\* that goes on reading, not even when the supervisor stops the recorder too.
CommandCompletes == pc["router"] # "idle" ~> pc["router"] \in {"idle", "dead"}

\* The router is in a start, which may store a recording behind the supervisor's
\* back.
StartUnderWay ==
  \/ pc["router"] \in {"check", "spawn", "setChild", "setTask", "setProfile"}
  \/ pc["router"] \in Stopping /\ request.command \in Start

\* A peer that leaves while no start is under way takes its recording with it:
\* the supervisor's stop returns, although the router may be in a stop of the
\* same recorder or wait for its frames to be cleared, and then no arecord runs
\* and no thread reads.
DepartureEndsRecording ==
  pc["supervisor"] = "kill" /\ ~StartUnderWay
    ~> /\ pc["supervisor"] = "gone"
       /\ \A i \in DOMAIN recs : ~recs[i].alive /\ ~recs[i].reading

\* README: a second start_recording restarts the recorder as requested. A start
\* that is ignored leaves running what it asks for.
StartTakesEffect ==
  [][IgnoresDuplicate => child # 0 /\ recs[child].config = request.config
                                   /\ recs[child].alive]_vars

\* README: the recorder of a peer stops when the connection is lost.
LostPeerStopsRecording == ~attached ~> \A i \in DOMAIN recs : ~recs[i].alive

\* "It ends arecord and then waits for the thread, which ends by itself":
\* stop_recording returns to the supervisor.
SupervisorStopReturns == pc["supervisor"] = "kill" ~> pc["supervisor"] = "gone"
=============================================================================
