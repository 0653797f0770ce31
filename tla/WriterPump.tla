----------------------------- MODULE WriterPump -----------------------------
(***************************************************************************)
(* The sending side of one peer: its control queue and its audio queue,    *)
(* the NotifyingSender handles through which the router, the supervisor    *)
(* and the recorder fill them, the WriteSignal on which the writer task    *)
(* sleeps, the writer task itself, and WsPeerHandle::close, which ends it. *)
(*                                                                         *)
(* WriteSignal is a mutex and a condition variable, so notify, close and   *)
(* wait are one step each. What is not atomic in the code is not atomic    *)
(* here: a handle puts its value in the queue and notifies later, a handle *)
(* that is dropped notifies and lets go of the queue later, and the writer *)
(* looks at the two queues one after the other.                            *)
(*                                                                         *)
(* The writer has a thread while it sleeps and while it drains. Suspended  *)
(* in a send it has none, and a worker of the runtime has to poll it, to   *)
(* go on and to be aborted. The workers belong to all tasks: Routing has   *)
(* them with who holds them, here one is free or not.                      *)
(*                                                                         *)
(* WriteSignalState::pending only ever is compared with zero and reset, so *)
(* it is a flag here. Messages have no content; ClearAudioQueue carries    *)
(* the handle whose clear_audio_queue waits for the answer.                *)
(***************************************************************************)
EXTENDS Naturals, Sequences

CONSTANTS
  ControlSender,    \* the handles of the control queue that exist at one time
  AudioSender,      \* those of the audio queue
  NoSender,         \* nobody waits for an answer
  ControlCapacity,  \* sync_channel::<OutboundControl>(256)
  AudioCapacity     \* sync_channel::<Vec<u8>>(128)

ASSUME SenderAssumption ==
  /\ ControlSender \cap AudioSender = {}
  /\ NoSender \notin ControlSender
ASSUME CapacityAssumption ==
  /\ ControlCapacity \in Nat \ {0}
  /\ AudioCapacity \in Nat \ {0}

Sender == ControlSender \cup AudioSender

VARIABLES
  control,       \* the control queue
  audio,         \* the audio queue
  step,          \* what each handle is in the middle of
  acked,         \* handles whose ClearAudioQueue has been answered
  pending,       \* WriteSignalState::pending > 0
  closed,        \* WriteSignalState::closed
  aborted,       \* the abort handle of the writer task has been used
  pc,            \* where the writer task is
  hand,          \* the control message it has taken
  progressed,    \* it has taken something in this round
  controlClosed, \* control_queue_closed
  audioClosed,   \* audio_queue_closed
  worker         \* the writer has a thread, or a worker is free to poll it

queueVars  == <<control, audio>>
senderVars == <<step, acked>>
signalVars == <<pending, closed, aborted>>
roundVars  == <<hand, progressed>>
endVars    == <<controlClosed, audioClosed>>
vars == <<control, audio, step, acked, pending, closed, aborted, pc, hand, progressed,
          controlClosed, audioClosed, worker>>

Message == [kind: {"text", "close", "clear"}, from: ControlSender \cup {NoSender}]

\* A handle is idle, has filled the queue and not notified yet, waits for the
\* answer to a clear, is being dropped, or does not exist.
SenderStep == {"idle", "queued", "clearQueued", "awaiting", "dropping", "gone"}

\* Nothing in the writer's hand.
NoMessage == [kind |-> "text", from |-> NoSender]

WriterStep == {"wait", "control", "clear", "sendControl", "audio", "sendAudio", "finish",
               "exited"}

TypeOK ==
  /\ control \in Seq(Message)
  /\ audio \in Seq({"frame"})
  /\ step \in [Sender -> SenderStep]
  /\ acked \in SUBSET ControlSender
  /\ pending \in BOOLEAN
  /\ closed \in BOOLEAN
  /\ aborted \in BOOLEAN
  /\ pc \in WriterStep
  /\ hand \in Message
  /\ progressed \in BOOLEAN
  /\ controlClosed \in BOOLEAN
  /\ audioClosed \in BOOLEAN
  /\ worker \in BOOLEAN

Init ==
  /\ control = <<>>
  /\ audio = <<>>
  /\ step = [s \in Sender |-> "idle"]
  /\ acked = {}
  /\ pending = FALSE
  /\ closed = FALSE
  /\ aborted = FALSE
  /\ pc = "wait"
  /\ hand = NoMessage
  /\ progressed = FALSE
  /\ controlClosed = FALSE
  /\ audioClosed = FALSE
  /\ worker = TRUE

\* The queue still has a sender; one that is being dropped counts.
Live(S) == {s \in S : step[s] # "gone"}

-----------------------------------------------------------------------------
\* The handles.

\* The receivers live as long as the writer task does.
Receiving == pc # "exited"

\* send and try_send, when there is room: first the queue, then the signal.
SendControl(s, kind) ==
  /\ step[s] = "idle"
  /\ Receiving
  /\ Len(control) < ControlCapacity
  /\ control' = Append(control, [kind |-> kind, from |-> NoSender])
  /\ step' = [step EXCEPT ![s] = "queued"]
  /\ UNCHANGED <<audio, acked, signalVars, pc, roundVars, endVars, worker>>

\* clear_audio_queue queues its request with a channel for the answer.
SendClear(s) ==
  /\ step[s] = "idle"
  /\ Receiving
  /\ Len(control) < ControlCapacity
  /\ control' = Append(control, [kind |-> "clear", from |-> s])
  /\ step' = [step EXCEPT ![s] = "clearQueued"]
  /\ UNCHANGED <<audio, acked, signalVars, pc, roundVars, endVars, worker>>

SendAudio(s) ==
  /\ step[s] = "idle"
  /\ Receiving
  /\ Len(audio) < AudioCapacity
  /\ audio' = Append(audio, "frame")
  /\ step' = [step EXCEPT ![s] = "queued"]
  /\ UNCHANGED <<control, acked, signalVars, pc, roundVars, endVars, worker>>

\* The signal after a call of notify, which a closed signal ignores.
Notified == IF closed THEN pending ELSE TRUE

Notify(s) ==
  /\ step[s] \in {"queued", "clearQueued"}
  /\ pending' = Notified
  /\ step' = [step EXCEPT ![s] = IF @ = "queued" THEN "idle" ELSE "awaiting"]
  /\ UNCHANGED <<queueVars, acked, closed, aborted, pc, roundVars, endVars, worker>>

\* recv_timeout returns the answer, or an error when the writer has dropped
\* the channel for it.
ReceiveAck(s) ==
  /\ step[s] = "awaiting"
  /\ s \in acked \/ ~Receiving
  /\ step' = [step EXCEPT ![s] = "idle"]
  /\ acked' = acked \ {s}
  /\ UNCHANGED <<queueVars, signalVars, pc, roundVars, endVars, worker>>

\* A message whose answer handle s has stopped waiting for.
Forget(m, s) == IF m.from = s THEN [m EXCEPT !.from = NoSender] ELSE m

\* Two seconds are over. The request stays where it is and nobody waits for it.
AckTimesOut(s) ==
  /\ step[s] = "awaiting"
  /\ step' = [step EXCEPT ![s] = "idle"]
  /\ acked' = acked \ {s}
  /\ control' = [i \in 1..Len(control) |-> Forget(control[i], s)]
  /\ hand' = Forget(hand, s)
  /\ UNCHANGED <<audio, signalVars, pc, progressed, endVars, worker>>

Clone(s, t) ==
  /\ step[s] = "idle"
  /\ step[t] = "gone"
  /\ step' = [step EXCEPT ![t] = "idle"]
  /\ UNCHANGED <<queueVars, acked, signalVars, pc, roundVars, endVars, worker>>

\* NotifyingSender::drop notifies; the sender inside is dropped after it.
DropNotifies(s) ==
  /\ step[s] = "idle"
  /\ pending' = Notified
  /\ step' = [step EXCEPT ![s] = "dropping"]
  /\ UNCHANGED <<queueVars, acked, closed, aborted, pc, roundVars, endVars, worker>>

DropReleases(s) ==
  /\ step[s] = "dropping"
  /\ step' = [step EXCEPT ![s] = "gone"]
  /\ UNCHANGED <<queueVars, acked, signalVars, pc, roundVars, endVars, worker>>

-----------------------------------------------------------------------------
\* WsPeerHandle::close: the signal first, the abort 100 ms later.

SignalClose ==
  /\ ~closed
  /\ closed' = TRUE
  /\ UNCHANGED <<queueVars, senderVars, pending, aborted, pc, roundVars, endVars, worker>>

\* Mutant: only the reader task is aborted.
AbortReaderOnly ==
  /\ closed
  /\ ~aborted
  /\ UNCHANGED vars

AbortWriter ==
  /\ closed
  /\ ~aborted
  /\ aborted' = TRUE
  /\ UNCHANGED <<queueVars, senderVars, pending, closed, pc, roundVars, endVars, worker>>

-----------------------------------------------------------------------------
\* The writer task.

\* The task ends and drops both receivers with what they hold.
Exit ==
  /\ pc' = "exited"
  /\ control' = <<>>
  /\ audio' = <<>>
  /\ hand' = NoMessage
  /\ UNCHANGED <<senderVars, signalVars, progressed, endVars, worker>>

\* wait returns Notified and a round begins.
Wakes ==
  /\ pc = "wait"
  /\ pending
  /\ ~closed
  /\ pending' = FALSE
  /\ pc' = "control"
  /\ progressed' = FALSE
  /\ UNCHANGED <<queueVars, senderVars, closed, aborted, hand, endVars, worker>>

\* The three places where the writer looks at the closed flag.
SeesClose ==
  /\ closed
  /\ \/ pc = "wait"
     \/ pc = "control" /\ ~controlClosed
     \/ pc = "audio" /\ ~audioClosed
  /\ Exit

TakesControl ==
  /\ pc = "control"
  /\ ~controlClosed
  /\ ~closed
  /\ control # <<>>
  /\ control' = Tail(control)
  /\ hand' = Head(control)
  /\ progressed' = TRUE
  /\ pc' = IF Head(control).kind = "clear" THEN "clear" ELSE "sendControl"
  /\ UNCHANGED <<audio, senderVars, signalVars, endVars, worker>>

\* Mutant: an empty control queue counts as a closed one.
ControlDrainedForGood ==
  /\ pc = "control"
  /\ controlClosed \/ (~closed /\ control = <<>>)
  /\ controlClosed' = TRUE
  /\ pc' = "audio"
  /\ UNCHANGED <<queueVars, senderVars, signalVars, roundVars, audioClosed, worker>>

ControlDrained ==
  /\ pc = "control"
  /\ controlClosed \/ (~closed /\ control = <<>>)
  /\ controlClosed' = (controlClosed \/ Live(ControlSender) = {})
  /\ pc' = "audio"
  /\ UNCHANGED <<queueVars, senderVars, signalVars, roundVars, audioClosed, worker>>

\* ClearAudioQueue pops the audio queue until it finds it empty.
ClearsFrame ==
  /\ pc = "clear"
  /\ audio # <<>>
  /\ audio' = Tail(audio)
  /\ UNCHANGED <<control, senderVars, signalVars, pc, roundVars, endVars, worker>>

\* Mutant: nothing is answered when the audio queue turns out to be closed.
AcksOpenQueueOnly ==
  /\ pc = "clear"
  /\ audio = <<>>
  /\ acked' = IF Live(AudioSender) = {} THEN acked ELSE acked \cup ({hand.from} \ {NoSender})
  /\ audioClosed' = (audioClosed \/ Live(AudioSender) = {})
  /\ pc' = "control"
  /\ hand' = NoMessage
  /\ UNCHANGED <<queueVars, step, signalVars, progressed, controlClosed, worker>>

AcksClear ==
  /\ pc = "clear"
  /\ audio = <<>>
  /\ acked' = acked \cup ({hand.from} \ {NoSender})
  /\ audioClosed' = (audioClosed \/ Live(AudioSender) = {})
  /\ pc' = "control"
  /\ hand' = NoMessage
  /\ UNCHANGED <<queueVars, step, signalVars, progressed, controlClosed, worker>>

\* The frame is on the wire. A close frame is the last one.
SendsText ==
  /\ pc = "sendControl"
  /\ worker
  /\ hand.kind # "close"
  /\ pc' = "control"
  /\ hand' = NoMessage
  /\ UNCHANGED <<queueVars, senderVars, signalVars, progressed, endVars, worker>>

SendsClose ==
  /\ pc = "sendControl"
  /\ worker
  /\ hand.kind = "close"
  /\ Exit

TakesAudio ==
  /\ pc = "audio"
  /\ ~audioClosed
  /\ ~closed
  /\ audio # <<>>
  /\ audio' = Tail(audio)
  /\ progressed' = TRUE
  /\ pc' = "sendAudio"
  /\ UNCHANGED <<control, senderVars, signalVars, hand, endVars, worker>>

SendsAudio ==
  /\ pc = "sendAudio"
  /\ worker
  /\ pc' = "audio"
  /\ UNCHANGED <<queueVars, senderVars, signalVars, roundVars, endVars, worker>>

AudioIsDrained ==
  /\ pc = "audio"
  /\ audioClosed \/ (~closed /\ audio = <<>>)

\* Mutant: the notifications are counted off at the end of the round.
EndsRoundAndResets ==
  /\ AudioIsDrained
  /\ audioClosed' = (audioClosed \/ Live(AudioSender) = {})
  /\ pc' = CASE controlClosed /\ audioClosed' -> "finish"
             [] ~(controlClosed /\ audioClosed') /\ progressed -> "control"
             [] OTHER -> "wait"
  /\ progressed' = FALSE
  /\ pending' = FALSE
  /\ UNCHANGED <<queueVars, senderVars, closed, aborted, hand, controlClosed, worker>>

\* The end of a round: out of the loop when both queues are closed, another
\* round when this one took something, back to sleep otherwise.
EndsRound ==
  /\ AudioIsDrained
  /\ audioClosed' = (audioClosed \/ Live(AudioSender) = {})
  /\ pc' = CASE controlClosed /\ audioClosed' -> "finish"
             [] ~(controlClosed /\ audioClosed') /\ progressed -> "control"
             [] OTHER -> "wait"
  /\ progressed' = FALSE
  /\ UNCHANGED <<queueVars, senderVars, signalVars, hand, controlClosed, worker>>

\* write_half.close() has run to its end.
ClosesSocket ==
  /\ pc = "finish"
  /\ worker
  /\ Exit

\* The three awaits of the task: where a send can fail and an abort strikes.
Awaiting == pc \in {"sendControl", "sendAudio", "finish"}

SendFails ==
  /\ pc \in {"sendControl", "sendAudio"}
  /\ worker
  /\ Exit

\* The runtime drops an aborted task when a worker polls it.
AbortStrikes ==
  /\ aborted
  /\ Awaiting
  /\ worker
  /\ Exit

-----------------------------------------------------------------------------
\* The few workers of the runtime are taken and given back by other tasks while
\* the writer is suspended.
WorkerChanges ==
  /\ Awaiting
  /\ worker' = ~worker
  /\ UNCHANGED <<queueVars, senderVars, signalVars, pc, roundVars, endVars>>

-----------------------------------------------------------------------------
SenderNext ==
  \/ \E s \in ControlSender :
       \/ \E kind \in {"text", "close"} : SendControl(s, kind)
       \/ SendClear(s)
       \/ ReceiveAck(s)
       \/ AckTimesOut(s)
       \/ \E t \in ControlSender : Clone(s, t)
  \/ \E s \in AudioSender : SendAudio(s) \/ \E t \in AudioSender : Clone(s, t)
  \/ \E s \in Sender : Notify(s) \/ DropNotifies(s) \/ DropReleases(s)

\* The steps the writer takes without waiting for anybody.
WriterRuns ==
  \/ Wakes
  \/ SeesClose
  \/ TakesControl
  \/ ControlDrained
  \/ ClearsFrame
  \/ AcksClear
  \/ TakesAudio
  \/ EndsRound

\* The steps that depend on the other end of the connection.
WireNext ==
  \/ SendsText
  \/ SendsClose
  \/ SendsAudio
  \/ ClosesSocket
  \/ SendFails

Next ==
  \/ SenderNext
  \/ SignalClose
  \/ AbortWriter
  \/ WriterRuns
  \/ AbortStrikes
  \/ WireNext
  \/ WorkerChanges

Spec == Init /\ [][Next]_vars

\* The writer runs whenever it can, a handle that has filled its queue gets to
\* notify, one that is being dropped is dropped, and close() goes on to the
\* abort. The abort of a suspended writer waits for a worker, which may never
\* become free: it strikes if one is free again and again. The other end of the
\* connection owes nothing.
Fairness ==
  /\ WF_vars(WriterRuns)
  /\ SF_vars(AbortStrikes)
  /\ WF_vars(AbortWriter)
  /\ \A s \in Sender : WF_vars(Notify(s)) /\ WF_vars(DropReleases(s))

FairSpec == Spec /\ Fairness

-----------------------------------------------------------------------------
\* What the pump guarantees.

\* Something will get the writer out of its sleep.
WakeUpComes ==
  \/ pending
  \/ closed
  \/ \E s \in Sender : step[s] \in {"queued", "clearQueued"}

\* The writer never sleeps on queued messages: a notification is there or is
\* about to be made.
NoLostWakeup ==
  pc = "wait" /\ (control # <<>> \/ audio # <<>>) => WakeUpComes

\* clear_audio_queue never waits for an answer that cannot come: its request
\* is queued, is being worked on, or is answered, or the writer has ended.
ClearIsAnswerable ==
  \A s \in ControlSender : step[s] \in {"clearQueued", "awaiting"} =>
    \/ \E i \in 1..Len(control) : control[i] = [kind |-> "clear", from |-> s]
    \/ pc = "clear" /\ hand.from = s
    \/ s \in acked
    \/ pc = "exited"

\* A writer that ends by itself leaves nothing unsent: it finishes only when both
\* queues are empty and nobody is left to fill them, although it looks at them at
\* different times and messages and clones of the handles come in between.
FinishLeavesNothing ==
  pc = "finish" => control = <<>> /\ audio = <<>> /\ Live(Sender) = {}

\* The recorder falls silent some day.
AudioStops == <>[](\A s \in AudioSender : step[s] # "queued")

\* A worker is free again and again, so that the abort of a suspended task takes
\* effect. Readers that wait for the route channel can see to it that none is: the
\* property ClosedTasksEnd of Routing.
WorkersComeFree == []<>worker

\* close() ends the writer wherever it is, even in a send that never returns, as
\* long as workers become free. A recorder that goes on for ever could only hold it
\* in the loop that clears the audio queue, which does not look at the closed flag.
ForcedCloseEnds == WorkersComeFree /\ AudioStops => (closed ~> pc = "exited")

\* The other end reads, and a worker comes to poll the writer: no send lasts for ever.
PeerReads == []<>~Awaiting

\* The writer takes the next control message, or has ended.
Serves == pc \in {"sendControl", "clear", "exited"}

\* Then the control queue never waits for ever.
ControlServed == PeerReads /\ AudioStops => (control # <<>> ~> Serves)

\* "Small control messages are not held down by a lasting audio stream": the
\* same without the recorder ever falling silent.
ControlNotStarved == PeerReads => (control # <<>> ~> Serves)
=============================================================================
