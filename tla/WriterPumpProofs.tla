-------------------------- MODULE WriterPumpProofs --------------------------
(***************************************************************************)
(* Proofs about WriterPump for every number of handles and every capacity. *)
(***************************************************************************)
EXTENDS WriterPump, TLAPS

-----------------------------------------------------------------------------
\* The inductive invariant, in named parts.

\* From the moment the writer has left the control queue to the moment it wakes
\* again, whatever arrives in that queue leaves a notification behind.
ControlRemembered ==
  pc \in {"wait", "audio", "sendAudio"} /\ control # <<>> => WakeUpComes

\* The same for the audio queue, which is the last one it looks at.
AudioRemembered ==
  pc = "wait" /\ audio # <<>> => WakeUpComes

\* A queue is taken for closed only when it is empty and nobody can fill it.
ClosedForGood ==
  /\ controlClosed => Live(ControlSender) = {} /\ (control = <<>>)
  /\ audioClosed => Live(AudioSender) = {} /\ (audio = <<>>)

\* A writer that finishes has found both queues closed.
FinishesClosed == pc = "finish" => controlClosed /\ audioClosed

IInv ==
  /\ TypeOK
  /\ ControlRemembered
  /\ AudioRemembered
  /\ ClosedForGood
  /\ FinishesClosed
  /\ ClearIsAnswerable

-----------------------------------------------------------------------------
(***************************************************************************)
(* Type correctness.                                                       *)
(***************************************************************************)

\* The messages the handles build are messages of the queue.
LEMMA MessageTypes ==
  /\ NoMessage \in Message
  /\ \A k \in {"text", "close"} : [kind |-> k, from |-> NoSender] \in Message
  /\ \A s \in ControlSender : [kind |-> "clear", from |-> s] \in Message
  /\ \A m \in Message, s \in ControlSender : Forget(m, s) \in Message
<1>1. NoMessage \in Message
  BY DEF Message, NoMessage
<1>2. \A k \in {"text", "close"} : [kind |-> k, from |-> NoSender] \in Message
  BY DEF Message
<1>3. \A s \in ControlSender : [kind |-> "clear", from |-> s] \in Message
  BY DEF Message
<1>4. ASSUME NEW m \in Message, NEW s \in ControlSender PROVE Forget(m, s) \in Message
  BY DEF Message, Forget
<1> QED
  BY <1>1, <1>2, <1>3, <1>4

\* The writer starts asleep, with both queues empty.
LEMMA TypeInit == Init => TypeOK
<1> SUFFICES ASSUME Init PROVE TypeOK
  OBVIOUS
<1>1. control \in Seq(Message) /\ audio \in Seq({"frame"})
  BY DEF Init
<1>2. step \in [Sender -> SenderStep] /\ hand \in Message /\ pc \in WriterStep
  BY MessageTypes DEF Init, SenderStep, WriterStep
<1> QED
  BY <1>1, <1>2 DEF Init, TypeOK

\* The handles keep the types.
LEMMA TypeSenders ==
  ASSUME TypeOK, SenderNext
  PROVE  TypeOK'
<1> USE DEF queueVars, senderVars, signalVars, roundVars, endVars, Sender
<1>1. ASSUME NEW s \in ControlSender, NEW k \in {"text", "close"}, SendControl(s, k)
      PROVE  TypeOK'
  BY <1>1, MessageTypes DEF SendControl, TypeOK, SenderStep
<1>2. ASSUME NEW s \in ControlSender, SendClear(s) PROVE TypeOK'
  BY <1>2, MessageTypes DEF SendClear, TypeOK, SenderStep
<1>3. ASSUME NEW s \in ControlSender, ReceiveAck(s) PROVE TypeOK'
  BY <1>3 DEF ReceiveAck, TypeOK, SenderStep
<1>4. ASSUME NEW s \in ControlSender, AckTimesOut(s) PROVE TypeOK'
  <2>1. control' \in Seq(Message)
    BY <1>4, MessageTypes DEF AckTimesOut, TypeOK
  <2>2. hand' \in Message
    BY <1>4, MessageTypes DEF AckTimesOut, TypeOK
  <2> QED
    BY <1>4, <2>1, <2>2 DEF AckTimesOut, TypeOK, SenderStep
<1>5. ASSUME NEW s \in Sender, NEW t \in Sender, Clone(s, t) PROVE TypeOK'
  BY <1>5 DEF Clone, TypeOK, SenderStep
<1>6. ASSUME NEW s \in AudioSender, SendAudio(s) PROVE TypeOK'
  BY <1>6 DEF SendAudio, TypeOK, SenderStep
<1>7. ASSUME NEW s \in Sender, Notify(s) \/ DropNotifies(s) \/ DropReleases(s) PROVE TypeOK'
  BY <1>7 DEF Notify, Notified, DropNotifies, DropReleases, TypeOK, SenderStep
<1> QED
  BY <1>1, <1>2, <1>3, <1>4, <1>5, <1>6, <1>7 DEF SenderNext

\* The end of the task keeps the types.
LEMMA TypeExit ==
  ASSUME TypeOK, Exit
  PROVE  TypeOK'
BY MessageTypes DEF Exit, TypeOK, WriterStep, senderVars, signalVars, endVars

\* The writer and the close handle keep the types.
LEMMA TypeWriter ==
  ASSUME TypeOK, SignalClose \/ AbortWriter \/ WorkerChanges \/ WriterRuns \/ AbortStrikes \/ WireNext
  PROVE  TypeOK'
<1> USE DEF queueVars, senderVars, signalVars, roundVars, endVars
<1>1. CASE SignalClose \/ AbortWriter \/ WorkerChanges
  BY <1>1 DEF SignalClose, AbortWriter, WorkerChanges, TypeOK
<1>2. CASE SeesClose \/ SendsClose \/ ClosesSocket \/ SendFails \/ AbortStrikes
  BY <1>2, TypeExit DEF SeesClose, SendsClose, ClosesSocket, SendFails, AbortStrikes
<1>3. CASE Wakes
  BY <1>3 DEF Wakes, TypeOK, WriterStep
<1>4. CASE TakesControl
  BY <1>4 DEF TakesControl, TypeOK, WriterStep
<1>5. CASE ControlDrained
  <2>1. controlClosed' \in BOOLEAN
    BY <1>5 DEF ControlDrained
  <2> QED
    BY <1>5, <2>1 DEF ControlDrained, TypeOK, WriterStep
<1>6. CASE ClearsFrame
  BY <1>6 DEF ClearsFrame, TypeOK
<1>7. CASE AcksClear
  <2>1. audioClosed' \in BOOLEAN
    BY <1>7 DEF AcksClear
  <2>2. acked' \in SUBSET ControlSender
    BY <1>7 DEF AcksClear, TypeOK, Message
  <2> QED
    BY <1>7, <2>1, <2>2, MessageTypes DEF AcksClear, TypeOK, WriterStep
<1>8. CASE SendsText
  BY <1>8, MessageTypes DEF SendsText, TypeOK, WriterStep
<1>9. CASE TakesAudio
  <2>1. audio' \in Seq({"frame"})
    BY <1>9 DEF TakesAudio, TypeOK
  <2> QED
    BY <1>9, <2>1 DEF TakesAudio, TypeOK, WriterStep
<1>11. CASE SendsAudio
  BY <1>11 DEF SendsAudio, TypeOK, WriterStep
<1>10. CASE EndsRound
  <2>1. audioClosed' \in BOOLEAN
    BY <1>10 DEF EndsRound
  <2>2. pc' \in WriterStep
    BY <1>10 DEF EndsRound, WriterStep
  <2> QED
    BY <1>10, <2>1, <2>2 DEF EndsRound, TypeOK
<1> QED
  BY <1>1, <1>2, <1>3, <1>4, <1>5, <1>6, <1>7, <1>8, <1>9, <1>10, <1>11 DEF WriterRuns, WireNext

\* The steps of the program, by who takes them.
LEMMA NextParts ==
  ASSUME Next
  PROVE  \/ \E s \in ControlSender, k \in {"text", "close"} : SendControl(s, k) \/ SendClear(s)
         \/ \E s \in AudioSender : SendAudio(s)
         \/ \E s \in ControlSender : AckTimesOut(s)
         \/ \E s \in Sender : ReceiveAck(s) \/ Notify(s) \/ DropNotifies(s) \/ DropReleases(s)
         \/ \E S \in {ControlSender, AudioSender} : \E s \in S, t \in S : Clone(s, t)
         \/ SignalClose
         \/ AbortWriter
         \/ WorkerChanges
         \/ AbortStrikes
         \/ WriterRuns
         \/ WireNext
BY DEF Next, SenderNext, Sender

-----------------------------------------------------------------------------
(***************************************************************************)
(* No notification is lost.                                                *)
(***************************************************************************)

\* What will wake the writer stays until the writer wakes.
LEMMA WakeUpStays ==
  ASSUME TypeOK, WakeUpComes, Next, ~Wakes
  PROVE  WakeUpComes'
<1> USE DEF queueVars, senderVars, signalVars, roundVars, endVars, Sender
<1>1. ASSUME NEW s \in Sender, Notify(s) PROVE WakeUpComes'
  BY <1>1 DEF Notify, Notified, WakeUpComes, TypeOK
<1>2. ASSUME pending => pending', closed => closed',
             \A s \in Sender : step[s] \in {"queued", "clearQueued"} => step'[s] = step[s]
      PROVE  WakeUpComes'
  BY <1>2 DEF WakeUpComes
<1>3. ASSUME NEW s \in ControlSender, NEW k \in {"text", "close"},
             SendControl(s, k) \/ SendClear(s) \/ ReceiveAck(s) \/ AckTimesOut(s)
      PROVE  WakeUpComes'
  <2>1. UNCHANGED signalVars
    BY <1>3 DEF SendControl, SendClear, ReceiveAck, AckTimesOut
  <2>2. \A t \in Sender : step[t] \in {"queued", "clearQueued"} => step'[t] = step[t]
    BY <1>3 DEF SendControl, SendClear, ReceiveAck, AckTimesOut, TypeOK
  <2> QED
    BY <1>2, <2>1, <2>2
<1>4. ASSUME NEW s \in Sender, NEW t \in Sender,
             Clone(s, t) \/ DropNotifies(s) \/ DropReleases(s) \/ SendAudio(s)
      PROVE  WakeUpComes'
  <2>1. closed' = closed /\ (pending' = pending \/ pending' = Notified)
    BY <1>4 DEF Clone, DropNotifies, DropReleases, SendAudio
  <2>3. (pending => pending') /\ (closed => closed')
    BY <2>1 DEF Notified, TypeOK
  <2>2. \A r \in Sender : step[r] \in {"queued", "clearQueued"} => step'[r] = step[r]
    BY <1>4 DEF Clone, DropNotifies, DropReleases, SendAudio, TypeOK
  <2> QED
    BY <1>2, <2>2, <2>3
<1>5. CASE SignalClose \/ AbortWriter \/ WorkerChanges
  BY <1>5 DEF SignalClose, AbortWriter, WorkerChanges, WakeUpComes
<1>6. CASE (WriterRuns \/ AbortStrikes \/ WireNext) /\ ~Wakes
  <2>1. UNCHANGED <<step, pending, closed>>
    BY <1>6 DEF WriterRuns, WireNext, SeesClose, TakesControl, ControlDrained, ClearsFrame,
         AcksClear, TakesAudio, EndsRound, AbortStrikes, SendsText, SendsClose, SendsAudio,
         ClosesSocket, SendFails, Exit
  <2> QED
    BY <2>1 DEF WakeUpComes
<1> QED
  BY <1>1, <1>3, <1>4, <1>5, <1>6, Zenon DEF Next, SenderNext

\* A handle that has just filled a queue is about to notify.
LEMMA FilledIsNotified ==
  ASSUME TypeOK, NEW s \in Sender, step' = [step EXCEPT ![s] = "queued"] \/
                                    step' = [step EXCEPT ![s] = "clearQueued"]
  PROVE  WakeUpComes'
<1>1. step'[s] \in {"queued", "clearQueued"}
  BY DEF TypeOK
<1> QED
  BY <1>1 DEF WakeUpComes

\* A control message is never forgotten between two rounds.
LEMMA ControlRememberedStep ==
  ASSUME IInv, Next
  PROVE  ControlRemembered'
<1> USE DEF queueVars, senderVars, signalVars, roundVars, endVars
<1>t. TypeOK /\ ControlRemembered /\ ClosedForGood
  BY DEF IInv
<1>1. ASSUME NEW s \in ControlSender, NEW k \in {"text", "close"}, SendControl(s, k) \/ SendClear(s)
      PROVE  ControlRemembered'
  <2>1. WakeUpComes'
    BY <1>1, <1>t, FilledIsNotified DEF SendControl, SendClear, Sender
  <2> QED
    BY <2>1 DEF ControlRemembered
<1>2. ASSUME pc' = pc, control' # <<>> => control # <<>>
      PROVE  ControlRemembered'
  BY <1>2, <1>t, WakeUpStays DEF ControlRemembered, Wakes
<1>3. ASSUME NEW s \in ControlSender, AckTimesOut(s) PROVE ControlRemembered'
  <2>1. pc' = pc
    BY <1>3 DEF AckTimesOut
  <2>2. control' = [i \in 1..Len(control) |-> Forget(control[i], s)]
    BY <1>3 DEF AckTimesOut
  <2>3. control = <<>> => control' = <<>>
    BY <2>2
  <2> QED
    BY <1>2, <2>1, <2>3
<1>4. ASSUME NEW s \in Sender, NEW t \in Sender,
             \/ ReceiveAck(s) \/ Clone(s, t) \/ SendAudio(s)
             \/ Notify(s) \/ DropNotifies(s) \/ DropReleases(s)
      PROVE  ControlRemembered'
  <2>1. UNCHANGED <<pc, control>>
    BY <1>4 DEF ReceiveAck, Clone, SendAudio, Notify, DropNotifies, DropReleases
  <2> QED
    BY <1>2, <2>1
<1>5. CASE SignalClose \/ AbortWriter \/ WorkerChanges \/ ClearsFrame
  <2>1. UNCHANGED <<pc, control>>
    BY <1>5 DEF SignalClose, AbortWriter, WorkerChanges, ClearsFrame
  <2> QED
    BY <1>2, <2>1
<1>6. CASE \/ Wakes \/ SeesClose \/ TakesControl \/ AcksClear \/ AbortStrikes
           \/ SendsText \/ SendsClose \/ ClosesSocket \/ SendFails
  <2>1. pc' \in {"control", "clear", "sendControl", "exited"}
    BY <1>6 DEF Wakes, SeesClose, TakesControl, AcksClear, AbortStrikes, SendsText, SendsClose,
       ClosesSocket, SendFails, Exit
  <2> QED
    BY <2>1 DEF ControlRemembered
<1>7. CASE ControlDrained
  <2>1. control' = <<>>
    BY <1>7, <1>t DEF ControlDrained, ClosedForGood
  <2> QED
    BY <2>1 DEF ControlRemembered
<1>8. CASE TakesAudio \/ SendsAudio
  <2>1. control' = control /\ pc \in {"audio", "sendAudio"} /\ ~Wakes
    BY <1>8 DEF TakesAudio, SendsAudio, Wakes
  <2> QED
    BY <1>t, <2>1, WakeUpStays DEF ControlRemembered
<1>9. CASE EndsRound
  <2>1. control' = control /\ pc = "audio" /\ ~Wakes
    BY <1>9 DEF EndsRound, AudioIsDrained, Wakes
  <2> QED
    BY <1>t, <2>1, WakeUpStays DEF ControlRemembered
<1> QED
  BY <1>1, <1>3, <1>4, <1>5, <1>6, <1>7, <1>8, <1>9
     DEF Next, SenderNext, WriterRuns, WireNext, Sender

\* Nor is an audio frame.
LEMMA AudioRememberedStep ==
  ASSUME IInv, Next
  PROVE  AudioRemembered'
<1> USE DEF queueVars, senderVars, signalVars, roundVars, endVars
<1>t. TypeOK /\ AudioRemembered /\ ClosedForGood
  BY DEF IInv
<1>1. ASSUME NEW s \in AudioSender, SendAudio(s) PROVE AudioRemembered'
  <2>1. WakeUpComes'
    BY <1>1, <1>t, FilledIsNotified DEF SendAudio, Sender
  <2> QED
    BY <2>1 DEF AudioRemembered
<1>2. ASSUME UNCHANGED <<pc, audio>> PROVE AudioRemembered'
  BY <1>2, <1>t, WakeUpStays DEF AudioRemembered, Wakes
<1>3. ASSUME NEW s \in Sender, NEW t \in Sender, NEW k \in {"text", "close"},
             \/ SendControl(s, k) \/ SendClear(s) \/ ReceiveAck(s) \/ AckTimesOut(s)
             \/ Clone(s, t) \/ Notify(s) \/ DropNotifies(s) \/ DropReleases(s)
      PROVE  AudioRemembered'
  <2>1. UNCHANGED <<pc, audio>>
    BY <1>3 DEF SendControl, SendClear, ReceiveAck, AckTimesOut, Clone, Notify, DropNotifies,
       DropReleases
  <2> QED
    BY <1>2, <2>1
<1>4. CASE SignalClose \/ AbortWriter \/ WorkerChanges
  <2>1. UNCHANGED <<pc, audio>>
    BY <1>4 DEF SignalClose, AbortWriter, WorkerChanges
  <2> QED
    BY <1>2, <2>1
<1>5. CASE (WriterRuns \/ AbortStrikes \/ WireNext) /\ ~EndsRound
  <2>1. pc' # "wait"
    BY <1>5 DEF WriterRuns, WireNext, Wakes, SeesClose, TakesControl, ControlDrained, ClearsFrame,
       AcksClear, TakesAudio, AbortStrikes, SendsText, SendsClose, SendsAudio, ClosesSocket,
       SendFails, Exit
  <2> QED
    BY <2>1 DEF AudioRemembered
<1>6. CASE EndsRound
  <2>1. audio' = <<>>
    BY <1>6, <1>t DEF EndsRound, AudioIsDrained, ClosedForGood
  <2> QED
    BY <2>1 DEF AudioRemembered
<1> QED
  BY <1>1, <1>3, <1>4, <1>5, <1>6, NextParts DEF Sender

\* A queue that is closed stays empty: its last handle is gone, and a handle is
\* only made from another one.
LEMMA ClosedForGoodStep ==
  ASSUME IInv, Next
  PROVE  ClosedForGood'
<1> USE DEF queueVars, senderVars, signalVars, roundVars, endVars
<1>t. TypeOK /\ ClosedForGood /\ SenderAssumption
  BY SenderAssumption DEF IInv
<1>1. ASSUME NEW s \in ControlSender, NEW k \in {"text", "close"}, SendControl(s, k) \/ SendClear(s)
      PROVE  ClosedForGood'
  <2>1. ~controlClosed /\ controlClosed' = controlClosed
    BY <1>1, <1>t DEF SendControl, SendClear, ClosedForGood, Live
  <2>2. UNCHANGED <<audio, audioClosed>> /\ \A t \in AudioSender : step'[t] = step[t]
    BY <1>1, <1>t DEF SendControl, SendClear, SenderAssumption, TypeOK, Sender
  <2> QED
    BY <1>t, <2>1, <2>2 DEF ClosedForGood, Live
<1>2. ASSUME NEW s \in AudioSender, SendAudio(s) PROVE ClosedForGood'
  <2>1. ~audioClosed /\ audioClosed' = audioClosed
    BY <1>2, <1>t DEF SendAudio, ClosedForGood, Live
  <2>2. UNCHANGED <<control, controlClosed>> /\ \A t \in ControlSender : step'[t] = step[t]
    BY <1>2, <1>t DEF SendAudio, SenderAssumption, TypeOK, Sender
  <2> QED
    BY <1>t, <2>1, <2>2 DEF ClosedForGood, Live
<1>3. ASSUME UNCHANGED endVars, control = <<>> => control' = <<>>, audio = <<>> => audio' = <<>>,
             \A t \in Sender : step[t] = "gone" => step'[t] = "gone"
      PROVE  ClosedForGood'
  BY <1>3, <1>t DEF ClosedForGood, Live, Sender
<1>4. ASSUME NEW s \in ControlSender, AckTimesOut(s) PROVE ClosedForGood'
  <2>1. UNCHANGED endVars /\ audio' = audio
    BY <1>4 DEF AckTimesOut
  <2>2. control' = [i \in 1..Len(control) |-> Forget(control[i], s)]
    BY <1>4 DEF AckTimesOut
  <2>3. control = <<>> => control' = <<>>
    BY <2>2
  <2>4. \A t \in Sender : step[t] = "gone" => step'[t] = "gone"
    BY <1>4, <1>t DEF AckTimesOut, TypeOK
  <2> QED
    BY <1>3, <2>1, <2>3, <2>4
<1>5. ASSUME NEW s \in Sender, ReceiveAck(s) \/ Notify(s) \/ DropNotifies(s) \/ DropReleases(s)
      PROVE  ClosedForGood'
  <2>1. UNCHANGED <<endVars, queueVars>>
    BY <1>5 DEF ReceiveAck, Notify, DropNotifies, DropReleases
  <2>2. \A t \in Sender : step[t] = "gone" => step'[t] = "gone"
    BY <1>5, <1>t DEF ReceiveAck, Notify, DropNotifies, DropReleases, TypeOK
  <2> QED
    BY <1>3, <2>1, <2>2
<1>6. ASSUME NEW S \in {ControlSender, AudioSender}, NEW s \in S, NEW t \in S, Clone(s, t)
      PROVE  ClosedForGood'
  <2>1. UNCHANGED <<endVars, queueVars>> /\ Live(S) # {}
    BY <1>6 DEF Clone, Live
  <2>2. \A r \in Sender : r # t => step'[r] = step[r]
    BY <1>6, <1>t DEF Clone, TypeOK
  <2>3. CASE S = ControlSender
    <3>1. ~controlClosed
      BY <1>t, <2>1, <2>3 DEF ClosedForGood
    <3>2. \A r \in AudioSender : step'[r] = step[r]
      BY <1>6, <1>t, <2>2, <2>3 DEF Sender, SenderAssumption
    <3> QED
      BY <1>t, <2>1, <3>1, <3>2 DEF ClosedForGood, Live
  <2>4. CASE S = AudioSender
    <3>1. ~audioClosed
      BY <1>t, <2>1, <2>4 DEF ClosedForGood
    <3>2. \A r \in ControlSender : step'[r] = step[r]
      BY <1>6, <1>t, <2>2, <2>4 DEF Sender, SenderAssumption
    <3> QED
      BY <1>t, <2>1, <3>1, <3>2 DEF ClosedForGood, Live
  <2> QED
    BY <1>6, <2>3, <2>4
<1>7. CASE SignalClose \/ AbortWriter \/ WorkerChanges
  <2>1. UNCHANGED <<endVars, queueVars, step>>
    BY <1>7 DEF SignalClose, AbortWriter, WorkerChanges
  <2> QED
    BY <1>3, <2>1
<1>8. CASE (WriterRuns \/ AbortStrikes \/ WireNext) /\ ~ControlDrained /\ ~AcksClear /\ ~EndsRound
  <2>1. UNCHANGED <<endVars, step>>
    BY <1>8 DEF WriterRuns, WireNext, Wakes, SeesClose, TakesControl, ClearsFrame, TakesAudio,
       AbortStrikes, SendsText, SendsClose, SendsAudio, ClosesSocket, SendFails, Exit
  <2>2. (control = <<>> => control' = <<>>) /\ (audio = <<>> => audio' = <<>>)
    BY <1>8 DEF WriterRuns, WireNext, Wakes, SeesClose, TakesControl, ClearsFrame, TakesAudio,
       AbortStrikes, SendsText, SendsClose, SendsAudio, ClosesSocket, SendFails, Exit
  <2> QED
    BY <1>3, <2>1, <2>2
<1>9. CASE ControlDrained
  <2>1. UNCHANGED <<queueVars, step, audioClosed>>
    BY <1>9 DEF ControlDrained
  <2>2. controlClosed' => (controlClosed \/ (Live(ControlSender) = {} /\ control = <<>>))
    BY <1>9, <1>t DEF ControlDrained, ClosedForGood
  <2> QED
    BY <1>t, <2>1, <2>2 DEF ClosedForGood, Live
<1>10. CASE AcksClear \/ EndsRound
  <2>1. UNCHANGED <<queueVars, step, controlClosed>>
    BY <1>10 DEF AcksClear, EndsRound
  <2>2. audioClosed' => (audioClosed \/ (Live(AudioSender) = {} /\ audio = <<>>))
    BY <1>10, <1>t DEF AcksClear, EndsRound, AudioIsDrained, ClosedForGood
  <2> QED
    BY <1>t, <2>1, <2>2 DEF ClosedForGood, Live
<1> QED
  BY <1>1, <1>2, <1>4, <1>5, <1>6, <1>7, <1>8, <1>9, <1>10, NextParts

\* The loop is left with both queues closed, and no queue is opened again.
LEMMA FinishesClosedStep ==
  ASSUME IInv, Next
  PROVE  FinishesClosed'
<1> USE DEF queueVars, senderVars, signalVars, roundVars, endVars
<1>1. ASSUME UNCHANGED <<pc, endVars>> PROVE FinishesClosed'
  BY <1>1 DEF IInv, FinishesClosed
<1>2. CASE SenderNext \/ SignalClose \/ AbortWriter \/ WorkerChanges
  <2>1. UNCHANGED <<pc, endVars>>
    BY <1>2 DEF SenderNext, SendControl, SendClear, SendAudio, ReceiveAck, AckTimesOut, Clone, Notify,
       DropNotifies, DropReleases, SignalClose, AbortWriter, WorkerChanges
  <2> QED
    BY <1>1, <2>1
<1>3. CASE (WriterRuns \/ AbortStrikes \/ WireNext) /\ ~EndsRound
  <2>1. pc' # "finish"
    BY <1>3 DEF WriterRuns, WireNext, Wakes, SeesClose, TakesControl, ControlDrained, ClearsFrame,
       AcksClear, TakesAudio, AbortStrikes, SendsText, SendsClose, SendsAudio, ClosesSocket,
       SendFails, Exit
  <2> QED
    BY <2>1 DEF FinishesClosed
<1>4. CASE EndsRound
  <2>1. pc' = "finish" => controlClosed /\ audioClosed'
    BY <1>4 DEF EndsRound
  <2>2. controlClosed' = controlClosed
    BY <1>4 DEF EndsRound
  <2> QED
    BY <2>1, <2>2 DEF FinishesClosed
<1> QED
  BY <1>2, <1>3, <1>4 DEF Next, WriterRuns

-----------------------------------------------------------------------------
(***************************************************************************)
(* A clear is answered.                                                    *)
(***************************************************************************)

\* The request of handle s.
Request(s) == [kind |-> "clear", from |-> s]

\* A request stays in the queue when messages are added behind it, when another
\* message is taken, and when another handle stops waiting.
LEMMA RequestStays ==
  ASSUME TypeOK, NEW s \in ControlSender, NEW i \in 1..Len(control), control[i] = Request(s),
         \/ control' = control
         \/ \E m \in Message : control' = Append(control, m)
         \/ control # <<>> /\ control' = Tail(control) /\ Head(control) # Request(s)
         \/ \E t \in ControlSender \ {s} :
              control' = [j \in 1..Len(control) |-> Forget(control[j], t)]
  PROVE  \E j \in 1..Len(control') : control'[j] = Request(s)
<1>1. CASE control' = control
  BY <1>1
<1>2. CASE \E m \in Message : control' = Append(control, m)
  <2>1. i \in 1..Len(control') /\ control'[i] = control[i]
    BY <1>2 DEF TypeOK
  <2> QED
    BY <2>1
<1>3. CASE control # <<>> /\ control' = Tail(control) /\ Head(control) # Request(s)
  <2>1. i # 1
    BY <1>3
  <2>2. i - 1 \in 1..Len(control') /\ control'[i - 1] = control[i]
    BY <1>3, <2>1 DEF TypeOK
  <2> QED
    BY <2>2
<1>4. ASSUME NEW t \in ControlSender \ {s},
             control' = [j \in 1..Len(control) |-> Forget(control[j], t)]
      PROVE  \E j \in 1..Len(control') : control'[j] = Request(s)
  <2>1. Len(control') = Len(control)
    BY <1>4 DEF TypeOK
  <2>2. control'[i] = Forget(control[i], t)
    BY <1>4
  <2>3. Forget(control[i], t) = control[i]
    BY <1>4 DEF Forget, Request
  <2> QED
    BY <2>1, <2>2, <2>3
<1> QED
  BY <1>1, <1>2, <1>3, <1>4

\* Nobody waits for an answer that is lost.
LEMMA AnswerableStep ==
  ASSUME IInv, Next
  PROVE  ClearIsAnswerable'
<1> USE DEF queueVars, senderVars, signalVars, roundVars, endVars
<1>t. TypeOK /\ ClearIsAnswerable /\ SenderAssumption
  BY SenderAssumption DEF IInv
<1> DEFINE Waits(s) == step[s] \in {"clearQueued", "awaiting"}
           InQueue(s) == \E i \in 1..Len(control) : control[i] = Request(s)
           InHand(s) == pc = "clear" /\ hand.from = s
<1>s. SUFFICES ASSUME NEW s \in ControlSender, Waits(s)'
               PROVE  InQueue(s)' \/ InHand(s)' \/ s \in acked' \/ pc' = "exited"
  BY DEF ClearIsAnswerable, Request
<1>o. Waits(s) => InQueue(s) \/ InHand(s) \/ s \in acked \/ pc = "exited"
  BY <1>t DEF ClearIsAnswerable, Request
<1>k. s \in Sender
  BY DEF Sender
<1>1. ASSUME NEW r \in ControlSender, NEW k \in {"text", "close"}, SendControl(r, k)
      PROVE  InQueue(s)' \/ InHand(s)' \/ s \in acked' \/ pc' = "exited"
  <2>1. Waits(s)
    BY <1>1, <1>t, <1>s, <1>k DEF SendControl, TypeOK
  <2>2. \E m \in Message : control' = Append(control, m)
    BY <1>1, MessageTypes DEF SendControl
  <2>3. InQueue(s) => InQueue(s)'
    BY <1>t, <2>2, RequestStays
  <2>4. UNCHANGED <<pc, hand, acked>>
    BY <1>1 DEF SendControl
  <2> QED
    BY <1>o, <2>1, <2>3, <2>4
<1>2. ASSUME NEW r \in ControlSender, SendClear(r)
      PROVE  InQueue(s)' \/ InHand(s)' \/ s \in acked' \/ pc' = "exited"
  <2>1. control' = Append(control, Request(r)) /\ Request(r) \in Message
    BY <1>2, MessageTypes DEF SendClear, Request
  <2>2. CASE r = s
    <3>1. Len(control) + 1 \in 1..Len(control') /\ control'[Len(control) + 1] = Request(s)
      BY <1>t, <2>1, <2>2 DEF TypeOK
    <3> QED
      BY <3>1
  <2>3. CASE r # s
    <3>1. Waits(s)
      BY <1>2, <1>t, <1>s, <1>k, <2>3 DEF SendClear, TypeOK
    <3>2. InQueue(s) => InQueue(s)'
      BY <1>t, <2>1, RequestStays
    <3>3. UNCHANGED <<pc, hand, acked>>
      BY <1>2 DEF SendClear
    <3> QED
      BY <1>o, <3>1, <3>2, <3>3
  <2> QED
    BY <2>2, <2>3
<1>3. ASSUME NEW r \in Sender, ReceiveAck(r)
      PROVE  InQueue(s)' \/ InHand(s)' \/ s \in acked' \/ pc' = "exited"
  <2>1. Waits(s) /\ r # s
    BY <1>3, <1>t, <1>s, <1>k DEF ReceiveAck, TypeOK
  <2>2. UNCHANGED <<control, pc, hand>> /\ acked' = acked \ {r}
    BY <1>3 DEF ReceiveAck
  <2> QED
    BY <1>o, <2>1, <2>2
<1>4. ASSUME NEW r \in ControlSender, AckTimesOut(r)
      PROVE  InQueue(s)' \/ InHand(s)' \/ s \in acked' \/ pc' = "exited"
  <2>1. Waits(s) /\ r # s
    BY <1>4, <1>t, <1>s, <1>k DEF AckTimesOut, TypeOK
  <2>2. pc' = pc /\ acked' = acked \ {r} /\ hand' = Forget(hand, r)
        /\ control' = [j \in 1..Len(control) |-> Forget(control[j], r)]
    BY <1>4 DEF AckTimesOut
  <2>3. InQueue(s) => InQueue(s)'
    BY <1>t, <2>1, <2>2, RequestStays
  <2>4. InHand(s) => InHand(s)'
    BY <2>1, <2>2 DEF Forget
  <2> QED
    BY <1>o, <2>1, <2>2, <2>3, <2>4
<1>5. ASSUME NEW r \in Sender, NEW t \in Sender,
             Clone(r, t) \/ SendAudio(r) \/ Notify(r) \/ DropNotifies(r) \/ DropReleases(r)
      PROVE  InQueue(s)' \/ InHand(s)' \/ s \in acked' \/ pc' = "exited"
  <2>2. Waits(s)
    BY <1>5, <1>t, <1>s, <1>k DEF Clone, SendAudio, Notify, DropNotifies, DropReleases, TypeOK
  <2>3. UNCHANGED <<control, pc, hand, acked>>
    BY <1>5 DEF Clone, SendAudio, Notify, DropNotifies, DropReleases
  <2> QED
    BY <1>o, <2>2, <2>3
<1>6. CASE SignalClose \/ AbortWriter \/ WorkerChanges
  <2>1. UNCHANGED <<control, pc, hand, acked, step>>
    BY <1>6 DEF SignalClose, AbortWriter, WorkerChanges
  <2> QED
    BY <1>o, <1>s, <2>1
<1>7. CASE TakesControl
  <2>1. /\ UNCHANGED <<acked, step>> /\ pc = "control" /\ hand' = Head(control)
        /\ control # <<>> /\ control' = Tail(control)
        /\ pc' = IF Head(control).kind = "clear" THEN "clear" ELSE "sendControl"
    BY <1>7 DEF TakesControl
  <2>2. CASE Head(control) = Request(s)
    BY <2>1, <2>2 DEF Request
  <2>3. CASE Head(control) # Request(s)
    <3>1. InQueue(s) => InQueue(s)'
      BY <1>t, <2>1, <2>3, RequestStays
    <3> QED
      BY <1>o, <1>s, <2>1, <3>1
  <2> QED
    BY <2>2, <2>3
<1>8. CASE AcksClear
  <2>1. UNCHANGED <<control, step>> /\ acked' = acked \cup ({hand.from} \ {NoSender})
    BY <1>8 DEF AcksClear
  <2>2. s # NoSender /\ pc = "clear"
    BY <1>8, <1>t DEF AcksClear, SenderAssumption
  <2> QED
    BY <1>o, <1>s, <2>1, <2>2
<1>9. CASE SeesClose \/ SendsClose \/ ClosesSocket \/ SendFails \/ AbortStrikes
  BY <1>9 DEF SeesClose, SendsClose, ClosesSocket, SendFails, AbortStrikes, Exit
<1>10. CASE Wakes \/ ControlDrained \/ ClearsFrame \/ TakesAudio \/ EndsRound \/ SendsText
            \/ SendsAudio
  <2>1. UNCHANGED <<control, acked, step>>
    BY <1>10 DEF Wakes, ControlDrained, ClearsFrame, TakesAudio, EndsRound, SendsText, SendsAudio
  <2>2. pc # "exited" /\ (pc = "clear" => UNCHANGED <<pc, hand>>)
    BY <1>10 DEF Wakes, ControlDrained, ClearsFrame, TakesAudio, EndsRound, AudioIsDrained,
       SendsText, SendsAudio
  <2> QED
    BY <1>o, <1>s, <2>1, <2>2
<1> QED
  BY <1>1, <1>2, <1>3, <1>4, <1>5, <1>6, <1>7, <1>8, <1>9, <1>10, NextParts
     DEF WriterRuns, WireNext, Sender

-----------------------------------------------------------------------------
(***************************************************************************)
(* The invariant, and the theorems it carries.                             *)
(***************************************************************************)

\* The pump starts with empty queues.
LEMMA InitIInv == Init => IInv
BY TypeInit
   DEF Init, IInv, ControlRemembered, AudioRemembered, ClosedForGood, FinishesClosed,
       ClearIsAnswerable, Sender

\* Every step keeps the invariant.
LEMMA NextIInv ==
  ASSUME IInv, Next
  PROVE  IInv'
<1>1. TypeOK'
  BY TypeSenders, TypeWriter DEF IInv, Next
<1> QED
  BY <1>1, ControlRememberedStep, AudioRememberedStep, ClosedForGoodStep, FinishesClosedStep,
     AnswerableStep DEF IInv

\* So does a step that changes nothing.
LEMMA StutterIInv ==
  ASSUME IInv, UNCHANGED vars
  PROVE  IInv'
BY DEF vars, IInv, TypeOK, ControlRemembered, AudioRemembered, ClosedForGood, FinishesClosed,
       ClearIsAnswerable, WakeUpComes, Live

\* The inductive invariant holds throughout.
THEOREM Invariance == Spec => []IInv
<1>1. Init => IInv
  BY InitIInv
<1>2. IInv /\ [Next]_vars => IInv'
  BY NextIInv, StutterIInv
<1> QED
  BY <1>1, <1>2, PTL DEF Spec

\* Every variable keeps its type.
THEOREM TypeCorrect == Spec => []TypeOK
<1>1. IInv => TypeOK
  BY DEF IInv
<1> QED
  BY <1>1, Invariance, PTL

\* The writer never sleeps on a queued message, whatever the number of handles,
\* the capacities and the order of queueing, notifying and going to sleep.
THEOREM WakeUpSafe == Spec => []NoLostWakeup
<1>1. IInv => NoLostWakeup
  BY DEF IInv, ControlRemembered, AudioRemembered, NoLostWakeup
<1> QED
  BY <1>1, Invariance, PTL

\* Whoever waits in clear_audio_queue waits for something that can still come.
THEOREM ClearSafe == Spec => []ClearIsAnswerable
<1>1. IInv => ClearIsAnswerable
  BY DEF IInv
<1> QED
  BY <1>1, Invariance, PTL

\* A writer that ends by itself leaves nothing unsent and nobody who could still
\* send, although it asks the two queues at different times (ws_pump.rs, the two
\* try_recv loops of the writer).
THEOREM FinishSafe == Spec => []FinishLeavesNothing
<1>1. IInv => FinishLeavesNothing
  <2> SUFFICES ASSUME IInv, pc = "finish" PROVE control = <<>> /\ audio = <<>> /\ Live(Sender) = {}
    BY DEF FinishLeavesNothing
  <2>1. /\ control = <<>> /\ audio = <<>>
        /\ Live(ControlSender) = {} /\ Live(AudioSender) = {}
    BY DEF IInv, FinishesClosed, ClosedForGood
  <2> QED
    BY <2>1 DEF Live, Sender
<1> QED
  BY <1>1, Invariance, PTL
=============================================================================
