--------------------------- MODULE RecorderProofs ---------------------------
(***************************************************************************)
(* Proofs about Recorder for every set of configs and every bound.         *)
(***************************************************************************)
EXTENDS Recorder, SequenceTheorems, TLAPS

-----------------------------------------------------------------------------
\* The inductive invariant, in named parts.

\* A recorder thread outlives its arecord and not the other way round, and only
\* the recording started last has either.
OnlyLatestReads ==
  \A i \in DOMAIN recs :
    /\ recs[i].alive => recs[i].reading
    /\ recs[i].reading => i = Len(recs)

\* Whoever has a running arecord or thread can be found: in the field, or in
\* the hands of a thread on its way to or from there.
ArecordIsHeld ==
  \A i \in DOMAIN recs : recs[i].alive => child = i \/ pc["router"] = "setChild"

ThreadIsHeld ==
  \A i \in DOMAIN recs : recs[i].reading =>
    \/ task = i
    \/ \E t \in Thread : pc[t] = "joined" /\ joining[t] = i
    \/ pc["router"] \in {"setChild", "setTask"}

\* A thread that joins has something to join, and the lock for itself.
JoinsAlone ==
  /\ \A t \in Thread : pc[t] = "joined" => joining[t] # 0
  /\ pc["supervisor"] = "joined" =>
       pc["router"] \notin {"joined", "forget", "spawn", "setChild", "setTask"}

\* The fields the router has emptied stay empty until it fills them.
FieldsEmpty ==
  /\ pc["router"] \in {"join", "joined", "forget", "spawn", "setChild"} => child = 0
  /\ pc["router"] \in {"joined", "forget", "spawn", "setChild", "setTask"} => task = 0
  /\ pc["router"] \in {"spawn", "setChild", "setTask", "setProfile"} => profile = "none"

\* Once the supervisor has emptied a field, only a start under way may fill it.
ChildTaken ==
  pc["supervisor"] \notin {"idle", "kill"}
    /\ (request.command \notin Start \/ pc["router"] \in {"check", "kill"}) => child = 0

TaskTaken ==
  /\ pc["supervisor"] = "joined" => task = 0
  /\ pc["supervisor"] \in {"forget", "gone"}
       /\ (request.command \notin Start \/ pc["router"] \in {"check", "kill", "join"}) => task = 0

NobodyReads == \A i \in DOMAIN recs : ~recs[i].reading

\* Nothing records between the end of a stop and the next start.
SilentAfterStop ==
  \/ pc["router"] \in {"forget", "spawn"}
  \/ pc["router"] = "answer" /\ request.command = "stop_recording"
  => NobodyReads

\* Behind a supervisor that no start has gone past, nobody reads.
QuietBehind ==
  pc["supervisor"] \in {"forget", "gone"} /\ pc["router"] \notin {"setChild", "setTask"}
    /\ task = 0 => NobodyReads

ReadsOnly(p) == \A i \in DOMAIN recs : recs[i].reading => recs[i].profile = p

\* Only a start gets past the stop, and only a switch asks for a clear.
CommandPlace ==
  /\ pc["router"] \in {"check", "spawn", "setChild", "setTask", "setProfile"} =>
       request.command \in Start
  /\ pc["router"] \in {"clear", "ack"} => request.command \in Switch

\* The profile field tells what is recorded.
ProfileIsTrue ==
  /\ profile # "none" => ReadsOnly(profile)
  /\ pc["router"] \in {"setChild", "setTask", "setProfile", "clear", "ack"} =>
       ReadsOnly(ProfileOf(request))

\* A request to clear is alone, and its answer is awaited.
ClearIsAlone ==
  /\ \A i \in DOMAIN control : control[i] = "clear" =>
       /\ pc["router"] = "ack"
       /\ hand # "clear"
       /\ ~acked
       /\ \A j \in DOMAIN control : control[j] = "clear" => j = i
  /\ hand = "clear" => pc["router"] = "ack" /\ ~acked
  /\ acked => pc["router"] = "ack"

\* An "ok" is on its way, or has arrived.
OkGiven ==
  \/ \E i \in DOMAIN control : control[i] = "ok"
  \/ hand = "ok"
  \/ announced # "none"

\* The queue has been cleared for the command the router executes.
Due ==
  \/ acked
  \/ pc["router"] = "answer" /\ request.command \in Switch /\ outcome = "ok"

\* Nothing is recorded, queued or sent but frames of one profile.
Clean(p) ==
  /\ ReadsOnly(p)
  /\ \A i \in DOMAIN audio : audio[i] = p
  /\ hand \in Profile => hand = p

\* From the answer to the clear on, only the promised format is queued.
OnlyPromised ==
  /\ OkGiven => pc["router"] \in {"idle", "dead"}
  /\ announced # "none" => announced = ProfileOf(request)
  /\ Due \/ OkGiven => Clean(ProfileOf(request))

IInv ==
  /\ TypeOK
  /\ OnlyLatestReads
  /\ ArecordIsHeld
  /\ ThreadIsHeld
  /\ JoinsAlone
  /\ FieldsEmpty
  /\ SilentAfterStop
  /\ ChildTaken
  /\ TaskTaken
  /\ QuietBehind
  /\ CommandPlace
  /\ ProfileIsTrue
  /\ ClearIsAlone
  /\ OnlyPromised

-----------------------------------------------------------------------------
(***************************************************************************)
(* Type correctness.                                                       *)
(***************************************************************************)

\* No recording, nobody in the middle of anything.
LEMMA TypeInit == Init => TypeOK
<1>1. [command |-> "stop_recording", config |-> FastConfig] \in Request
  BY DEF Request
<1>2. \A S : <<>> \in Seq(S)
  OBVIOUS
<1>3. Len(<<>>) = 0 /\ 0 \in 0..0
  OBVIOUS
<1> QED
  BY <1>1, <1>2, <1>3 DEF Init, TypeOK, Thread, Stopping, RouterStep, SupervisorStep

\* A sequence rewritten element by element is a sequence of the same length.
LEMMA Rewritten ==
  ASSUME NEW S, NEW s \in Seq(S), NEW T, NEW t \in [DOMAIN s -> T]
  PROVE  t \in Seq(T) /\ Len(t) = Len(s)
<1>1. DOMAIN s = 1..Len(s) /\ Len(s) \in Nat
  BY LenProperties
<1>2. t \in [1..Len(s) -> T]
  BY <1>1
<1>3. t \in Seq(T)
  BY <1>1, <1>2, SeqDef
<1> QED
  BY <1>1, <1>2, <1>3

\* The recordings, and what a step may do to one of them.
LEMMA RecordingTypes ==
  ASSUME TypeOK
  PROVE  /\ DOMAIN recs = 1..Len(recs)
         /\ Len(recs) \in Nat
         /\ \A i \in DOMAIN recs :
              /\ recs[i] \in Recording
              /\ recs[i].profile \in Profile
              /\ [recs[i] EXCEPT !.alive = FALSE] \in Recording
              /\ [recs[i] EXCEPT !.reading = FALSE] \in Recording
<1>1. DOMAIN recs = 1..Len(recs) /\ Len(recs) \in Nat
  BY LenProperties DEF TypeOK
<1>2. ASSUME NEW i \in DOMAIN recs PROVE recs[i] \in Recording
  BY <1>1, ElementOfSeq DEF TypeOK
<1>3. ASSUME NEW r \in Recording
      PROVE  /\ r.profile \in Profile
             /\ [r EXCEPT !.alive = FALSE] \in Recording
             /\ [r EXCEPT !.reading = FALSE] \in Recording
  BY DEF Recording
<1> QED
  BY <1>1, <1>2, <1>3

\* Every step keeps the types.
LEMMA TypeStep ==
  ASSUME TypeOK, Next
  PROVE  TypeOK'
<1> USE DEF recorderVars, routerVars, wireVars, Goto
<1>1. ASSUME NEW t \in Thread, KillsArecord(t) PROVE TypeOK'
  <2> USE DEF KillsArecord, TypeOK
  <2>1. recs' \in [DOMAIN recs -> Recording]
    BY <1>1, RecordingTypes
  <2>2. recs' \in Seq(Recording) /\ Len(recs') = Len(recs)
    BY <2>1, Rewritten
  <2> QED
    BY <1>1, <2>2 DEF Thread, Stopping, RouterStep, SupervisorStep
<1>2. ASSUME NEW t \in Thread, TakesTask(t) PROVE TypeOK'
  BY <1>2 DEF TakesTask, TypeOK, Thread, Stopping, RouterStep, SupervisorStep
<1>3. ASSUME NEW t \in Thread, Joins(t) PROVE TypeOK'
  BY <1>3 DEF Joins, TypeOK, Thread, Stopping, RouterStep, SupervisorStep
<1>4. ASSUME NEW t \in Thread, ForgetsProfile(t) PROVE TypeOK'
  BY <1>4 DEF ForgetsProfile, TypeOK, Thread, Stopping, RouterStep, SupervisorStep, Start
<1>5. ASSUME NEW r \in Request, Begins(r) PROVE TypeOK'
  BY <1>5 DEF Begins, TypeOK, Thread, Stopping, RouterStep, SupervisorStep, Superseded, Text, Clear
<1>6. CASE IgnoresDuplicate
  BY <1>6 DEF IgnoresDuplicate, TypeOK, Thread, Stopping, RouterStep, SupervisorStep, AfterStart
<1>7. CASE StopsOld
  BY <1>7 DEF StopsOld, TypeOK, Thread, Stopping, RouterStep, SupervisorStep
<1>8. CASE Spawns
  BY <1>8 DEF Spawns, TypeOK, Thread, Stopping, RouterStep, SupervisorStep, Recording, Request, ProfileOf, Profile
<1>9. CASE SpawnFails
  BY <1>9 DEF SpawnFails, TypeOK, Thread, Stopping, RouterStep, SupervisorStep
<1>10. CASE SetsChild
  BY <1>10 DEF SetsChild, TypeOK, Thread, Stopping, RouterStep, SupervisorStep
<1>11. CASE SetsTask
  BY <1>11 DEF SetsTask, TypeOK, Thread, Stopping, RouterStep, SupervisorStep
<1>12. CASE SetsProfile
  BY <1>12 DEF SetsProfile, TypeOK, Thread, Stopping, RouterStep, SupervisorStep, AfterStart, ProfileOf, Profile
<1>13. CASE AsksForClear
  <2>1. control' \in Seq(Text \cup Clear)
    <3>1. "clear" \in Text \cup Clear
      BY DEF Clear
    <3>2. Append(control, "clear") \in Seq(Text \cup Clear)
      BY <3>1, AppendProperties DEF TypeOK
    <3> QED
      BY <1>13, <3>2 DEF AsksForClear, TypeOK
  <2>3. outcome' \in {"ok", "error"}
    BY <1>13 DEF AsksForClear, TypeOK
  <2>2. pc' \in [Thread -> RouterStep \cup SupervisorStep] /\ pc'["router"] \in RouterStep
          /\ pc'["supervisor"] = pc["supervisor"]
    BY <1>13 DEF AsksForClear, TypeOK, Thread, RouterStep, SupervisorStep, Stopping
  <2> QED
    BY <1>13, <2>1, <2>2, <2>3 DEF AsksForClear, TypeOK
<1>14. CASE GetsAck
  BY <1>14 DEF GetsAck, TypeOK, Thread, Stopping, RouterStep, SupervisorStep
<1>15. CASE GetsNoAck
  <2>1. control' \in [DOMAIN control -> Text \cup Clear]
    BY <1>15 DEF GetsNoAck, TypeOK, Late, Clear
  <2>2. control' \in Seq(Text \cup Clear)
    BY <2>1, Rewritten DEF TypeOK
  <2>3. hand' \in Text \cup Clear \cup Profile \cup {"none"}
    BY <1>15 DEF GetsNoAck, TypeOK, Late, Clear
  <2> QED
    BY <1>15, <2>2, <2>3 DEF GetsNoAck, TypeOK, Thread, RouterStep, SupervisorStep, Stopping
<1>16. CASE Answers
  BY <1>16 DEF Answers, TypeOK, Thread, Stopping, RouterStep, SupervisorStep, Answer, Text
<1>17. CASE Detached
  BY <1>17 DEF Detached, TypeOK, Thread, Stopping, RouterStep, SupervisorStep
<1>18. ASSUME NEW i \in DOMAIN recs, Dies(i) PROVE TypeOK'
  <2>1. recs' \in [DOMAIN recs -> Recording]
    BY <1>18, RecordingTypes DEF Dies
  <2>2. recs' \in Seq(Recording) /\ Len(recs') = Len(recs)
    BY <2>1, Rewritten DEF TypeOK
  <2> QED
    BY <1>18, <2>2 DEF Dies, TypeOK
<1>19. ASSUME NEW i \in DOMAIN recs, Captures(i) PROVE TypeOK'
  <2>1. recs[i].profile \in Profile
    BY RecordingTypes
  <2>2. audio' \in Seq(Profile)
    BY <1>19, <2>1, AppendProperties DEF Captures, TypeOK
  <2> QED
    BY <1>19, <2>2 DEF Captures, TypeOK
<1>20. ASSUME NEW i \in DOMAIN recs, StopsReading(i) PROVE TypeOK'
  <2>1. recs' \in [DOMAIN recs -> Recording]
    BY <1>20, RecordingTypes DEF StopsReading
  <2>2. recs' \in Seq(Recording) /\ Len(recs') = Len(recs)
    BY <2>1, Rewritten DEF TypeOK
  <2> QED
    BY <1>20, <2>2 DEF StopsReading, TypeOK
<1>21. CASE TakesControl
  BY <1>21 DEF TakesControl, TypeOK, Thread, Stopping, RouterStep, SupervisorStep, Text, Clear
<1>22. CASE ClearsFrame
  BY <1>22 DEF ClearsFrame, TypeOK, Thread, Stopping, RouterStep, SupervisorStep
<1>23. CASE Cleared
  BY <1>23 DEF Cleared, TypeOK, Thread, Stopping, RouterStep, SupervisorStep
<1>24. CASE SendsText
  BY <1>24 DEF SendsText, TypeOK, Thread, Stopping, RouterStep, SupervisorStep, ProfileOf, Profile
<1>25. CASE ControlDrained
  BY <1>25 DEF ControlDrained, TypeOK, Thread, Stopping, RouterStep, SupervisorStep
<1>26. CASE TakesAudio
  BY <1>26 DEF TakesAudio, TypeOK, Thread, Stopping, RouterStep, SupervisorStep
<1>27. CASE SendsAudio
  BY <1>27 DEF SendsAudio, TypeOK, Thread, Stopping, RouterStep, SupervisorStep
<1>28. CASE AudioDrained
  BY <1>28 DEF AudioDrained, TypeOK, Thread, Stopping, RouterStep, SupervisorStep
<1>29. CASE WriterExits
  BY <1>29 DEF WriterExits, TypeOK, Thread, Stopping, RouterStep, SupervisorStep
<1> QED
  BY <1>1, <1>2, <1>3, <1>4, <1>5, <1>6, <1>7, <1>8, <1>9, <1>10, <1>11, <1>12, <1>13, <1>14, <1>15, <1>16, <1>17, <1>18, <1>19, <1>20, <1>21, <1>22, <1>23, <1>24, <1>25, <1>26, <1>27, <1>28, <1>29 DEF Next, CommandNext, StopNext, WriterNext, Thread

-----------------------------------------------------------------------------
(***************************************************************************)
(* Where the running recording is held.                                    *)
(***************************************************************************)

\* A step that leaves the recorder alone and goes to or stays at a place that
\* says nothing about it.
Elsewhere ==
  /\ UNCHANGED <<recorderVars, recs>>
  /\ \A t \in Thread :
       \/ pc'[t] = pc[t]
       \/ /\ pc[t] \notin {"joined", "setChild", "setTask"}
          /\ pc'[t] \in {"idle", "check", "kill", "clear", "ack", "answer", "dead"}

\* Every step works on the recorder or is one of those.
LEMMA RecorderSteps ==
  ASSUME TypeOK, Next
  PROVE  \/ \E t \in Thread : KillsArecord(t) \/ TakesTask(t) \/ Joins(t) \/ ForgetsProfile(t)
         \/ Spawns \/ SetsChild \/ SetsTask \/ SetsProfile
         \/ \E i \in DOMAIN recs : Dies(i) \/ StopsReading(i)
         \/ Elsewhere
<1> USE DEF recorderVars, routerVars, wireVars, Goto, Elsewhere, Thread, TypeOK
<1>1. ASSUME NEW r \in Request, Begins(r) PROVE Elsewhere
  BY <1>1 DEF Begins
<1>2. CASE IgnoresDuplicate \/ StopsOld \/ SpawnFails
  BY <1>2 DEF IgnoresDuplicate, StopsOld, SpawnFails, AfterStart
<1>3. CASE AsksForClear \/ GetsAck \/ GetsNoAck
  BY <1>3 DEF AsksForClear, GetsAck, GetsNoAck
<1>4. CASE Answers
  BY <1>4 DEF Answers
<1>5. CASE Detached
  BY <1>5 DEF Detached
<1>6. ASSUME NEW i \in DOMAIN recs, Captures(i) PROVE Elsewhere
  BY <1>6 DEF Captures
<1>7. CASE WriterNext
  BY <1>7 DEF WriterNext, TakesControl, ClearsFrame, Cleared, SendsText, ControlDrained,
              TakesAudio, SendsAudio, AudioDrained, WriterExits
<1> QED
  BY <1>1, <1>2, <1>3, <1>4, <1>5, <1>6, <1>7 DEF Next, CommandNext, StopNext

\* A new recording starts when nobody reads.
LEMMA OnlyLatestReadsStep ==
  ASSUME IInv, Next
  PROVE  OnlyLatestReads'
<1> USE DEF recorderVars, routerVars, wireVars, Goto, Thread, TypeOK
<1>t. TypeOK /\ OnlyLatestReads /\ SilentAfterStop
  BY DEF IInv
<1>d. DOMAIN recs = 1..Len(recs) /\ Len(recs) \in Nat
  BY <1>t, RecordingTypes
<1>1. ASSUME NEW t \in Thread, KillsArecord(t) PROVE OnlyLatestReads'
  BY <1>1, <1>t, <1>d DEF KillsArecord, OnlyLatestReads, SilentAfterStop
<1>2. ASSUME NEW t \in Thread, TakesTask(t) PROVE OnlyLatestReads'
  BY <1>2, <1>t, <1>d DEF TakesTask, OnlyLatestReads, SilentAfterStop, TaskLocked
<1>3. ASSUME NEW t \in Thread, Joins(t) PROVE OnlyLatestReads'
  BY <1>3, <1>t, <1>d DEF Joins, OnlyLatestReads, SilentAfterStop, TaskLocked
<1>4. ASSUME NEW t \in Thread, ForgetsProfile(t) PROVE OnlyLatestReads'
  BY <1>4, <1>t, <1>d DEF ForgetsProfile, OnlyLatestReads, SilentAfterStop
<1>5. CASE Spawns
  BY <1>5, <1>t, <1>d DEF Spawns, OnlyLatestReads, SilentAfterStop, NobodyReads
<1>6. CASE SetsChild
  BY <1>6, <1>t, <1>d DEF SetsChild, OnlyLatestReads, SilentAfterStop
<1>7. CASE SetsTask
  BY <1>7, <1>t, <1>d DEF SetsTask, OnlyLatestReads, SilentAfterStop, TaskLocked
<1>8. CASE SetsProfile
  BY <1>8, <1>t, <1>d DEF SetsProfile, OnlyLatestReads, SilentAfterStop, AfterStart
<1>9. ASSUME NEW i \in DOMAIN recs, Dies(i) PROVE OnlyLatestReads'
  BY <1>9, <1>t, <1>d DEF Dies, OnlyLatestReads, SilentAfterStop
<1>10. ASSUME NEW i \in DOMAIN recs, StopsReading(i) PROVE OnlyLatestReads'
  BY <1>10, <1>t, <1>d DEF StopsReading, OnlyLatestReads, SilentAfterStop
<1>11. CASE Elsewhere
  BY <1>11, <1>t, <1>d DEF Elsewhere, OnlyLatestReads, SilentAfterStop
<1> QED
  BY <1>t, <1>1, <1>2, <1>3, <1>4, <1>5, <1>6, <1>7, <1>8, <1>9, <1>10, <1>11, RecorderSteps

\* A running arecord is put into the empty field.
LEMMA ArecordIsHeldStep ==
  ASSUME IInv, Next
  PROVE  ArecordIsHeld'
<1> USE DEF recorderVars, routerVars, wireVars, Goto, Thread, TypeOK
<1>t. TypeOK /\ ArecordIsHeld /\ OnlyLatestReads /\ FieldsEmpty /\ SilentAfterStop
  BY DEF IInv
<1>d. DOMAIN recs = 1..Len(recs) /\ Len(recs) \in Nat
  BY <1>t, RecordingTypes
<1>1. ASSUME NEW t \in Thread, KillsArecord(t) PROVE ArecordIsHeld'
  BY <1>1, <1>t, <1>d DEF KillsArecord, ArecordIsHeld, OnlyLatestReads, FieldsEmpty, SilentAfterStop
<1>2. ASSUME NEW t \in Thread, TakesTask(t) PROVE ArecordIsHeld'
  BY <1>2, <1>t, <1>d DEF TakesTask, ArecordIsHeld, OnlyLatestReads, FieldsEmpty, SilentAfterStop, TaskLocked
<1>3. ASSUME NEW t \in Thread, Joins(t) PROVE ArecordIsHeld'
  BY <1>3, <1>t, <1>d DEF Joins, ArecordIsHeld, OnlyLatestReads, FieldsEmpty, SilentAfterStop, TaskLocked
<1>4. ASSUME NEW t \in Thread, ForgetsProfile(t) PROVE ArecordIsHeld'
  BY <1>4, <1>t, <1>d DEF ForgetsProfile, ArecordIsHeld, OnlyLatestReads, FieldsEmpty, SilentAfterStop
<1>5. CASE Spawns
  BY <1>5, <1>t, <1>d DEF Spawns, ArecordIsHeld, OnlyLatestReads, FieldsEmpty, SilentAfterStop, NobodyReads
<1>6. CASE SetsChild
  BY <1>6, <1>t, <1>d DEF SetsChild, ArecordIsHeld, OnlyLatestReads, FieldsEmpty, SilentAfterStop
<1>7. CASE SetsTask
  BY <1>7, <1>t, <1>d DEF SetsTask, ArecordIsHeld, OnlyLatestReads, FieldsEmpty, SilentAfterStop, TaskLocked
<1>8. CASE SetsProfile
  BY <1>8, <1>t, <1>d DEF SetsProfile, ArecordIsHeld, OnlyLatestReads, FieldsEmpty, SilentAfterStop, AfterStart
<1>9. ASSUME NEW i \in DOMAIN recs, Dies(i) PROVE ArecordIsHeld'
  BY <1>9, <1>t, <1>d DEF Dies, ArecordIsHeld, OnlyLatestReads, FieldsEmpty, SilentAfterStop
<1>10. ASSUME NEW i \in DOMAIN recs, StopsReading(i) PROVE ArecordIsHeld'
  BY <1>10, <1>t, <1>d DEF StopsReading, ArecordIsHeld, OnlyLatestReads, FieldsEmpty, SilentAfterStop
<1>11. CASE Elsewhere
  BY <1>11, <1>t, <1>d DEF Elsewhere, ArecordIsHeld, OnlyLatestReads, FieldsEmpty, SilentAfterStop
<1> QED
  BY <1>t, <1>1, <1>2, <1>3, <1>4, <1>5, <1>6, <1>7, <1>8, <1>9, <1>10, <1>11, RecorderSteps

\* A thread that is taken out of the field is joined.
LEMMA ThreadIsHeldStep ==
  ASSUME IInv, Next
  PROVE  ThreadIsHeld'
<1> USE DEF recorderVars, routerVars, wireVars, Goto, Thread, TypeOK
<1>t. TypeOK /\ ThreadIsHeld /\ OnlyLatestReads /\ FieldsEmpty /\ JoinsAlone /\ SilentAfterStop
  BY DEF IInv
<1>d. DOMAIN recs = 1..Len(recs) /\ Len(recs) \in Nat
  BY <1>t, RecordingTypes
<1>1. ASSUME NEW t \in Thread, KillsArecord(t) PROVE ThreadIsHeld'
  BY <1>1, <1>t, <1>d DEF KillsArecord, ThreadIsHeld, OnlyLatestReads, FieldsEmpty, JoinsAlone, SilentAfterStop
<1>2. ASSUME NEW t \in Thread, TakesTask(t) PROVE ThreadIsHeld'
  BY <1>2, <1>t, <1>d DEF TakesTask, ThreadIsHeld, OnlyLatestReads, FieldsEmpty, JoinsAlone, SilentAfterStop, TaskLocked
<1>3. ASSUME NEW t \in Thread, Joins(t) PROVE ThreadIsHeld'
  BY <1>3, <1>t, <1>d DEF Joins, ThreadIsHeld, OnlyLatestReads, FieldsEmpty, JoinsAlone, SilentAfterStop, TaskLocked
<1>4. ASSUME NEW t \in Thread, ForgetsProfile(t) PROVE ThreadIsHeld'
  BY <1>4, <1>t, <1>d DEF ForgetsProfile, ThreadIsHeld, OnlyLatestReads, FieldsEmpty, JoinsAlone, SilentAfterStop
<1>5. CASE Spawns
  BY <1>5, <1>t, <1>d DEF Spawns, ThreadIsHeld, OnlyLatestReads, FieldsEmpty, JoinsAlone, SilentAfterStop, NobodyReads
<1>6. CASE SetsChild
  BY <1>6, <1>t, <1>d DEF SetsChild, ThreadIsHeld, OnlyLatestReads, FieldsEmpty, JoinsAlone, SilentAfterStop
<1>7. CASE SetsTask
  BY <1>7, <1>t, <1>d DEF SetsTask, ThreadIsHeld, OnlyLatestReads, FieldsEmpty, JoinsAlone, SilentAfterStop, TaskLocked
<1>8. CASE SetsProfile
  BY <1>8, <1>t, <1>d DEF SetsProfile, ThreadIsHeld, OnlyLatestReads, FieldsEmpty, JoinsAlone, SilentAfterStop, AfterStart
<1>9. ASSUME NEW i \in DOMAIN recs, Dies(i) PROVE ThreadIsHeld'
  BY <1>9, <1>t, <1>d DEF Dies, ThreadIsHeld, OnlyLatestReads, FieldsEmpty, JoinsAlone, SilentAfterStop
<1>10. ASSUME NEW i \in DOMAIN recs, StopsReading(i) PROVE ThreadIsHeld'
  BY <1>10, <1>t, <1>d DEF StopsReading, ThreadIsHeld, OnlyLatestReads, FieldsEmpty, JoinsAlone, SilentAfterStop
<1>11. CASE Elsewhere
  BY <1>11, <1>t, <1>d DEF Elsewhere, ThreadIsHeld, OnlyLatestReads, FieldsEmpty, JoinsAlone, SilentAfterStop
<1> QED
  BY <1>t, <1>1, <1>2, <1>3, <1>4, <1>5, <1>6, <1>7, <1>8, <1>9, <1>10, <1>11, RecorderSteps

\* The lock of the task field keeps the two joins apart.
LEMMA JoinsAloneStep ==
  ASSUME IInv, Next
  PROVE  JoinsAlone'
<1> USE DEF recorderVars, routerVars, wireVars, Goto, Thread, TypeOK
<1>t. TypeOK /\ JoinsAlone /\ FieldsEmpty
  BY DEF IInv
<1>d. DOMAIN recs = 1..Len(recs) /\ Len(recs) \in Nat
  BY <1>t, RecordingTypes
<1>1. ASSUME NEW t \in Thread, KillsArecord(t) PROVE JoinsAlone'
  BY <1>1, <1>t, <1>d DEF KillsArecord, JoinsAlone
<1>2. ASSUME NEW t \in Thread, TakesTask(t) PROVE JoinsAlone'
  <2>1. CASE t = "router"
    BY <2>1, <1>2, <1>t DEF TakesTask, JoinsAlone, TaskLocked
  <2>2. CASE t = "supervisor"
    BY <2>2, <1>2, <1>t DEF TakesTask, JoinsAlone, FieldsEmpty, TaskLocked
  <2> QED
    BY <2>1, <2>2
<1>3. ASSUME NEW t \in Thread, Joins(t) PROVE JoinsAlone'
  BY <1>3, <1>t, <1>d DEF Joins, JoinsAlone, TaskLocked
<1>4. ASSUME NEW t \in Thread, ForgetsProfile(t) PROVE JoinsAlone'
  BY <1>4, <1>t, <1>d DEF ForgetsProfile, JoinsAlone
<1>5. CASE Spawns
  BY <1>5, <1>t, <1>d DEF Spawns, JoinsAlone, NobodyReads
<1>6. CASE SetsChild
  BY <1>6, <1>t, <1>d DEF SetsChild, JoinsAlone
<1>7. CASE SetsTask
  BY <1>7, <1>t, <1>d DEF SetsTask, JoinsAlone, TaskLocked
<1>8. CASE SetsProfile
  BY <1>8, <1>t, <1>d DEF SetsProfile, JoinsAlone, AfterStart
<1>9. ASSUME NEW i \in DOMAIN recs, Dies(i) PROVE JoinsAlone'
  BY <1>9, <1>t, <1>d DEF Dies, JoinsAlone
<1>10. ASSUME NEW i \in DOMAIN recs, StopsReading(i) PROVE JoinsAlone'
  BY <1>10, <1>t, <1>d DEF StopsReading, JoinsAlone
<1>11. CASE Elsewhere
  BY <1>11, <1>t, <1>d DEF Elsewhere, JoinsAlone
<1> QED
  BY <1>t, <1>1, <1>2, <1>3, <1>4, <1>5, <1>6, <1>7, <1>8, <1>9, <1>10, <1>11, RecorderSteps

\* Only the router fills the fields.
LEMMA FieldsEmptyStep ==
  ASSUME IInv, Next
  PROVE  FieldsEmpty'
<1> USE DEF recorderVars, routerVars, wireVars, Goto, Thread, TypeOK
<1>t. TypeOK /\ FieldsEmpty /\ JoinsAlone
  BY DEF IInv
<1>d. DOMAIN recs = 1..Len(recs) /\ Len(recs) \in Nat
  BY <1>t, RecordingTypes
<1>1. ASSUME NEW t \in Thread, KillsArecord(t) PROVE FieldsEmpty'
  BY <1>1, <1>t, <1>d DEF KillsArecord, FieldsEmpty, JoinsAlone
<1>2. ASSUME NEW t \in Thread, TakesTask(t) PROVE FieldsEmpty'
  BY <1>2, <1>t, <1>d DEF TakesTask, FieldsEmpty, JoinsAlone, TaskLocked
<1>3. ASSUME NEW t \in Thread, Joins(t) PROVE FieldsEmpty'
  BY <1>3, <1>t, <1>d DEF Joins, FieldsEmpty, JoinsAlone, TaskLocked
<1>4. ASSUME NEW t \in Thread, ForgetsProfile(t) PROVE FieldsEmpty'
  BY <1>4, <1>t, <1>d DEF ForgetsProfile, FieldsEmpty, JoinsAlone
<1>5. CASE Spawns
  BY <1>5, <1>t, <1>d DEF Spawns, FieldsEmpty, JoinsAlone, NobodyReads
<1>6. CASE SetsChild
  BY <1>6, <1>t, <1>d DEF SetsChild, FieldsEmpty, JoinsAlone
<1>7. CASE SetsTask
  BY <1>7, <1>t, <1>d DEF SetsTask, FieldsEmpty, JoinsAlone, TaskLocked
<1>8. CASE SetsProfile
  BY <1>8, <1>t, <1>d DEF SetsProfile, FieldsEmpty, JoinsAlone, AfterStart
<1>9. ASSUME NEW i \in DOMAIN recs, Dies(i) PROVE FieldsEmpty'
  BY <1>9, <1>t, <1>d DEF Dies, FieldsEmpty, JoinsAlone
<1>10. ASSUME NEW i \in DOMAIN recs, StopsReading(i) PROVE FieldsEmpty'
  BY <1>10, <1>t, <1>d DEF StopsReading, FieldsEmpty, JoinsAlone
<1>11. CASE Elsewhere
  BY <1>11, <1>t, <1>d DEF Elsewhere, FieldsEmpty, JoinsAlone
<1> QED
  BY <1>t, <1>1, <1>2, <1>3, <1>4, <1>5, <1>6, <1>7, <1>8, <1>9, <1>10, <1>11, RecorderSteps

-----------------------------------------------------------------------------
(***************************************************************************)
(* What the router's place says about what is recorded.                    *)
(***************************************************************************)

\* Nobody else moves the router or touches its command.
LEMMA RouterSteps ==
  ASSUME TypeOK, Next
  PROVE  \/ \E r \in Request : Begins(r)
         \/ CommandNext
         \/ pc'["router"] = pc["router"] /\ UNCHANGED routerVars
<1> USE DEF recorderVars, routerVars, wireVars, Goto, Thread, TypeOK
<1>1. CASE StopNext("supervisor")
  BY <1>1 DEF StopNext, KillsArecord, TakesTask, Joins, ForgetsProfile
<1>2. CASE Detached
  BY <1>2 DEF Detached
<1>3. ASSUME NEW i \in DOMAIN recs, Dies(i) \/ Captures(i) \/ StopsReading(i)
      PROVE  pc'["router"] = pc["router"] /\ UNCHANGED routerVars
  BY <1>3 DEF Dies, Captures, StopsReading
<1>4. CASE WriterNext
  BY <1>4 DEF WriterNext, TakesControl, ClearsFrame, Cleared, SendsText, ControlDrained,
              TakesAudio, SendsAudio, AudioDrained, WriterExits
<1> QED
  BY <1>1, <1>2, <1>3, <1>4 DEF Next

\* Only the start of a recording brings a new reader.
LEMMA ReadersStay ==
  ASSUME TypeOK, Next, ~Spawns
  PROVE  /\ DOMAIN recs' = DOMAIN recs
         /\ \A i \in DOMAIN recs :
              /\ recs'[i].reading => recs[i].reading
              /\ recs'[i].profile = recs[i].profile
<1> USE DEF recorderVars, routerVars, wireVars
<1>d. \A i \in DOMAIN recs : recs[i] \in Recording
  BY RecordingTypes
<1>1. ASSUME NEW t \in Thread, KillsArecord(t)
      PROVE  /\ DOMAIN recs' = DOMAIN recs
             /\ \A i \in DOMAIN recs : /\ recs'[i].reading => recs[i].reading
                                     /\ recs'[i].profile = recs[i].profile
  BY <1>1, <1>d DEF KillsArecord, Recording
<1>2. ASSUME NEW j \in DOMAIN recs, Dies(j) \/ StopsReading(j)
      PROVE  /\ DOMAIN recs' = DOMAIN recs
             /\ \A i \in DOMAIN recs : /\ recs'[i].reading => recs[i].reading
                                     /\ recs'[i].profile = recs[i].profile
  BY <1>2, <1>d DEF Dies, StopsReading, Recording
<1>3. CASE UNCHANGED recs
  BY <1>3
<1>4. ASSUME NEW t \in Thread, TakesTask(t) \/ Joins(t) \/ ForgetsProfile(t)
      PROVE  UNCHANGED recs
  BY <1>4 DEF TakesTask, Joins, ForgetsProfile
<1>5. SetsChild \/ SetsTask \/ SetsProfile \/ Elsewhere => UNCHANGED recs
  BY DEF SetsChild, SetsTask, SetsProfile, Elsewhere
<1> QED
  BY <1>1, <1>2, <1>3, <1>4, <1>5, RecorderSteps

\* A set of profiles that nobody reads outside of stays one.
LEMMA ReadsOnlyStays ==
  ASSUME TypeOK, Next, ~Spawns
  PROVE  /\ NobodyReads => NobodyReads'
         /\ \A p : ReadsOnly(p) => ReadsOnly(p)'
BY ReadersStay DEF NobodyReads, ReadsOnly

\* The commands keep to their places.
LEMMA CommandPlaceStep ==
  ASSUME IInv, Next
  PROVE  CommandPlace'
<1> USE DEF recorderVars, routerVars, wireVars, Goto, Thread, TypeOK, CommandPlace
<1>t. TypeOK /\ CommandPlace
  BY DEF IInv
<1>1. ASSUME NEW r \in Request, Begins(r) PROVE CommandPlace'
  BY <1>1, <1>t DEF Begins
<1>2. CASE StopNext("router")
  BY <1>2, <1>t DEF StopNext, KillsArecord, TakesTask, Joins, ForgetsProfile
<1>3. CASE IgnoresDuplicate \/ StopsOld \/ SetsProfile
  BY <1>3, <1>t DEF IgnoresDuplicate, StopsOld, SetsProfile, AfterStart
<1>4. CASE Spawns \/ SpawnFails \/ SetsChild \/ SetsTask
  BY <1>4, <1>t DEF Spawns, SpawnFails, SetsChild, SetsTask
<1>5. CASE AsksForClear \/ GetsAck \/ GetsNoAck \/ Answers
  BY <1>5, <1>t DEF AsksForClear, GetsAck, GetsNoAck, Answers
<1>6. CASE pc'["router"] = pc["router"] /\ UNCHANGED routerVars
  BY <1>6, <1>t
<1> QED
  BY <1>t, <1>1, <1>2, <1>3, <1>4, <1>5, <1>6, RouterSteps DEF CommandNext

\* A stop waits for the thread, and no start comes between the stop and its answer.
LEMMA SilentAfterStopStep ==
  ASSUME IInv, Next
  PROVE  SilentAfterStop'
<1> USE DEF recorderVars, routerVars, wireVars, Goto, Thread, TypeOK, SilentAfterStop
<1>t. TypeOK /\ SilentAfterStop /\ ThreadIsHeld /\ JoinsAlone /\ FieldsEmpty /\ CommandPlace
  BY DEF IInv
<1>n. ~Spawns /\ NobodyReads => NobodyReads'
  BY <1>t, ReadsOnlyStays
<1>1. ASSUME NEW r \in Request, Begins(r) PROVE SilentAfterStop'
  BY <1>1, <1>t DEF Begins
<1>2. CASE KillsArecord("router")
  BY <1>2, <1>t DEF KillsArecord
<1>3. CASE TakesTask("router")
  <2>1. CASE task = 0
    <3>1. NobodyReads
      BY <1>3, <1>t, <2>1 DEF TakesTask, TaskLocked, ThreadIsHeld, NobodyReads
    <3> QED
      BY <1>3, <3>1 DEF TakesTask, NobodyReads
  <2>2. CASE task # 0
    BY <1>3, <2>2, <1>t DEF TakesTask
  <2> QED
    BY <2>1, <2>2
<1>4. CASE Joins("router")
  <2>1. NobodyReads
    BY <1>4, <1>t DEF Joins, ThreadIsHeld, JoinsAlone, FieldsEmpty, NobodyReads
  <2> QED
    BY <1>4, <2>1 DEF Joins, NobodyReads
<1>5. CASE ForgetsProfile("router")
  BY <1>5, <1>t DEF ForgetsProfile, NobodyReads
<1>6. CASE IgnoresDuplicate \/ StopsOld \/ SetsProfile \/ Spawns \/ SetsChild \/ SetsTask
  BY <1>6, <1>t DEF IgnoresDuplicate, StopsOld, SetsProfile, Spawns, SetsChild, SetsTask,
                    AfterStart, CommandPlace, Start, Switch
<1>7. CASE SpawnFails
  BY <1>7, <1>t DEF SpawnFails, NobodyReads
<1>8. CASE AsksForClear \/ GetsAck \/ GetsNoAck
  BY <1>8, <1>t DEF AsksForClear, GetsAck, GetsNoAck, CommandPlace, Switch
<1>9. CASE Answers
  BY <1>9, <1>t DEF Answers
<1>10. CASE pc'["router"] = pc["router"] /\ UNCHANGED routerVars
  BY <1>10, <1>t, <1>n DEF Spawns
<1> QED
  BY <1>t, <1>1, <1>2, <1>3, <1>4, <1>5, <1>6, <1>7, <1>8, <1>9, <1>10, RouterSteps
     DEF CommandNext, StopNext

\* ProfileOf yields a profile, never the "none" of an empty field.
LEMMA ProfileOfType == \A r : ProfileOf(r) \in Profile /\ ProfileOf(r) # "none"
BY DEF ProfileOf, Profile

\* The field names the profile that runs, and so does the command before the
\* field is set.
LEMMA ProfileIsTrueStep ==
  ASSUME IInv, Next
  PROVE  ProfileIsTrue'
<1> DEFINE Starting == {"setChild", "setTask", "setProfile", "clear", "ack"}
<1> USE DEF recorderVars, routerVars, wireVars, Goto, Thread
<1>t. TypeOK /\ ProfileIsTrue /\ SilentAfterStop /\ FieldsEmpty
  BY DEF IInv
<1>n. ASSUME ~Spawns, NEW q, ReadsOnly(q) PROVE ReadsOnly(q)'
  BY <1>t, <1>n, ReadsOnlyStays
<1>s. ASSUME Spawns PROVE ProfileIsTrue'
  <2>1. recs' = Append(recs, [profile |-> ProfileOf(request), config |-> request.config,
                              alive |-> TRUE, reading |-> TRUE])
    BY <1>s DEF Spawns
  <2>2. \A i \in DOMAIN recs : ~recs[i].reading
    BY <1>s, <1>t DEF Spawns, SilentAfterStop, NobodyReads
  <2>3. ReadsOnly(ProfileOf(request))'
    BY <1>s, <2>1, <2>2, <1>t DEF Spawns, ReadsOnly, TypeOK
  <2> QED
    BY <1>s, <1>t, <2>3 DEF Spawns, ProfileIsTrue, FieldsEmpty
<1>1. ASSUME profile' # "none", ~Spawns PROVE ReadsOnly(profile)'
  <2>1. CASE profile' = profile
    BY <1>1, <2>1, <1>t, <1>n DEF ProfileIsTrue, ReadsOnly
  <2>2. CASE SetsProfile
    <3>1. ReadsOnly(ProfileOf(request))
      BY <2>2, <1>t DEF SetsProfile, ProfileIsTrue
    <3>2. UNCHANGED recs /\ profile' = ProfileOf(request)
      BY <2>2 DEF SetsProfile
    <3> QED
      BY <3>1, <3>2 DEF ReadsOnly
  <2>3. profile' = profile \/ SetsProfile
    <3>1. ASSUME NEW t \in Thread, KillsArecord(t) \/ TakesTask(t) \/ Joins(t) \/ ForgetsProfile(t)
          PROVE  profile' = profile
      BY <3>1, <1>1 DEF KillsArecord, TakesTask, Joins, ForgetsProfile
    <3>2. SetsChild \/ SetsTask \/ Elsewhere => profile' = profile
      BY DEF SetsChild, SetsTask, Elsewhere
    <3>3. \A i \in DOMAIN recs : Dies(i) \/ StopsReading(i) => profile' = profile
      BY DEF Dies, StopsReading
    <3> QED
      BY <1>1, <1>t, <3>1, <3>2, <3>3, RecorderSteps
  <2> QED
    BY <2>1, <2>2, <2>3
<1>2. ASSUME pc'["router"] \in Starting, ~Spawns
      PROVE  ReadsOnly(ProfileOf(request)) /\ ProfileOf(request)' = ProfileOf(request)
  <2> USE DEF TypeOK
  <2>1. \A r \in Request : ~Begins(r)
    BY <1>2, <1>t DEF Begins
  <2>2. CASE StopNext("router")
    BY <1>2, <2>2, <1>t DEF StopNext, KillsArecord, TakesTask, Joins, ForgetsProfile
  <2>3. CASE IgnoresDuplicate
    BY <2>3, <1>t, ProfileOfType DEF IgnoresDuplicate, ProfileIsTrue, ProfileOf
  <2>4. CASE SetsChild \/ SetsTask \/ SetsProfile
    BY <2>4, <1>t DEF SetsChild, SetsTask, SetsProfile, ProfileIsTrue, ProfileOf
  <2>5. CASE AsksForClear
    BY <2>5, <1>t DEF AsksForClear, ProfileIsTrue, ProfileOf
  <2>6. CASE StopsOld \/ SpawnFails \/ GetsAck \/ GetsNoAck \/ Answers
    BY <1>2, <2>6, <1>t DEF StopsOld, SpawnFails, GetsAck, GetsNoAck, Answers
  <2>7. CASE pc'["router"] = pc["router"] /\ UNCHANGED routerVars
    BY <1>2, <2>7, <1>t DEF ProfileIsTrue, ProfileOf
  <2> QED
    BY <1>2, <1>t, <2>1, <2>2, <2>3, <2>4, <2>5, <2>6, <2>7, RouterSteps DEF CommandNext
<1>3. ASSUME pc'["router"] \in Starting, ~Spawns
      PROVE  ReadsOnly(ProfileOf(request))'
  <2>1. ReadsOnly(ProfileOf(request)) /\ ProfileOf(request)' = ProfileOf(request)
    BY <1>2, <1>3
  <2>2. \A i \in DOMAIN recs' : recs'[i].reading => recs'[i].profile = ProfileOf(request)
    BY <1>3, <1>t, <2>1, ReadersStay DEF ReadsOnly
  <2> QED
    BY <2>1, <2>2 DEF ReadsOnly
<1> QED
  BY <1>s, <1>1, <1>3 DEF ProfileIsTrue

-----------------------------------------------------------------------------
(***************************************************************************)
(* The clear, its answer and the promise.                                  *)
(***************************************************************************)

\* One clear at a time, and only while the router waits for it.
LEMMA ClearIsAloneStep ==
  ASSUME IInv, Next
  PROVE  ClearIsAlone'
<1> USE DEF recorderVars, routerVars, wireVars, Goto, Thread, ClearIsAlone
<1>t. TypeOK /\ ClearIsAlone
  BY DEF IInv
<1>c. DOMAIN control = 1..Len(control) /\ Len(control) \in Nat
  BY <1>t, LenProperties DEF TypeOK
<1>1. ASSUME NEW r \in Request, Begins(r) PROVE ClearIsAlone'
  BY <1>1, <1>t, <1>c DEF Begins, Superseded, TypeOK
<1>2. CASE AsksForClear
  <2>1. (\A i \in DOMAIN control : control[i] # "clear") /\ hand # "clear" /\ ~acked
    BY <1>2, <1>t DEF AsksForClear
  <2>2. CASE UNCHANGED control
    BY <2>1, <2>2, <1>2 DEF AsksForClear
  <2>3. CASE phase # "exited"
    <3>1. control' = Append(control, "clear") /\ UNCHANGED <<hand, acked>> /\ pc'["router"] = "ack"
      BY <1>2, <2>3, <1>t DEF AsksForClear, TypeOK
    <3>2. DOMAIN control' = 1..Len(control) + 1
            /\ \A i \in DOMAIN control' : control'[i] = "clear" => i = Len(control) + 1
      BY <3>1, <2>1, <1>t, <1>c DEF TypeOK
    <3> QED
      BY <3>1, <3>2, <2>1
  <2> QED
    BY <2>2, <2>3, <1>2 DEF AsksForClear
<1>3. CASE GetsAck
  BY <1>3, <1>t, <1>c DEF GetsAck, TypeOK
<1>4. CASE GetsNoAck
  BY <1>4, <1>t, <1>c DEF GetsNoAck, Late, TypeOK
<1>5. CASE Answers
  BY <1>5, <1>t, <1>c DEF Answers, Answer, TypeOK
<1>6. CASE TakesControl
  <2>1. /\ hand' = control[1] /\ 1 \in DOMAIN control
        /\ DOMAIN control' = 1..(Len(control) - 1)
        /\ \A i \in DOMAIN control' : control'[i] = control[i + 1] /\ i + 1 \in DOMAIN control
    BY <1>6, <1>t, <1>c DEF TakesControl, TypeOK
  <2>2. UNCHANGED <<pc, acked>> /\ hand = "none"
    BY <1>6 DEF TakesControl
  <2>3. ASSUME NEW i \in DOMAIN control', control'[i] = "clear"
        PROVE  /\ pc["router"] = "ack" /\ ~acked /\ control[1] # "clear"
               /\ \A j \in DOMAIN control' : control'[j] = "clear" => j = i
    <3>1. control[i + 1] = "clear" /\ i + 1 \in DOMAIN control /\ i \in 1..(Len(control) - 1)
      BY <2>1, <2>3
    <3>2. /\ pc["router"] = "ack" /\ ~acked
          /\ \A j \in DOMAIN control : control[j] = "clear" => j = i + 1
      BY <3>1, <1>t
    <3>3. ASSUME NEW j \in DOMAIN control', control'[j] = "clear" PROVE j = i
      <4>1. j + 1 = i + 1
        BY <2>1, <3>2, <3>3
      <4> QED
        BY <4>1, <3>1, <2>1, <3>3, <1>c
    <3> QED
      BY <2>1, <3>1, <3>2, <3>3, <1>c
  <2> QED
    BY <2>1, <2>2, <2>3, <1>t
<1>7. CASE Cleared \/ SendsText \/ SendsAudio
  <2>1. hand' = "none" /\ UNCHANGED <<control, pc>>
    BY <1>7 DEF Cleared, SendsText, SendsAudio
  <2>2. acked' => acked \/ hand = "clear"
    BY <1>7 DEF Cleared, SendsText, SendsAudio
  <2> QED
    BY <2>1, <2>2, <1>t
<1>8. CASE TakesAudio
  BY <1>8, <1>t, <1>c DEF TakesAudio, TypeOK, Profile
<1>9. CASE WriterExits
  BY <1>9, <1>t DEF WriterExits
<1>10. ASSUME UNCHANGED <<control, hand, acked>>,
              pc["router"] = "ack" => pc'["router"] = "ack"
       PROVE  ClearIsAlone'
  BY <1>10, <1>t
<1>11. CASE ClearsFrame \/ ControlDrained \/ AudioDrained
  BY <1>11, <1>10 DEF ClearsFrame, ControlDrained, AudioDrained
<1>12. ASSUME NEW t \in Thread, StopNext(t) PROVE ClearIsAlone'
  BY <1>12, <1>10, <1>t DEF StopNext, KillsArecord, TakesTask, Joins, ForgetsProfile, TypeOK
<1>13. CASE IgnoresDuplicate \/ StopsOld \/ Spawns \/ SpawnFails \/ SetsChild \/ SetsTask
              \/ SetsProfile \/ Detached
  BY <1>13, <1>10, <1>t DEF IgnoresDuplicate, StopsOld, Spawns, SpawnFails, SetsChild, SetsTask,
                             SetsProfile, Detached, TypeOK
<1>14. ASSUME NEW i \in DOMAIN recs, Dies(i) \/ Captures(i) \/ StopsReading(i) PROVE ClearIsAlone'
  BY <1>14, <1>10 DEF Dies, Captures, StopsReading
<1> QED
  BY <1>1, <1>2, <1>3, <1>4, <1>5, <1>6, <1>7, <1>8, <1>9, <1>11, <1>12, <1>13, <1>14
     DEF Next, CommandNext, WriterNext

\* Frames of one profile stay frames of that profile.
LEMMA CleanStays ==
  ASSUME TypeOK, Next, ~Spawns, NEW p \in Profile, Clean(p)
  PROVE  Clean(p)'
<1> USE DEF recorderVars, routerVars, wireVars
<1>1. ReadsOnly(p)'
  BY ReadsOnlyStays DEF Clean
<1>c. /\ DOMAIN audio = 1..Len(audio) /\ Len(audio) \in Nat
      /\ \A i \in DOMAIN control : control[i] \in Text \cup Clear
  BY LenProperties, ElementOfSeq DEF TypeOK
<1>2. ASSUME NEW i \in DOMAIN recs, Captures(i) PROVE Clean(p)'
  <2>1. audio' = Append(audio, p) /\ UNCHANGED hand
    BY <1>2 DEF Captures, Clean, ReadsOnly
  <2> QED
    BY <2>1, <1>1, <1>c DEF Clean, TypeOK
<1>3. ASSUME UNCHANGED audio \/ audio' = <<>> \/ (audio # <<>> /\ audio' = Tail(audio)),
             hand' \in Profile => hand' = hand \/ (audio # <<>> /\ hand' = Head(audio))
      PROVE  Clean(p)'
  <2>c. audio # <<>> => /\ Head(audio) = audio[1]
                        /\ 1 \in DOMAIN audio
                        /\ Len(Tail(audio)) = Len(audio) - 1
                        /\ \A i \in 1..Len(Tail(audio)) : Tail(audio)[i] = audio[i + 1]
                        /\ DOMAIN Tail(audio) = 1..Len(Tail(audio))
    BY <1>c, HeadTailProperties, EmptySeq, LenProperties DEF TypeOK
  <2>1. \A i \in DOMAIN audio' : audio'[i] = p
    <3>1. CASE UNCHANGED audio
      BY <3>1 DEF Clean
    <3>2. CASE audio' = <<>>
      BY <3>2
    <3>3. CASE audio # <<>> /\ audio' = Tail(audio)
      <4>1. SUFFICES ASSUME NEW i \in DOMAIN audio' PROVE audio'[i] = p
        OBVIOUS
      <4>2. i + 1 \in DOMAIN audio /\ audio'[i] = audio[i + 1]
        BY <2>c, <3>3, <1>c
      <4> QED
        BY <4>2 DEF Clean
    <3> QED
      BY <1>3, <3>1, <3>2, <3>3
  <2>2. hand' \in Profile => hand' = p
    BY <1>3, <2>c DEF Clean
  <2> QED
    BY <1>1, <2>1, <2>2 DEF Clean
<1>4. CASE TakesControl
  <2>1. hand' \in Text \cup Clear
    BY <1>4, <1>c DEF TakesControl, TypeOK
  <2> QED
    BY <1>4, <2>1, <1>3 DEF TakesControl, Text, Clear, Profile
<1>5. CASE ClearsFrame \/ TakesAudio
  BY <1>5, <1>3 DEF ClearsFrame, TakesAudio
<1>6. CASE Cleared \/ SendsText \/ ControlDrained \/ SendsAudio \/ AudioDrained \/ WriterExits
  BY <1>6, <1>3 DEF Cleared, SendsText, ControlDrained, SendsAudio, AudioDrained, WriterExits, Profile
<1>7. CASE GetsNoAck
  BY <1>7, <1>3 DEF GetsNoAck, Late, Profile
<1>8. ASSUME NEW r \in Request, Begins(r) PROVE Clean(p)'
  BY <1>8, <1>3 DEF Begins, Superseded, Profile
<1>9. ASSUME NEW t \in Thread, StopNext(t) PROVE Clean(p)'
  BY <1>9, <1>3 DEF StopNext, KillsArecord, TakesTask, Joins, ForgetsProfile
<1>10. CASE IgnoresDuplicate \/ StopsOld \/ SpawnFails \/ SetsChild \/ SetsTask \/ SetsProfile
  BY <1>10, <1>3 DEF IgnoresDuplicate, StopsOld, SpawnFails, SetsChild, SetsTask, SetsProfile
<1>11. CASE AsksForClear \/ GetsAck \/ Answers \/ Detached
  BY <1>11, <1>3 DEF AsksForClear, GetsAck, Answers, Detached
<1>12. ASSUME NEW i \in DOMAIN recs, Dies(i) \/ StopsReading(i) PROVE Clean(p)'
  BY <1>12, <1>3 DEF Dies, StopsReading
<1> QED
  BY <1>2, <1>4, <1>5, <1>6, <1>7, <1>8, <1>9, <1>10, <1>11, <1>12
     DEF Next, CommandNext, WriterNext, Thread

\* An "ok" is given by the answer to a command that has come so far.
LEMMA OkComesFrom ==
  ASSUME TypeOK, Next, OkGiven'
  PROVE  \/ OkGiven /\ \A r \in Request : ~Begins(r)
         \/ Due /\ Answers
<1> USE DEF recorderVars, routerVars, wireVars, OkGiven
<1>c. DOMAIN control = 1..Len(control) /\ Len(control) \in Nat
  BY LenProperties DEF TypeOK
<1>1. ASSUME NEW r \in Request, Begins(r) PROVE FALSE
  BY <1>1, <1>c DEF Begins, Superseded
<1>2. CASE Answers
  <2>1. CASE UNCHANGED control
    BY <1>1, <1>2, <2>1 DEF Answers
  <2>2. CASE control' = Append(control, Answer)
    BY <1>1, <1>2, <2>2, <1>c DEF Answers, Answer, Due, TypeOK
  <2> QED
    BY <1>2, <2>1, <2>2 DEF Answers
<1>3. CASE AsksForClear
  <2>1. UNCHANGED <<hand, announced>> /\ (UNCHANGED control \/ control' = Append(control, "clear"))
    BY <1>3 DEF AsksForClear
  <2>2. CASE UNCHANGED control
    BY <1>1, <2>1, <2>2
  <2>3. CASE control' = Append(control, "clear")
    <3>1. /\ DOMAIN control' = 1..(Len(control) + 1)
          /\ \A i \in DOMAIN control : control'[i] = control[i]
          /\ control'[Len(control) + 1] = "clear"
      BY <2>3, <1>c, AppendProperties DEF TypeOK
    <3> QED
      BY <1>1, <2>1, <3>1, <1>c
  <2> QED
    BY <2>1, <2>2, <2>3
<1>4. CASE GetsNoAck
  BY <1>1, <1>4, <1>c DEF GetsNoAck, Late
<1>5. CASE TakesControl
  BY <1>1, <1>5, <1>c DEF TakesControl, TypeOK
<1>6. CASE SendsText
  BY <1>1, <1>6 DEF SendsText
<1>7. CASE Cleared \/ SendsAudio \/ WriterExits
  BY <1>1, <1>7 DEF Cleared, SendsAudio, WriterExits
<1>8. CASE TakesAudio
  <2>1. hand' \in Profile /\ UNCHANGED <<control, announced>>
    BY <1>8, HeadTailProperties DEF TakesAudio, TypeOK
  <2> QED
    BY <1>1, <2>1 DEF Profile
<1>9. CASE UNCHANGED <<control, hand, announced>>
  BY <1>1, <1>9
<1>10. CASE ClearsFrame \/ ControlDrained \/ AudioDrained \/ GetsAck \/ Detached
  BY <1>9, <1>10 DEF ClearsFrame, ControlDrained, AudioDrained, GetsAck, Detached
<1>11. ASSUME NEW t \in Thread, StopNext(t) PROVE UNCHANGED <<control, hand, announced>>
  BY <1>11 DEF StopNext, KillsArecord, TakesTask, Joins, ForgetsProfile
<1>12. CASE IgnoresDuplicate \/ StopsOld \/ Spawns \/ SpawnFails \/ SetsChild \/ SetsTask
              \/ SetsProfile
  BY <1>9, <1>12 DEF IgnoresDuplicate, StopsOld, Spawns, SpawnFails, SetsChild, SetsTask,
                     SetsProfile
<1>13. ASSUME NEW i \in DOMAIN recs, Dies(i) \/ Captures(i) \/ StopsReading(i)
       PROVE  UNCHANGED <<control, hand, announced>>
  BY <1>13 DEF Dies, Captures, StopsReading
<1> QED
  BY <1>1, <1>2, <1>3, <1>4, <1>5, <1>6, <1>7, <1>8, <1>9, <1>10, <1>11, <1>12, <1>13
     DEF Next, CommandNext, WriterNext, Thread

\* The queue is cleared by the writer's work on the clear and by nothing else.
LEMMA DueComesFrom ==
  ASSUME TypeOK, Next, Due'
  PROVE  \/ Due
         \/ Cleared /\ hand = "clear"
<1> USE DEF recorderVars, routerVars, wireVars, Goto, Thread, TypeOK, Due
<1>1. ASSUME NEW r \in Request, Begins(r) PROVE Due
  BY <1>1 DEF Begins
<1>2. CASE StopNext("router")
  BY <1>2 DEF StopNext, KillsArecord, TakesTask, Joins, ForgetsProfile, Start, Switch
<1>3. CASE IgnoresDuplicate \/ StopsOld \/ SetsProfile
  BY <1>3 DEF IgnoresDuplicate, StopsOld, SetsProfile, AfterStart
<1>4. CASE Spawns \/ SpawnFails \/ SetsChild \/ SetsTask
  BY <1>4 DEF Spawns, SpawnFails, SetsChild, SetsTask
<1>5. CASE AsksForClear \/ GetsAck \/ GetsNoAck \/ Answers
  BY <1>5 DEF AsksForClear, GetsAck, GetsNoAck, Answers
<1>6. CASE Cleared
  BY <1>6 DEF Cleared
<1>7. ASSUME UNCHANGED acked, pc'["router"] = pc["router"], UNCHANGED routerVars PROVE Due
  BY <1>7
<1>8. CASE StopNext("supervisor") \/ Detached
  BY <1>8, <1>7 DEF StopNext, KillsArecord, TakesTask, Joins, ForgetsProfile, Detached
<1>9. CASE TakesControl \/ ClearsFrame \/ SendsText \/ ControlDrained \/ TakesAudio
             \/ SendsAudio \/ AudioDrained \/ WriterExits
  BY <1>9, <1>7 DEF TakesControl, ClearsFrame, SendsText, ControlDrained, TakesAudio,
                    SendsAudio, AudioDrained, WriterExits
<1>10. ASSUME NEW i \in DOMAIN recs, Dies(i) \/ Captures(i) \/ StopsReading(i) PROVE Due
  BY <1>10, <1>7 DEF Dies, Captures, StopsReading
<1> QED
  BY <1>1, <1>2, <1>3, <1>4, <1>5, <1>6, <1>8, <1>9, <1>10 DEF Next, CommandNext, WriterNext

\* The writer answers a clear when the queue is empty, and from then on nothing
\* but the new format is recorded until the next command.
LEMMA OnlyPromisedStep ==
  ASSUME IInv, Next
  PROVE  OnlyPromised'
<1> DEFINE p == ProfileOf(request)
<1> USE DEF recorderVars, routerVars, wireVars, Goto, Thread
<1>t. TypeOK /\ OnlyPromised /\ ClearIsAlone /\ CommandPlace /\ ProfileIsTrue
  BY DEF IInv
<1>1. OkGiven' => pc'["router"] \in {"idle", "dead"}
  <2>1. CASE Answers
    BY <2>1, <1>t DEF Answers, TypeOK
  <2>2. CASE OkGiven /\ \A r \in Request : ~Begins(r)
    <3>1. pc["router"] \in {"idle", "dead"}
      BY <2>2, <1>t DEF OnlyPromised
    <3>2. ~CommandNext
      BY <3>1 DEF CommandNext, StopNext, KillsArecord, TakesTask, Joins, ForgetsProfile,
                  IgnoresDuplicate, StopsOld, Spawns, SpawnFails, SetsChild, SetsTask, SetsProfile,
                  AsksForClear, GetsAck, GetsNoAck, Answers
    <3> QED
      BY <2>2, <3>1, <3>2, <1>t, RouterSteps
  <2> QED
    BY <1>t, <2>1, <2>2, OkComesFrom
<1>2. Due' \/ OkGiven' => \A r \in Request : ~Begins(r)
  <2>1. ASSUME NEW r \in Request, Begins(r), Due' PROVE FALSE
    BY <2>1, <1>t DEF Begins, Due, ClearIsAlone, TypeOK
  <2>2. ASSUME NEW r \in Request, Begins(r), OkGiven' PROVE FALSE
    BY <2>2, <1>1, <1>t DEF Begins, TypeOK
  <2> QED
    BY <2>1, <2>2
<1>3. ASSUME \A r \in Request : ~Begins(r) PROVE UNCHANGED request
  BY <1>3, <1>t, RouterSteps
     DEF CommandNext, StopNext, KillsArecord, TakesTask, Joins, ForgetsProfile,
         IgnoresDuplicate, StopsOld, Spawns, SpawnFails, SetsChild, SetsTask, SetsProfile,
         AsksForClear, GetsAck, GetsNoAck, Answers
<1>4. ASSUME Due' \/ OkGiven' PROVE Clean(p)'
  <2>1. UNCHANGED request
    BY <1>4, <1>2, <1>3
  <2>2. CASE Cleared /\ hand = "clear"
    <3>1. ReadsOnly(p) /\ ~Spawns
      BY <2>2, <1>t DEF ClearIsAlone, ProfileIsTrue, Spawns
    <3>2. ReadsOnly(p)'
      BY <3>1, <2>1, <1>t, ReadsOnlyStays DEF ReadsOnly, ProfileOf
    <3> QED
      BY <2>2, <3>2 DEF Cleared, Clean, Profile
  <2>3. CASE Due \/ OkGiven
    <3>1. ~Spawns
      BY <2>3, <1>t DEF Spawns, Due, ClearIsAlone, OnlyPromised
    <3>2. Clean(p)
      BY <2>3, <1>t DEF OnlyPromised
    <3>3. \A q \in Profile : Clean(q) => Clean(q)'
      BY <3>1, <1>t, CleanStays
    <3> QED
      BY <3>2, <3>3, <2>1, ProfileOfType DEF Clean, ReadsOnly, ProfileOf
  <2> QED
    BY <1>4, <1>t, <2>2, <2>3, DueComesFrom, OkComesFrom
<1>5. announced' # "none" => announced' = p'
  <2>1. ASSUME announced' # "none"
        PROVE  announced' = p /\ UNCHANGED request
    <3>1. OkGiven'
      BY <2>1 DEF OkGiven
    <3>2. UNCHANGED request
      BY <3>1, <1>2, <1>3
    <3>3. CASE SendsText
      BY <3>3, <2>1, <1>t DEF SendsText, OnlyPromised
    <3>4. CASE UNCHANGED announced
      BY <3>4, <3>2, <2>1, <1>t DEF OnlyPromised
    <3>5. ASSUME NEW t \in Thread, StopNext(t) PROVE UNCHANGED announced
      BY <3>5 DEF StopNext, KillsArecord, TakesTask, Joins, ForgetsProfile
    <3>6. CASE CommandNext
      BY <3>4, <3>5, <3>6 DEF CommandNext, IgnoresDuplicate, StopsOld, Spawns, SpawnFails, SetsChild,
           SetsTask, SetsProfile, AsksForClear, GetsAck, GetsNoAck, Answers
    <3>7. CASE WriterNext
      BY <3>3, <3>4, <3>7 DEF WriterNext, TakesControl, ClearsFrame, Cleared, ControlDrained,
           TakesAudio, SendsAudio, AudioDrained, WriterExits
    <3>8. ASSUME NEW i \in DOMAIN recs, Dies(i) \/ Captures(i) \/ StopsReading(i)
          PROVE  UNCHANGED announced
      BY <3>8 DEF Dies, Captures, StopsReading
    <3>9. CASE Detached
      BY <3>4, <3>9 DEF Detached
    <3> QED
      BY <3>2, <3>4, <3>5, <3>6, <3>7, <3>8, <3>9, <3>1, <1>2 DEF Next
  <2> QED
    BY <2>1 DEF ProfileOf
<1> QED
  BY <1>1, <1>4, <1>5 DEF OnlyPromised

-----------------------------------------------------------------------------
(***************************************************************************)
(* What the supervisor leaves behind.                                      *)
(***************************************************************************)

\* Every step moves one of the two threads, or neither of them.
LEMMA ThreadSteps ==
  ASSUME Next
  PROVE  \/ \E r \in Request : Begins(r)
         \/ \E t \in Thread : KillsArecord(t) \/ TakesTask(t) \/ Joins(t) \/ ForgetsProfile(t)
         \/ IgnoresDuplicate \/ StopsOld \/ SetsProfile
         \/ Spawns \/ SpawnFails
         \/ SetsChild \/ SetsTask
         \/ AsksForClear \/ GetsAck \/ GetsNoAck \/ Answers
         \/ Detached
         \/ UNCHANGED <<pc, routerVars, recorderVars>>
<1>1. ASSUME NEW i \in DOMAIN recs, Dies(i) \/ Captures(i) \/ StopsReading(i)
      PROVE  UNCHANGED <<pc, routerVars, recorderVars>>
  BY <1>1 DEF Dies, Captures, StopsReading
<1>2. CASE WriterNext
  BY <1>2 DEF WriterNext, TakesControl, ClearsFrame, Cleared, SendsText, ControlDrained,
              TakesAudio, SendsAudio, AudioDrained, WriterExits
<1> QED
  BY <1>1, <1>2 DEF Next, CommandNext, StopNext, Thread

\* The child the supervisor has taken comes back only from a start under way.
LEMMA ChildTakenStep ==
  ASSUME IInv, Next
  PROVE  ChildTaken'
<1> USE DEF recorderVars, routerVars, wireVars, Goto, Thread, TypeOK
<1>t. TypeOK /\ ChildTaken /\ CommandPlace /\ FieldsEmpty
  BY DEF IInv
<1>1. ASSUME NEW r \in Request, Begins(r) PROVE ChildTaken'
  BY <1>1, <1>t DEF Begins, ChildTaken, CommandPlace, FieldsEmpty, Start, Switch
<1>2. ASSUME NEW t \in Thread, KillsArecord(t) PROVE ChildTaken'
  BY <1>2, <1>t DEF KillsArecord, ChildTaken, CommandPlace, FieldsEmpty, Start, Switch
<1>3. ASSUME NEW t \in Thread, TakesTask(t) PROVE ChildTaken'
  BY <1>3, <1>t DEF TakesTask, TaskLocked, ChildTaken, CommandPlace, FieldsEmpty, Start, Switch
<1>4. ASSUME NEW t \in Thread, Joins(t) PROVE ChildTaken'
  BY <1>4, <1>t DEF Joins, ChildTaken, CommandPlace, FieldsEmpty, Start, Switch
<1>5. ASSUME NEW t \in Thread, ForgetsProfile(t) PROVE ChildTaken'
  BY <1>5, <1>t DEF ForgetsProfile, ChildTaken, CommandPlace, FieldsEmpty, Start, Switch
<1>6. CASE IgnoresDuplicate \/ StopsOld \/ SetsProfile
  BY <1>6, <1>t DEF IgnoresDuplicate, StopsOld, SetsProfile, AfterStart, ChildTaken,
      CommandPlace, FieldsEmpty, Start, Switch
<1>7. CASE Spawns \/ SpawnFails
  BY <1>7, <1>t DEF Spawns, SpawnFails, ChildTaken, CommandPlace, FieldsEmpty, Start, Switch
<1>8. CASE SetsChild \/ SetsTask
  BY <1>8, <1>t DEF SetsChild, SetsTask, TaskLocked, ChildTaken, CommandPlace, FieldsEmpty,
      Start, Switch
<1>9. CASE AsksForClear \/ GetsAck \/ GetsNoAck \/ Answers
  BY <1>9, <1>t DEF AsksForClear, GetsAck, GetsNoAck, Answers, ChildTaken, CommandPlace,
      FieldsEmpty, Start, Switch
<1>10. CASE Detached
  BY <1>10, <1>t DEF Detached, ChildTaken, CommandPlace, FieldsEmpty, Start, Switch
<1>11. CASE UNCHANGED <<pc, routerVars, recorderVars>>
  BY <1>11, <1>t DEF ChildTaken, CommandPlace, FieldsEmpty, Start, Switch
<1> QED
  BY <1>t, <1>1, <1>2, <1>3, <1>4, <1>5, <1>6, <1>7, <1>8, <1>9, <1>10, <1>11,
     ThreadSteps

\* The thread likewise; while the supervisor joins, no start gets that far.
LEMMA TaskTakenStep ==
  ASSUME IInv, Next
  PROVE  TaskTaken'
<1> USE DEF recorderVars, routerVars, wireVars, Goto, Thread, TypeOK
<1>t. TypeOK /\ TaskTaken /\ JoinsAlone /\ CommandPlace /\ FieldsEmpty
  BY DEF IInv
<1>1. ASSUME NEW r \in Request, Begins(r) PROVE TaskTaken'
  BY <1>1, <1>t DEF Begins, TaskTaken, JoinsAlone, CommandPlace, FieldsEmpty, Start, Switch
<1>2. ASSUME NEW t \in Thread, KillsArecord(t) PROVE TaskTaken'
  BY <1>2, <1>t DEF KillsArecord, TaskTaken, JoinsAlone, CommandPlace, FieldsEmpty, Start,
      Switch
<1>3. ASSUME NEW t \in Thread, TakesTask(t) PROVE TaskTaken'
  BY <1>3, <1>t DEF TakesTask, TaskLocked, TaskTaken, JoinsAlone, CommandPlace, FieldsEmpty,
      Start, Switch
<1>4. ASSUME NEW t \in Thread, Joins(t) PROVE TaskTaken'
  BY <1>4, <1>t DEF Joins, TaskTaken, JoinsAlone, CommandPlace, FieldsEmpty, Start, Switch
<1>5. ASSUME NEW t \in Thread, ForgetsProfile(t) PROVE TaskTaken'
  BY <1>5, <1>t DEF ForgetsProfile, TaskTaken, JoinsAlone, CommandPlace, FieldsEmpty, Start,
      Switch
<1>6. CASE IgnoresDuplicate \/ StopsOld \/ SetsProfile
  BY <1>6, <1>t DEF IgnoresDuplicate, StopsOld, SetsProfile, AfterStart, TaskTaken, JoinsAlone,
      CommandPlace, FieldsEmpty, Start, Switch
<1>7. CASE Spawns \/ SpawnFails
  BY <1>7, <1>t DEF Spawns, SpawnFails, TaskTaken, JoinsAlone, CommandPlace, FieldsEmpty, Start,
      Switch
<1>8. CASE SetsChild \/ SetsTask
  BY <1>8, <1>t DEF SetsChild, SetsTask, TaskLocked, TaskTaken, JoinsAlone, CommandPlace,
      FieldsEmpty, Start, Switch
<1>9. CASE AsksForClear \/ GetsAck \/ GetsNoAck \/ Answers
  BY <1>9, <1>t DEF AsksForClear, GetsAck, GetsNoAck, Answers, TaskTaken, JoinsAlone,
      CommandPlace, FieldsEmpty, Start, Switch
<1>10. CASE Detached
  BY <1>10, <1>t DEF Detached, TaskTaken, JoinsAlone, CommandPlace, FieldsEmpty, Start, Switch
<1>11. CASE UNCHANGED <<pc, routerVars, recorderVars>>
  BY <1>11, <1>t DEF TaskTaken, JoinsAlone, CommandPlace, FieldsEmpty, Start, Switch
<1> QED
  BY <1>t, <1>1, <1>2, <1>3, <1>4, <1>5, <1>6, <1>7, <1>8, <1>9, <1>10, <1>11,
     ThreadSteps

\* Whoever reads is found by the supervisor, or a start has gone past it.
LEMMA QuietBehindStep ==
  ASSUME IInv, Next
  PROVE  QuietBehind'
<1> USE DEF recorderVars, routerVars, wireVars, Goto, Thread, TypeOK
<1>t. TypeOK /\ QuietBehind /\ TaskTaken /\ JoinsAlone /\ ThreadIsHeld /\ CommandPlace /\ FieldsEmpty /\ SilentAfterStop
  BY DEF IInv
<1>d. DOMAIN recs = 1..Len(recs) /\ Len(recs) \in Nat
  BY <1>t, RecordingTypes
<1>n. ~Spawns /\ NobodyReads => NobodyReads'
  BY <1>t, ReadsOnlyStays
<1>1. ASSUME NEW r \in Request, Begins(r) PROVE QuietBehind'
  BY <1>1, <1>t, <1>n DEF Begins, QuietBehind, TaskTaken, JoinsAlone, ThreadIsHeld,
      CommandPlace, FieldsEmpty, SilentAfterStop, NobodyReads, Start, Switch
<1>2. ASSUME NEW t \in Thread, KillsArecord(t) PROVE QuietBehind'
  BY <1>2, <1>t, <1>n DEF KillsArecord, QuietBehind, TaskTaken, JoinsAlone, ThreadIsHeld,
      CommandPlace, FieldsEmpty, SilentAfterStop, NobodyReads, Start, Switch
<1>3. ASSUME NEW t \in Thread, TakesTask(t) PROVE QuietBehind'
  BY <1>3, <1>t, <1>n DEF TakesTask, TaskLocked, QuietBehind, TaskTaken, JoinsAlone,
      ThreadIsHeld, CommandPlace, FieldsEmpty, SilentAfterStop, NobodyReads, Start, Switch
<1>4. ASSUME NEW t \in Thread, Joins(t) PROVE QuietBehind'
  BY <1>4, <1>t, <1>n DEF Joins, QuietBehind, TaskTaken, JoinsAlone, ThreadIsHeld, CommandPlace,
      FieldsEmpty, SilentAfterStop, NobodyReads, Start, Switch
<1>5. ASSUME NEW t \in Thread, ForgetsProfile(t) PROVE QuietBehind'
  BY <1>5, <1>t, <1>n DEF ForgetsProfile, QuietBehind, TaskTaken, JoinsAlone, ThreadIsHeld,
      CommandPlace, FieldsEmpty, SilentAfterStop, NobodyReads, Start, Switch
<1>6. CASE IgnoresDuplicate \/ StopsOld \/ SetsProfile
  BY <1>6, <1>t, <1>n DEF IgnoresDuplicate, StopsOld, SetsProfile, AfterStart, QuietBehind,
      TaskTaken, JoinsAlone, ThreadIsHeld, CommandPlace, FieldsEmpty, SilentAfterStop,
      NobodyReads, Start, Switch
<1>7. CASE Spawns \/ SpawnFails
  BY <1>7, <1>t, <1>n DEF Spawns, SpawnFails, QuietBehind, TaskTaken, JoinsAlone, ThreadIsHeld,
      CommandPlace, FieldsEmpty, SilentAfterStop, NobodyReads, Start, Switch
<1>8. CASE SetsChild \/ SetsTask
  BY <1>8, <1>t, <1>n DEF SetsChild, SetsTask, TaskLocked, QuietBehind, TaskTaken, JoinsAlone,
      ThreadIsHeld, CommandPlace, FieldsEmpty, SilentAfterStop, NobodyReads, Start, Switch
<1>9. CASE AsksForClear \/ GetsAck \/ GetsNoAck \/ Answers
  BY <1>9, <1>t, <1>n DEF AsksForClear, GetsAck, GetsNoAck, Answers, QuietBehind, TaskTaken,
      JoinsAlone, ThreadIsHeld, CommandPlace, FieldsEmpty, SilentAfterStop, NobodyReads, Start,
      Switch
<1>10. CASE Detached
  BY <1>10, <1>t, <1>n DEF Detached, QuietBehind, TaskTaken, JoinsAlone, ThreadIsHeld,
      CommandPlace, FieldsEmpty, SilentAfterStop, NobodyReads, Start, Switch
<1>11. CASE UNCHANGED <<pc, routerVars, recorderVars>>
  BY <1>11, <1>t, <1>n DEF Spawns, QuietBehind
<1> QED
  BY <1>t, <1>1, <1>2, <1>3, <1>4, <1>5, <1>6, <1>7, <1>8, <1>9, <1>10, <1>11,
     ThreadSteps

-----------------------------------------------------------------------------
(***************************************************************************)
(* The theorems.                                                           *)
(***************************************************************************)

\* Nothing has happened yet.
LEMMA InvInit == Init => IInv
<1> SUFFICES ASSUME Init PROVE IInv
  OBVIOUS
<1>1. DOMAIN recs = {} /\ DOMAIN control = {} /\ DOMAIN audio = {}
  BY DEF Init
<1>2. /\ OnlyLatestReads /\ ArecordIsHeld /\ ThreadIsHeld /\ NobodyReads
      /\ \A p : ReadsOnly(p)
  BY <1>1 DEF OnlyLatestReads, ArecordIsHeld, ThreadIsHeld, NobodyReads, ReadsOnly
<1>3. /\ JoinsAlone /\ FieldsEmpty /\ CommandPlace /\ ClearIsAlone /\ ~OkGiven /\ ~Due
  BY <1>1 DEF Init, Thread, JoinsAlone, FieldsEmpty, CommandPlace, ClearIsAlone, OkGiven, Due
<1>4. ChildTaken /\ TaskTaken /\ QuietBehind
  BY DEF Init, Thread, ChildTaken, TaskTaken, QuietBehind
<1> QED
  BY <1>2, <1>3, <1>4, TypeInit DEF IInv, Init, SilentAfterStop, ProfileIsTrue, OnlyPromised

\* A step that changes nothing changes nothing.
LEMMA InvStutter == IInv /\ UNCHANGED vars => IInv'
BY DEF vars, IInv, TypeOK, OnlyLatestReads, ArecordIsHeld, ThreadIsHeld, JoinsAlone, FieldsEmpty,
       SilentAfterStop, NobodyReads, ChildTaken, TaskTaken, QuietBehind, CommandPlace,
       ProfileIsTrue, ReadsOnly, ClearIsAlone,
       OnlyPromised, OkGiven, Due, Clean, ProfileOf

\* The invariant behind the safety properties of the recorder.
THEOREM Invariance == Spec => []IInv
<1>1. IInv /\ [Next]_vars => IInv'
  <2>1. ASSUME IInv, Next PROVE IInv'
    BY <2>1, TypeStep, OnlyLatestReadsStep, ArecordIsHeldStep, ThreadIsHeldStep, JoinsAloneStep,
       FieldsEmptyStep, SilentAfterStopStep, ChildTakenStep, TaskTakenStep, QuietBehindStep,
       CommandPlaceStep, ProfileIsTrueStep,
       ClearIsAloneStep, OnlyPromisedStep DEF IInv
  <2> QED
    BY <2>1, InvStutter
<1> QED
  BY InvInit, <1>1, PTL DEF Spec

\* Type correctness.
THEOREM TypeCorrect == Spec => []TypeOK
<1>1. IInv => TypeOK
  BY DEF IInv
<1> QED
  BY Invariance, <1>1, PTL

\* The capture device is never opened twice (recorder.rs: no repeated reopen).
THEOREM DeviceSafe == Spec => []OneArecord
<1>1. IInv => OneArecord
  BY DEF IInv, OnlyLatestReads, OneArecord
<1> QED
  BY Invariance, <1>1, PTL

\* After llm_start_ok and llm_stop_ok only the promised format is sent.
THEOREM FormatSafe == Spec => []FormatKept
<1>1. IInv => FormatKept
  BY DEF IInv, OnlyPromised, OkGiven, Clean, FormatKept
<1> QED
  BY Invariance, <1>1, PTL

\* When stop_recording is answered nothing records any more.
THEOREM StopSafe == Spec => []StopStops
<1>1. IInv => StopStops
  BY DEF IInv, SilentAfterStop, NobodyReads, OnlyLatestReads, StopStops
<1> QED
  BY Invariance, <1>1, PTL

\* A supervisor that no start has gone past leaves a silent recorder.
THEOREM DepartureSafe == Spec => []QuietDeparture
<1>1. IInv => QuietDeparture
  BY DEF IInv, QuietBehind, NobodyReads, OnlyLatestReads, QuietDeparture
<1> QED
  BY Invariance, <1>1, PTL

\* A thread that is joined has lost its arecord, except behind a start, and a
\* start does not wait for the lock of the task it stores.
THEOREM JoinSafe == Spec => []JoinHasEnd
<1>1. ASSUME IInv PROVE JoinHasEnd
  <2>1. ASSUME NEW t \in Thread, pc[t] = "joined",
               pc["router"] \in Stopping \/ request.command \notin Start
        PROVE  ~recs[joining[t]].alive
    <3>1. joining[t] \in DOMAIN recs /\ joining[t] # 0
      BY <1>1, <2>1, RecordingTypes DEF IInv, TypeOK, JoinsAlone
    <3>2. child = 0 /\ pc["router"] # "setChild"
      BY <1>1, <2>1
         DEF IInv, TypeOK, Thread, Stopping, ChildTaken, FieldsEmpty, CommandPlace
    <3> QED
      BY <1>1, <3>1, <3>2 DEF IInv, ArecordIsHeld
  <2>2. pc["router"] = "setTask" => ~TaskLocked
    BY <1>1 DEF IInv, Thread, JoinsAlone, TaskLocked
  <2> QED
    BY <2>1, <2>2 DEF JoinHasEnd
<1> QED
  BY Invariance, <1>1, PTL

-----------------------------------------------------------------------------
(***************************************************************************)
(* The abstract device.                                                    *)
(***************************************************************************)

ArecordRuns == \E i \in DOMAIN recs : recs[i].alive
ThreadRuns  == \E i \in DOMAIN recs : recs[i].reading

\* Spawns takes the device when nobody has it.
LEMMA DeviceTaken ==
  ASSUME IInv, Spawns
  PROVE  Device!Take
<1>1. TypeOK /\ OnlyLatestReads /\ NobodyReads
  BY DEF IInv, SilentAfterStop, Spawns
<1> DEFINE r == [profile |-> ProfileOf(request), config |-> request.config,
                 alive |-> TRUE, reading |-> TRUE]
<1>2. r \in Recording
  BY <1>1 DEF TypeOK, Recording, Request, ProfileOf, Profile
<1>3. /\ Len(recs') = Len(recs) + 1 /\ Len(recs') \in DOMAIN recs'
      /\ recs'[Len(recs')] = r
  BY <1>1, <1>2, AppendProperties, LenProperties DEF Spawns, TypeOK
<1>4. ~ArecordRuns /\ ~ThreadRuns
  BY <1>1 DEF OnlyLatestReads, NobodyReads, ArecordRuns, ThreadRuns
<1>5. ArecordRuns' /\ ThreadRuns'
  BY <1>3 DEF ArecordRuns, ThreadRuns
<1> QED
  BY <1>3, <1>4, <1>5 DEF Device!Take, ArecordRuns, ThreadRuns

\* An arecord that ends leaves the threads as they are.
LEMMA DeviceProcessEnds ==
  ASSUME TypeOK, NEW D \in SUBSET DOMAIN recs,
         recs' = [i \in DOMAIN recs |-> IF i \in D THEN [recs[i] EXCEPT !.alive = FALSE]
                                                   ELSE recs[i]]
  PROVE  [Device!Next]_(Device!vars)
<1>1. DOMAIN recs = 1..Len(recs) /\ \A i \in DOMAIN recs : recs[i] \in Recording
  BY RecordingTypes
<1>2. recs' \in [DOMAIN recs -> Recording]
  BY RecordingTypes
<1>3. Len(recs') = Len(recs) /\ DOMAIN recs' = DOMAIN recs
  BY <1>1, <1>2, Rewritten DEF TypeOK
<1>4. \A i \in DOMAIN recs : (recs'[i].alive => recs[i].alive)
                             /\ recs'[i].reading = recs[i].reading
  BY <1>1 DEF Recording
<1>5. (ArecordRuns' => ArecordRuns) /\ ThreadRuns' = ThreadRuns
  BY <1>3, <1>4 DEF ArecordRuns, ThreadRuns
<1> QED
  BY <1>3, <1>5 DEF Device!Next, Device!ProcessEnds, Device!vars, ArecordRuns, ThreadRuns

\* A thread that ends leaves the arecords as they are.
LEMMA DeviceThreadEnds ==
  ASSUME TypeOK, NEW j \in DOMAIN recs, recs' = [recs EXCEPT ![j].reading = FALSE]
  PROVE  [Device!Next]_(Device!vars)
<1>1. DOMAIN recs = 1..Len(recs) /\ \A i \in DOMAIN recs : recs[i] \in Recording
  BY RecordingTypes
<1>2. recs' \in [DOMAIN recs -> Recording]
  BY RecordingTypes
<1>3. Len(recs') = Len(recs) /\ DOMAIN recs' = DOMAIN recs
  BY <1>1, <1>2, Rewritten DEF TypeOK
<1>4. \A i \in DOMAIN recs : recs'[i].alive = recs[i].alive
                             /\ (recs'[i].reading => recs[i].reading)
  BY <1>1 DEF Recording
<1>5. ArecordRuns' = ArecordRuns /\ (ThreadRuns' => ThreadRuns)
  BY <1>3, <1>4 DEF ArecordRuns, ThreadRuns
<1> QED
  BY <1>3, <1>5 DEF Device!Next, Device!ThreadEnds, Device!vars, ArecordRuns, ThreadRuns

\* The recorder uses the capture device as the abstract device is used: each of
\* its steps takes the device, ends the arecord or the thread, or stutters.
THEOREM Refinement == Spec => ImplementsDevice
<1>1. ASSUME Init PROVE Device!Init
  <2>1. Len(recs) = 0 /\ DOMAIN recs = {}
    BY <1>1 DEF Init
  <2> QED
    BY <2>1 DEF Device!Init
<1>2. ASSUME UNCHANGED recs PROVE UNCHANGED Device!vars
  BY <1>2 DEF Device!vars
<1>3. ASSUME IInv, Next PROVE [Device!Next]_(Device!vars)
  <2>t. TypeOK /\ DOMAIN recs = 1..Len(recs)
    BY <1>3, RecordingTypes DEF IInv
  <2>1. ASSUME NEW t \in Thread, KillsArecord(t) PROVE [Device!Next]_(Device!vars)
    <3>1. recs' = [i \in DOMAIN recs |-> IF i \in {child} \cap DOMAIN recs
                                         THEN [recs[i] EXCEPT !.alive = FALSE] ELSE recs[i]]
      BY <2>1 DEF KillsArecord
    <3> QED
      BY <2>t, <3>1, DeviceProcessEnds
  <2>2. CASE Spawns
    BY <1>3, <2>2, DeviceTaken DEF Device!Next
  <2>3. ASSUME NEW j \in DOMAIN recs, Dies(j) PROVE [Device!Next]_(Device!vars)
    <3>1. recs' = [i \in DOMAIN recs |-> IF i \in {j} THEN [recs[i] EXCEPT !.alive = FALSE]
                                                       ELSE recs[i]]
      BY <2>3, <2>t, RecordingTypes DEF Dies
    <3> QED
      BY <2>t, <3>1, DeviceProcessEnds
  <2>4. ASSUME NEW j \in DOMAIN recs, StopsReading(j) PROVE [Device!Next]_(Device!vars)
    BY <2>4, <2>t, DeviceThreadEnds DEF StopsReading
  <2>5. ASSUME NEW t \in Thread, TakesTask(t) \/ Joins(t) \/ ForgetsProfile(t)
        PROVE  UNCHANGED recs
    BY <2>5 DEF TakesTask, Joins, ForgetsProfile
  <2>6. CASE SetsChild \/ SetsTask \/ SetsProfile \/ Elsewhere
    BY <1>2, <2>6 DEF SetsChild, SetsTask, SetsProfile, Elsewhere
  <2> QED
    BY <1>2, <1>3, <2>t, <2>1, <2>2, <2>3, <2>4, <2>5, <2>6, RecorderSteps
<1>4. ASSUME UNCHANGED vars PROVE UNCHANGED Device!vars
  BY <1>2, <1>4 DEF vars
<1> QED
  BY <1>1, <1>3, <1>4, Invariance, PTL DEF Spec, ImplementsDevice, Device!Spec
=============================================================================
