----------------------------- MODULE PlayerProofs -----------------------------
(***************************************************************************)
(* Proofs about Player for any number of starts and any queue capacity.    *)
(***************************************************************************)
EXTENDS Player, SequenceTheorems, TLAPS

-----------------------------------------------------------------------------
\* The inductive invariant, in named parts.

\* Nobody empties the field while the router waits with its lock.
SendHasSender == pc["router"] = "send" => sender # 0

\* Only the playback started last may have an aplay or a thread.
OnlyLatestPlays ==
  \A i \in DOMAIN plays : plays[i].alive \/ plays[i].thread # "done" => i = Len(plays)

\* The player has been dropped, and nobody starts it again.
Over == pc["supervisor"] = "gone" /\ pc["router"] \in {"idle", "dead"}

\* Whoever has a running aplay or thread can be found: in the field, or in the
\* hands of a caller on its way to or from there.
AplayIsHeld ==
  \A i \in DOMAIN plays : plays[i].alive =>
    child = i \/ pc["router"] \in {"setSender", "setChild"} \/ Over

ThreadIsHeld ==
  \A i \in DOMAIN plays : plays[i].thread # "done" =>
    \/ task = i
    \/ \E t \in Thread : pc[t] = "joined" /\ joining[t] = i
    \/ pc["router"] \in {"setSender", "setChild", "setTask"}
    \/ Over

\* A caller that joins has something to join, and the lock for itself. While
\* the supervisor joins, the router does not get past its own join.
JoinsAlone ==
  /\ \A t \in Thread : pc[t] = "joined" => joining[t] # 0
  /\ pc["supervisor"] = "joined" =>
       pc["router"] \notin {"joined", "kill", "spawn", "setSender", "setChild", "setTask"}

\* The field the router has emptied stays empty until it fills it.
TaskEmpty ==
  pc["router"] \in {"joined", "kill", "spawn", "setSender", "setChild", "setTask"} => task = 0

\* The same of the sender, which start_play fills only when it is empty; and
\* once the supervisor has emptied it only a start_play under way may fill it.
SenderEmpty ==
  /\ pc["router"] \in {"join", "joined", "kill", "spawn", "setSender"} => sender = 0
  /\ pc["router"] = "take" /\ request = "start_play" => sender = 0
  /\ pc["supervisor"] \notin {"idle", "take"} /\ (request # "start_play" \/ pc["router"] = "check")
       => sender = 0

\* Once the supervisor has emptied the field of the thread, only such a
\* start_play may fill it.
TaskTaken ==
  /\ pc["supervisor"] = "joined" => task = 0
  /\ pc["supervisor"] \in {"kill", "leave"}
        /\ (request # "start_play" \/ pc["router"] \in {"check", "take", "join"}) => task = 0

\* What is executed where.
CommandPlace ==
  /\ pc["router"] \in {"check", "spawn", "setSender", "setChild", "setTask"} =>
       request = "start_play"
  /\ pc["router"] \in {"enqueue", "send"} => request = "chunk"

NobodyWrites == \A i \in DOMAIN plays : plays[i].thread = "done"
NobodyPlays  == \A i \in DOMAIN plays : ~plays[i].alive

\* Nothing plays between the end of a stop and the next start.
SilentAfterStop ==
  /\ pc["router"] \in {"kill", "spawn"} => NobodyWrites
  /\ pc["router"] = "spawn" => NobodyPlays
  /\ pc["router"] = "answer" /\ request = "stop_play" => NobodyWrites /\ NobodyPlays

\* Behind a supervisor that no start_play has gone past, everything is quiet.
QuietBehind ==
  pc["supervisor"] \in {"kill", "leave"} /\ ~StartUnderWay /\ task = 0 =>
    /\ NobodyWrites
    /\ pc["supervisor"] = "leave" => NobodyPlays

IInv ==
  /\ TypeOK
  /\ SendHasSender
  /\ OnlyLatestPlays
  /\ AplayIsHeld
  /\ ThreadIsHeld
  /\ JoinsAlone
  /\ TaskEmpty
  /\ CommandPlace
  /\ SilentAfterStop
  /\ SenderEmpty
  /\ TaskTaken
  /\ QuietBehind

-----------------------------------------------------------------------------
(***************************************************************************)
(* Type correctness.                                                       *)
(***************************************************************************)

\* No playback, nobody in the middle of anything.
LEMMA TypeInit == Init => TypeOK
<1>1. \A S : <<>> \in Seq(S)
  OBVIOUS
<1>2. Len(<<>>) = 0 /\ 0 \in 0..0
  OBVIOUS
<1> QED
  BY <1>1, <1>2 DEF Init, TypeOK, Request, Thread, Stopping, RouterStep, SupervisorStep

\* A sequence rewritten element by element is a sequence of the same length.
LEMMA Rewritten ==
  ASSUME NEW S, NEW s \in Seq(S), NEW t \in [DOMAIN s -> S]
  PROVE  t \in Seq(S) /\ Len(t) = Len(s)
<1>1. DOMAIN s = 1..Len(s) /\ Len(s) \in Nat
  BY LenProperties
<1>2. t \in [1..Len(s) -> S]
  BY <1>1
<1>3. t \in Seq(S)
  BY <1>1, <1>2, SeqDef
<1> QED
  BY <1>1, <1>2, <1>3

\* The playbacks and their fields.
LEMMA PlaybackTypes ==
  ASSUME TypeOK
  PROVE  /\ DOMAIN plays = 1..Len(plays)
         /\ Len(plays) \in Nat
         /\ \A i \in DOMAIN plays :
              /\ plays[i] \in Playback
              /\ plays[i].alive \in BOOLEAN
              /\ plays[i].thread \in {"recv", "writing", "done"}
              /\ plays[i].queue \in 0..QueueCapacity
<1>1. DOMAIN plays = 1..Len(plays) /\ Len(plays) \in Nat
  BY LenProperties DEF TypeOK
<1>2. ASSUME NEW i \in DOMAIN plays PROVE plays[i] \in Playback
  BY <1>1, ElementOfSeq DEF TypeOK
<1> QED
  BY <1>1, <1>2 DEF Playback

\* A step of a playback thread or of aplay: a playback is rewritten, what has
\* ended does not begin again, and only one of the two ends.
PlaysOn ==
  /\ UNCHANGED <<attached, pc, request, config, fields, joining>>
  /\ plays' \in [DOMAIN plays -> Playback]
  /\ \A i \in DOMAIN plays :
       /\ plays'[i].alive => plays[i].alive
       /\ plays'[i].thread # "done" => plays[i].thread # "done"
  /\ \/ \A i \in DOMAIN plays : plays'[i].alive = plays[i].alive
     \/ \A i \in DOMAIN plays : plays'[i].thread = plays[i].thread

LEMMA PlaybackSteps ==
  ASSUME TypeOK, NEW i \in DOMAIN plays, PlaybackNext(i) \/ EndsAtEof(i) \/ Dies(i)
  PROVE  PlaysOn
<1>1. plays[i] \in Playback /\ \A j \in DOMAIN plays : plays[j] \in Playback
  BY PlaybackTypes
<1>2. ASSUME NEW p \in Playback, SetPlay(i, p), p.alive => plays[i].alive,
             p.thread # "done" => plays[i].thread # "done",
             p.alive = plays[i].alive \/ p.thread = plays[i].thread
      PROVE  PlaysOn
  BY <1>1, <1>2 DEF SetPlay, PlaysOn
<1>3. CASE Receives(i)
  <2>1. [plays[i] EXCEPT !.thread = "writing", !.queue = @ - 1] \in Playback
    <3>1. plays[i].queue \in 0..QueueCapacity /\ plays[i].queue > 0 /\ QueueCapacity \in Nat
      BY <1>1, <1>3, BoundAssumption DEF Receives, Playback
    <3>2. plays[i].queue - 1 \in 0..QueueCapacity
      BY <3>1
    <3> QED
      BY <1>1, <3>2 DEF Playback
  <2> QED
    BY <1>1, <1>2, <1>3, <2>1 DEF Receives, Playback
<1>4. CASE Disconnects(i)
  <2>1. [plays[i] EXCEPT !.thread = "done"] \in Playback
    BY <1>1 DEF Playback
  <2> QED
    BY <1>1, <1>2, <1>4, <2>1 DEF Disconnects, Playback
<1>5. CASE Writes(i)
  <2>1. [plays[i] EXCEPT !.thread = "recv"] \in Playback
    BY <1>1 DEF Playback
  <2> QED
    BY <1>1, <1>2, <1>5, <2>1 DEF Writes, Playback
<1>6. CASE WriteFails(i)
  <2>1. [plays[i] EXCEPT !.thread = "done", !.queue = 0] \in Playback
    <3>1. 0 \in 0..QueueCapacity
      BY BoundAssumption
    <3> QED
      BY <1>1, <3>1 DEF Playback
  <2> QED
    BY <1>1, <1>2, <1>6, <2>1 DEF WriteFails, Playback
<1>7. CASE EndsAtEof(i) \/ Dies(i)
  <2>1. [plays[i] EXCEPT !.alive = FALSE] \in Playback
    BY <1>1 DEF Playback
  <2> QED
    BY <1>1, <1>2, <1>7, <2>1 DEF EndsAtEof, Dies, Playback
<1> QED
  BY <1>3, <1>4, <1>5, <1>6, <1>7 DEF PlaybackNext

\* The steps that touch nothing but a caller's place and the registry.
Moves == IgnoresDuplicate \/ StopsOld \/ SpawnFails \/ Enqueues \/ Detached

\* Every step of the system.
LEMMA Steps ==
  ASSUME TypeOK, Next
  PROVE  \/ \E r \in Request : Begins(r)
         \/ Moves
         \/ \E t \in Thread : TakesSender(t) \/ TakesTask(t) \/ Joins(t) \/ KillsAplay(t)
         \/ Spawns
         \/ SetsSender \/ SetsChild \/ SetsTask
         \/ Sends
         \/ SendFails \/ Answers \/ Leaves
         \/ PlaysOn
<1>1. ASSUME NEW t \in Thread, StopNext(t)
      PROVE  TakesSender(t) \/ TakesTask(t) \/ Joins(t) \/ KillsAplay(t)
  BY <1>1 DEF StopNext
<1>2. "router" \in Thread /\ "supervisor" \in Thread
  BY DEF Thread
<1>3. CASE RouterNext
  BY <1>1, <1>2, <1>3 DEF RouterNext, Moves
<1>4. CASE SupervisorNext
  BY <1>1, <1>2, <1>4 DEF SupervisorNext
<1>5. CASE Detached \/ \E r \in Request : Begins(r)
  BY <1>5 DEF Moves
<1>6. CASE \E i \in DOMAIN plays : PlaybackNext(i) \/ EndsAtEof(i) \/ Dies(i)
  BY <1>6, PlaybackSteps
<1> QED
  BY <1>3, <1>4, <1>5, <1>6 DEF Next

\* Every step keeps the types.
LEMMA TypeStep ==
  ASSUME TypeOK, SendHasSender, Next
  PROVE  TypeOK'
<1> USE DEF fields, Goto
<1>1. CASE Moves
  <2>1. CASE Detached
    BY <2>1 DEF Detached, TypeOK, Thread, Stopping, RouterStep, SupervisorStep
  <2>2. CASE IgnoresDuplicate \/ StopsOld \/ SpawnFails \/ Enqueues
    BY <2>2
       DEF IgnoresDuplicate, StopsOld, SpawnFails, Enqueues, TypeOK, Thread, Stopping, RouterStep,
           SupervisorStep
  <2> QED
    BY <1>1, <2>1, <2>2 DEF Moves
<1>2. ASSUME NEW t \in Thread, TakesSender(t) PROVE TypeOK'
  BY <1>2, PlaybackTypes DEF TakesSender, TypeOK, Thread, Stopping, RouterStep, SupervisorStep
<1>3. ASSUME NEW t \in Thread, TakesTask(t) PROVE TypeOK'
  BY <1>3, PlaybackTypes DEF TakesTask, TypeOK, Thread, Stopping, RouterStep, SupervisorStep
<1>4. ASSUME NEW t \in Thread, Joins(t) PROVE TypeOK'
  BY <1>4, PlaybackTypes DEF Joins, TypeOK, Thread, Stopping, RouterStep, SupervisorStep
<1>5. ASSUME NEW t \in Thread, KillsAplay(t) PROVE TypeOK'
  <2>1. plays' \in [DOMAIN plays -> Playback]
    BY <1>5, PlaybackTypes DEF KillsAplay, Playback
  <2>2. plays' \in Seq(Playback) /\ Len(plays') = Len(plays)
    BY <2>1, Rewritten DEF TypeOK
  <2> QED
    BY <1>5, <2>2, PlaybackTypes
       DEF KillsAplay, AfterStop, TypeOK, Thread, Stopping, RouterStep, SupervisorStep
<1>6. CASE Spawns
  <2>1. [config |-> config, alive |-> TRUE, thread |-> "recv", queue |-> 0] \in Playback
    BY BoundAssumption DEF Playback, TypeOK
  <2>2. plays' \in Seq(Playback) /\ Len(plays') = Len(plays) + 1
    BY <1>6, <2>1, AppendProperties DEF Spawns, TypeOK
  <2> QED
    BY <1>6, <2>2, PlaybackTypes DEF Spawns, TypeOK, Thread, Stopping, RouterStep, SupervisorStep
<1>7. CASE SetsSender \/ SetsChild \/ SetsTask
  BY <1>7, PlaybackTypes
     DEF SetsSender, SetsChild, SetsTask, TypeOK, Thread, Stopping, RouterStep, SupervisorStep
<1>8. CASE Sends
  <2>1. sender \in DOMAIN plays
    BY <1>8, PlaybackTypes DEF Sends, SendHasSender, TypeOK
  <2>2. [plays[sender] EXCEPT !.queue = @ + 1] \in Playback
    BY <1>8, <2>1, PlaybackTypes, BoundAssumption DEF Sends, Playback
  <2>3. plays' \in [DOMAIN plays -> Playback]
    BY <1>8, <2>1, <2>2, PlaybackTypes DEF Sends
  <2>4. plays' \in Seq(Playback) /\ Len(plays') = Len(plays)
    BY <2>3, Rewritten DEF TypeOK
  <2> QED
    BY <1>8, <2>4 DEF Sends, TypeOK, Thread, Stopping, RouterStep, SupervisorStep
<1>9. CASE SendFails \/ Answers \/ Leaves
  BY <1>9, PlaybackTypes
     DEF SendFails, Answers, Leaves, Dropped, TypeOK, Thread, Stopping, RouterStep, SupervisorStep
<1>10. CASE PlaysOn
  <2>1. plays' \in Seq(Playback) /\ Len(plays') = Len(plays)
    BY <1>10, Rewritten DEF PlaysOn, TypeOK
  <2> QED
    BY <1>10, <2>1 DEF PlaysOn, TypeOK
<1>11. ASSUME NEW r \in Request, Begins(r) PROVE TypeOK'
  <2>1. pc'["router"] \in RouterStep /\ pc'["supervisor"] = pc["supervisor"]
          /\ pc' \in [Thread -> RouterStep \cup SupervisorStep]
    BY <1>11 DEF Begins, Request, TypeOK, Thread, Stopping, RouterStep, SupervisorStep
  <2> QED
    BY <1>11, <2>1 DEF Begins, TypeOK
<1> QED
  BY <1>1, <1>2, <1>3, <1>4, <1>5, <1>6, <1>7, <1>8, <1>9, <1>10, <1>11, Steps

-----------------------------------------------------------------------------
(***************************************************************************)
(* Where the running playback is held.                                     *)
(***************************************************************************)

\* The lock keeps the sender where it is while the router waits with it.
LEMMA SendHasSenderStep ==
  ASSUME TypeOK, SendHasSender, Next
  PROVE  SendHasSender'
<1> USE DEF fields, Goto, Thread, TypeOK
<1>d. DOMAIN plays = 1..Len(plays) /\ Len(plays) \in Nat
  BY PlaybackTypes
<1>1. ASSUME NEW r \in Request, Begins(r) PROVE SendHasSender'
  BY <1>1, <1>d DEF Begins, Request, SendHasSender
<1>2. CASE Moves
  BY <1>2, <1>d DEF Moves, IgnoresDuplicate, StopsOld, SpawnFails, Enqueues, Detached,
      SendHasSender
<1>3. ASSUME NEW t \in Thread, TakesSender(t) PROVE SendHasSender'
  BY <1>3, <1>d DEF TakesSender, SenderLocked, SendHasSender
<1>4. ASSUME NEW t \in Thread, TakesTask(t) PROVE SendHasSender'
  BY <1>4, <1>d DEF TakesTask, TaskLocked, SendHasSender
<1>5. ASSUME NEW t \in Thread, Joins(t) PROVE SendHasSender'
  BY <1>5, <1>d DEF Joins, SendHasSender
<1>6. ASSUME NEW t \in Thread, KillsAplay(t) PROVE SendHasSender'
  BY <1>6, <1>d DEF KillsAplay, AfterStop, SendHasSender
<1>7. CASE Spawns
  BY <1>7, <1>d, AppendProperties DEF Spawns, SendHasSender
<1>8. CASE SetsSender \/ SetsChild \/ SetsTask
  BY <1>8, <1>d DEF SetsSender, SetsChild, SetsTask, TaskLocked, SendHasSender
<1>9. CASE Sends
  BY <1>9, <1>d DEF Sends, SendHasSender
<1>10. CASE SendFails \/ Answers \/ Leaves
  BY <1>10, <1>d DEF SendFails, Answers, Leaves, Dropped, LastUser, SendHasSender
<1>11. CASE PlaysOn
  BY <1>11, <1>d DEF PlaysOn, SendHasSender
<1> QED
  BY <1>1, <1>2, <1>3, <1>4, <1>5, <1>6, <1>7, <1>8, <1>9, <1>10, <1>11, Steps

\* A new playback starts when nothing plays.
LEMMA OnlyLatestPlaysStep ==
  ASSUME TypeOK, SendHasSender, OnlyLatestPlays, SilentAfterStop, Next
  PROVE  OnlyLatestPlays'
<1> USE DEF fields, Goto, Thread, TypeOK
<1>d. DOMAIN plays = 1..Len(plays) /\ Len(plays) \in Nat
  BY PlaybackTypes
<1>1. ASSUME NEW r \in Request, Begins(r) PROVE OnlyLatestPlays'
  BY <1>1, <1>d DEF Begins, Request, SendHasSender, OnlyLatestPlays, SilentAfterStop, NobodyPlays,
      NobodyWrites
<1>2. CASE Moves
  BY <1>2, <1>d DEF Moves, IgnoresDuplicate, StopsOld, SpawnFails, Enqueues, Detached,
      SendHasSender, OnlyLatestPlays, SilentAfterStop, NobodyPlays, NobodyWrites
<1>3. ASSUME NEW t \in Thread, TakesSender(t) PROVE OnlyLatestPlays'
  BY <1>3, <1>d DEF TakesSender, SenderLocked, SendHasSender, OnlyLatestPlays, SilentAfterStop,
      NobodyPlays, NobodyWrites
<1>4. ASSUME NEW t \in Thread, TakesTask(t) PROVE OnlyLatestPlays'
  BY <1>4, <1>d DEF TakesTask, TaskLocked, SendHasSender, OnlyLatestPlays, SilentAfterStop,
      NobodyPlays, NobodyWrites
<1>5. ASSUME NEW t \in Thread, Joins(t) PROVE OnlyLatestPlays'
  BY <1>5, <1>d DEF Joins, SendHasSender, OnlyLatestPlays, SilentAfterStop, NobodyPlays,
      NobodyWrites
<1>6. ASSUME NEW t \in Thread, KillsAplay(t) PROVE OnlyLatestPlays'
  BY <1>6, <1>d DEF KillsAplay, AfterStop, SendHasSender, OnlyLatestPlays, SilentAfterStop,
      NobodyPlays, NobodyWrites
<1>7. CASE Spawns
  BY <1>7, <1>d, AppendProperties DEF Spawns, SendHasSender, OnlyLatestPlays, SilentAfterStop,
      NobodyPlays, NobodyWrites
<1>8. CASE SetsSender \/ SetsChild \/ SetsTask
  BY <1>8, <1>d DEF SetsSender, SetsChild, SetsTask, TaskLocked, SendHasSender, OnlyLatestPlays,
      SilentAfterStop, NobodyPlays, NobodyWrites
<1>9. CASE Sends
  BY <1>9, <1>d DEF Sends, SendHasSender, OnlyLatestPlays, SilentAfterStop, NobodyPlays,
      NobodyWrites
<1>10. CASE SendFails \/ Answers \/ Leaves
  BY <1>10, <1>d DEF SendFails, Answers, Leaves, Dropped, LastUser, SendHasSender,
      OnlyLatestPlays, SilentAfterStop, NobodyPlays, NobodyWrites
<1>11. CASE PlaysOn
  BY <1>11, <1>d DEF PlaysOn, SendHasSender, OnlyLatestPlays, SilentAfterStop, NobodyPlays,
      NobodyWrites
<1> QED
  BY <1>1, <1>2, <1>3, <1>4, <1>5, <1>6, <1>7, <1>8, <1>9, <1>10, <1>11, Steps

\* A running aplay is put into the field, or dropped for good.
LEMMA AplayIsHeldStep ==
  ASSUME TypeOK, SendHasSender, OnlyLatestPlays, AplayIsHeld, SilentAfterStop, Next
  PROVE  AplayIsHeld'
<1> USE DEF fields, Goto, Thread, TypeOK
<1>d. DOMAIN plays = 1..Len(plays) /\ Len(plays) \in Nat
  BY PlaybackTypes
<1>1. ASSUME NEW r \in Request, Begins(r) PROVE AplayIsHeld'
  BY <1>1, <1>d DEF Begins, Request, SendHasSender, OnlyLatestPlays, AplayIsHeld, Over,
      SilentAfterStop, NobodyPlays
<1>2. CASE Moves
  BY <1>2, <1>d DEF Moves, IgnoresDuplicate, StopsOld, SpawnFails, Enqueues, Detached,
      SendHasSender, OnlyLatestPlays, AplayIsHeld, Over, SilentAfterStop, NobodyPlays
<1>3. ASSUME NEW t \in Thread, TakesSender(t) PROVE AplayIsHeld'
  BY <1>3, <1>d DEF TakesSender, SenderLocked, SendHasSender, OnlyLatestPlays, AplayIsHeld, Over,
      SilentAfterStop, NobodyPlays
<1>4. ASSUME NEW t \in Thread, TakesTask(t) PROVE AplayIsHeld'
  BY <1>4, <1>d DEF TakesTask, TaskLocked, SendHasSender, OnlyLatestPlays, AplayIsHeld, Over,
      SilentAfterStop, NobodyPlays
<1>5. ASSUME NEW t \in Thread, Joins(t) PROVE AplayIsHeld'
  BY <1>5, <1>d DEF Joins, SendHasSender, OnlyLatestPlays, AplayIsHeld, Over, SilentAfterStop,
      NobodyPlays
<1>6. ASSUME NEW t \in Thread, KillsAplay(t) PROVE AplayIsHeld'
  BY <1>6, <1>d DEF KillsAplay, AfterStop, SendHasSender, OnlyLatestPlays, AplayIsHeld, Over,
      SilentAfterStop, NobodyPlays
<1>7. CASE Spawns
  BY <1>7, <1>d, AppendProperties DEF Spawns, SendHasSender, OnlyLatestPlays, AplayIsHeld, Over,
      SilentAfterStop, NobodyPlays
<1>8. CASE SetsSender \/ SetsChild \/ SetsTask
  BY <1>8, <1>d DEF SetsSender, SetsChild, SetsTask, TaskLocked, SendHasSender, OnlyLatestPlays,
      AplayIsHeld, Over, SilentAfterStop, NobodyPlays
<1>9. CASE Sends
  BY <1>9, <1>d DEF Sends, SendHasSender, OnlyLatestPlays, AplayIsHeld, Over, SilentAfterStop,
      NobodyPlays
<1>10. CASE SendFails \/ Answers \/ Leaves
  BY <1>10, <1>d DEF SendFails, Answers, Leaves, Dropped, LastUser, SendHasSender,
      OnlyLatestPlays, AplayIsHeld, Over, SilentAfterStop, NobodyPlays
<1>11. CASE PlaysOn
  BY <1>11, <1>d DEF PlaysOn, SendHasSender, OnlyLatestPlays, AplayIsHeld, Over, SilentAfterStop,
      NobodyPlays
<1> QED
  BY <1>1, <1>2, <1>3, <1>4, <1>5, <1>6, <1>7, <1>8, <1>9, <1>10, <1>11, Steps

\* A thread that is taken out of the field is joined.
LEMMA ThreadIsHeldStep ==
  ASSUME TypeOK, SendHasSender, OnlyLatestPlays, ThreadIsHeld, SilentAfterStop, Next
  PROVE  ThreadIsHeld'
<1> USE DEF fields, Goto, Thread, TypeOK
<1>d. DOMAIN plays = 1..Len(plays) /\ Len(plays) \in Nat
  BY PlaybackTypes
<1>1. ASSUME NEW r \in Request, Begins(r) PROVE ThreadIsHeld'
  BY <1>1, <1>d DEF Begins, Request, SendHasSender, OnlyLatestPlays, ThreadIsHeld, Over,
      SilentAfterStop, NobodyWrites
<1>2. CASE Moves
  BY <1>2, <1>d DEF Moves, IgnoresDuplicate, StopsOld, SpawnFails, Enqueues, Detached,
      SendHasSender, OnlyLatestPlays, ThreadIsHeld, Over, SilentAfterStop, NobodyWrites
<1>3. ASSUME NEW t \in Thread, TakesSender(t) PROVE ThreadIsHeld'
  BY <1>3, <1>d DEF TakesSender, SenderLocked, SendHasSender, OnlyLatestPlays, ThreadIsHeld, Over,
      SilentAfterStop, NobodyWrites
<1>4. ASSUME NEW t \in Thread, TakesTask(t) PROVE ThreadIsHeld'
  BY <1>4, <1>d DEF TakesTask, TaskLocked, SendHasSender, OnlyLatestPlays, ThreadIsHeld, Over,
      SilentAfterStop, NobodyWrites
<1>5. ASSUME NEW t \in Thread, Joins(t) PROVE ThreadIsHeld'
  BY <1>5, <1>d DEF Joins, SendHasSender, OnlyLatestPlays, ThreadIsHeld, Over, SilentAfterStop,
      NobodyWrites
<1>6. ASSUME NEW t \in Thread, KillsAplay(t) PROVE ThreadIsHeld'
  BY <1>6, <1>d DEF KillsAplay, AfterStop, SendHasSender, OnlyLatestPlays, ThreadIsHeld, Over,
      SilentAfterStop, NobodyWrites
<1>7. CASE Spawns
  BY <1>7, <1>d, AppendProperties DEF Spawns, SendHasSender, OnlyLatestPlays, ThreadIsHeld, Over,
      SilentAfterStop, NobodyWrites
<1>8. CASE SetsSender \/ SetsChild \/ SetsTask
  BY <1>8, <1>d DEF SetsSender, SetsChild, SetsTask, TaskLocked, SendHasSender, OnlyLatestPlays,
      ThreadIsHeld, Over, SilentAfterStop, NobodyWrites
<1>9. CASE Sends
  BY <1>9, <1>d DEF Sends, SendHasSender, OnlyLatestPlays, ThreadIsHeld, Over, SilentAfterStop,
      NobodyWrites
<1>10. CASE SendFails \/ Answers \/ Leaves
  <2>1. CASE SendFails
    BY <2>1, <1>d DEF SendFails, Dropped, LastUser, SendHasSender, OnlyLatestPlays, ThreadIsHeld,
        Over, SilentAfterStop, NobodyWrites
  <2>2. CASE Answers
    BY <2>2, <1>d DEF Answers, Dropped, LastUser, SendHasSender, OnlyLatestPlays, ThreadIsHeld,
        Over, SilentAfterStop, NobodyWrites
  <2>3. CASE Leaves
    BY <2>3, <1>d DEF Leaves, Dropped, LastUser, SendHasSender, OnlyLatestPlays, ThreadIsHeld,
        Over, SilentAfterStop, NobodyWrites
  <2> QED
    BY <1>10, <2>1, <2>2, <2>3
<1>11. CASE PlaysOn
  BY <1>11, <1>d DEF PlaysOn, SendHasSender, OnlyLatestPlays, ThreadIsHeld, Over, SilentAfterStop,
      NobodyWrites
<1> QED
  BY <1>1, <1>2, <1>3, <1>4, <1>5, <1>6, <1>7, <1>8, <1>9, <1>10, <1>11, Steps

\* The lock of the field keeps the two joins apart.
LEMMA JoinsAloneStep ==
  ASSUME TypeOK, JoinsAlone, TaskEmpty, Next
  PROVE  JoinsAlone'
<1> USE DEF fields, Goto, Thread, TypeOK
<1>d. DOMAIN plays = 1..Len(plays) /\ Len(plays) \in Nat
  BY PlaybackTypes
<1>1. ASSUME NEW r \in Request, Begins(r) PROVE JoinsAlone'
  BY <1>1, <1>d DEF Begins, Request, JoinsAlone
<1>2. CASE Moves
  BY <1>2, <1>d DEF Moves, IgnoresDuplicate, StopsOld, SpawnFails, Enqueues, Detached, JoinsAlone
<1>3. ASSUME NEW t \in Thread, TakesSender(t) PROVE JoinsAlone'
  BY <1>3, <1>d DEF TakesSender, SenderLocked, JoinsAlone
<1>4. ASSUME NEW t \in Thread, TakesTask(t) PROVE JoinsAlone'
  BY <1>4, <1>d DEF TakesTask, TaskLocked, JoinsAlone, TaskEmpty
<1>5. ASSUME NEW t \in Thread, Joins(t) PROVE JoinsAlone'
  BY <1>5, <1>d DEF Joins, JoinsAlone
<1>6. ASSUME NEW t \in Thread, KillsAplay(t) PROVE JoinsAlone'
  BY <1>6, <1>d DEF KillsAplay, AfterStop, JoinsAlone
<1>7. CASE Spawns
  BY <1>7, <1>d, AppendProperties DEF Spawns, JoinsAlone
<1>8. CASE SetsSender \/ SetsChild \/ SetsTask
  BY <1>8, <1>d DEF SetsSender, SetsChild, SetsTask, TaskLocked, JoinsAlone
<1>9. CASE Sends
  BY <1>9, <1>d DEF Sends, JoinsAlone
<1>10. CASE SendFails \/ Answers \/ Leaves
  BY <1>10, <1>d DEF SendFails, Answers, Leaves, Dropped, LastUser, JoinsAlone
<1>11. CASE PlaysOn
  BY <1>11, <1>d DEF PlaysOn, JoinsAlone
<1> QED
  BY <1>1, <1>2, <1>3, <1>4, <1>5, <1>6, <1>7, <1>8, <1>9, <1>10, <1>11, Steps

\* Only the router fills the field.
LEMMA TaskEmptyStep ==
  ASSUME TypeOK, TaskEmpty, Next
  PROVE  TaskEmpty'
<1> USE DEF fields, Goto, Thread, TypeOK
<1>d. DOMAIN plays = 1..Len(plays) /\ Len(plays) \in Nat
  BY PlaybackTypes
<1>1. ASSUME NEW r \in Request, Begins(r) PROVE TaskEmpty'
  BY <1>1, <1>d DEF Begins, Request, TaskEmpty
<1>2. CASE Moves
  BY <1>2, <1>d DEF Moves, IgnoresDuplicate, StopsOld, SpawnFails, Enqueues, Detached, TaskEmpty
<1>3. ASSUME NEW t \in Thread, TakesSender(t) PROVE TaskEmpty'
  BY <1>3, <1>d DEF TakesSender, SenderLocked, TaskEmpty
<1>4. ASSUME NEW t \in Thread, TakesTask(t) PROVE TaskEmpty'
  BY <1>4, <1>d DEF TakesTask, TaskLocked, TaskEmpty
<1>5. ASSUME NEW t \in Thread, Joins(t) PROVE TaskEmpty'
  BY <1>5, <1>d DEF Joins, TaskEmpty
<1>6. ASSUME NEW t \in Thread, KillsAplay(t) PROVE TaskEmpty'
  BY <1>6, <1>d DEF KillsAplay, AfterStop, TaskEmpty
<1>7. CASE Spawns
  BY <1>7, <1>d, AppendProperties DEF Spawns, TaskEmpty
<1>8. CASE SetsSender \/ SetsChild \/ SetsTask
  BY <1>8, <1>d DEF SetsSender, SetsChild, SetsTask, TaskLocked, TaskEmpty
<1>9. CASE Sends
  BY <1>9, <1>d DEF Sends, TaskEmpty
<1>10. CASE SendFails \/ Answers \/ Leaves
  BY <1>10, <1>d DEF SendFails, Answers, Leaves, Dropped, LastUser, TaskEmpty
<1>11. CASE PlaysOn
  BY <1>11, <1>d DEF PlaysOn, TaskEmpty
<1> QED
  BY <1>1, <1>2, <1>3, <1>4, <1>5, <1>6, <1>7, <1>8, <1>9, <1>10, <1>11, Steps

\* The request decides the way of the router.
LEMMA CommandPlaceStep ==
  ASSUME TypeOK, CommandPlace, Next
  PROVE  CommandPlace'
<1> USE DEF fields, Goto, Thread, TypeOK
<1>d. DOMAIN plays = 1..Len(plays) /\ Len(plays) \in Nat
  BY PlaybackTypes
<1>1. ASSUME NEW r \in Request, Begins(r) PROVE CommandPlace'
  BY <1>1, <1>d DEF Begins, Request, CommandPlace, Request, Stopping
<1>2. CASE Moves
  BY <1>2, <1>d DEF Moves, IgnoresDuplicate, StopsOld, SpawnFails, Enqueues, Detached,
      CommandPlace, Request, Stopping
<1>3. ASSUME NEW t \in Thread, TakesSender(t) PROVE CommandPlace'
  BY <1>3, <1>d DEF TakesSender, SenderLocked, CommandPlace, Request, Stopping
<1>4. ASSUME NEW t \in Thread, TakesTask(t) PROVE CommandPlace'
  BY <1>4, <1>d DEF TakesTask, TaskLocked, CommandPlace, Request, Stopping
<1>5. ASSUME NEW t \in Thread, Joins(t) PROVE CommandPlace'
  BY <1>5, <1>d DEF Joins, CommandPlace, Request, Stopping
<1>6. ASSUME NEW t \in Thread, KillsAplay(t) PROVE CommandPlace'
  BY <1>6, <1>d DEF KillsAplay, AfterStop, CommandPlace, Request, Stopping
<1>7. CASE Spawns
  BY <1>7, <1>d, AppendProperties DEF Spawns, CommandPlace, Request, Stopping
<1>8. CASE SetsSender \/ SetsChild \/ SetsTask
  BY <1>8, <1>d DEF SetsSender, SetsChild, SetsTask, TaskLocked, CommandPlace, Request, Stopping
<1>9. CASE Sends
  BY <1>9, <1>d DEF Sends, CommandPlace, Request, Stopping
<1>10. CASE SendFails \/ Answers \/ Leaves
  BY <1>10, <1>d DEF SendFails, Answers, Leaves, Dropped, LastUser, CommandPlace, Request,
      Stopping
<1>11. CASE PlaysOn
  BY <1>11, <1>d DEF PlaysOn, CommandPlace, Request, Stopping
<1> QED
  BY <1>1, <1>2, <1>3, <1>4, <1>5, <1>6, <1>7, <1>8, <1>9, <1>10, <1>11, Steps

\* Whoever runs is found by the stop.
LEMMA SilentAfterStopStep ==
  ASSUME TypeOK, SendHasSender, OnlyLatestPlays, AplayIsHeld, ThreadIsHeld, JoinsAlone,
         TaskEmpty, CommandPlace, SilentAfterStop, Next
  PROVE  SilentAfterStop'
<1> USE DEF fields, Goto, Thread, TypeOK
<1>d. DOMAIN plays = 1..Len(plays) /\ Len(plays) \in Nat
  BY PlaybackTypes
<1>1. ASSUME NEW r \in Request, Begins(r) PROVE SilentAfterStop'
  BY <1>1, <1>d DEF Begins, Request, SendHasSender, OnlyLatestPlays, AplayIsHeld, ThreadIsHeld,
      JoinsAlone, TaskEmpty, CommandPlace, SilentAfterStop, NobodyPlays, NobodyWrites, Over
<1>2. CASE Moves
  BY <1>2, <1>d DEF Moves, IgnoresDuplicate, StopsOld, SpawnFails, Enqueues, Detached,
      SendHasSender, OnlyLatestPlays, AplayIsHeld, ThreadIsHeld, JoinsAlone, TaskEmpty,
      CommandPlace, SilentAfterStop, NobodyPlays, NobodyWrites, Over
<1>3. ASSUME NEW t \in Thread, TakesSender(t) PROVE SilentAfterStop'
  BY <1>3, <1>d DEF TakesSender, SenderLocked, SendHasSender, OnlyLatestPlays, AplayIsHeld,
      ThreadIsHeld, JoinsAlone, TaskEmpty, CommandPlace, SilentAfterStop, NobodyPlays,
      NobodyWrites, Over
<1>4. ASSUME NEW t \in Thread, TakesTask(t) PROVE SilentAfterStop'
  BY <1>4, <1>d DEF TakesTask, TaskLocked, SendHasSender, OnlyLatestPlays, AplayIsHeld,
      ThreadIsHeld, JoinsAlone, TaskEmpty, CommandPlace, SilentAfterStop, NobodyPlays,
      NobodyWrites, Over
<1>5. ASSUME NEW t \in Thread, Joins(t) PROVE SilentAfterStop'
  BY <1>5, <1>d DEF Joins, SendHasSender, OnlyLatestPlays, AplayIsHeld, ThreadIsHeld, JoinsAlone,
      TaskEmpty, CommandPlace, SilentAfterStop, NobodyPlays, NobodyWrites, Over
<1>6. ASSUME NEW t \in Thread, KillsAplay(t) PROVE SilentAfterStop'
  BY <1>6, <1>d DEF KillsAplay, AfterStop, SendHasSender, OnlyLatestPlays, AplayIsHeld,
      ThreadIsHeld, JoinsAlone, TaskEmpty, CommandPlace, SilentAfterStop, NobodyPlays,
      NobodyWrites, Over
<1>7. CASE Spawns
  BY <1>7, <1>d, AppendProperties DEF Spawns, SendHasSender, OnlyLatestPlays, AplayIsHeld,
      ThreadIsHeld, JoinsAlone, TaskEmpty, CommandPlace, SilentAfterStop, NobodyPlays,
      NobodyWrites, Over
<1>8. CASE SetsSender \/ SetsChild \/ SetsTask
  BY <1>8, <1>d DEF SetsSender, SetsChild, SetsTask, TaskLocked, SendHasSender, OnlyLatestPlays,
      AplayIsHeld, ThreadIsHeld, JoinsAlone, TaskEmpty, CommandPlace, SilentAfterStop,
      NobodyPlays, NobodyWrites, Over
<1>9. CASE Sends
  BY <1>9, <1>d DEF Sends, SendHasSender, OnlyLatestPlays, AplayIsHeld, ThreadIsHeld, JoinsAlone,
      TaskEmpty, CommandPlace, SilentAfterStop, NobodyPlays, NobodyWrites, Over
<1>10. CASE SendFails \/ Answers \/ Leaves
  BY <1>10, <1>d DEF SendFails, Answers, Leaves, Dropped, LastUser, SendHasSender,
      OnlyLatestPlays, AplayIsHeld, ThreadIsHeld, JoinsAlone, TaskEmpty, CommandPlace,
      SilentAfterStop, NobodyPlays, NobodyWrites, Over
<1>11. CASE PlaysOn
  BY <1>11, <1>d DEF PlaysOn, SendHasSender, OnlyLatestPlays, AplayIsHeld, ThreadIsHeld,
      JoinsAlone, TaskEmpty, CommandPlace, SilentAfterStop, NobodyPlays, NobodyWrites, Over
<1> QED
  BY <1>1, <1>2, <1>3, <1>4, <1>5, <1>6, <1>7, <1>8, <1>9, <1>10, <1>11, Steps

\* Only a start_play that began before the supervisor fills the sender.
LEMMA SenderEmptyStep ==
  ASSUME TypeOK, SenderEmpty, CommandPlace, Next
  PROVE  SenderEmpty'
<1> USE DEF fields, Goto, Thread, TypeOK
<1>d. DOMAIN plays = 1..Len(plays) /\ Len(plays) \in Nat
  BY PlaybackTypes
<1>1. ASSUME NEW r \in Request, Begins(r) PROVE SenderEmpty'
  BY <1>1, <1>d DEF Begins, Request, SenderEmpty, CommandPlace, Stopping
<1>2. CASE Moves
  BY <1>2, <1>d DEF Moves, IgnoresDuplicate, StopsOld, SpawnFails, Enqueues, Detached,
      SenderEmpty, CommandPlace, Stopping
<1>3. ASSUME NEW t \in Thread, TakesSender(t) PROVE SenderEmpty'
  BY <1>3, <1>d DEF TakesSender, SenderLocked, SenderEmpty, CommandPlace, Stopping
<1>4. ASSUME NEW t \in Thread, TakesTask(t) PROVE SenderEmpty'
  BY <1>4, <1>d DEF TakesTask, TaskLocked, SenderEmpty, CommandPlace, Stopping
<1>5. ASSUME NEW t \in Thread, Joins(t) PROVE SenderEmpty'
  BY <1>5, <1>d DEF Joins, SenderEmpty, CommandPlace, Stopping
<1>6. ASSUME NEW t \in Thread, KillsAplay(t) PROVE SenderEmpty'
  BY <1>6, <1>d DEF KillsAplay, AfterStop, SenderEmpty, CommandPlace, Stopping
<1>7. CASE Spawns
  BY <1>7, <1>d, AppendProperties DEF Spawns, SenderEmpty, CommandPlace, Stopping
<1>8. CASE SetsSender \/ SetsChild \/ SetsTask
  BY <1>8, <1>d DEF SetsSender, SetsChild, SetsTask, TaskLocked, SenderEmpty, CommandPlace,
      Stopping
<1>9. CASE Sends
  BY <1>9, <1>d DEF Sends, SenderEmpty, CommandPlace, Stopping
<1>10. CASE SendFails \/ Answers \/ Leaves
  BY <1>10, <1>d DEF SendFails, Answers, Leaves, Dropped, LastUser, SenderEmpty, CommandPlace,
      Stopping
<1>11. CASE PlaysOn
  BY <1>11, <1>d DEF PlaysOn, SenderEmpty, CommandPlace, Stopping
<1> QED
  BY <1>1, <1>2, <1>3, <1>4, <1>5, <1>6, <1>7, <1>8, <1>9, <1>10, <1>11, Steps

\* The task field, the same way: while the supervisor joins nobody fills it.
LEMMA TaskTakenStep ==
  ASSUME TypeOK, JoinsAlone, TaskEmpty, CommandPlace, SenderEmpty, TaskTaken, Next
  PROVE  TaskTaken'
<1> USE DEF fields, Goto, Thread, TypeOK
<1>d. DOMAIN plays = 1..Len(plays) /\ Len(plays) \in Nat
  BY PlaybackTypes
<1>1. ASSUME NEW r \in Request, Begins(r) PROVE TaskTaken'
  BY <1>1, <1>d DEF Begins, Request, JoinsAlone, TaskEmpty, CommandPlace, SenderEmpty,
      TaskTaken, Stopping
<1>2. CASE Moves
  BY <1>2, <1>d DEF Moves, IgnoresDuplicate, StopsOld, SpawnFails, Enqueues, Detached,
      JoinsAlone, TaskEmpty, CommandPlace, SenderEmpty, TaskTaken, Stopping
<1>3. ASSUME NEW t \in Thread, TakesSender(t) PROVE TaskTaken'
  BY <1>3, <1>d DEF TakesSender, SenderLocked, JoinsAlone, TaskEmpty, CommandPlace, SenderEmpty,
      TaskTaken, Stopping
<1>4. ASSUME NEW t \in Thread, TakesTask(t) PROVE TaskTaken'
  BY <1>4, <1>d DEF TakesTask, TaskLocked, JoinsAlone, TaskEmpty, CommandPlace, SenderEmpty,
      TaskTaken, Stopping
<1>5. ASSUME NEW t \in Thread, Joins(t) PROVE TaskTaken'
  BY <1>5, <1>d DEF Joins, JoinsAlone, TaskEmpty, CommandPlace, SenderEmpty, TaskTaken, Stopping
<1>6. ASSUME NEW t \in Thread, KillsAplay(t) PROVE TaskTaken'
  BY <1>6, <1>d DEF KillsAplay, AfterStop, JoinsAlone, TaskEmpty, CommandPlace, SenderEmpty,
      TaskTaken, Stopping
<1>7. CASE Spawns
  BY <1>7, <1>d, AppendProperties DEF Spawns, JoinsAlone, TaskEmpty, CommandPlace, SenderEmpty,
      TaskTaken, Stopping
<1>8. CASE SetsSender \/ SetsChild \/ SetsTask
  BY <1>8, <1>d DEF SetsSender, SetsChild, SetsTask, TaskLocked, JoinsAlone, TaskEmpty,
      CommandPlace, SenderEmpty, TaskTaken, Stopping
<1>9. CASE Sends
  BY <1>9, <1>d DEF Sends, JoinsAlone, TaskEmpty, CommandPlace, SenderEmpty, TaskTaken, Stopping
<1>10. CASE SendFails \/ Answers \/ Leaves
  BY <1>10, <1>d DEF SendFails, Answers, Leaves, Dropped, LastUser, JoinsAlone, TaskEmpty,
      CommandPlace, SenderEmpty, TaskTaken, Stopping
<1>11. CASE PlaysOn
  BY <1>11, <1>d DEF PlaysOn, JoinsAlone, TaskEmpty, CommandPlace, SenderEmpty, TaskTaken,
      Stopping
<1> QED
  BY <1>1, <1>2, <1>3, <1>4, <1>5, <1>6, <1>7, <1>8, <1>9, <1>10, <1>11, Steps

\* Whatever plays is found by the supervisor, or a start_play has gone past it.
LEMMA QuietBehindStep ==
  ASSUME TypeOK, SendHasSender, OnlyLatestPlays, AplayIsHeld, ThreadIsHeld, JoinsAlone,
         TaskEmpty, CommandPlace, SilentAfterStop, SenderEmpty, TaskTaken, QuietBehind, Next
  PROVE  QuietBehind'
<1> USE DEF fields, Goto, Thread, TypeOK
<1>d. DOMAIN plays = 1..Len(plays) /\ Len(plays) \in Nat
  BY PlaybackTypes
<1>1. ASSUME NEW r \in Request, Begins(r) PROVE QuietBehind'
  BY <1>1, <1>d DEF Begins, Request, SendHasSender, OnlyLatestPlays, AplayIsHeld, ThreadIsHeld,
      JoinsAlone, TaskEmpty, CommandPlace, SilentAfterStop, SenderEmpty, TaskTaken, QuietBehind,
      StartUnderWay, Stopping, NobodyPlays, NobodyWrites, Over
<1>2. CASE Moves
  BY <1>2, <1>d DEF Moves, IgnoresDuplicate, StopsOld, SpawnFails, Enqueues, Detached,
      SendHasSender, OnlyLatestPlays, AplayIsHeld, ThreadIsHeld, JoinsAlone, TaskEmpty,
      CommandPlace, SilentAfterStop, SenderEmpty, TaskTaken, QuietBehind, StartUnderWay,
      Stopping, NobodyPlays, NobodyWrites, Over
<1>3. ASSUME NEW t \in Thread, TakesSender(t) PROVE QuietBehind'
  BY <1>3, <1>d DEF TakesSender, SenderLocked, SendHasSender, OnlyLatestPlays, AplayIsHeld,
      ThreadIsHeld, JoinsAlone, TaskEmpty, CommandPlace, SilentAfterStop, SenderEmpty,
      TaskTaken, QuietBehind, StartUnderWay, Stopping, NobodyPlays, NobodyWrites, Over
<1>4. ASSUME NEW t \in Thread, TakesTask(t) PROVE QuietBehind'
  BY <1>4, <1>d DEF TakesTask, TaskLocked, SendHasSender, OnlyLatestPlays, AplayIsHeld,
      ThreadIsHeld, JoinsAlone, TaskEmpty, CommandPlace, SilentAfterStop, SenderEmpty,
      TaskTaken, QuietBehind, StartUnderWay, Stopping, NobodyPlays, NobodyWrites, Over
<1>5. ASSUME NEW t \in Thread, Joins(t) PROVE QuietBehind'
  BY <1>5, <1>d DEF Joins, SendHasSender, OnlyLatestPlays, AplayIsHeld, ThreadIsHeld,
      JoinsAlone, TaskEmpty, CommandPlace, SilentAfterStop, SenderEmpty, TaskTaken, QuietBehind,
      StartUnderWay, Stopping, NobodyPlays, NobodyWrites, Over
<1>6. ASSUME NEW t \in Thread, KillsAplay(t) PROVE QuietBehind'
  BY <1>6, <1>d DEF KillsAplay, AfterStop, SendHasSender, OnlyLatestPlays, AplayIsHeld,
      ThreadIsHeld, JoinsAlone, TaskEmpty, CommandPlace, SilentAfterStop, SenderEmpty,
      TaskTaken, QuietBehind, StartUnderWay, Stopping, NobodyPlays, NobodyWrites, Over
<1>7. CASE Spawns
  BY <1>7, <1>d, AppendProperties DEF Spawns, SendHasSender, OnlyLatestPlays, AplayIsHeld,
      ThreadIsHeld, JoinsAlone, TaskEmpty, CommandPlace, SilentAfterStop, SenderEmpty,
      TaskTaken, QuietBehind, StartUnderWay, Stopping, NobodyPlays, NobodyWrites, Over
<1>8. CASE SetsSender \/ SetsChild \/ SetsTask
  BY <1>8, <1>d DEF SetsSender, SetsChild, SetsTask, TaskLocked, SendHasSender, OnlyLatestPlays,
      AplayIsHeld, ThreadIsHeld, JoinsAlone, TaskEmpty, CommandPlace, SilentAfterStop,
      SenderEmpty, TaskTaken, QuietBehind, StartUnderWay, Stopping, NobodyPlays, NobodyWrites,
      Over
<1>9. CASE Sends
  BY <1>9, <1>d DEF Sends, SendHasSender, OnlyLatestPlays, AplayIsHeld, ThreadIsHeld,
      JoinsAlone, TaskEmpty, CommandPlace, SilentAfterStop, SenderEmpty, TaskTaken, QuietBehind,
      StartUnderWay, Stopping, NobodyPlays, NobodyWrites, Over
<1>10. CASE SendFails \/ Answers \/ Leaves
  BY <1>10, <1>d DEF SendFails, Answers, Leaves, Dropped, LastUser, SendHasSender,
      OnlyLatestPlays, AplayIsHeld, ThreadIsHeld, JoinsAlone, TaskEmpty, CommandPlace,
      SilentAfterStop, SenderEmpty, TaskTaken, QuietBehind, StartUnderWay, Stopping,
      NobodyPlays, NobodyWrites, Over
<1>11. CASE PlaysOn
  BY <1>11, <1>d DEF PlaysOn, SendHasSender, OnlyLatestPlays, AplayIsHeld, ThreadIsHeld,
      JoinsAlone, TaskEmpty, CommandPlace, SilentAfterStop, SenderEmpty, TaskTaken, QuietBehind,
      StartUnderWay, Stopping, NobodyPlays, NobodyWrites, Over
<1> QED
  BY <1>1, <1>2, <1>3, <1>4, <1>5, <1>6, <1>7, <1>8, <1>9, <1>10, <1>11, Steps

-----------------------------------------------------------------------------
(***************************************************************************)
(* The theorems.                                                           *)
(***************************************************************************)

\* Nobody plays at first.
LEMMA InvInit == Init => IInv
<1> SUFFICES ASSUME Init PROVE IInv
  OBVIOUS
<1>1. DOMAIN plays = {}
  BY DEF Init
<1>2. OnlyLatestPlays /\ AplayIsHeld /\ ThreadIsHeld
  BY <1>1 DEF OnlyLatestPlays, AplayIsHeld, ThreadIsHeld
<1>3. SendHasSender /\ JoinsAlone /\ TaskEmpty /\ CommandPlace /\ SilentAfterStop
  BY DEF Init, Thread, SendHasSender, JoinsAlone, TaskEmpty, CommandPlace, SilentAfterStop
<1>4. SenderEmpty /\ TaskTaken /\ QuietBehind
  BY DEF Init, Thread, SenderEmpty, TaskTaken, QuietBehind
<1> QED
  BY <1>2, <1>3, <1>4, TypeInit DEF IInv

\* The invariant behind the safety properties of the player.
THEOREM Invariance == Spec => []IInv
<1>1. IInv /\ [Next]_vars => IInv'
  <2>1. ASSUME IInv, Next PROVE IInv'
    BY <2>1, TypeStep, SendHasSenderStep, OnlyLatestPlaysStep, AplayIsHeldStep, ThreadIsHeldStep,
       JoinsAloneStep, TaskEmptyStep, CommandPlaceStep, SilentAfterStopStep, SenderEmptyStep, TaskTakenStep,
       QuietBehindStep DEF IInv
  <2>2. ASSUME IInv, UNCHANGED vars PROVE IInv'
    BY <2>2
       DEF vars, fields, IInv, TypeOK, SendHasSender, OnlyLatestPlays, AplayIsHeld, ThreadIsHeld,
           JoinsAlone, TaskEmpty, CommandPlace, SilentAfterStop, SenderEmpty, TaskTaken, QuietBehind,
           StartUnderWay, NobodyPlays, NobodyWrites, Over
  <2> QED
    BY <2>1, <2>2
<1> QED
  BY InvInit, <1>1, PTL DEF Spec

\* Type correctness; with it the bound of the queue.
THEOREM TypeCorrect == Spec => []TypeOK
<1>1. IInv => TypeOK
  BY DEF IInv
<1> QED
  BY Invariance, <1>1, PTL

\* The playback device is never opened twice.
THEOREM DeviceSafe == Spec => []OneAplay
<1>1. IInv => OneAplay
  BY PlaybackTypes DEF IInv, OnlyLatestPlays, OneAplay
<1> QED
  BY Invariance, <1>1, PTL

\* When stop_play is answered nothing plays any more.
THEOREM StopSafe == Spec => []StopPlayStops
<1>1. IInv => StopPlayStops
  BY DEF IInv, SilentAfterStop, NobodyPlays, NobodyWrites, StopPlayStops
<1> QED
  BY Invariance, <1>1, PTL

\* A supervisor that no start_play has gone past leaves a silent player.
THEOREM DepartureSafe == Spec => []QuietDeparture
<1>1. IInv => QuietDeparture
  BY DEF IInv, QuietBehind, NobodyPlays, NobodyWrites, QuietDeparture
<1> QED
  BY Invariance, <1>1, PTL

\* A thread that is joined has lost its sender, except behind a start_play, and
\* start_play does not wait for the lock of the task it fills.
THEOREM JoinSafe == Spec => []JoinHasEnd
<1>1. ASSUME IInv PROVE JoinHasEnd
  <2>1. ASSUME NEW t \in Thread, pc[t] = "joined",
               pc["router"] \in Stopping \/ request # "start_play"
        PROVE  ~Connected(joining[t])
    BY <1>1, <2>1
       DEF IInv, TypeOK, Thread, Stopping, JoinsAlone, SenderEmpty, CommandPlace, Connected
  <2>2. pc["router"] = "setTask" => ~TaskLocked
    BY <1>1 DEF IInv, Thread, JoinsAlone, TaskLocked
  <2> QED
    BY <2>1, <2>2 DEF JoinHasEnd
<1> QED
  BY Invariance, <1>1, PTL

-----------------------------------------------------------------------------
(***************************************************************************)
(* The abstract device.                                                    *)
(***************************************************************************)

AplayRuns  == \E i \in DOMAIN plays : plays[i].alive
ThreadRuns == \E i \in DOMAIN plays : plays[i].thread # "done"

\* What the steps that rewrite no playback leave alone.
LEMMA DeviceStutters ==
  ASSUME UNCHANGED plays
  PROVE  UNCHANGED Device!vars
BY DEF Device!vars

\* Spawns takes the device when nobody has it.
LEMMA DeviceTaken ==
  ASSUME IInv, Spawns
  PROVE  Device!Take
<1>1. /\ plays \in Seq(Playback)
      /\ [config |-> config, alive |-> TRUE, thread |-> "recv", queue |-> 0] \in Playback
  BY BoundAssumption DEF IInv, TypeOK, Playback
<1>2. /\ Len(plays') = Len(plays) + 1 /\ Len(plays') \in DOMAIN plays'
      /\ plays'[Len(plays')] = [config |-> config, alive |-> TRUE, thread |-> "recv", queue |-> 0]
  BY <1>1, AppendProperties, LenProperties DEF Spawns
<1>3. ~AplayRuns /\ ~ThreadRuns
  BY DEF IInv, SilentAfterStop, NobodyPlays, NobodyWrites, Spawns, AplayRuns, ThreadRuns
<1>4. AplayRuns' /\ ThreadRuns'
  BY <1>2 DEF AplayRuns, ThreadRuns
<1> QED
  BY <1>2, <1>3, <1>4 DEF Device!Take, AplayRuns, ThreadRuns

\* A playback that is rewritten keeps the device, or ends its aplay or its
\* thread; it is the only one that has either.
LEMMA DeviceGoesOn ==
  ASSUME IInv, plays' \in Seq(Playback), Len(plays') = Len(plays),
         \A i \in DOMAIN plays :
           /\ plays'[i].alive => plays[i].alive
           /\ plays'[i].thread # "done" => plays[i].thread # "done",
         \/ \A i \in DOMAIN plays : plays'[i].alive = plays[i].alive
         \/ \A i \in DOMAIN plays : plays'[i].thread = plays[i].thread
  PROVE  [Device!Next]_(Device!vars)
<1>1. DOMAIN plays' = DOMAIN plays
  BY LenProperties DEF IInv, TypeOK
<1>2. \A i \in DOMAIN plays : plays[i].alive \in BOOLEAN /\ plays'[i].alive \in BOOLEAN
  <2>1. \A i \in DOMAIN plays : plays'[i] \in Playback
    BY <1>1, ElementOfSeq, LenProperties
  <2> QED
    BY <2>1, PlaybackTypes DEF IInv, Playback
<1>3. AplayRuns' => AplayRuns
  BY <1>1, <1>2 DEF AplayRuns
<1>4. ThreadRuns' => ThreadRuns
  BY <1>1 DEF ThreadRuns
<1>5. AplayRuns' = AplayRuns \/ ThreadRuns' = ThreadRuns
  BY <1>1, <1>2 DEF AplayRuns, ThreadRuns
<1> QED
  BY <1>3, <1>4, <1>5
     DEF Device!Next, Device!ProcessEnds, Device!ThreadEnds, Device!vars, AplayRuns, ThreadRuns

\* The player uses the playback device as the abstract device is used: each of
\* its steps takes the device, ends the aplay or the thread, or stutters.
THEOREM Refinement == Spec => ImplementsDevice
<1>1. ASSUME Init PROVE Device!Init
  <2>1. Len(plays) = 0 /\ DOMAIN plays = {}
    BY <1>1 DEF Init
  <2> QED
    BY <2>1 DEF Device!Init
<1>2. ASSUME IInv, Next PROVE [Device!Next]_(Device!vars)
  <2>d. TypeOK /\ plays \in Seq(Playback) /\ DOMAIN plays = 1..Len(plays)
    BY <1>2, PlaybackTypes DEF IInv, TypeOK
  <2>1. CASE UNCHANGED plays
    BY <2>1, DeviceStutters
  <2>2. CASE Spawns
    BY <1>2, <2>2, DeviceTaken DEF Device!Next
  <2>3. ASSUME NEW t \in Thread, KillsAplay(t) PROVE [Device!Next]_(Device!vars)
    <3>1. plays' \in [DOMAIN plays -> Playback]
      BY <2>3, <2>d, PlaybackTypes DEF KillsAplay, Playback
    <3>2. plays' \in Seq(Playback) /\ Len(plays') = Len(plays)
      BY <3>1, <2>d, Rewritten
    <3>3. \A i \in DOMAIN plays :
            (plays'[i].alive => plays[i].alive) /\ plays'[i].thread = plays[i].thread
      BY <2>3, <2>d, PlaybackTypes DEF KillsAplay, Playback
    <3> QED
      BY <1>2, <3>2, <3>3, DeviceGoesOn
  <2>4. CASE Sends
    <3>1. sender \in DOMAIN plays
      BY <1>2, <2>4, <2>d DEF Sends, IInv, SendHasSender, TypeOK
    <3>2. [plays[sender] EXCEPT !.queue = @ + 1] \in Playback
      BY <2>4, <2>d, <3>1, PlaybackTypes, BoundAssumption DEF Sends, Playback
    <3>3. plays' \in [DOMAIN plays -> Playback]
      BY <2>4, <3>1, <3>2, <2>d, PlaybackTypes DEF Sends
    <3>4. plays' \in Seq(Playback) /\ Len(plays') = Len(plays)
      BY <3>3, <2>d, Rewritten
    <3>5. \A i \in DOMAIN plays :
            plays'[i].alive = plays[i].alive /\ plays'[i].thread = plays[i].thread
      BY <2>4, <2>d, <3>1, PlaybackTypes DEF Sends, Playback
    <3> QED
      BY <1>2, <3>4, <3>5, DeviceGoesOn
  <2>5. CASE PlaysOn
    <3>1. plays' \in Seq(Playback) /\ Len(plays') = Len(plays)
      BY <2>5, <2>d, Rewritten DEF PlaysOn
    <3> QED
      BY <1>2, <2>5, <3>1, DeviceGoesOn DEF PlaysOn
  <2>6. ASSUME NEW t \in Thread, TakesSender(t) \/ TakesTask(t) \/ Joins(t)
        PROVE  UNCHANGED plays
    BY <2>6 DEF TakesSender, TakesTask, Joins
  <2>7. CASE \/ \E r \in Request : Begins(r)
             \/ Moves
             \/ SetsSender \/ SetsChild \/ SetsTask
             \/ SendFails \/ Answers \/ Leaves
    <3>1. UNCHANGED plays
      BY <2>7 DEF Begins, Moves, IgnoresDuplicate, StopsOld, SpawnFails, Enqueues, Detached,
         SetsSender, SetsChild, SetsTask, SendFails, Answers, Leaves
    <3> QED
      BY <3>1, <2>1
  <2> QED
    BY <1>2, <2>d, <2>1, <2>2, <2>3, <2>4, <2>5, <2>6, <2>7, Steps
<1>3. ASSUME UNCHANGED vars PROVE UNCHANGED Device!vars
  BY <1>3, DeviceStutters DEF vars
<1> QED
  BY <1>1, <1>2, <1>3, Invariance, PTL DEF Spec, ImplementsDevice, Device!Spec
=============================================================================
