---------------------------- MODULE LxSetupProofs ----------------------------
(***************************************************************************)
(* Proofs about LxSetup for any number of configurations and starts.       *)
(***************************************************************************)
EXTENDS LxSetup, TLAPS

-----------------------------------------------------------------------------
\* The inductive invariant, in named parts.

Working == {"read", "write", "permit", "mount"}

\* A copy that no start has left unfinished is complete, but for the one in
\* work.
CopiesFinished ==
  \A t \in Target \ spoiled :
    copy[t] \in {"none", "ready"} \/ (t = at /\ pc \in {"write", "permit"})

\* The configurations before the one in work are in order, or have an unfinished
\* copy of an earlier start over them.
DoneAreReady ==
  /\ pc = "model" => at = 1
  /\ pc \in Working =>
       \A t \in Target : t < at => Visible(t) = "ready" \/ MountedUnfinished(t)

\* What is written and mounted is for a configuration that lacks the PCM, and if it
\* is mounted over already, then with a copy that was cut before the PCM.
WorkIsNeeded ==
  pc \in {"write", "permit", "mount"} =>
    /\ firmware[at] = "plain"
    /\ mounts[at] > 0 => pc = "mount" /\ copy[at] = "cut"
    /\ pc = "mount" => copy[at] = "ready" \/ at \in spoiled

\* Each start mounts each configuration once at most.
MountsCounted ==
  /\ \A t \in Target : mounts[t] <= starts
  /\ pc = "model" => \A t \in Target : mounts[t] < starts
  /\ pc \in Working => \A t \in Target : t >= at => mounts[t] < starts

\* A copy is written once: an unfinished one is never taken up again. What is
\* mounted over is not in order.
WorkIsFresh ==
  /\ \A t \in spoiled : copy[t] # "none"
  /\ pc \in {"write", "permit"} => at \notin spoiled /\ copy[at] # "none"
  /\ pc = "mount" => Visible(at) # "ready"

IInv ==
  /\ TypeOK
  /\ CopiesFinished
  /\ DoneAreReady
  /\ WorkIsNeeded
  /\ WorkIsFresh
  /\ MountsCounted
  /\ EnabledMeansReady
  /\ PilesOnlyOverCut

-----------------------------------------------------------------------------
(***************************************************************************)
(* The invariant holds at first and is kept by every step.                 *)
(***************************************************************************)

\* Nothing is written, mounted or announced.
LEMMA InvariantInit == Init => IInv
<1> SUFFICES ASSUME Init PROVE IInv
  OBVIOUS
<1>1. TypeOK
  <2>1. mounts \in [Target -> 0..MaxStarts] /\ 0 \in 0..MaxStarts
    BY BoundAssumption DEF Init
  <2>2. copy \in [Target -> {"none"} \cup (Content \ {"plain"})]
    BY DEF Init
  <2>3. at \in Target
    BY TargetAssumption DEF Init, Target
  <2> QED
    BY <2>1, <2>2, <2>3 DEF Init, TypeOK
<1>2. /\ CopiesFinished /\ DoneAreReady /\ WorkIsNeeded /\ WorkIsFresh
      /\ EnabledMeansReady /\ PilesOnlyOverCut
  BY DEF Init, CopiesFinished, DoneAreReady, WorkIsNeeded, WorkIsFresh, EnabledMeansReady,
         PilesOnlyOverCut, Target, Working
<1>3. MountsCounted
  BY DEF Init, MountsCounted, Working
<1> QED
  BY <1>1, <1>2, <1>3 DEF IInv

\* The next target is in work, or the start is over.
LEMMA AdvanceGoesOn ==
  ASSUME TypeOK, pc \in Working, Advance
  PROVE  \/ pc' = "read" /\ at \in Nat /\ at' = at + 1 /\ at' \in Target /\ enabled' = FALSE
         \/ pc' = "serving" /\ at' = at /\ at = Targets /\ at' \in Target /\ enabled' = TRUE
<1>1. at \in 1..Targets /\ Targets \in Nat /\ ~enabled
  BY TargetAssumption DEF TypeOK, Target, Working
<1>2. CASE at < Targets
  BY <1>1, <1>2 DEF Advance, Target, TypeOK
<1>3. CASE ~(at < Targets)
  BY <1>1, <1>3 DEF Advance, Target
<1> QED
  BY <1>2, <1>3

\* The variables keep their types; a mount more is within the bound because
\* each start mounts a target once.
LEMMA TypeStep ==
  ASSUME TypeOK, MountsCounted, Next
  PROVE  TypeOK'
<1>1. CASE Starts
  BY <1>1, TargetAssumption, BoundAssumption DEF Starts, TypeOK, Target, Starting
<1>2. CASE IsLx06 \/ IsOtherModel
  BY <1>2 DEF IsLx06, IsOtherModel, TypeOK, Starting
<1>3. CASE SkipsPatched
  BY <1>3, AdvanceGoesOn DEF SkipsPatched, TypeOK, Starting, Working
<1>4. CASE FindsCopy \/ CreatesCopy \/ WritesName \/ WritesRest \/ SetsPermissions
  <2>1. copy' \in [Target -> {"none"} \cup (Content \ {"plain"})]
    BY <1>4 DEF FindsCopy, CreatesCopy, WritesName, WritesRest, SetsPermissions, TypeOK, Content
  <2> QED
    BY <1>4, <2>1 DEF FindsCopy, CreatesCopy, WritesName, WritesRest, SetsPermissions, TypeOK,
                      Starting
<1>5. CASE Mounts
  <2>1. mounts[at] \in Nat /\ mounts[at] < starts /\ starts \in Nat /\ starts <= MaxStarts
    BY <1>5, TargetAssumption, BoundAssumption DEF Mounts, TypeOK, MountsCounted, Working, Target
  <2>2. mounts' \in [Target -> 0..MaxStarts]
    BY <1>5, <2>1, BoundAssumption DEF Mounts, TypeOK
  <2> QED
    BY <1>5, <2>2, AdvanceGoesOn DEF Mounts, TypeOK, Starting, Working
<1>6. CASE Fails \/ Killed
  BY <1>6 DEF Fails, Killed, Spoil, TypeOK, Starting
<1>7. CASE Reboots
  <2>1. mounts' \in [Target -> 0..MaxStarts]
    BY <1>7, BoundAssumption DEF Reboots
  <2> QED
    BY <1>7, <2>1 DEF Reboots, Spoil, TypeOK
<1> QED
  BY <1>1, <1>2, <1>3, <1>4, <1>5, <1>6, <1>7 DEF Next

\* A copy is only ever unfinished while it is in work, or spoiled.
LEMMA CopiesStep ==
  ASSUME TypeOK, CopiesFinished, Next
  PROVE  CopiesFinished'
<1>1. CASE SkipsPatched \/ Mounts
  BY <1>1 DEF SkipsPatched, Mounts, CopiesFinished
<1>2. CASE CreatesCopy \/ WritesName \/ WritesRest \/ SetsPermissions
  BY <1>2 DEF CreatesCopy, WritesName, WritesRest, SetsPermissions, CopiesFinished, TypeOK
<1>3. CASE Starts \/ IsLx06 \/ IsOtherModel \/ FindsCopy
  BY <1>3 DEF Starts, IsLx06, IsOtherModel, FindsCopy, CopiesFinished
<1>4. CASE Fails \/ Killed \/ Reboots
  BY <1>4 DEF Fails, Killed, Reboots, Spoil, CopiesFinished, TypeOK
<1> QED
  BY <1>1, <1>2, <1>3, <1>4 DEF Next

\* No mount is made twice by one start.
LEMMA CountStep ==
  ASSUME TypeOK, DoneAreReady, MountsCounted, Next
  PROVE  MountsCounted'
<1> USE DEF MountsCounted, Working
<1>1. /\ Targets \in Nat /\ starts \in Nat /\ at \in Nat
      /\ \A t \in Target : mounts[t] \in Nat /\ t \in Nat
  BY TargetAssumption, BoundAssumption DEF TypeOK, Target
<1>2. CASE Starts
  BY <1>1, <1>2 DEF Starts
<1>3. CASE IsLx06 \/ IsOtherModel
  BY <1>3 DEF IsLx06, IsOtherModel
<1>4. CASE SkipsPatched
  <2>1. pc \in Working /\ Advance /\ mounts' = mounts /\ starts' = starts
    BY <1>4 DEF SkipsPatched, Working
  <2>2. pc' = "serving" \/ at' = at + 1
    BY <2>1, AdvanceGoesOn
  <2>3. pc' \in {"read", "serving"}
    BY <2>1, AdvanceGoesOn
  <2> QED
    BY <1>1, <2>1, <2>2, <2>3
<1>5. CASE FindsCopy \/ CreatesCopy \/ WritesName \/ WritesRest \/ SetsPermissions
  BY <1>5 DEF FindsCopy, CreatesCopy, WritesName, WritesRest, SetsPermissions
<1>6. CASE Mounts
  <2>1. pc \in Working /\ Advance /\ starts' = starts /\ at \in Target
    BY <1>6 DEF Mounts, Working, TypeOK
  <2>2. pc' \in {"read", "serving"} /\ (pc' = "serving" \/ at' = at + 1)
    BY <2>1, AdvanceGoesOn
  <2>3. /\ mounts'[at] = mounts[at] + 1
        /\ \A t \in Target : t # at => mounts'[t] = mounts[t]
    BY <1>6 DEF Mounts, TypeOK
  <2> QED
    BY <1>1, <2>1, <2>2, <2>3
<1>7. CASE Fails \/ Killed
  BY <1>7 DEF Fails, Killed
<1>8. CASE Reboots
  BY <1>1, <1>8 DEF Reboots
<1> QED
  BY <1>2, <1>3, <1>4, <1>5, <1>6, <1>7, <1>8 DEF Next

\* A copy is only written where nothing is mounted: what has been mounted has a
\* copy.
LEMMA CreatesUnmounted ==
  ASSUME TypeOK, PilesOnlyOverCut, WorkIsFresh, CreatesCopy
  PROVE  mounts[at] = 0 /\ firmware[at] = "plain"
<1>1. mounts[at] = 0
  <2>1. at \in Target /\ mounts[at] \in Nat /\ copy[at] = "none"
    BY BoundAssumption DEF CreatesCopy, TypeOK
  <2>2. ~(mounts[at] > 0)
    BY <2>1 DEF PilesOnlyOverCut, WorkIsFresh
  <2> QED
    BY <2>1, <2>2
<1> QED
  BY <1>1 DEF CreatesCopy, Visible, ContainsPcm, TypeOK

\* Work is only begun where the PCM is missing, and nothing else mounts.
LEMMA WorkStep ==
  ASSUME TypeOK, CopiesFinished, PilesOnlyOverCut, WorkIsNeeded, WorkIsFresh, Next
  PROVE  WorkIsNeeded'
<1>1. CASE Starts \/ IsLx06 \/ IsOtherModel \/ Fails \/ Killed \/ Reboots
  BY <1>1 DEF Starts, IsLx06, IsOtherModel, Fails, Killed, Reboots, WorkIsNeeded
<1>2. CASE SkipsPatched \/ Mounts
  BY <1>2, AdvanceGoesOn DEF SkipsPatched, Mounts, WorkIsNeeded, Working
<1>3. CASE FindsCopy
  <2>1. at \in Target /\ mounts[at] \in Nat /\ pc = "read" /\ copy[at] # "none"
    BY <1>3, BoundAssumption DEF FindsCopy, TypeOK
  <2>2. copy[at] = "ready" \/ at \in spoiled
    BY <2>1 DEF CopiesFinished
  <2>3. mounts[at] > 0 => copy[at] = "cut"
    BY <1>3, <2>1 DEF FindsCopy, Visible, ContainsPcm, TypeOK, Content
  <2>4. firmware[at] = "plain"
    BY <1>3, <2>1 DEF FindsCopy, Visible, ContainsPcm, TypeOK, PilesOnlyOverCut
  <2> QED
    BY <1>3, <2>2, <2>3, <2>4 DEF FindsCopy, WorkIsNeeded
<1>4. CASE CreatesCopy
  BY <1>4, CreatesUnmounted DEF CreatesCopy, WorkIsNeeded
<1>5. CASE WritesName \/ WritesRest
  BY <1>5 DEF WritesName, WritesRest, WorkIsNeeded, TypeOK
<1>6. CASE SetsPermissions
  BY <1>6 DEF SetsPermissions, WorkIsNeeded, TypeOK
<1> QED
  BY <1>1, <1>2, <1>3, <1>4, <1>5, <1>6 DEF Next

\* A copy is begun only where there is none, and a mount where it is missing.
LEMMA FreshStep ==
  ASSUME TypeOK, WorkIsNeeded, WorkIsFresh, Next
  PROVE  WorkIsFresh'
<1>1. CASE Starts \/ IsLx06 \/ IsOtherModel
  BY <1>1 DEF Starts, IsLx06, IsOtherModel, WorkIsFresh
<1>2. CASE Fails \/ Killed \/ Reboots
  BY <1>2 DEF Fails, Killed, Reboots, Spoil, WorkIsFresh
<1>3. CASE SkipsPatched \/ Mounts
  BY <1>3, AdvanceGoesOn DEF SkipsPatched, Mounts, WorkIsFresh, Working
<1>4. CASE FindsCopy
  BY <1>4 DEF FindsCopy, WorkIsFresh, Visible, ContainsPcm
<1>5. CASE CreatesCopy \/ WritesName \/ WritesRest
  BY <1>5 DEF CreatesCopy, WritesName, WritesRest, WorkIsFresh, TypeOK
<1>6. CASE SetsPermissions
  <2>1. Visible(at)' = "plain"
    BY <1>6 DEF SetsPermissions, WorkIsFresh, WorkIsNeeded, Visible
  <2> QED
    BY <1>6, <2>1 DEF SetsPermissions, WorkIsFresh, TypeOK
<1> QED
  BY <1>1, <1>2, <1>3, <1>4, <1>5, <1>6 DEF Next

\* A mount more is the first over its target, or of a copy that was cut before the
\* PCM; a copy that is written is not mounted.
LEMMA MountStep ==
  ASSUME TypeOK, WorkIsNeeded, WorkIsFresh, PilesOnlyOverCut, Next
  PROVE  PilesOnlyOverCut'
<1>1. CASE Starts \/ IsLx06 \/ IsOtherModel \/ SkipsPatched \/ FindsCopy
  BY <1>1 DEF Starts, IsLx06, IsOtherModel, SkipsPatched, FindsCopy, PilesOnlyOverCut
<1>2. CASE CreatesCopy \/ WritesName \/ WritesRest \/ SetsPermissions
  <2>1. at \in Target /\ mounts[at] \in Nat
    BY BoundAssumption DEF TypeOK
  <2>2. mounts[at] = 0
    BY <1>2, <2>1, CreatesUnmounted DEF WritesName, WritesRest, SetsPermissions, WorkIsNeeded
  <2>3. /\ mounts' = mounts /\ firmware' = firmware /\ spoiled' = spoiled
        /\ \A t \in Target : t # at => copy'[t] = copy[t]
    BY <1>2 DEF CreatesCopy, WritesName, WritesRest, SetsPermissions, TypeOK
  <2> QED
    BY <2>2, <2>3 DEF PilesOnlyOverCut
<1>3. CASE Mounts
  <2>1. at \in Target /\ mounts[at] \in Nat
    BY BoundAssumption DEF TypeOK
  <2>2. /\ copy' = copy /\ firmware' = firmware /\ spoiled' = spoiled
        /\ mounts'[at] = mounts[at] + 1
        /\ \A t \in Target : t # at => mounts'[t] = mounts[t]
    BY <1>3 DEF Mounts, TypeOK
  <2>3. /\ firmware[at] = "plain"
        /\ copy[at] = "ready" \/ at \in spoiled
        /\ mounts[at] > 0 => copy[at] = "cut"
    BY <1>3 DEF Mounts, WorkIsNeeded
  <2> QED
    BY <2>1, <2>2, <2>3 DEF PilesOnlyOverCut
<1>4. CASE Fails \/ Killed
  BY <1>4 DEF Fails, Killed, Spoil, PilesOnlyOverCut
<1>5. CASE Reboots
  BY <1>5 DEF Reboots, PilesOnlyOverCut
<1> QED
  BY <1>1, <1>2, <1>3, <1>4, <1>5 DEF Next

\* A configuration that is in order stays so as long as it is not rebooted
\* away, which ends the client: what is in work is not in order.
LEMMA ReadyStaysReady ==
  ASSUME TypeOK, WorkIsNeeded, WorkIsFresh, Next, ~Reboots,
         NEW t \in Target, Visible(t) = "ready"
  PROVE  Visible(t)' = "ready"
<1>1. CASE mounts' = mounts /\ copy' = copy /\ firmware' = firmware
  BY <1>1 DEF Visible
<1>2. CASE CreatesCopy
  <2>1. t # at
    BY <1>2 DEF CreatesCopy, ContainsPcm
  <2> QED
    BY <1>2, <2>1 DEF CreatesCopy, Visible, TypeOK
<1>3. CASE WritesName \/ WritesRest \/ SetsPermissions
  <2>1. t # at
    BY <1>3 DEF WritesName, WritesRest, SetsPermissions, WorkIsFresh, WorkIsNeeded, Visible
  <2> QED
    BY <1>3, <2>1 DEF WritesName, WritesRest, SetsPermissions, Visible, TypeOK
<1>4. CASE Mounts
  <2>1. t # at
    BY <1>4 DEF Mounts, WorkIsFresh
  <2> QED
    BY <1>4, <2>1 DEF Mounts, Visible, TypeOK
<1> QED
  BY <1>1, <1>2, <1>3, <1>4 DEF Next, Starts, IsLx06, IsOtherModel, SkipsPatched, FindsCopy, Fails,
                                Killed

\* Neither does an unfinished copy that is mounted go away without a reboot.
LEMMA DealtWithStays ==
  ASSUME TypeOK, WorkIsNeeded, WorkIsFresh, Next, ~Reboots,
         NEW t \in Target, Visible(t) = "ready" \/ MountedUnfinished(t)
  PROVE  Visible(t)' = "ready" \/ MountedUnfinished(t)'
<1>1. CASE Visible(t) = "ready"
  BY <1>1, ReadyStaysReady
<1>2. CASE MountedUnfinished(t)
  <2>1. spoiled \subseteq spoiled'
    BY DEF Next, Starts, IsLx06, IsOtherModel, SkipsPatched, FindsCopy, CreatesCopy, WritesName,
           WritesRest, SetsPermissions, Mounts, Fails, Killed, Spoil
  <2>2. mounts'[t] > 0
    <3>1. CASE Mounts
      BY <1>2, <3>1, BoundAssumption DEF Mounts, MountedUnfinished, TypeOK
    <3>2. CASE ~Mounts
      BY <1>2, <3>2 DEF Next, Starts, IsLx06, IsOtherModel, SkipsPatched, FindsCopy, CreatesCopy,
                        WritesName, WritesRest, SetsPermissions, Fails, Killed, MountedUnfinished
    <3> QED
      BY <3>1, <3>2
  <2> QED
    BY <1>2, <2>1, <2>2 DEF MountedUnfinished
<1> QED
  BY <1>1, <1>2

\* The target in work is in order when it is left, or has an unfinished copy over
\* it.
LEMMA LeftIsDealtWith ==
  ASSUME TypeOK, WorkIsNeeded, PilesOnlyOverCut, SkipsPatched \/ Mounts,
         NEW t \in Target, t = at
  PROVE  Visible(t)' = "ready" \/ MountedUnfinished(t)'
<1>1. CASE SkipsPatched
  <2>1. mounts' = mounts /\ copy' = copy /\ firmware' = firmware /\ spoiled' = spoiled
    BY <1>1 DEF SkipsPatched
  <2>2. ContainsPcm(Visible(t)) /\ firmware[t] \in {"plain", "ready"} /\ mounts[t] \in Nat
    BY <1>1, BoundAssumption DEF SkipsPatched, TypeOK
  <2>3. mounts[t] > 0 => copy[t] = "ready" \/ t \in spoiled
    BY <2>2 DEF PilesOnlyOverCut
  <2>4. Visible(t) = "ready" \/ MountedUnfinished(t)
    BY <2>2, <2>3 DEF Visible, ContainsPcm, MountedUnfinished
  <2> QED
    BY <2>1, <2>4 DEF Visible, MountedUnfinished
<1>2. CASE Mounts
  <2>1. copy[t] = "ready" \/ t \in spoiled
    BY <1>2 DEF Mounts, WorkIsNeeded
  <2>2. mounts'[t] > 0 /\ copy' = copy /\ spoiled' = spoiled
    BY <1>2, BoundAssumption DEF Mounts, TypeOK
  <2> QED
    BY <2>1, <2>2 DEF Visible, MountedUnfinished
<1> QED
  BY <1>1, <1>2

\* What has been dealt with stays so until the next start.
LEMMA DoneStep ==
  ASSUME TypeOK, WorkIsNeeded, WorkIsFresh, PilesOnlyOverCut, DoneAreReady, Next
  PROVE  DoneAreReady'
<1>1. CASE Starts \/ IsLx06 \/ IsOtherModel \/ Fails \/ Killed \/ Reboots
  BY <1>1, TargetAssumption
     DEF Starts, IsLx06, IsOtherModel, Fails, Killed, Reboots, DoneAreReady, Working, Target
<1>2. CASE SkipsPatched \/ Mounts
  <2>1. pc \in Working /\ Advance
    BY <1>2 DEF SkipsPatched, Mounts, Working
  <2>2. pc' # "model"
    BY <2>1, AdvanceGoesOn
  <2>3. ASSUME NEW t \in Target, pc' \in Working, t < at'
        PROVE  Visible(t)' = "ready" \/ MountedUnfinished(t)'
    <3>1. pc' # "serving"
      BY <2>3 DEF Working
    <3>2. at \in Nat /\ at' = at + 1
      BY <2>1, <3>1, AdvanceGoesOn
    <3>3. t \in Nat
      BY TargetAssumption DEF Target
    <3>4. CASE t = at
      BY <1>2, <2>3, <3>4, LeftIsDealtWith
    <3>5. CASE t < at
      <4>1. Visible(t) = "ready" \/ MountedUnfinished(t)
        BY <2>1, <2>3, <3>5 DEF DoneAreReady
      <4>2. ~Reboots
        BY <2>1, <2>3 DEF Reboots, Working
      <4> QED
        BY <4>1, <4>2, DealtWithStays
    <3> QED
      BY <2>3, <3>2, <3>3, <3>4, <3>5
  <2> QED
    BY <2>1, <2>2, <2>3 DEF DoneAreReady
<1>3. CASE FindsCopy \/ CreatesCopy \/ WritesName \/ WritesRest \/ SetsPermissions
  <2>1. /\ pc \in Working /\ pc' \in Working /\ pc' # "model"
        /\ at' = at /\ ~Reboots
    BY <1>3 DEF FindsCopy, CreatesCopy, WritesName, WritesRest, SetsPermissions, Working, Reboots
  <2>2. ASSUME NEW t \in Target, t < at
        PROVE  Visible(t)' = "ready" \/ MountedUnfinished(t)'
    BY <2>1, <2>2, DealtWithStays DEF DoneAreReady
  <2> QED
    BY <2>1, <2>2 DEF DoneAreReady
<1> QED
  BY <1>1, <1>2, <1>3 DEF Next

\* The capability is announced after the last target, and nothing changes
\* afterwards but by a kill or a reboot, which takes it back.
LEMMA EnabledStep ==
  ASSUME TypeOK, WorkIsNeeded, WorkIsFresh, PilesOnlyOverCut, DoneAreReady,
         EnabledMeansReady, Next
  PROVE  EnabledMeansReady'
<1>1. CASE SkipsPatched \/ Mounts
  <2>1. pc \in Working /\ Advance
    BY <1>1 DEF SkipsPatched, Mounts, Working
  <2>2. ASSUME NEW t \in Target, enabled'
        PROVE  Visible(t)' = "ready" \/ MountedUnfinished(t)'
    <3>1. at = Targets /\ Targets \in Nat /\ t \in Nat /\ t <= Targets
      BY <2>1, <2>2, AdvanceGoesOn, TargetAssumption DEF Target
    <3>2. CASE t = at
      BY <1>1, <2>2, <3>2, LeftIsDealtWith
    <3>3. CASE t < at
      <4>1. Visible(t) = "ready" \/ MountedUnfinished(t)
        BY <2>1, <2>2, <3>3 DEF DoneAreReady
      <4>2. ~Reboots
        BY <2>1, <2>2, AdvanceGoesOn DEF Reboots
      <4> QED
        BY <4>1, <4>2, DealtWithStays
    <3> QED
      BY <3>1, <3>2, <3>3
  <2> QED
    BY <2>2 DEF EnabledMeansReady
<1>2. CASE Fails \/ Killed \/ Reboots
  BY <1>2 DEF Fails, Killed, Reboots, EnabledMeansReady, TypeOK, Starting
<1>3. CASE Starts \/ IsLx06 \/ IsOtherModel \/ FindsCopy \/ CreatesCopy \/ WritesName \/ WritesRest
           \/ SetsPermissions
  BY <1>3 DEF Starts, IsLx06, IsOtherModel, FindsCopy, CreatesCopy, WritesName, WritesRest,
              SetsPermissions, EnabledMeansReady, TypeOK
<1> QED
  BY <1>1, <1>2, <1>3 DEF Next

-----------------------------------------------------------------------------
(***************************************************************************)
(* The theorems.                                                           *)
(***************************************************************************)

\* The invariant behind the safety properties of the setup.
THEOREM Invariance == Spec => []IInv
<1>1. IInv /\ [Next]_vars => IInv'
  <2>1. ASSUME IInv, Next PROVE IInv'
    BY <2>1, TypeStep, CopiesStep, DoneStep, WorkStep, FreshStep, CountStep, EnabledStep,
       MountStep
    DEF IInv
  <2>2. ASSUME IInv, UNCHANGED vars PROVE IInv'
    BY <2>2 DEF IInv, vars, TypeOK, CopiesFinished, DoneAreReady, WorkIsNeeded, WorkIsFresh,
                MountsCounted, EnabledMeansReady, PilesOnlyOverCut, Visible, MountedUnfinished
  <2> QED
    BY <2>1, <2>2
<1> QED
  BY InvariantInit, <1>1, PTL DEF Spec

\* Type correctness; with it the bound of the mounts.
THEOREM TypeCorrect == Spec => []TypeOK
<1>1. IInv => TypeOK
  BY DEF IInv
<1> QED
  BY Invariance, <1>1, PTL

\* fast_recording is announced only when every configuration is in order or has a
\* copy mounted over it that an earlier start left unfinished (lx06_audio.rs,
\* ensure_asound_config_mounted).
THEOREM CapabilitySafe == Spec => []EnabledMeansReady
<1>1. IInv => EnabledMeansReady
  BY DEF IInv
<1> QED
  BY Invariance, <1>1, PTL

\* Mounts lie over configurations that lack the PCM only, and more than one lies
\* only over a copy that was cut before the PCM's name (lx06_audio.rs, the check of
\* what the path shows and bind_mount).
THEOREM MountsSafe == Spec => []PilesOnlyOverCut
<1>1. IInv => PilesOnlyOverCut
  BY DEF IInv
<1> QED
  BY Invariance, <1>1, PTL

\* A configuration in order stays so until the speaker is rebooted, whichever
\* start fails or is killed where.
THEOREM InOrderSafe == Spec => StaysInOrder
<1> DEFINE Kept == ~Reboots => \A t \in Target : Visible(t) = "ready" => Visible(t)' = "ready"
<1>1. ASSUME IInv, [Next]_vars
      PROVE  [Kept]_vars
  BY <1>1, ReadyStaysReady DEF IInv
<1>2. IInv /\ [Next]_vars => [Kept]_vars
  BY <1>1
<1> QED
  BY Invariance, <1>2, PTL DEF Spec, StaysInOrder
=============================================================================
