------------------------------- MODULE LxSetup -------------------------------
(***************************************************************************)
(* The preparation of the LX06 for fast recording, once at each start of   *)
(* the client: every sound configuration that lacks the PCM lx06_aec_2ch   *)
(* is copied with the PCM inserted, beside the program, and the copy is    *)
(* mounted over it. fast_recording and its companions are registered only  *)
(* if all of them are in order in the end.                                 *)
(*                                                                         *)
(* Any step may fail, the client may be killed between any two and be      *)
(* started again, and the speaker may be rebooted: copies stay, mounts go. *)
(* One client runs at a time; what it has written is on the disk.          *)
(***************************************************************************)
EXTENDS Naturals

CONSTANTS
  Targets,    \* how many configurations there are: /etc/asound.conf, asound.conf.dts
  MaxStarts   \* bound: starts of the client

ASSUME TargetAssumption == Targets \in Nat \ {0}
ASSUME BoundAssumption == MaxStarts \in Nat

VARIABLES
  pc,        \* where the client is
  at,        \* the target in work
  firmware,  \* what each configuration is beneath all mounts
  copy,      \* the files beside the program
  mounts,    \* how many mounts lie over each configuration
  enabled,   \* AppCapabilities::fast_recording_enabled
  starts,    \* how often the client has been started
  spoiled    \* history: the targets whose copy has been left unfinished

vars == <<pc, at, firmware, copy, mounts, enabled, starts, spoiled>>

Target == 1..Targets

\* The contents of a configuration: without the PCM ("plain", or a copy "cut"
\* short before it), with the PCM's name but cut short after it ("named"), and
\* complete, with permissions of its own ("whole") or those of the original
\* ("ready").
Content == {"plain", "cut", "named", "whole", "ready"}

Starting == {"model", "read", "write", "permit", "mount"}

TypeOK ==
  /\ pc \in {"off", "serving"} \cup Starting
  /\ at \in Target
  /\ firmware \in [Target -> {"plain", "ready"}]
  /\ copy \in [Target -> {"none"} \cup (Content \ {"plain"})]
  /\ mounts \in [Target -> 0..MaxStarts]
  /\ enabled \in BOOLEAN
  /\ enabled => pc = "serving"
  /\ starts \in 0..MaxStarts
  /\ spoiled \subseteq Target

Init ==
  /\ pc = "off"
  /\ at = 1
  /\ firmware \in [Target -> {"plain", "ready"}]
  /\ copy = [t \in Target |-> "none"]
  /\ mounts = [t \in Target |-> 0]
  /\ enabled = FALSE
  /\ starts = 0
  /\ spoiled = {}

\* What a program that opens the configuration finds.
Visible(t) == IF mounts[t] > 0 THEN copy[t] ELSE firmware[t]

\* contains_lx06_aec_pcm looks for the line that begins the definition.
ContainsPcm(c) == c \in {"named", "whole", "ready"}

\* The target in work has been dealt with: the next one, or Ok(true).
Advance ==
  IF at < Targets
  THEN pc' = "read" /\ at' = at + 1 /\ UNCHANGED enabled
  ELSE pc' = "serving" /\ enabled' = TRUE /\ UNCHANGED at

\* The copy in work stays as it is.
Spoil == spoiled' = IF pc \in {"write", "permit"} THEN spoiled \cup {at} ELSE spoiled

-----------------------------------------------------------------------------
\* One start of the client.

Starts ==
  /\ pc = "off"
  /\ starts < MaxStarts
  /\ pc' = "model"
  /\ at' = 1
  /\ starts' = starts + 1
  /\ UNCHANGED <<firmware, copy, mounts, enabled, spoiled>>

IsLx06 ==
  /\ pc = "model"
  /\ pc' = "read"
  /\ UNCHANGED <<at, firmware, copy, mounts, enabled, starts, spoiled>>

\* Ok(false): another model, or micocfg_model says nothing.
IsOtherModel ==
  /\ pc = "model"
  /\ pc' = "serving"
  /\ UNCHANGED <<at, firmware, copy, mounts, enabled, starts, spoiled>>

SkipsPatched ==
  /\ pc = "read"
  /\ ContainsPcm(Visible(at))
  /\ Advance
  /\ UNCHANGED <<firmware, copy, mounts, starts, spoiled>>

\* Mutant: a copy beside the program is taken for one that is mounted.
SkipsCopied ==
  /\ pc = "read"
  /\ ~ContainsPcm(Visible(at))
  /\ copy[at] # "none"
  /\ Advance
  /\ UNCHANGED <<firmware, copy, mounts, starts, spoiled>>

\* Mutant: the configuration is not looked at when there is a copy.
FindsCopyFirst ==
  /\ pc = "read"
  /\ copy[at] # "none"
  /\ pc' = "mount"
  /\ UNCHANGED <<at, firmware, copy, mounts, enabled, starts, spoiled>>

\* A copy of an earlier start is mounted as it is.
FindsCopy ==
  /\ pc = "read"
  /\ ~ContainsPcm(Visible(at))
  /\ copy[at] # "none"
  /\ pc' = "mount"
  /\ UNCHANGED <<at, firmware, copy, mounts, enabled, starts, spoiled>>

\* Mutant: the copy is written anew at each start.
WritesAnew ==
  /\ pc = "read"
  /\ copy' = [copy EXCEPT ![at] = "cut"]
  /\ pc' = "write"
  /\ UNCHANGED <<at, firmware, mounts, enabled, starts, spoiled>>

\* fs::write creates the file, ...
CreatesCopy ==
  /\ pc = "read"
  /\ ~ContainsPcm(Visible(at))
  /\ copy[at] = "none"
  /\ copy' = [copy EXCEPT ![at] = "cut"]
  /\ pc' = "write"
  /\ UNCHANGED <<at, firmware, mounts, enabled, starts, spoiled>>

\* ... fills it, past the name of the PCM, ...
WritesName ==
  /\ pc = "write"
  /\ copy[at] = "cut"
  /\ copy' = [copy EXCEPT ![at] = "named"]
  /\ UNCHANGED <<pc, at, firmware, mounts, enabled, starts, spoiled>>

\* ... to its end.
WritesRest ==
  /\ pc = "write"
  /\ copy[at] = "named"
  /\ copy' = [copy EXCEPT ![at] = "whole"]
  /\ pc' = "permit"
  /\ UNCHANGED <<at, firmware, mounts, enabled, starts, spoiled>>

SetsPermissions ==
  /\ pc = "permit"
  /\ copy' = [copy EXCEPT ![at] = "ready"]
  /\ pc' = "mount"
  /\ UNCHANGED <<at, firmware, mounts, enabled, starts, spoiled>>

Mounts ==
  /\ pc = "mount"
  /\ mounts' = [mounts EXCEPT ![at] = @ + 1]
  /\ Advance
  /\ UNCHANGED <<firmware, copy, starts, spoiled>>

\* A command or a system call fails: the client goes on without fast recording.
Fails ==
  /\ pc \in Starting
  /\ Spoil
  /\ pc' = "serving"
  /\ UNCHANGED <<at, firmware, copy, mounts, enabled, starts>>

-----------------------------------------------------------------------------
\* The client's end and the speaker's.

Killed ==
  /\ pc # "off"
  /\ Spoil
  /\ pc' = "off"
  /\ enabled' = FALSE
  /\ UNCHANGED <<at, firmware, copy, mounts, starts>>

Reboots ==
  /\ Spoil
  /\ pc' = "off"
  /\ enabled' = FALSE
  /\ mounts' = [t \in Target |-> 0]
  /\ UNCHANGED <<at, firmware, copy, starts>>

Next ==
  \/ Starts
  \/ IsLx06
  \/ IsOtherModel
  \/ SkipsPatched
  \/ FindsCopy
  \/ CreatesCopy
  \/ WritesName
  \/ WritesRest
  \/ SetsPermissions
  \/ Mounts
  \/ Fails
  \/ Killed
  \/ Reboots

Spec == Init /\ [][Next]_vars

-----------------------------------------------------------------------------
\* What the setup guarantees.

\* A copy that some start has left unfinished is taken for a good one: a later
\* start has mounted it.
MountedUnfinished(t) == t \in spoiled /\ mounts[t] > 0

\* fast_recording is registered only when every configuration is in order, as it
\* came or replaced by a complete copy with the permissions of the original, or
\* has an unfinished copy mounted over it. Nothing else is excused: no mount left
\* out, no copy of the same run half done, no target after the one that failed.
EnabledMeansReady == enabled => \A t \in Target : Visible(t) = "ready" \/ MountedUnfinished(t)

\* Only a configuration whose firmware lacks the PCM is mounted over, with a
\* finished copy or one that a start has left unfinished, and mounts pile up over
\* one kind only: a copy that was cut before the name of the PCM, which every later
\* start finds without it and mounts once more. However often the client is
\* started, and wherever a start fails or is killed.
PilesOnlyOverCut ==
  \A t \in Target : mounts[t] > 0 =>
    /\ firmware[t] = "plain"
    /\ copy[t] = "ready" \/ t \in spoiled
    /\ mounts[t] > 1 => copy[t] = "cut"

\* A configuration that is in order may be in use by then: no later start and no
\* failure makes it anything else, only a reboot takes its mount away.
StaysInOrder ==
  [][~Reboots => \A t \in Target : Visible(t) = "ready" => Visible(t)' = "ready"]_vars

\* lx06_audio.rs: "Ok(true): both files have the lx06_aec_2ch configuration".
OkMeansConfigured == enabled => \A t \in Target : ContainsPcm(Visible(t))
=============================================================================
