------------------------------ MODULE DeviceUse ------------------------------
(***************************************************************************)
(* How one peer uses a sound device, whatever threads and locks carry it   *)
(* out. A use is a child process that has the device (arecord, aplay) and  *)
(* a thread at the other end of its pipe; the two end in any order. The    *)
(* device is not taken again before both have ended, and what has ended    *)
(* does not come back.                                                     *)
(***************************************************************************)
EXTENDS Naturals

VARIABLES
  uses,     \* how often the device has been taken
  process,  \* the child process runs
  thread    \* the thread at its pipe runs

vars == <<uses, process, thread>>

Init ==
  /\ uses = 0
  /\ process = FALSE
  /\ thread = FALSE

Take ==
  /\ ~process
  /\ ~thread
  /\ uses' = uses + 1
  /\ process' = TRUE
  /\ thread' = TRUE

ProcessEnds ==
  /\ process
  /\ process' = FALSE
  /\ UNCHANGED <<uses, thread>>

ThreadEnds ==
  /\ thread
  /\ thread' = FALSE
  /\ UNCHANGED <<uses, process>>

Next == Take \/ ProcessEnds \/ ThreadEnds

Spec == Init /\ [][Next]_vars
=============================================================================
