----------------------------- MODULE MCRecorder -----------------------------
(***************************************************************************)
(* Recorder with a few starts and short queues.                            *)
(***************************************************************************)
EXTENDS RecorderProofs
=============================================================================
