---------------------------- MODULE MCWriterPump ----------------------------
(***************************************************************************)
(* WriterPump with a few handles and short queues.                         *)
(***************************************************************************)
EXTENDS WriterPumpProofs
=============================================================================
