---------------------------- MODULE MCSupervisor ----------------------------
(***************************************************************************)
(* Supervisor on small sets of connections. The module of the proofs is    *)
(* extended for its inductive invariant, which TLC checks here as well.    *)
(***************************************************************************)
EXTENDS SupervisorProofs
=============================================================================
