---------------------------- MODULE MCSupervisor ----------------------------
(* Supervisor for TLC.  Process identities are reused, so two of them let a *)
(* stale reference meet a new process.                                      *)
EXTENDS Supervisor

=============================================================================
