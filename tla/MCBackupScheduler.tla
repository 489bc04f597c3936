------------------------- MODULE MCBackupScheduler -------------------------
(* BackupScheduler for TLC, with words of eight bits and minutes of twelve     *)
(* units: eleven minutes are more than a word's positive half holds.  Two      *)
(* other small parts of the API process are explored in the same run, stop     *)
(* requests and the map of runtimes; part says which.                          *)
EXTENDS BackupScheduler, ServerStop, Runtimes

VARIABLE part

InitAll ==
  /\ part \in {"scheduler", "stop", "runtimes"}
  /\ Init /\ StopInit
  /\ RuntimesInit /\ (part # "runtimes" => registry = {})

NextAll ==
  /\ UNCHANGED part
  /\ \/ part = "scheduler" /\ Next /\ UNCHANGED <<stopVars, runtimesVars>>
     \/ part = "stop" /\ StopNext /\ UNCHANGED <<vars, runtimesVars>>
     \/ part = "runtimes" /\ RuntimesNext /\ UNCHANGED <<vars, stopVars>>

SpecAll == InitAll /\ [][NextAll]_<<part, vars, stopVars, runtimesVars>> /\ SchedulerRuns
=============================================================================
