------------------------------ MODULE MCBackup ------------------------------
(* Backup for TLC, in two parts: a request that backs up and restores beside *)
(* a server that writes new versions, with one archive; and the scheduler    *)
(* that prunes beside a request, with several archives and no server.        *)
EXTENDS Backup

VARIABLE part

InitParts == part \in {"world", "prune"} /\ Init

NextParts ==
  /\ UNCHANGED part
  /\ Next
  /\ part = "world" => clock' = 1 /\ job'[Scheduler] = Idle
  /\ part = "prune" => ~alive' /\ crashes' = 0

SpecParts == InitParts /\ [][NextParts]_<<part, vars>>
=============================================================================
