------------------------------- MODULE JvmSlot -------------------------------
(***************************************************************************)
(* What the supervisor promises of s.cmd, without goroutines: it is the    *)
(* one slot a JVM runs in.  A JVM is launched only into the free slot, and *)
(* the slot is free again only after its process has ended -- unless the   *)
(* container goes down, which ends both at once.                           *)
(***************************************************************************)
CONSTANTS Jvm, None

VARIABLES slot,    \* the process in the slot, or None
          alive    \* the processes that have not ended

vars == <<slot, alive>>

Init == slot = None /\ alive = {}

Launch(j) == slot = None /\ slot' = j /\ alive' = {j}

End == alive # {} /\ alive' = {} /\ UNCHANGED slot

Release == slot # None /\ alive = {} /\ slot' = None /\ UNCHANGED alive

Down == slot' = None /\ alive' = {}

Next == (\E j \in Jvm : Launch(j)) \/ End \/ Release \/ Down

Spec == Init /\ [][Next]_vars
=============================================================================
