----------------------------- MODULE MCConsole -----------------------------
(* LogHub and Console for TLC.  The hub by itself has a ring that wraps     *)
(* around twice, with room for one line more in a channel, so that a slow   *)
(* subscriber overflows.  The console's handlers on top of it come and go   *)
(* without end, and have a ring of one line.  part says which is explored.  *)
EXTENDS LogHub

CONSTANTS ConsoleRing, ConsoleCap, ConsoleLines

VARIABLES part, running, con

Small == INSTANCE Console WITH Ring <- ConsoleRing, Cap <- ConsoleCap,
                               MaxLines <- ConsoleLines

conVars == <<vars, running, con>>

InitBoth ==
  \/ part = "hub" /\ Init /\ running = TRUE /\ con = [s \in Sub |-> Small!NoConnection]
  \/ part = "console" /\ Small!ConInit

NextBoth ==
  \/ part = "hub" /\ Next /\ UNCHANGED <<part, running, con>>
  \/ part = "console" /\ Small!ConNext /\ UNCHANGED part

SpecBoth == InitBoth /\ [][NextBoth]_<<conVars, part>> /\ Small!Fairness

\* See Console. Nothing is connected while the hub is explored by itself.
NothingLeaks == Small!NothingLeaks
=============================================================================
