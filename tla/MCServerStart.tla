---------------------------- MODULE MCServerStart ----------------------------
(* ServerStart for TLC, in two parts: one start request, with all a launch   *)
(* may print; and two of them, with a launch less and no other lines than    *)
(* the "Done" ones.                                                          *)
EXTENDS ServerStart, FiniteSets, TLC

RequestSymmetry == Permutations(Request)

VARIABLE part

InitParts == part \in {"one", "two"} /\ StartInit

NextParts ==
  /\ UNCHANGED part
  /\ StartNext
  /\ part = "one" => Cardinality({r \in Request : req'[r] # NoRequest}) <= 1
  /\ part = "two" => chatter' = 0 /\ server'.session < MaxSessions

SpecParts == InitParts /\ [][NextParts]_<<part, startVars>>
=============================================================================
