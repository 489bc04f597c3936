----------------------------- MODULE MCServerDir -----------------------------
(* ServerDir for TLC: two requests, two servers, and for the file manager a  *)
(* path to every entry and the ways round to the control directory.  In one  *)
(* part the requests meet, and no server runs; in the other they follow one  *)
(* another, and servers and the container come and go meanwhile.             *)
EXTENDS ServerDir, FiniteSets, TLC

Paths == {<<"jar">>, <<"world">>, <<"..", "eula">>, <<"control">>,
          <<"world", "..", "control">>, <<"control", "control.in">>, <<>>}

RequestSymmetry == Permutations(Request)

VARIABLE part

InitParts == part \in {"requests", "lives"} /\ Init

NextParts ==
  /\ UNCHANGED part
  /\ Next
  /\ part = "requests" => jvm' = 0 /\ sup'
  /\ part = "lives" => Cardinality({r \in Request : req'[r] # Idle}) <= 1

SpecParts == InitParts /\ [][NextParts]_<<part, vars>>
=============================================================================
