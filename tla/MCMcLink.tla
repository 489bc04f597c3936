------------------------------ MODULE MCMcLink ------------------------------
(* McLink, and with it PlayerList, for TLC, in two parts: lists that are     *)
(* asked for and answered late, without codes; and codes, of names from one  *)
(* answer.                                                                   *)
EXTENDS McLink, TLC

LinkSymmetry == Permutations(Request) \cup Permutations(McName) \cup Permutations(Code)

VARIABLE part

InitParts == part \in {"list", "link"} /\ Init

NextParts ==
  /\ UNCHANGED part
  /\ Next
  /\ part = "list" => UNCHANGED issued
  /\ part = "link" => asked' <= 1

SpecParts == InitParts /\ [][NextParts]_<<part, vars>>
=============================================================================
