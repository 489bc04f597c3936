------------------------------ MODULE MCPlayers ------------------------------
(* Players, and with it WriteFileAtomic and Properties, for TLC, in two      *)
(* parts: one deletion with all that can happen meanwhile; and two of them   *)
(* with one such event, while nobody updates the properties.                 *)
EXTENDS Players, TLC

\* An explicit set: TLC also looks for model values in it.
UserCaches == {S : S \in SUBSET Player}

ListedPlayers == [ops |-> Player, whitelist |-> {}]

PlayersSymmetry == Permutations(Writer) \cup Permutations(Updater) \cup Permutations(Player)

VARIABLE part

InitParts == part \in {"one", "two"} /\ PlayersInit

NextParts ==
  /\ UNCHANGED part
  /\ PlayersNext
  /\ part = "one" => begun' <= 1
  /\ part = "two" => events' <= 1 /\ UNCHANGED propsVars

SpecParts == InitParts /\ [][NextParts]_<<part, allVars>>
=============================================================================
