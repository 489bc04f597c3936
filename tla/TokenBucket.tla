----------------------------- MODULE TokenBucket -----------------------------
(***************************************************************************)
(* What the rate limiter promises, without its map of clients: every       *)
(* address has a bucket from the beginning and for ever, which fills up    *)
(* with time and gives a request its tokens or turns it away.  Nothing is  *)
(* refilled on the way, nothing is forgotten and there is no janitor.      *)
(***************************************************************************)
EXTENDS Naturals

CONSTANTS Address,
          Rate,  \* parts of a token per tick
          Cost,  \* parts of a token
          Brim   \* parts of a token in a full bucket

VARIABLES level,  \* of each bucket
          passed  \* history: requests let through since an observer began

vars == <<level, passed>>

Init ==
  /\ level = [a \in Address |-> Brim]
  /\ passed = [a \in Address |-> 0]

Pass(a) ==
  /\ level[a] >= Cost
  /\ level' = [level EXCEPT ![a] = @ - Cost]
  /\ passed' = [passed EXCEPT ![a] = @ + 1]

Tick ==
  /\ level' = [a \in Address |-> IF level[a] + Rate <= Brim THEN level[a] + Rate ELSE Brim]
  /\ UNCHANGED passed

Watch ==
  /\ passed' = [a \in Address |-> 0]
  /\ UNCHANGED level

Next == (\E a \in Address : Pass(a)) \/ Tick \/ Watch

Spec == Init /\ [][Next]_vars
=============================================================================
