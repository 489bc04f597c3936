------------------------------ MODULE LineFeed ------------------------------
(***************************************************************************)
(* What the log hub promises its readers, without ring, channels or lock:  *)
(* one endless list of lines and, for each reader, the place in it that    *)
(* the reader has come to.  Reading begins with the newest lines, a fixed  *)
(* number of them, in one go.  A reader takes the lines one after another, *)
(* and leaves some out only after having fallen too far behind once.       *)
(***************************************************************************)
EXTENDS Naturals

CONSTANTS Reader,
          Back,   \* lines a reader begins with, if there are as many
          Room    \* lines a reader may be behind when one more comes

VARIABLES total,    \* lines so far
          reading,  \* the readers
          at,       \* the last line each has taken; 0 for who does not read
          late      \* readers who once were too far behind

vars == <<total, reading, at, late>>

Init ==
  /\ total = 0
  /\ reading = {}
  /\ at = [r \in Reader |-> 0]
  /\ late = {}

\* Emitting waits for no reader.
Emit ==
  /\ total' = total + 1
  /\ late' = late \cup {r \in reading : total >= at[r] + Room}
  /\ UNCHANGED <<reading, at>>

Join(r) ==
  /\ r \notin reading
  /\ reading' = reading \cup {r}
  /\ at' = [at EXCEPT ![r] = IF total < Back THEN 0 ELSE total - Back]
  /\ UNCHANGED <<total, late>>

Take(r) ==
  /\ r \in reading
  /\ \E n \in at[r] + 1 .. total :
       /\ r \in late \/ n = at[r] + 1
       /\ at' = [at EXCEPT ![r] = n]
  /\ UNCHANGED <<total, reading, late>>

Leave(r) ==
  /\ r \in reading
  /\ reading' = reading \ {r}
  /\ at' = [at EXCEPT ![r] = 0]
  /\ late' = late \ {r}
  /\ UNCHANGED total

Next == Emit \/ \E r \in Reader : Join(r) \/ Take(r) \/ Leave(r)

Spec == Init /\ [][Next]_vars
=============================================================================
