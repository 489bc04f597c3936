----------------------------- MODULE ServerStop -----------------------------
(***************************************************************************)
(* services/process.go, StopServerProcess: a stop request sends STOP and   *)
(* watches the status file, while the supervisor, which reads one verb at  *)
(* a time, asks the JVM to stop and kills it when it does not.  Supervisor *)
(* has that side in detail; here it is what a request can see of it.       *)
(*                                                                         *)
(* A tick is 15 seconds. Before one passes every prompt thing has been     *)
(* done: a verb read, the status published, a due timer fired, a poll made.*)
(***************************************************************************)
EXTENDS Naturals, Sequences

CONSTANTS Stopper,     \* stop requests
          StopLimit,   \* ticks in stopTimeout, 30 seconds
          Deadline,    \* ticks in the 45 seconds of process.go:120
          MaxVerbs     \* bound: verbs in the FIFO

ASSUME StopAssumption ==
  StopLimit \in Nat /\ Deadline \in Nat /\ StopLimit < Deadline

VARIABLES
  up,      \* the JVM runs
  reader,  \* the supervisor's reader of verbs
  waited,  \* ticks it has waited for the JVM to stop
  said,    \* what IsServerRunning reads
  verbs,   \* the control FIFO
  stops    \* the stop requests

stopVars == <<up, reader, waited, said, verbs, stops>>

Stop == {"idle",
         "asked",     \* the server runs; next: SendStop
         "polling",   \* next: SeeStopped or GiveUp
         "stopped", "late"}   \* the two answers

\* alone is history: since the request began nobody started a server, and the
\* status file was not misread for it.
NoStop == [pc |-> "idle", age |-> 0, alone |-> TRUE]

StopTypeOK ==
  /\ up \in BOOLEAN /\ said \in BOOLEAN
  /\ reader \in {"free", "stopping", "gone"}
  /\ waited \in 0 .. StopLimit
  /\ verbs \in Seq({"START", "STOP"})
  /\ stops \in [Stopper -> [pc : Stop, age : 0 .. Deadline, alone : BOOLEAN]]

StopInit ==
  /\ up = FALSE /\ said = FALSE
  /\ reader = "free" /\ waited = 0
  /\ verbs = <<>>
  /\ stops = [s \in Stopper |-> NoStop]

NobodyAlone == [s \in Stopper |-> [stops[s] EXCEPT !.alone = @ /\ stops[s].pc = "idle"]]

-----------------------------------------------------------------------------
(* The supervisor and the JVM *)

SendVerb(v) == Len(verbs) < MaxVerbs /\ reader # "gone" /\ verbs' = Append(verbs, v)

\* A start request, which may have misread the status
SomebodyStarts ==
  /\ SendVerb("START")
  /\ UNCHANGED <<up, reader, waited, said, stops>>

ReadVerb(v) ==
  /\ reader = "free" /\ verbs # <<>> /\ Head(verbs) = v
  /\ verbs' = Tail(verbs)

ObeyStart ==
  /\ ReadVerb("START")
  /\ up' = TRUE
  /\ stops' = NobodyAlone
  /\ UNCHANGED <<reader, waited, said>>

\* Nothing to do when no JVM runs
ObeyStop ==
  /\ ReadVerb("STOP")
  /\ reader' = IF up THEN "stopping" ELSE "free"
  /\ waited' = 0
  /\ UNCHANGED <<up, said, stops>>

\* It stops because it was told to, or crashes.
JvmIsOver ==
  /\ up
  /\ up' = FALSE
  /\ UNCHANGED <<reader, waited, said, verbs, stops>>

KillHung ==
  /\ reader = "stopping" /\ up /\ waited = StopLimit
  /\ up' = FALSE
  /\ UNCHANGED <<reader, waited, said, verbs, stops>>

\* stop returns, and writeStatus follows.
StopReturns ==
  /\ reader = "stopping" /\ ~up
  /\ reader' = "free" /\ waited' = 0
  /\ said' = FALSE
  /\ UNCHANGED <<up, verbs, stops>>

\* A heartbeat, or the lack of one for ten seconds
StatusFollows ==
  /\ said # up
  /\ said' = up
  /\ UNCHANGED <<up, reader, waited, verbs, stops>>

ContainerDies ==
  /\ reader # "gone"
  /\ reader' = "gone" /\ waited' = 0
  /\ up' = FALSE /\ verbs' = <<>>
  /\ UNCHANGED <<said, stops>>

\* It publishes that nothing runs, then starts what is desired.
ContainerBoots ==
  /\ reader = "gone"
  /\ reader' = "free"
  /\ said' = FALSE
  /\ up' \in BOOLEAN
  /\ stops' = IF up' THEN NobodyAlone ELSE stops
  /\ UNCHANGED <<waited, verbs>>

-----------------------------------------------------------------------------
(* StopServerProcess *)

Goes(s, label) == stops' = [stops EXCEPT ![s].pc = label]

AskStop(s) ==
  /\ stops[s].pc = "idle" /\ said
  /\ Goes(s, "asked")
  /\ UNCHANGED <<up, reader, waited, said, verbs>>

SendStop(s) ==
  /\ stops[s].pc = "asked"
  /\ SendVerb("STOP")
  /\ Goes(s, "polling")
  /\ UNCHANGED <<up, reader, waited, said>>

\* Nobody has the FIFO open.
SendStopFails(s) ==
  /\ stops[s].pc = "asked" /\ reader = "gone"
  /\ stops' = [stops EXCEPT ![s] = NoStop]
  /\ UNCHANGED <<up, reader, waited, said, verbs>>

SeeStopped(s) ==
  /\ stops[s].pc = "polling" /\ ~said
  /\ Goes(s, "stopped")
  /\ UNCHANGED <<up, reader, waited, said, verbs>>

\* status.json is torn or away for a moment: not running either.
MisreadStopped(s) ==
  /\ stops[s].pc = "polling" /\ said
  /\ stops' = [stops EXCEPT ![s].pc = "stopped", ![s].alone = FALSE]
  /\ UNCHANGED <<up, reader, waited, said, verbs>>

\* Mutant of GiveUp: it waits no longer than the supervisor does.
GiveUpSooner(s) ==
  /\ stops[s].pc = "polling" /\ stops[s].age = StopLimit
  /\ Goes(s, "late")
  /\ UNCHANGED <<up, reader, waited, said, verbs>>

GiveUp(s) ==
  /\ stops[s].pc = "polling" /\ stops[s].age = Deadline
  /\ Goes(s, "late")
  /\ UNCHANGED <<up, reader, waited, said, verbs>>

Answer(s) ==
  /\ stops[s].pc \in {"stopped", "late"}
  /\ stops' = [stops EXCEPT ![s] = NoStop]
  /\ UNCHANGED <<up, reader, waited, said, verbs>>

StopTick ==
  /\ said = up
  /\ CASE reader = "free" -> verbs = <<>>
       [] reader = "stopping" -> up /\ waited < StopLimit
       [] OTHER -> TRUE
  /\ \A s \in Stopper : \/ stops[s].pc = "idle"
                        \/ stops[s].pc = "polling" /\ said /\ stops[s].age < Deadline
  /\ waited' = IF reader = "stopping" THEN waited + 1 ELSE waited
  /\ stops' = [s \in Stopper |-> IF stops[s].pc = "polling"
                                 THEN [stops[s] EXCEPT !.age = @ + 1] ELSE stops[s]]
  /\ UNCHANGED <<up, reader, said, verbs>>

StopNext ==
  \/ SomebodyStarts \/ ObeyStart \/ ObeyStop
  \/ JvmIsOver \/ KillHung \/ StopReturns \/ StatusFollows
  \/ ContainerDies \/ ContainerBoots
  \/ \E s \in Stopper : \/ AskStop(s) \/ SendStop(s) \/ SendStopFails(s)
                        \/ SeeStopped(s) \/ MisreadStopped(s) \/ GiveUp(s) \/ Answer(s)
  \/ StopTick

StopSpec == StopInit /\ [][StopNext]_stopVars

-----------------------------------------------------------------------------
\* process.go:108: the request "just waits comfortably past that timeout": unless
\* a server was started meanwhile, or the status misread, a stop never comes
\* back as "did not stop in time", not even behind another request's STOP to a
\* JVM that hangs; and "server stopped" is true.
StopAnswersTrue ==
  \A s \in Stopper : stops[s].alone =>
    stops[s].pc # "late" /\ (stops[s].pc = "stopped" => ~up)
=============================================================================
