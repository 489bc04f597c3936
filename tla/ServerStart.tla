----------------------------- MODULE ServerStart -----------------------------
(***************************************************************************)
(* services/process.go, StartServerProcess: what a start request does      *)
(* between the supervisor, the status file, the control FIFO and the log.  *)
(*                                                                         *)
(* The other side is reduced to what a request can see of it: Supervisor   *)
(* has the JVM's life in detail, LogTail the way a line takes to the hub   *)
(* and LogHub the subscription.  A line is <<session, done>>: the launch   *)
(* that printed it, and whether it is that launch's "Done (" line.         *)
(*                                                                         *)
(* Time passes in ticks, Limit of which make the 120 seconds. A tick is    *)
(* long: before one passes every prompt thing has been done, the status    *)
(* published, the log tailed, the lines received, a due timer fired.       *)
(***************************************************************************)
EXTENDS Naturals, Sequences

CONSTANTS Request,
          Limit,       \* ticks in the 120 seconds of process.go:101
          Ring,        \* lines the hub keeps for replay (200)
          Cap,         \* lines a subscriber's channel holds (256)
          MaxSessions, MaxChatter, MaxTicks, MaxFifo   \* bounds

ASSUME StartAssumption ==
  /\ Limit \in Nat \ {0}
  /\ Ring \in Nat \ {0} /\ Cap \in Nat /\ Ring <= Cap
  /\ MaxSessions \in Nat /\ MaxChatter \in Nat /\ MaxTicks \in Nat /\ MaxFifo \in Nat

VARIABLES
  server,   \* the current or last session: its number and stage
  shown,    \* "running" in status.json
  fifo,     \* verbs the supervisor has not read yet
  unread,   \* lines in the log the tailer has not broadcast yet
  ring,     \* the hub's replay buffer
  req,      \* the start requests
  chatter,  \* lines printed that are not a "Done" line
  ticks,    \* ticks passed
  misled,   \* history: a torn status.json was taken for "not running"
  missed,   \* history: a full channel made a subscriber miss a "Done" line
  settled   \* history: the last session that was over at the last tick

startHistory == <<misled, missed, settled>>
startVars == <<server, shown, fifo, unread, ring, req, chatter, ticks, startHistory>>

Stage == {"down", "launched",
          "loading",   \* a tick after the launch
          "ready",     \* the "Done" line is printed
          "serving"}   \* a tick after that

Line == (1 .. MaxSessions) \X BOOLEAN

Label == {"idle",
          "admitted",   \* next: Subscribe
          "draining",   \* next: Drain or DrainEnds
          "drained",    \* next: SendStart or StartRefused
          "waiting"}    \* next: Receive or TimeOut

\* mark is history, settled when START was sent; result is the line returned.
NoRequest == [pc |-> "idle", queue |-> <<>>, quiet |-> 0, result |-> <<>>, mark |-> 0]

StartRequest ==
  [pc : Label, queue : Seq(Line), quiet : 0 .. Limit, result : {<<>>} \cup Line,
   mark : 0 .. MaxSessions]

StartTypeOK ==
  /\ server \in [session : 0 .. MaxSessions, stage : Stage]
  /\ shown \in BOOLEAN
  /\ fifo \in Seq({"START", "KILL"})
  /\ unread \in Seq(Line) /\ ring \in Seq(Line)
  /\ req \in [Request -> StartRequest]
  /\ chatter \in 0 .. MaxChatter
  /\ ticks \in 0 .. MaxTicks
  /\ misled \in BOOLEAN /\ missed \in BOOLEAN
  /\ settled \in 0 .. MaxSessions

StartInit ==
  /\ server = [session |-> 0, stage |-> "down"]
  /\ shown = FALSE
  /\ fifo = <<>>
  /\ unread = <<>> /\ ring = <<>>
  /\ req = [r \in Request |-> NoRequest]
  /\ chatter = 0 /\ ticks = 0
  /\ misled = FALSE /\ missed = FALSE /\ settled = 0

Alive == server.stage # "down"

-----------------------------------------------------------------------------
(* The supervisor, the JVM, the status file and the tailer *)

ReadVerb == /\ fifo # <<>> /\ fifo' = Tail(fifo)

\* START while the JVM is up does nothing.
ReadStart ==
  /\ ReadVerb /\ Head(fifo) = "START"
  /\ IF Alive
     THEN UNCHANGED server
     ELSE /\ server.session < MaxSessions
          /\ server' = [session |-> server.session + 1, stage |-> "launched"]
  /\ UNCHANGED <<shown, unread, ring, req, chatter, ticks, startHistory>>

ReadKill ==
  /\ ReadVerb /\ Head(fifo) = "KILL"
  /\ server' = [server EXCEPT !.stage = "down"]
  /\ UNCHANGED <<shown, unread, ring, req, chatter, ticks, startHistory>>

\* The JVM crashes, or somebody stops it.
JvmEnds ==
  /\ Alive
  /\ server' = [server EXCEPT !.stage = "down"]
  /\ UNCHANGED <<shown, fifo, unread, ring, req, chatter, ticks, startHistory>>

\* Loading a world takes a tick at least.
PrintDone ==
  /\ server.stage = "loading"
  /\ server' = [server EXCEPT !.stage = "ready"]
  /\ unread' = Append(unread, <<server.session, TRUE>>)
  /\ UNCHANGED <<shown, fifo, ring, req, chatter, ticks, startHistory>>

PrintOther ==
  /\ Alive
  /\ chatter < MaxChatter
  /\ chatter' = chatter + 1
  /\ unread' = Append(unread, <<server.session, FALSE>>)
  /\ UNCHANGED <<server, shown, fifo, ring, req, ticks, startHistory>>

Publish ==
  /\ shown # Alive
  /\ shown' = Alive
  /\ UNCHANGED <<server, fifo, unread, ring, req, chatter, ticks, startHistory>>

Subscribed(r) == req[r].pc \in {"draining", "drained", "waiting"}
Full(r) == Len(req[r].queue) >= Cap

\* The ring forgets its oldest line when it is full.
LastOf(lines) == IF Len(lines) > Ring THEN Tail(lines) ELSE lines

\* Broadcast: to the replay buffer and to every subscriber's channel that has
\* room for it
TailLine ==
  /\ unread # <<>>
  /\ unread' = Tail(unread)
  /\ ring' = LastOf(Append(ring, Head(unread)))
  /\ req' = [r \in Request |-> IF Subscribed(r) /\ ~Full(r)
                               THEN [req[r] EXCEPT !.queue = Append(@, Head(unread))]
                               ELSE req[r]]
  /\ missed' = (missed \/ (Head(unread)[2] /\ \E r \in Request : Subscribed(r) /\ Full(r)))
  /\ UNCHANGED <<server, shown, fifo, chatter, ticks, misled, settled>>

-----------------------------------------------------------------------------
(* StartServerProcess *)

CheckNotRunning(r) ==
  /\ req[r].pc = "idle"
  /\ ~shown
  /\ req' = [req EXCEPT ![r] = [NoRequest EXCEPT !.pc = "admitted"]]
  /\ UNCHANGED <<server, shown, fifo, unread, ring, chatter, ticks, startHistory>>

\* A status.json that cannot be read, or parsed, counts as "not running".
Misread(r) ==
  /\ req[r].pc = "idle"
  /\ shown
  /\ misled' = TRUE
  /\ req' = [req EXCEPT ![r] = [NoRequest EXCEPT !.pc = "admitted"]]
  /\ UNCHANGED <<server, shown, fifo, unread, ring, chatter, ticks, missed, settled>>

\* The channel starts with the replay.
Subscribe(r) ==
  /\ req[r].pc = "admitted"
  /\ req' = [req EXCEPT ![r].pc = "draining", ![r].queue = ring]
  /\ UNCHANGED <<server, shown, fifo, unread, ring, chatter, ticks, startHistory>>

Drain(r) ==
  /\ req[r].pc = "draining"
  /\ req[r].queue # <<>>
  /\ req' = [req EXCEPT ![r].queue = Tail(@)]
  /\ UNCHANGED <<server, shown, fifo, unread, ring, chatter, ticks, startHistory>>

\* Mutant of DrainEnds: the replay is left in the channel.
DrainSkipped(r) ==
  /\ req[r].pc = "draining"
  /\ req' = [req EXCEPT ![r].pc = "drained"]
  /\ UNCHANGED <<server, shown, fifo, unread, ring, chatter, ticks, startHistory>>

DrainEnds(r) ==
  /\ req[r].pc = "draining"
  /\ req[r].queue = <<>>
  /\ req' = [req EXCEPT ![r].pc = "drained"]
  /\ UNCHANGED <<server, shown, fifo, unread, ring, chatter, ticks, startHistory>>

\* Lines may have come since the channel was found empty.
SendStart(r) ==
  /\ req[r].pc = "drained"
  /\ Len(fifo) < MaxFifo
  /\ fifo' = Append(fifo, "START")
  /\ req' = [req EXCEPT ![r].pc = "waiting", ![r].mark = settled]
  /\ UNCHANGED <<server, shown, unread, ring, chatter, ticks, startHistory>>

\* Mutant of Receive: a "Done" line is a line like any other.
ReceiveDeaf(r) ==
  /\ req[r].pc = "waiting"
  /\ req[r].queue # <<>>
  /\ req' = [req EXCEPT ![r].queue = Tail(@), ![r].quiet = 0]
  /\ UNCHANGED <<server, shown, fifo, unread, ring, chatter, ticks, startHistory>>

\* A "Done" line ends the request, any other line starts the timer anew.
Receive(r) ==
  /\ req[r].pc = "waiting"
  /\ req[r].queue # <<>>
  /\ LET l == Head(req[r].queue)
     IN req' = IF l[2]
               THEN [req EXCEPT ![r].pc = "idle", ![r].queue = <<>>, ![r].result = l,
                                ![r].quiet = 0]
               ELSE [req EXCEPT ![r].queue = Tail(@), ![r].quiet = 0]
  /\ UNCHANGED <<server, shown, fifo, unread, ring, chatter, ticks, startHistory>>

\* The error of the write of KILL is dropped.
TimeOut(r) ==
  /\ req[r].pc = "waiting"
  /\ req[r].quiet = Limit
  /\ \/ Len(fifo) < MaxFifo /\ fifo' = Append(fifo, "KILL")
     \/ UNCHANGED fifo
  /\ req' = [req EXCEPT ![r] = NoRequest]
  /\ UNCHANGED <<server, shown, unread, ring, chatter, ticks, startHistory>>

\* Writing to the FIFO fails when no supervisor has it open.
StartRefused(r) ==
  /\ req[r].pc = "drained"
  /\ req' = [req EXCEPT ![r] = NoRequest]
  /\ UNCHANGED <<server, shown, fifo, unread, ring, chatter, ticks, startHistory>>

-----------------------------------------------------------------------------
Waiting == {r \in Request : req[r].pc = "waiting"}

Tick ==
  /\ ticks < MaxTicks
  /\ shown = Alive /\ fifo = <<>> /\ unread = <<>>
  /\ \A r \in Request : req[r].pc \in {"idle", "waiting"} /\ req[r].queue = <<>>
  /\ \A r \in Waiting : req[r].quiet < Limit
  /\ ticks' = ticks + 1
  /\ server' = [server EXCEPT !.stage = CASE @ = "launched" -> "loading"
                                    [] @ = "ready" -> "serving"
                                    [] OTHER -> @]
  /\ req' = [r \in Request |-> IF r \in Waiting
                               THEN [req[r] EXCEPT !.quiet = @ + 1]
                               ELSE req[r]]
  /\ settled' = IF Alive THEN server.session - 1 ELSE server.session
  /\ UNCHANGED <<shown, fifo, unread, ring, chatter, misled, missed>>

StartNext ==
  \/ ReadStart \/ ReadKill \/ JvmEnds \/ PrintDone \/ PrintOther
  \/ Publish \/ TailLine
  \/ \E r \in Request : \/ CheckNotRunning(r) \/ Misread(r) \/ Subscribe(r) \/ Drain(r)
                        \/ DrainEnds(r) \/ SendStart(r) \/ StartRefused(r)
                        \/ Receive(r) \/ TimeOut(r)
  \/ Tick

StartSpec == StartInit /\ [][StartNext]_startVars

-----------------------------------------------------------------------------
\* process.go:77: "a stale "Done" line can't be mistaken for this one": the line
\* returned is not of a session that was over a tick before START was sent,
\* whatever the hub replays. (A session that ended in the moment before, its
\* lines on their way from the log to the channel, the drain does not cover.)
ReadyIsNotStale ==
  \A r \in Request : req[r].result # <<>> => req[r].result[1] > req[r].mark

\* A server that has been ready for a while is not killed by the time-out of a
\* request that missed its "Done" line: not of one that came late and found the
\* JVM up already, not of one of two that waited together. Only two things do
\* it: a torn status file that lets a request in, to a server that has nothing
\* more to say, and a "Done" line dropped because a channel was full.
ServingIsNotKilled ==
  [][(ReadKill /\ ~misled /\ ~missed) => server.stage # "serving"]_startVars
=============================================================================
