----------------------------- MODULE Supervisor -----------------------------
(***************************************************************************)
(* cmd/supervisor: the process that owns the Minecraft JVM.  Its           *)
(* goroutines (main, the heartbeat, the control reader, the signal handler *)
(* and one waiter for each JVM) share s.cmd/s.stdin/s.done under s.mu, the *)
(* "desired" file, and the temporary file behind status.json, which no     *)
(* lock protects.  The console forwarder is where its commands are read.   *)
(*                                                                         *)
(* A goroutine is the sequence of steps it has still to take: calling a    *)
(* routine puts its steps in front, returning drops them.  What the code   *)
(* does while it holds s.mu is one step; everything else may interleave.   *)
(***************************************************************************)
EXTENDS Naturals, Sequences

CONSTANTS Jvm,         \* identities of JVM processes, reused once reaped
          None,        \* nil
          MaxVerbs,    \* bound: control verbs the API sends
          MaxBoots,    \* bound: starts of the container
          MaxFaults,   \* bound: publications of the status that fail after a boot
          Publishing,  \* FALSE slices writeStatus away: the supervisor never
                       \* reads status.json, so its own course is the same
          Absent, Empty, Garbled   \* file contents, see TmpRename

Goroutine == {"main", "heartbeat", "control", "signal"}
Thread == Goroutine \cup Jvm     \* the waiter of a JVM bears its name

ASSUME JvmAssumption == None \notin Jvm /\ Jvm \cap Goroutine = {}
ASSUME BoundAssumption ==
  /\ MaxVerbs \in Nat /\ MaxBoots \in Nat /\ MaxFaults \in Nat
  /\ Publishing \in BOOLEAN

Verb == {"START", "STOP", "RESTART", "KILL"}

VARIABLES
  mode,     \* of the container: off, boot (main alone), up, exited, crashed
  todo,     \* the steps each goroutine has still to take
  cmd,      \* s.cmd, and with it s.stdin, s.since and s.done
  held,     \* the s.cmd a goroutine copied under the lock
  jvm,      \* each JVM process, from launch to the end of its waiter
  desired,  \* contents of the desired file
  control,  \* verbs in the control FIFO
  sent,     \* number of verbs sent so far
  boots,    \* number of container starts so far
  faults,   \* number of publications that failed since the boot
  told,     \* history: what the last verb read since the boot asked for
  stray,    \* history: the JVM that main launched after that verb was read
  tmp, status, fd,   \* status.json.tmp, status.json, open descriptors
  buf       \* the status each goroutine has marshalled

counts == <<sent, boots, faults>>
history == <<told, stray>>
files == <<tmp, status, fd, buf>>
vars == <<mode, todo, cmd, held, jvm, desired, control, counts, history, files>>

\* types.ServerRuntimeStatus without the heartbeat time
Status == [running : Jvm \cup {None}, desired : {"running", "stopped"}]

Blank == [running |-> None, desired |-> "stopped"]

ASSUME ContentsAssumption ==
  /\ Absent # Empty /\ Absent # Garbled /\ Empty # Garbled
  /\ {Absent, Empty, Garbled} \cap Status = {}

StatusFile == INSTANCE TmpRename WITH Writer <- Thread, Value <- Status, file <- status

\* A JVM's life; s.done is closed when its waiter leaves "cleared".
Life == {"none",     \* not started, or gone: next Start
         "up",       \* next: JvmQuits or a kill
         "dying",    \* SIGKILL sent, next: JvmDies
         "exited",   \* a zombie, next: WaitReturns
         "waited",   \* cmd.Wait() returned, next: ClearCmd
         "cleared"}  \* s.cmd is nil again, next: CloseDone

Step == {"look", "open", "write", "rename",    \* writeStatus
         "wantRunning", "running",             \* writeDesired("running")
         "wantStopped", "stopped",             \* writeDesired("stopped")
         "start", "stop", "ask", "blocked", "await", "reap", \* start and stop
         "grab", "kill",                       \* the KILL verb
         "spawn", "resume",                    \* main
         "exit"}                               \* os.Exit(0)

WriteStatus ==
  IF Publishing THEN <<"look", "open">> ELSE <<>>

TypeOK ==
  /\ mode \in {"off", "boot", "up", "exited", "crashed"}
  /\ todo \in [Thread -> Seq(Step)]
  /\ cmd \in Jvm \cup {None}
  /\ held \in [Thread -> Jvm \cup {None}]
  /\ jvm \in [Jvm -> Life]
  /\ desired \in {"absent", "", "running", "stopped"}
  /\ control \in Seq(Verb)
  /\ sent \in 0 .. MaxVerbs
  /\ boots \in 0 .. MaxBoots
  /\ faults \in 0 .. MaxFaults
  /\ told \in {"", "running", "stopped"}
  /\ stray \subseteq Jvm
  /\ StatusFile!FilesTypeOK
  /\ buf \in [Thread -> Status]

Outdated == [running : Jvm, desired : {"running"}]

\* The files are what any predecessor, however it died, may have left.
Init ==
  /\ mode = "off"
  /\ todo = [t \in Thread |-> <<>>]
  /\ cmd = None
  /\ held = [t \in Thread |-> None]
  /\ jvm = [j \in Jvm |-> "none"]
  /\ desired \in {"absent", "", "running", "stopped"}
  /\ control = <<>>
  /\ sent = 0
  /\ boots = 0
  /\ faults = 0
  /\ told = ""
  /\ stray = {}
  /\ tmp \in IF Publishing THEN {Absent, Garbled} ELSE {Absent}
  /\ status \in {Absent} \cup IF Publishing THEN {Garbled} \cup Outdated ELSE {}
  /\ fd = [t \in Thread |-> "none"]
  /\ buf = [t \in Thread |-> Blank]

-----------------------------------------------------------------------------
\* readDesired: anything but "running" counts as stopped.
Desired == IF desired = "running" THEN "running" ELSE "stopped"

Live == {j \in Jvm : jvm[j] \in {"up", "dying"}}

At(t, step) == mode \in {"boot", "up"} /\ todo[t] # <<>> /\ Head(todo[t]) = step

Return(t) == todo' = [todo EXCEPT ![t] = Tail(@)]
Call(t, steps) == todo' = [todo EXCEPT ![t] = steps \o Tail(@)]
Idle(t) == mode = "up" /\ todo[t] = <<>>
Begin(t, steps) == todo' = [todo EXCEPT ![t] = steps]

\* Nothing refers to process j any more.
Unused(j) ==
  /\ jvm[j] = "none"
  /\ todo[j] = <<>>
  /\ \A t \in Thread : held[t] # j

\* Signalling a process that is already gone does nothing.
Killed(j) == IF jvm[j] = "up" THEN [jvm EXCEPT ![j] = "dying"] ELSE jvm

-----------------------------------------------------------------------------
\* writeStatus: the status is read under the lock and published outside it.
Look(t) ==
  /\ At(t, "look")
  /\ buf' = [buf EXCEPT ![t] = [running |-> cmd, desired |-> Desired]]
  /\ Return(t)
  /\ UNCHANGED <<mode, cmd, held, jvm, desired, control, counts, history, tmp, status, fd>>

OpenTmp(t) ==
  /\ At(t, "open")
  /\ StatusFile!Open(t)
  /\ Call(t, <<"write">>)
  /\ UNCHANGED <<mode, cmd, held, jvm, desired, control, counts, history, buf>>

WriteTmp(t) ==
  /\ At(t, "write")
  /\ StatusFile!Write(t, buf[t])
  /\ Call(t, <<"rename">>)
  /\ UNCHANGED <<mode, cmd, held, jvm, desired, control, counts, history, buf>>

\* Another goroutine may have renamed the temporary file already.
RenameTmp(t) ==
  /\ At(t, "rename")
  /\ StatusFile!Rename \/ (tmp = Absent /\ StatusFile!RenameFails)
  /\ buf' = [buf EXCEPT ![t] = Blank]
  /\ Return(t)
  /\ UNCHANGED <<mode, cmd, held, jvm, desired, control, counts, history>>

\* An error is logged, and writeStatus returns without what was to follow.
PublishFails(t) ==
  /\ faults < MaxFaults
  /\ faults' = faults + 1
  /\ \/ At(t, "open") /\ StatusFile!OpenFails
     \/ At(t, "write") /\ StatusFile!WriteFails(t)
     \/ At(t, "rename") /\ StatusFile!RenameFails
  /\ buf' = [buf EXCEPT ![t] = Blank]
  /\ Return(t)
  /\ UNCHANGED <<mode, cmd, held, jvm, desired, control, sent, boots, history>>

\* writeDesired: os.WriteFile truncates the file ...
BlankDesired(t) ==
  /\ \/ At(t, "wantRunning") /\ Call(t, <<"running">>)
     \/ At(t, "wantStopped") /\ Call(t, <<"stopped">>)
  /\ desired' = ""
  /\ UNCHANGED <<mode, cmd, held, jvm, control, counts, history, files>>

\* ... then writes it.
WriteDesired(t) ==
  /\ \E d \in {"running", "stopped"} : At(t, d) /\ desired' = d
  /\ Return(t)
  /\ UNCHANGED <<mode, cmd, held, jvm, control, counts, history, files>>

\* Either may fail: the file stays as it was, or empty (a part of a word is
\* read as "stopped" just as nothing is). The verb goes on all the same.
DesiredFails(t) ==
  /\ \E s \in {"wantRunning", "running", "wantStopped", "stopped"} : At(t, s)
  /\ Return(t)
  /\ UNCHANGED <<mode, cmd, held, jvm, desired, control, counts, history, files>>

\* start: under the lock from the test of s.cmd to its assignment.
AlreadyStarted(t) ==
  /\ At(t, "start")
  /\ cmd # None
  /\ Return(t)
  /\ UNCHANGED <<mode, cmd, held, jvm, desired, control, counts, history, files>>

Start(t, j) ==
  /\ At(t, "start")
  /\ cmd = None
  /\ Unused(j)
  /\ jvm' = [jvm EXCEPT ![j] = "up"]
  /\ cmd' = j
  /\ stray' = IF t = "main" /\ told # "" THEN {j} ELSE stray \ {j}
  /\ Return(t)
  /\ UNCHANGED <<mode, held, desired, control, counts, told, files>>

\* StdinPipe or cmd.Start returns an error: logged, and nothing else.
StartFails(t) ==
  /\ At(t, "start")
  /\ cmd = None
  /\ Return(t)
  /\ UNCHANGED <<mode, cmd, held, jvm, desired, control, counts, history, files>>

\* Mutant of Stop: it returns once "stop" is written.
StopAndGo(t) ==
  /\ At(t, "stop")
  /\ held' = [held EXCEPT ![t] = cmd]
  /\ IF cmd = None THEN Return(t) ELSE Call(t, <<"ask">>)
  /\ UNCHANGED <<mode, cmd, jvm, desired, control, counts, history, files>>

\* stop: copy s.cmd, s.stdin and s.done under the lock ...
Stop(t) ==
  /\ At(t, "stop")
  /\ held' = [held EXCEPT ![t] = cmd]
  /\ IF cmd = None THEN Return(t) ELSE Call(t, <<"ask", "await">>)
  /\ UNCHANGED <<mode, cmd, jvm, desired, control, counts, history, files>>

\* ... write "stop\n": what the JVM makes of it is JvmQuits ...
Ask(t) ==
  /\ At(t, "ask")
  /\ Return(t)
  /\ UNCHANGED <<mode, cmd, held, jvm, desired, control, counts, history, files>>

\* ... unless its pipe is full, because it does not read it: the write waits ...
PipeIsFull(t) ==
  /\ At(t, "ask")
  /\ jvm[held[t]] = "up"
  /\ Call(t, <<"blocked">>)
  /\ UNCHANGED <<mode, cmd, held, jvm, desired, control, counts, history, files>>

\* ... until the JVM reads on after all ...
PipeIsRead(t) ==
  /\ At(t, "blocked")
  /\ jvm[held[t]] = "up"
  /\ Return(t)
  /\ UNCHANGED <<mode, cmd, held, jvm, desired, control, counts, history, files>>

\* ... or is gone, and the write fails: its error is ignored.
PipeBreaks(t) ==
  /\ At(t, "blocked")
  /\ held[t] \notin Live
  /\ Return(t)
  /\ UNCHANGED <<mode, cmd, held, jvm, desired, control, counts, history, files>>

\* ... and wait for s.done, also after a kill.
Stopped(t) ==
  /\ At(t, "await") \/ At(t, "reap")
  /\ jvm[held[t]] = "none"
  /\ held' = [held EXCEPT ![t] = None]
  /\ Return(t)
  /\ UNCHANGED <<mode, cmd, jvm, desired, control, counts, history, files>>

\* Mutant of StopTimesOut: it goes on waiting without a kill.
StopWaitsOn(t) ==
  /\ At(t, "await")
  /\ Call(t, <<"reap">>)
  /\ UNCHANGED <<mode, cmd, held, jvm, desired, control, counts, history, files>>

StopTimesOut(t) ==
  /\ At(t, "await")
  /\ jvm' = Killed(held[t])
  /\ Call(t, <<"reap">>)
  /\ UNCHANGED <<mode, cmd, held, desired, control, counts, history, files>>

\* The KILL verb copies s.cmd under the lock and kills outside it.
Grab(t) ==
  /\ At(t, "grab")
  /\ held' = [held EXCEPT ![t] = cmd]
  /\ IF cmd = None THEN Return(t) ELSE Call(t, <<"kill">>)
  /\ UNCHANGED <<mode, cmd, jvm, desired, control, counts, history, files>>

\* Mutant of Kill: it clears s.cmd at once, ahead of the waiter.
KillAndForget(t) ==
  /\ At(t, "kill")
  /\ jvm' = Killed(held[t])
  /\ cmd' = None
  /\ held' = [held EXCEPT ![t] = None]
  /\ Return(t)
  /\ UNCHANGED <<mode, desired, control, counts, history, files>>

Kill(t) ==
  /\ At(t, "kill")
  /\ jvm' = Killed(held[t])
  /\ held' = [held EXCEPT ![t] = None]
  /\ Return(t)
  /\ UNCHANGED <<mode, cmd, desired, control, counts, history, files>>

-----------------------------------------------------------------------------
\* Mutant of Heartbeat: it beats only while a JVM runs.
HeartbeatOfJvm ==
  /\ Publishing
  /\ Idle("heartbeat") /\ cmd # None
  /\ Begin("heartbeat", WriteStatus)
  /\ UNCHANGED <<mode, cmd, held, jvm, desired, control, counts, history, files>>

\* The heartbeat goroutine's ticker fires.
Heartbeat ==
  /\ Publishing
  /\ Idle("heartbeat")
  /\ Begin("heartbeat", WriteStatus)
  /\ UNCHANGED <<mode, cmd, held, jvm, desired, control, counts, history, files>>

\* readControl: one verb at a time, each to its end.
Program(verb) ==
  CASE verb = "START"   -> <<"wantRunning", "start">> \o WriteStatus
    [] verb = "STOP"    -> <<"wantStopped", "stop">> \o WriteStatus
    [] verb = "RESTART" -> <<"wantRunning", "stop", "start">> \o WriteStatus
    [] verb = "KILL"    -> <<"wantStopped", "grab">>

Asks(verb) == IF verb \in {"START", "RESTART"} THEN "running" ELSE "stopped"

ReadControl ==
  /\ Idle("control")
  /\ control # <<>>
  /\ Begin("control", Program(Head(control)))
  /\ control' = Tail(control)
  /\ told' = Asks(Head(control))
  /\ stray' = {}
  /\ UNCHANGED <<mode, cmd, held, jvm, desired, counts, files>>

\* SIGTERM or SIGINT: only the first is received.
Signal ==
  /\ Idle("signal")
  /\ Begin("signal", <<"stop">> \o WriteStatus \o <<"exit">>)
  /\ UNCHANGED <<mode, cmd, held, jvm, desired, control, counts, history, files>>

\* The container is down: every process is gone and the FIFOs are empty.
Down(how) ==
  /\ mode' = how
  /\ todo' = [t \in Thread |-> <<>>]
  /\ cmd' = None
  /\ held' = [t \in Thread |-> None]
  /\ jvm' = [j \in Jvm |-> "none"]
  /\ control' = <<>>
  /\ told' = ""
  /\ stray' = {}
  /\ buf' = [t \in Thread |-> Blank]
  /\ StatusFile!CloseAll
  /\ UNCHANGED <<desired, counts>>

Exit(t) == At(t, "exit") /\ Down("exited")

\* The waiter goroutine that start leaves behind.
WaitReturns(j) ==
  /\ mode = "up" /\ jvm[j] = "exited"
  /\ jvm' = [jvm EXCEPT ![j] = "waited"]
  /\ UNCHANGED <<mode, todo, cmd, held, desired, control, counts, history, files>>

ClearCmd(j) ==
  /\ mode = "up" /\ jvm[j] = "waited"
  /\ jvm' = [jvm EXCEPT ![j] = "cleared"]
  /\ cmd' = None
  /\ UNCHANGED <<mode, todo, held, desired, control, counts, history, files>>

\* Mutant of CloseDone: s.done is closed before s.cmd is cleared.
CloseDoneEarly(j) ==
  /\ mode = "up" /\ jvm[j] = "waited"
  /\ jvm' = [jvm EXCEPT ![j] = "none"]
  /\ Begin(j, WriteStatus)
  /\ UNCHANGED <<mode, cmd, held, desired, control, counts, history, files>>

CloseDone(j) ==
  /\ mode = "up" /\ jvm[j] = "cleared"
  /\ jvm' = [jvm EXCEPT ![j] = "none"]
  /\ Begin(j, WriteStatus)
  /\ UNCHANGED <<mode, cmd, held, desired, control, counts, history, files>>

\* Mutant of Boot: the first status is left to the heartbeat.
BootUnseen ==
  /\ mode \in {"off", "exited", "crashed"}
  /\ boots < MaxBoots
  /\ mode' = "boot"
  /\ boots' = boots + 1
  /\ faults' = 0
  /\ Begin("main", <<"spawn", "resume">>)
  /\ UNCHANGED <<cmd, held, jvm, desired, control, sent, history, files>>

\* main: publish once, start the goroutines, then maybe auto-start.
Boot ==
  /\ mode \in {"off", "exited", "crashed"}
  /\ boots < MaxBoots
  /\ mode' = "boot"
  /\ boots' = boots + 1
  /\ faults' = 0
  /\ Begin("main", WriteStatus \o <<"spawn", "resume">>)
  /\ UNCHANGED <<cmd, held, jvm, desired, control, sent, history, files>>

Spawn(t) ==
  /\ At(t, "spawn")
  /\ mode' = "up"
  /\ Return(t)
  /\ UNCHANGED <<cmd, held, jvm, desired, control, counts, history, files>>

Resume(t) ==
  /\ At(t, "resume")
  /\ IF Desired = "running" THEN Call(t, <<"start">> \o WriteStatus) ELSE Return(t)
  /\ UNCHANGED <<mode, cmd, held, jvm, desired, control, counts, history, files>>

-----------------------------------------------------------------------------
\* The environment: the API, the JVM and the container runtime.
SendVerb(verb) ==
  /\ mode = "up"
  /\ sent < MaxVerbs
  /\ control' = Append(control, verb)
  /\ sent' = sent + 1
  /\ UNCHANGED <<mode, todo, cmd, held, jvm, desired, boots, faults, history, files>>

\* It exits: it obeys "stop" (which a hung JVM never does), crashes, or has
\* been told to by an operator ...
JvmQuits(j) ==
  /\ jvm[j] = "up"
  /\ jvm' = [jvm EXCEPT ![j] = "exited"]
  /\ UNCHANGED <<mode, todo, cmd, held, desired, control, counts, history, files>>

\* ... or dies of SIGKILL.
JvmDies(j) ==
  /\ jvm[j] = "dying"
  /\ jvm' = [jvm EXCEPT ![j] = "exited"]
  /\ UNCHANGED <<mode, todo, cmd, held, desired, control, counts, history, files>>

\* docker kill, an OOM kill, a power failure
Crash == mode \in {"boot", "up"} /\ Down("crashed")

-----------------------------------------------------------------------------
RunStep(t) ==
  \/ Look(t) \/ OpenTmp(t) \/ WriteTmp(t) \/ RenameTmp(t) \/ PublishFails(t)
  \/ BlankDesired(t) \/ WriteDesired(t) \/ DesiredFails(t)
  \/ AlreadyStarted(t) \/ StartFails(t) \/ \E j \in Jvm : Start(t, j)
  \/ Stop(t) \/ Ask(t) \/ PipeBreaks(t) \/ Stopped(t) \/ StopTimesOut(t)
  \/ Grab(t) \/ Kill(t)
  \/ Spawn(t) \/ Resume(t) \/ Exit(t)

Waiter(j) == WaitReturns(j) \/ ClearCmd(j) \/ CloseDone(j)

Next ==
  \/ Boot \/ Heartbeat \/ ReadControl \/ Signal \/ Crash
  \/ \E t \in Thread : RunStep(t) \/ PipeIsFull(t) \/ PipeIsRead(t)
  \/ \E j \in Jvm : Waiter(j) \/ JvmQuits(j) \/ JvmDies(j)
  \/ \E verb \in Verb : SendVerb(verb)

\* Goroutines are scheduled, timers fire and SIGKILL kills; a JVM need neither
\* obey nor read its pipe, and nobody need send, boot or crash anything.
Fairness ==
  /\ WF_vars(Heartbeat) /\ WF_vars(ReadControl)
  /\ \A t \in Thread : WF_vars(RunStep(t))
  /\ \A j \in Jvm : WF_vars(Waiter(j)) /\ WF_vars(JvmDies(j))

Spec == Init /\ [][Next]_vars /\ Fairness

-----------------------------------------------------------------------------
\* There is never more than one live JVM on the world directory.
AtMostOneJvm == \A i, j \in Live : i = j

\* s.cmd names exactly the process that is not yet waited for and cleared:
\* the reason why start's test of s.cmd is enough.
CmdTracksJvm ==
  \A j \in Jvm : jvm[j] \in {"up", "dying", "exited", "waited"} <=> cmd = j

\* What was last asked for, by a verb or else by the file main found.
Supposed == IF told = "" THEN Desired ELSE told

\* No JVM runs on after a STOP or a KILL has been carried out, whether or not
\* the desired file could be written, nor after a boot that found "stopped".
\* The one exception is the JVM of an auto-start that comes after the verb:
\* main read the file before the verb changed it, and nothing calls it back.
StoppedMeansDown ==
  Idle("control") /\ Supposed = "stopped" => {j \in Jvm : jvm[j] = "up"} \subseteq stray

\* s.cmd is a slot that a JVM holds for as long as its process lives.
Slot == INSTANCE JvmSlot WITH slot <- cmd, alive <- Live
ImplementsSlot == Slot!Spec

\* When the stop of a STOP or RESTART returns, s.cmd is free, and the start of
\* a RESTART is never taken for a START of a running server: unless main has
\* just launched its own.
StopLeavesNothing ==
  [][Stopped("control") => cmd \in {None} \cup stray /\ Live \subseteq stray]_vars

\* Before anything can act on it, a booted supervisor has replaced what its
\* predecessor left in status.json, however the predecessor died; only a disk
\* that fails leaves the old file, and the boot goes on.
BootPublishesFirst ==
  [][(mode = "boot" /\ mode' = "up")
       => faults > 0 \/ status = [running |-> None, desired |-> Desired]]_vars

\* The file at last shows the state the supervisor stays in.
StatusSettles ==
  \A c \in Jvm \cup {None}, d \in {"running", "stopped"} :
    <>[](mode = "up" /\ cmd = c /\ Desired = d)
      => <>[](status = [running |-> c, desired |-> d])

\* A JVM that ignores "stop" holds nobody up for ever: a signal ends the
\* process, and the control reader gets through its verbs. The one wait that
\* no time-out bounds is the write of "stop" into a pipe that stays full.
HungJvmBlocksNobody ==
  /\ (todo["signal"] # <<>>) ~> (mode # "up" \/ At("signal", "blocked"))
  /\ (control # <<>>) ~> (control = <<>> \/ At("control", "blocked"))
=============================================================================
