-------------------------- MODULE SupervisorProofs --------------------------
(***************************************************************************)
(* Theorems about Supervisor for any number of JVM identities, verbs and   *)
(* boots.  TypeOK /\ CmdTracksJvm is inductive, and so, relative to it, are *)
(* OrderInv (what the goroutines have still to do agrees with the desired  *)
(* file and the running JVM) and BootInv (how far main's publication is).  *)
(* The last section is about ServerStart, the start requests on the other  *)
(* side of the control FIFO, for any number of them.                       *)
(***************************************************************************)
EXTENDS Supervisor, ServerStart, SequenceTheorems, TLAPS

USE JvmAssumption, BoundAssumption DEF Goroutine, Thread

\* The steps of every routine and of every verb are steps.
LEMMA RoutineType ==
  /\ WriteStatus \in Seq(Step)
  /\ \A verb \in Verb : Program(verb) \in Seq(Step)
<1>1. WriteStatus \in Seq(Step)
  <2>1. CASE Publishing
    <3>1. "look" \in Step /\ "open" \in Step BY DEF Step
    <3> QED BY <2>1, <3>1 DEF WriteStatus
  <2>2. CASE ~Publishing BY <2>2 DEF WriteStatus
  <2> QED BY <2>1, <2>2
<1>2. ASSUME NEW verb \in Verb PROVE Program(verb) \in Seq(Step)
  <2>1. CASE verb = "START"   BY <1>1, <2>1 DEF Program, Step
  <2>2. CASE verb = "STOP"    BY <1>1, <2>2 DEF Program, Step
  <2>3. CASE verb = "RESTART" BY <1>1, <2>3 DEF Program, Step
  <2>4. CASE verb = "KILL"    BY <2>4 DEF Program, Step
  <2> QED BY <2>1, <2>2, <2>3, <2>4 DEF Verb
<1> QED BY <1>1, <1>2

\* The step that follows another within a routine.
Leads == {<<"open", "write">>, <<"write", "rename">>,
          <<"wantRunning", "running">>, <<"wantStopped", "stopped">>,
          <<"ask", "blocked">>, <<"await", "reap">>, <<"grab", "kill">>}

\* Step s calls on p.
Continues(s, p) ==
  \/ s = "stop" /\ p = <<"ask", "await">>
  \/ \E n \in Step : <<s, n>> \in Leads /\ p = <<n>>

\* The continuations that routines and the auto-start call.
LEMMA ContinuationType ==
  /\ \A s, p : Continues(s, p) => p \in Seq(Step)
  /\ <<"start">> \o WriteStatus \in Seq(Step)
<1>1. "ask" \in Step /\ "await" \in Step /\ "start" \in Step
  BY DEF Step
<1>2. <<"ask", "await">> \in Seq(Step) /\ <<"start">> \in Seq(Step) BY <1>1
<1>3. \A n \in Step : <<n>> \in Seq(Step) OBVIOUS
<1>4. \A s, p : Continues(s, p) => p \in Seq(Step) BY <1>2, <1>3 DEF Continues
<1>5. <<"start">> \o WriteStatus \in Seq(Step)
  BY <1>2, RoutineType, ConcatProperties
<1> QED BY <1>4, <1>5

\* Taking a goroutine's first step off, or replacing it by the steps of a
\* routine, leaves a sequence of steps.
LEMMA ReturnType ==
  ASSUME todo \in [Thread -> Seq(Step)], NEW t \in Thread, todo[t] # <<>>, Return(t)
  PROVE  todo' \in [Thread -> Seq(Step)]
BY DEF Return

LEMMA CallType ==
  ASSUME todo \in [Thread -> Seq(Step)], NEW t \in Thread, todo[t] # <<>>,
         NEW steps \in Seq(Step), Call(t, steps)
  PROVE  todo' \in [Thread -> Seq(Step)]
BY DEF Call

LEMMA BeginType ==
  ASSUME todo \in [Thread -> Seq(Step)], NEW t \in Thread,
         NEW steps \in Seq(Step), Begin(t, steps)
  PROVE  todo' \in [Thread -> Seq(Step)]
BY DEF Begin

\* What a goroutine does next: a step of its own, or of the pipe it writes to.
Moves(t) == RunStep(t) \/ PipeIsFull(t) \/ PipeIsRead(t)

\* Goroutine t takes step s: it returns, or calls on the rest of its routine.
Takes(t, s) ==
  /\ At(t, s)
  /\ \/ Return(t)
     \/ \E p : Continues(s, p) /\ Call(t, p)
     \/ s = "resume" /\ Desired = "running" /\ Call(t, <<"start">> \o WriteStatus)

\* Going on to the step that follows is such a call.
LEMMA LeadsContinue ==
  ASSUME NEW s, NEW n, <<s, n>> \in Leads
  PROVE  Continues(s, <<n>>)
<1>1. n \in Step BY DEF Leads, Step
<1> QED BY <1>1 DEF Continues

LEMMA LeadingIs ==
  ASSUME NEW t, NEW s, NEW n, <<s, n>> \in Leads, At(t, s), Call(t, <<n>>)
  PROVE  Takes(t, s)
<1>1. Continues(s, <<n>>) BY LeadsContinue
<1> QED BY <1>1 DEF Takes

\* What is not the end of the process is such a step.
LEMMA MoveIs ==
  ASSUME NEW t \in Thread, Moves(t), ~Exit(t)
  PROVE  \E s : Takes(t, s)
<1>1. CASE Look(t) \/ RenameTmp(t) \/ PublishFails(t) \/ WriteDesired(t) \/ DesiredFails(t)
  <2>1. \E s : At(t, s) /\ Return(t)
    BY <1>1 DEF Look, RenameTmp, PublishFails, WriteDesired, DesiredFails
  <2> QED BY <2>1 DEF Takes
<1>2. CASE OpenTmp(t)
  <2>1. <<"open", "write">> \in Leads /\ At(t, "open") /\ Call(t, <<"write">>)
    BY <1>2 DEF OpenTmp, Leads
  <2> QED BY <2>1, LeadingIs
<1>3. CASE WriteTmp(t)
  <2>1. <<"write", "rename">> \in Leads /\ At(t, "write") /\ Call(t, <<"rename">>)
    BY <1>3 DEF WriteTmp, Leads
  <2> QED BY <2>1, LeadingIs
<1>4. CASE BlankDesired(t)
  <2>1. /\ <<"wantRunning", "running">> \in Leads
        /\ <<"wantStopped", "stopped">> \in Leads
    BY DEF Leads
  <2>2. CASE At(t, "wantRunning") /\ Call(t, <<"running">>) BY <2>1, <2>2, LeadingIs
  <2>3. CASE At(t, "wantStopped") /\ Call(t, <<"stopped">>) BY <2>1, <2>3, LeadingIs
  <2> QED BY <1>4, <2>2, <2>3 DEF BlankDesired
<1>5. CASE AlreadyStarted(t) \/ StartFails(t) \/ (\E j \in Jvm : Start(t, j))
  <2>1. At(t, "start") /\ Return(t) BY <1>5 DEF AlreadyStarted, StartFails, Start
  <2> QED BY <2>1 DEF Takes
<1>6. CASE \/ Ask(t) \/ PipeIsRead(t) \/ PipeBreaks(t) \/ Stopped(t) \/ Kill(t)
           \/ Spawn(t) \/ (Resume(t) /\ Desired # "running")
           \/ (Stop(t) /\ cmd = None) \/ (Grab(t) /\ cmd = None)
  <2>1. \E s : At(t, s) /\ Return(t)
    BY <1>6 DEF Ask, PipeIsRead, PipeBreaks, Stopped, Kill, Spawn, Resume, Stop, Grab
  <2> QED BY <2>1 DEF Takes
<1>7. CASE Stop(t) /\ cmd # None
  <2>1. At(t, "stop") /\ Call(t, <<"ask", "await">>) BY <1>7 DEF Stop
  <2>2. Continues("stop", <<"ask", "await">>) BY DEF Continues
  <2> QED BY <2>1, <2>2 DEF Takes
<1>8. CASE PipeIsFull(t)
  <2>1. <<"ask", "blocked">> \in Leads /\ At(t, "ask") /\ Call(t, <<"blocked">>)
    BY <1>8 DEF PipeIsFull, Leads
  <2> QED BY <2>1, LeadingIs
<1>9. CASE StopTimesOut(t)
  <2>1. <<"await", "reap">> \in Leads /\ At(t, "await") /\ Call(t, <<"reap">>)
    BY <1>9 DEF StopTimesOut, Leads
  <2> QED BY <2>1, LeadingIs
<1>10. CASE Grab(t) /\ cmd # None
  <2>1. <<"grab", "kill">> \in Leads /\ At(t, "grab") /\ Call(t, <<"kill">>)
    BY <1>10 DEF Grab, Leads
  <2> QED BY <2>1, LeadingIs
<1>11. CASE Resume(t) /\ Desired = "running"
  <2>1. At(t, "resume") /\ Call(t, <<"start">> \o WriteStatus) BY <1>11 DEF Resume
  <2> QED BY <1>11, <2>1 DEF Takes
<1>12. CASE RunStep(t)
  BY <1>1, <1>2, <1>3, <1>4, <1>5, <1>6, <1>7, <1>9, <1>10, <1>11, <1>12 DEF RunStep
<1> QED BY <1>6, <1>8, <1>12 DEF Moves

\* Whatever it is, what it leaves to do is a sequence of steps.
LEMMA MoveType ==
  ASSUME todo \in [Thread -> Seq(Step)], NEW t \in Thread, Moves(t), ~Exit(t)
  PROVE  todo' \in [Thread -> Seq(Step)]
<1>1. PICK s : Takes(t, s) BY MoveIs
<1>2. todo[t] # <<>> BY <1>1 DEF Takes, At
<1>3. CASE Return(t) BY <1>2, <1>3, ReturnType
<1>4. CASE \E p : Continues(s, p) /\ Call(t, p)
  <2>1. PICK p : Continues(s, p) /\ Call(t, p) BY <1>4
  <2>2. p \in Seq(Step) BY <2>1, ContinuationType
  <2> QED BY <1>2, <2>1, <2>2, CallType
<1>5. CASE Call(t, <<"start">> \o WriteStatus)
  BY <1>2, <1>5, CallType, ContinuationType
<1> QED BY <1>1, <1>3, <1>4, <1>5 DEF Takes

-----------------------------------------------------------------------------
(* Status publication *)

\* Blank is a status, and so is what Look takes down.
LEMMA StatusType ==
  /\ Blank \in Status
  /\ \A c \in Jvm \cup {None} : [running |-> c, desired |-> Desired] \in Status
BY DEF Blank, Status, Desired

\* The steps on the two files keep their contents and descriptors in range.
LEMMA FileStepType ==
  ASSUME StatusFile!FilesTypeOK, NEW t \in Thread, NEW v \in Status,
         \/ StatusFile!Open(t)
         \/ StatusFile!Write(t, v)
         \/ StatusFile!Rename
         \/ StatusFile!WriteFails(t)
         \/ StatusFile!CloseAll
         \/ UNCHANGED <<tmp, status, fd>>
  PROVE  StatusFile!FilesTypeOK'
<1> USE DEF StatusFile!FilesTypeOK, StatusFile!Content
<1>1. CASE StatusFile!Open(t) BY <1>1 DEF StatusFile!Open
<1>2. CASE StatusFile!Write(t, v)
  BY <1>2 DEF StatusFile!Write, StatusFile!Overwrite
<1>3. CASE StatusFile!Rename
  <2>1. \A d \in {"none", "tmp", "file", "gone"} :
          StatusFile!Renamed(d) \in {"none", "tmp", "file", "gone"}
    BY DEF StatusFile!Renamed
  <2> QED BY <1>3, <2>1 DEF StatusFile!Rename
<1>4. CASE StatusFile!WriteFails(t) BY <1>4 DEF StatusFile!WriteFails
<1>5. CASE StatusFile!CloseAll BY <1>5 DEF StatusFile!CloseAll
<1>6. CASE UNCHANGED <<tmp, status, fd>> BY <1>6
<1> QED BY <1>1, <1>2, <1>3, <1>4, <1>5, <1>6

\* A step that leaves the two files and what is to go into them alone
LEMMA FilesStay ==
  ASSUME TypeOK, UNCHANGED files
  PROVE  StatusFile!FilesTypeOK' /\ buf' \in [Thread -> Status]
<1>1. UNCHANGED <<tmp, status, fd>> /\ UNCHANGED buf BY DEF files
<1>2. StatusFile!FilesTypeOK' BY <1>1 DEF TypeOK, StatusFile!FilesTypeOK
<1> QED BY <1>1, <1>2 DEF TypeOK

-----------------------------------------------------------------------------
(* Type correctness *)

\* What a container leaves behind is in range.
LEMMA DownType ==
  ASSUME TypeOK, NEW how \in {"exited", "crashed"}, Down(how)
  PROVE  TypeOK'
<1>1. StatusFile!FilesTypeOK' BY StatusType, FileStepType DEF TypeOK, Down
<1>2. todo' \in [Thread -> Seq(Step)] /\ control' \in Seq(Verb)
  BY EmptySeq DEF Down
<1>3. /\ held' \in [Thread -> Jvm \cup {None}]
      /\ jvm' \in [Jvm -> Life]
      /\ buf' \in [Thread -> Status]
  BY StatusType DEF Down, Life
<1> QED BY <1>1, <1>2, <1>3 DEF TypeOK, Down, counts

\* A counter below its bound may grow by one.
LEMMA OneMore ==
  ASSUME NEW m \in Nat, NEW n \in 0 .. m, n < m
  PROVE  n + 1 \in 0 .. m
OBVIOUS

\* Every step of a goroutine keeps the variables in range.
LEMMA MoveKeepsType ==
  ASSUME TypeOK, NEW t \in Thread, Moves(t)
  PROVE  TypeOK'
<1> USE StatusType DEF TypeOK, At, Life, counts, history
<1>1. CASE Exit(t) BY <1>1, DownType DEF Exit
<1>2. CASE ~Exit(t)
  <2>1. todo' \in [Thread -> Seq(Step)] BY <1>2, MoveType
  <2>2. CASE Look(t) BY <2>1, <2>2, FileStepType DEF Look
  <2>3. CASE OpenTmp(t) BY <2>1, <2>3, FileStepType DEF OpenTmp
  <2>4. CASE WriteTmp(t) BY <2>1, <2>4, FileStepType DEF WriteTmp
  <2>5. CASE RenameTmp(t)
    <3>1. StatusFile!FilesTypeOK'
      BY <2>5, FileStepType DEF RenameTmp, StatusFile!RenameFails
    <3> QED BY <2>1, <2>5, <3>1 DEF RenameTmp
  <2>6. CASE PublishFails(t)
    <3>1. StatusFile!FilesTypeOK'
      BY <2>6, FileStepType DEF PublishFails, StatusFile!RenameFails, StatusFile!OpenFails
    <3>2. faults' \in 0 .. MaxFaults
      <4>1. faults \in 0 .. MaxFaults /\ MaxFaults \in Nat OBVIOUS
      <4>2. faults < MaxFaults /\ faults' = faults + 1 BY <2>6 DEF PublishFails
      <4> QED BY <4>1, <4>2, OneMore
    <3> QED BY <2>1, <2>6, <3>1, <3>2 DEF PublishFails
  <2>7. CASE BlankDesired(t) \/ WriteDesired(t) \/ DesiredFails(t)
    <3>1. UNCHANGED files BY <2>7 DEF BlankDesired, WriteDesired, DesiredFails
    <3>2. StatusFile!FilesTypeOK' /\ buf' \in [Thread -> Status] BY <3>1, FilesStay
    <3> QED BY <2>1, <2>7, <3>2 DEF BlankDesired, WriteDesired, DesiredFails
  <2>8. CASE AlreadyStarted(t) \/ StartFails(t)
    <3>1. UNCHANGED files BY <2>8 DEF AlreadyStarted, StartFails
    <3>2. StatusFile!FilesTypeOK' /\ buf' \in [Thread -> Status] BY <3>1, FilesStay
    <3> QED BY <2>1, <2>8, <3>2 DEF AlreadyStarted, StartFails
  <2>9. ASSUME NEW j \in Jvm, Start(t, j) PROVE TypeOK'
    <3>1. UNCHANGED files BY <2>9 DEF Start
    <3>2. StatusFile!FilesTypeOK' /\ buf' \in [Thread -> Status] BY <3>1, FilesStay
    <3> QED BY <2>1, <2>9, <3>2 DEF Start
  <2>10. CASE Stop(t) \/ Grab(t)
    <3>1. /\ held' = [held EXCEPT ![t] = cmd]
          /\ UNCHANGED <<mode, cmd, jvm, desired, control, counts, history, files>>
      BY <2>10 DEF Stop, Grab
    <3>2. held' \in [Thread -> Jvm \cup {None}] BY <3>1
    <3>3. StatusFile!FilesTypeOK' /\ buf' \in [Thread -> Status] BY <3>1, FilesStay
    <3> QED BY <2>1, <3>1, <3>2, <3>3
  <2>11. CASE Ask(t) \/ PipeIsFull(t) \/ PipeIsRead(t) \/ PipeBreaks(t)
    <3>1. UNCHANGED <<mode, cmd, held, jvm, desired, control, counts, history, files>>
      BY <2>11 DEF Ask, PipeIsFull, PipeIsRead, PipeBreaks
    <3>2. StatusFile!FilesTypeOK' /\ buf' \in [Thread -> Status] BY <3>1, FilesStay
    <3> QED BY <2>1, <3>1, <3>2
  <2>12. CASE Stopped(t)
    <3>1. StatusFile!FilesTypeOK' /\ buf' \in [Thread -> Status]
      BY <2>12, FilesStay DEF Stopped
    <3> QED BY <2>1, <2>12, <3>1 DEF Stopped
  <2>13. CASE StopTimesOut(t) \/ Kill(t)
    <3>1. /\ UNCHANGED <<mode, cmd, desired, control, counts, history, files>>
          /\ jvm' = Killed(held[t])
          /\ held' = held \/ held' = [held EXCEPT ![t] = None]
      BY <2>13 DEF StopTimesOut, Kill
    <3>2. StatusFile!FilesTypeOK' /\ buf' \in [Thread -> Status] BY <3>1, FilesStay
    <3>3. jvm' \in [Jvm -> Life] BY <3>1 DEF Killed
    <3>4. held' \in [Thread -> Jvm \cup {None}] BY <3>1
    <3> QED BY <2>1, <3>1, <3>2, <3>3, <3>4
  <2>14. CASE Spawn(t) \/ Resume(t)
    <3>1. StatusFile!FilesTypeOK' /\ buf' \in [Thread -> Status]
      BY <2>14, FilesStay DEF Spawn, Resume
    <3> QED BY <2>1, <2>14, <3>1 DEF Spawn, Resume
  <2> QED
    BY <1>2, <2>2, <2>3, <2>4, <2>5, <2>6, <2>7, <2>8, <2>9, <2>10, <2>11, <2>12, <2>13,
       <2>14 DEF Moves, RunStep
<1> QED BY <1>1, <1>2

\* TypeOK is inductive.
LEMMA TypeInductive ==
  ASSUME TypeOK, [Next]_vars
  PROVE  TypeOK'
<1>1. CASE UNCHANGED vars
  BY <1>1, FileStepType, StatusType DEF vars, files, counts, history, TypeOK
<1>2. CASE Boot
  <2>1. <<"spawn", "resume">> \in Seq(Step)
    <3>1. "spawn" \in Step /\ "resume" \in Step BY DEF Step
    <3> QED BY <3>1
  <2>2. WriteStatus \o <<"spawn", "resume">> \in Seq(Step)
    BY <2>1, RoutineType, ConcatProperties
  <2>3. todo' \in [Thread -> Seq(Step)]
    BY <1>2, <2>2, BeginType DEF Boot, TypeOK
  <2>4. StatusFile!FilesTypeOK'
    BY <1>2, FileStepType, StatusType DEF Boot, TypeOK, files, counts, history
  <2>5. boots' \in 0 .. MaxBoots
    <3>1. boots \in 0 .. MaxBoots /\ boots < MaxBoots /\ boots' = boots + 1
      BY <1>2 DEF Boot, TypeOK
    <3> QED BY <3>1
  <2>6. faults' \in 0 .. MaxFaults
    <3>1. faults' = 0 /\ MaxFaults \in Nat BY <1>2, BoundAssumption DEF Boot
    <3> QED BY <3>1
  <2> QED BY <1>2, <2>3, <2>4, <2>5, <2>6 DEF Boot, TypeOK, files, counts, history
<1>3. CASE Heartbeat
  BY <1>3, RoutineType, BeginType, FileStepType, StatusType DEF Heartbeat, TypeOK, files, counts, history
<1>4. CASE ReadControl
  <2>1. Head(control) \in Verb /\ Tail(control) \in Seq(Verb)
    BY <1>4, HeadTailProperties DEF ReadControl, TypeOK
  <2> QED
    BY <1>4, <2>1, RoutineType, BeginType, FileStepType, StatusType
    DEF ReadControl, Asks, TypeOK, files, counts, history
<1>5. CASE Signal
  <2>1. <<"stop">> \in Seq(Step) /\ <<"exit">> \in Seq(Step)
    <3>1. "stop" \in Step /\ "exit" \in Step BY DEF Step
    <3> QED BY <3>1
  <2>2. <<"stop">> \o WriteStatus \in Seq(Step) BY <2>1, RoutineType, ConcatProperties
  <2>3. (<<"stop">> \o WriteStatus) \o <<"exit">> \in Seq(Step)
    BY <2>1, <2>2, ConcatProperties
  <2> QED BY <1>5, <2>3, BeginType, FileStepType, StatusType DEF Signal, TypeOK, files, counts, history
<1>6. CASE Crash BY <1>6, DownType DEF Crash
<1>7. ASSUME NEW t \in Thread, Moves(t) PROVE TypeOK'
  BY <1>7, MoveKeepsType
<1>8. ASSUME NEW j \in Jvm, Waiter(j) PROVE TypeOK'
  BY <1>8, RoutineType, BeginType, FileStepType, StatusType
  DEF Waiter, WaitReturns, ClearCmd, CloseDone, TypeOK, Life, files, counts, history
<1>9. ASSUME NEW j \in Jvm, JvmQuits(j) \/ JvmDies(j) PROVE TypeOK'
  BY <1>9, FileStepType, StatusType
  DEF JvmQuits, JvmDies, TypeOK, Life, files, counts, history
<1>10. ASSUME NEW verb \in Verb, SendVerb(verb) PROVE TypeOK'
  <2>1. control' \in Seq(Verb) BY <1>10, AppendProperties DEF SendVerb, TypeOK
  <2>2. StatusFile!FilesTypeOK'
    BY <1>10, FileStepType, StatusType DEF SendVerb, TypeOK, files, counts, history
  <2>3. sent' \in 0 .. MaxVerbs
    <3>1. sent \in 0 .. MaxVerbs /\ sent < MaxVerbs /\ sent' = sent + 1
      BY <1>10 DEF SendVerb, TypeOK
    <3> QED BY <3>1
  <2> QED BY <1>10, <2>1, <2>2, <2>3 DEF SendVerb, TypeOK, files, counts, history
<1> QED
  BY <1>1, <1>2, <1>3, <1>4, <1>5, <1>6, <1>7, <1>8, <1>9, <1>10 
     DEF Next, Moves

\* Every variable keeps its type.
THEOREM TypeCorrect == Spec => []TypeOK
<1>1. ASSUME Init PROVE TypeOK
  <2>1. todo \in [Thread -> Seq(Step)] /\ control \in Seq(Verb)
    BY <1>1, EmptySeq DEF Init
  <2>2. StatusFile!FilesTypeOK
    <3>1. tmp \in StatusFile!Content BY <1>1 DEF Init, StatusFile!Content
    <3>2. status \in StatusFile!Content
      BY <1>1 DEF Init, StatusFile!Content, Outdated, Status
    <3> QED BY <1>1, <3>1, <3>2 DEF Init, StatusFile!FilesTypeOK
  <2>3. jvm \in [Jvm -> Life] /\ held \in [Thread -> Jvm \cup {None}]
        /\ buf \in [Thread -> Status]
    BY <1>1, StatusType DEF Init, Life
  <2>4. sent \in 0 .. MaxVerbs /\ boots \in 0 .. MaxBoots /\ faults \in 0 .. MaxFaults
    <3>1. sent = 0 /\ boots = 0 /\ faults = 0 BY <1>1 DEF Init
    <3> QED BY <3>1, BoundAssumption
  <2> QED BY <1>1, <2>1, <2>2, <2>3, <2>4 DEF Init, TypeOK
<1>2. TypeOK /\ [Next]_vars => TypeOK'
  BY TypeInductive
<1> QED BY <1>1, <1>2, PTL DEF Spec

-----------------------------------------------------------------------------
(* One JVM at a time *)

\* While s.cmd names the process that is not yet cleared, there is no second
\* process: two live ones would both be s.cmd.
LEMMA CmdMakesUnique ==
  ASSUME CmdTracksJvm
  PROVE  AtMostOneJvm
BY DEF CmdTracksJvm, AtMostOneJvm, Live

\* A goroutine launches only when s.cmd is nil, sends signals that leave a
\* process waiting for its waiter, and otherwise touches neither.
LEMMA MoveKeepsCmd ==
  ASSUME TypeOK, CmdTracksJvm, NEW t \in Thread, Moves(t)
  PROVE  CmdTracksJvm'
<1> USE DEF CmdTracksJvm, TypeOK
<1>1. CASE Look(t) \/ OpenTmp(t) \/ WriteTmp(t) \/ RenameTmp(t) \/ PublishFails(t)
  BY <1>1 DEF Look, OpenTmp, WriteTmp, RenameTmp, PublishFails
<1>2. CASE BlankDesired(t) \/ WriteDesired(t) \/ DesiredFails(t)
  BY <1>2 DEF BlankDesired, WriteDesired, DesiredFails
<1>3. CASE AlreadyStarted(t) \/ StartFails(t)
  BY <1>3 DEF AlreadyStarted, StartFails
<1>4. ASSUME NEW j \in Jvm, Start(t, j) PROVE CmdTracksJvm'
  <2>1. cmd = None /\ cmd' = j /\ jvm' = [jvm EXCEPT ![j] = "up"]
    BY <1>4 DEF Start
  <2>2. \A i \in Jvm : jvm[i] \notin {"up", "dying", "exited", "waited"}
    BY <2>1
  <2> QED BY <2>1, <2>2
<1>5. CASE \/ Stop(t) \/ Ask(t) \/ Stopped(t) \/ Grab(t)
           \/ PipeIsFull(t) \/ PipeIsRead(t) \/ PipeBreaks(t)
  BY <1>5 DEF Stop, Ask, Stopped, Grab, PipeIsFull, PipeIsRead, PipeBreaks
<1>6. CASE StopTimesOut(t) \/ Kill(t)
  <2>1. cmd' = cmd /\ jvm' = Killed(held[t])
    BY <1>6 DEF StopTimesOut, Kill
  <2> QED BY <2>1 DEF Killed
<1>7. CASE Spawn(t) \/ Resume(t)
  BY <1>7 DEF Spawn, Resume
<1>8. CASE Exit(t)
  BY <1>8 DEF Exit, Down
<1> QED
  BY <1>1, <1>2, <1>3, <1>4, <1>5, <1>6, <1>7, <1>8 DEF Moves, RunStep

\* CmdTracksJvm is inductive relative to TypeOK.
LEMMA CmdInductive ==
  ASSUME TypeOK, CmdTracksJvm, [Next]_vars
  PROVE  CmdTracksJvm'
<1> USE DEF CmdTracksJvm, TypeOK
<1>1. CASE UNCHANGED vars BY <1>1 DEF vars
<1>2. CASE Boot \/ Heartbeat \/ ReadControl \/ Signal
  BY <1>2 DEF Boot, Heartbeat, ReadControl, Signal
<1>3. CASE Crash BY <1>3 DEF Crash, Down
<1>4. ASSUME NEW t \in Thread, Moves(t) PROVE CmdTracksJvm'
  BY <1>4, MoveKeepsCmd
<1>5. ASSUME NEW j \in Jvm, Waiter(j) PROVE CmdTracksJvm'
  <2>1. CASE WaitReturns(j) BY <1>5, <2>1 DEF WaitReturns
  <2>2. CASE ClearCmd(j)
    <3>1. cmd = j BY <2>2 DEF ClearCmd
    <3> QED BY <2>2, <3>1 DEF ClearCmd
  <2>3. CASE CloseDone(j) BY <2>3 DEF CloseDone
  <2> QED BY <1>5, <2>1, <2>2, <2>3 DEF Waiter
<1>6. ASSUME NEW j \in Jvm, JvmQuits(j) \/ JvmDies(j)
      PROVE  CmdTracksJvm'
  BY <1>6 DEF JvmQuits, JvmDies
<1>7. ASSUME NEW verb \in Verb, SendVerb(verb) PROVE CmdTracksJvm'
  BY <1>7 DEF SendVerb
<1> QED BY <1>1, <1>2, <1>3, <1>4, <1>5, <1>6, <1>7 DEF Next, Moves

\* s.cmd is not nil exactly while a process still has to be cleared.
THEOREM CmdTracks == Spec => []CmdTracksJvm
<1>1. Init => CmdTracksJvm
  BY DEF Init, CmdTracksJvm
<1>2. TypeOK /\ CmdTracksJvm /\ [Next]_vars => CmdTracksJvm'
  BY CmdInductive
<1> QED BY <1>1, <1>2, TypeCorrect, PTL DEF Spec

\* Two JVMs never run on one world, whatever verbs, signals, crashes and
\* auto-starts interleave.
THEOREM OneJvm == Spec => []AtMostOneJvm
<1>1. CmdTracksJvm => AtMostOneJvm
  BY CmdMakesUnique
<1> QED BY <1>1, CmdTracks, PTL

-----------------------------------------------------------------------------
(* The supervisor implements the JVM slot *)

\* The process that ends was the only live one.
LEMMA EndLeavesNone ==
  ASSUME TypeOK, CmdTracksJvm, NEW j \in Jvm, jvm[j] \in {"up", "dying"},
         jvm' = [jvm EXCEPT ![j] = "exited"]
  PROVE  Live # {} /\ Live' = {}
<1>1. j \in Live BY DEF Live
<1>2. \A i \in Live : i = j BY <1>1, CmdMakesUnique DEF AtMostOneJvm
<1>3. Live' = {} BY <1>2 DEF Live, TypeOK
<1> QED BY <1>1, <1>3

\* A goroutine's step launches into the free slot, ends everything, or is
\* not visible in the slot.
LEMMA MoveImplements ==
  ASSUME TypeOK, CmdTracksJvm, NEW t \in Thread, Moves(t)
  PROVE  [Slot!Next]_<<cmd, Live>>
<1> USE DEF TypeOK, Live
<1>1. CASE Look(t) \/ OpenTmp(t) \/ WriteTmp(t) \/ RenameTmp(t) \/ PublishFails(t)
  BY <1>1 DEF Look, OpenTmp, WriteTmp, RenameTmp, PublishFails
<1>2. CASE BlankDesired(t) \/ WriteDesired(t) \/ DesiredFails(t)
  BY <1>2 DEF BlankDesired, WriteDesired, DesiredFails
<1>3. CASE AlreadyStarted(t) \/ StartFails(t)
  BY <1>3 DEF AlreadyStarted, StartFails
<1>4. ASSUME NEW j \in Jvm, Start(t, j) PROVE Slot!Launch(j)
  <2>1. cmd = None /\ cmd' = j /\ jvm' = [jvm EXCEPT ![j] = "up"]
    BY <1>4 DEF Start
  <2>2. \A i \in Jvm : jvm[i] \notin {"up", "dying"} BY <2>1 DEF CmdTracksJvm
  <2>3. Live' = {j} BY <2>1, <2>2
  <2> QED BY <2>1, <2>3 DEF Slot!Launch
<1>5. CASE \/ Stop(t) \/ Ask(t) \/ Stopped(t) \/ Grab(t)
           \/ PipeIsFull(t) \/ PipeIsRead(t) \/ PipeBreaks(t)
  BY <1>5 DEF Stop, Ask, Stopped, Grab, PipeIsFull, PipeIsRead, PipeBreaks
<1>6. CASE StopTimesOut(t) \/ Kill(t)
  <2>1. cmd' = cmd /\ jvm' = Killed(held[t])
    BY <1>6 DEF StopTimesOut, Kill
  <2> QED BY <2>1 DEF Killed
<1>7. CASE Spawn(t) \/ Resume(t)
  BY <1>7 DEF Spawn, Resume
<1>8. CASE Exit(t)
  BY <1>8 DEF Exit, Down, Slot!Next, Slot!Down
<1> QED
  BY <1>1, <1>2, <1>3, <1>4, <1>5, <1>6, <1>7, <1>8 DEF Moves, RunStep, Slot!Next

\* Every step of the supervisor and its environment is a step of the slot.
LEMMA StepImplements ==
  ASSUME TypeOK, CmdTracksJvm, [Next]_vars
  PROVE  [Slot!Next]_<<cmd, Live>>
<1> USE DEF TypeOK, Live
<1>1. CASE UNCHANGED vars BY <1>1 DEF vars
<1>2. CASE Boot \/ Heartbeat \/ ReadControl \/ Signal
  BY <1>2 DEF Boot, Heartbeat, ReadControl, Signal
<1>3. CASE Crash BY <1>3 DEF Crash, Down, Slot!Next, Slot!Down
<1>4. ASSUME NEW t \in Thread, Moves(t) PROVE [Slot!Next]_<<cmd, Live>>
  BY <1>4, MoveImplements
<1>5. ASSUME NEW j \in Jvm, Waiter(j) PROVE [Slot!Next]_<<cmd, Live>>
  <2>1. CASE WaitReturns(j) BY <2>1 DEF WaitReturns
  <2>2. CASE ClearCmd(j)
    <3>1. cmd = j BY <2>2 DEF ClearCmd, CmdTracksJvm
    <3>2. Live = {} /\ Live' = {} BY <2>2, <3>1 DEF ClearCmd, CmdTracksJvm
    <3> QED BY <2>2, <3>1, <3>2 DEF ClearCmd, Slot!Next, Slot!Release
  <2>3. CASE CloseDone(j) BY <2>3 DEF CloseDone
  <2> QED BY <1>5, <2>1, <2>2, <2>3 DEF Waiter
<1>6. ASSUME NEW j \in Jvm, JvmQuits(j) \/ JvmDies(j)
      PROVE  [Slot!Next]_<<cmd, Live>>
  <2>1. Live # {} /\ Live' = {} /\ cmd' = cmd
    BY <1>6, EndLeavesNone DEF JvmQuits, JvmDies
  <2> QED BY <2>1 DEF Slot!Next, Slot!End
<1>7. ASSUME NEW verb \in Verb, SendVerb(verb) PROVE [Slot!Next]_<<cmd, Live>>
  BY <1>7 DEF SendVerb
<1> QED BY <1>1, <1>2, <1>3, <1>4, <1>5, <1>6, <1>7 DEF Next, Moves

\* s.cmd is a slot that a JVM holds for as long as its process lives.
THEOREM SlotImplemented == Spec => ImplementsSlot
<1>1. Init => Slot!Init
  BY DEF Init, Slot!Init, Live
<1>2. TypeOK /\ CmdTracksJvm /\ [Next]_vars => [Slot!Next]_<<cmd, Live>>
  BY StepImplements
<1> QED
  BY <1>1, <1>2, TypeCorrect, CmdTracks, PTL
  DEF Spec, ImplementsSlot, Slot!Spec, Slot!vars
-----------------------------------------------------------------------------
(* What a STOP leaves behind                                               *)
(*                                                                         *)
(* The inductive invariant speaks of the steps the control reader and main *)
(* have still to take, through these predicates on sequences of steps.     *)

AllIn(c, S) == \A i \in 1 .. Len(c) : c[i] \in S

Publication == {"look", "open", "write", "rename"}

\* What a verb is made of before any of it has been carried out.
Fresh == Publication \cup {"wantRunning", "wantStopped", "start", "stop", "grab"}

\* Of what the control reader has before it, only a first step holds a
\* process, and the write of "stop" is followed by the wait.
ControlPlan(c) ==
  \A i \in 1 .. Len(c) :
    /\ c[i] \notin {"spawn", "resume", "exit"}
    /\ c[i] \in {"ask", "blocked"} => (i = 1 /\ Len(c) > 1 /\ c[2] = "await")
    /\ c[i] = "await" => (i = 1 \/ (i = 2 /\ c[1] \in {"ask", "blocked"}))
    /\ c[i] \in {"reap", "kill"} => i = 1

\* Its publication aside, main only spawns, resumes and starts, and every
\* goroutine but main and the control reader only stops and exits.
MainSteps == Publication \cup {"spawn", "resume", "start"}
OtherSteps == Publication \cup {"stop", "ask", "blocked", "await", "reap", "exit"}

Plan(t, c) ==
  CASE t = "control" -> ControlPlan(c)
    [] t = "main" -> AllIn(c, MainSteps)
    [] OTHER -> AllIn(c, OtherSteps)

Starts(c) == \E i \in 1 .. Len(c) : c[i] = "start"

\* The verb has still to bring a process down.
BusyStep == {"stop", "ask", "blocked", "await", "reap", "grab", "kill"}
Busy(c) == \E i \in 1 .. Len(c) : c[i] \in BusyStep

\* The goroutine works on the process it copied.
Holding(c) == c # <<>> /\ c[1] \in {"ask", "blocked", "await", "reap", "kill"}

\* The entries of a tail, and of two sequences put together.
LEMMA TailIs ==
  ASSUME NEW c \in Seq(Step), c # <<>>, NEW d, d = Tail(c)
  PROVE  /\ d \in Seq(Step) /\ Len(c) \in Nat /\ Len(c) > 0 /\ Len(d) = Len(c) - 1
         /\ \A i \in 1 .. Len(d) : d[i] = c[i + 1] /\ i + 1 \in 1 .. Len(c)
         /\ \A i \in 1 .. Len(c) : i = 1 \/ (i - 1 \in 1 .. Len(d) /\ d[i - 1] = c[i])
<1>1. /\ Tail(c) \in Seq(Step) /\ Len(c) \in Nat /\ Len(c) > 0
      /\ Len(Tail(c)) = Len(c) - 1
      /\ \A i \in 1 .. Len(Tail(c)) : Tail(c)[i] = c[i + 1]
  OBVIOUS
<1> QED BY <1>1

LEMMA ConcatIs ==
  ASSUME NEW a \in Seq(Step), NEW b \in Seq(Step), NEW d, d = a \o b
  PROVE  /\ d \in Seq(Step) /\ Len(d) = Len(a) + Len(b)
         /\ \A i \in 1 .. Len(a) : d[i] = a[i]
         /\ \A i \in Len(a) + 1 .. Len(d) : d[i] = b[i - Len(a)]
BY ConcatProperties

\* What every entry has, every entry of a tail or of a concatenation has.
LEMMA AllInTail ==
  ASSUME NEW c \in Seq(Step), c # <<>>, NEW S, AllIn(c, S)
  PROVE  c[1] \in S /\ AllIn(Tail(c), S)
<1> DEFINE d == Tail(c)
<1>1. /\ Len(c) \in Nat /\ Len(c) > 0
      /\ \A i \in 1 .. Len(d) : d[i] = c[i + 1] /\ i + 1 \in 1 .. Len(c)
  BY TailIs
<1> HIDE DEF d
<1>2. AllIn(d, S) BY <1>1 DEF AllIn
<1>3. c[1] \in S BY <1>1 DEF AllIn
<1> QED BY <1>2, <1>3 DEF d

LEMMA AllInConcat ==
  ASSUME NEW a \in Seq(Step), NEW b \in Seq(Step), NEW S, AllIn(a, S), AllIn(b, S)
  PROVE  AllIn(a \o b, S)
<1> DEFINE d == a \o b
<1>1. d = a \o b OBVIOUS
<1> HIDE DEF d
<1>2. /\ Len(d) = Len(a) + Len(b)
      /\ \A i \in 1 .. Len(a) : d[i] = a[i]
      /\ \A i \in Len(a) + 1 .. Len(d) : d[i] = b[i - Len(a)]
  BY <1>1, ConcatIs
<1>3. Len(a) \in Nat /\ Len(b) \in Nat OBVIOUS
<1>4. ASSUME NEW i \in 1 .. Len(d) PROVE d[i] \in S
  <2>1. CASE i \in 1 .. Len(a) BY <1>2, <2>1 DEF AllIn
  <2>2. CASE i \in Len(a) + 1 .. Len(d)
    <3>1. i - Len(a) \in 1 .. Len(b) /\ d[i] = b[i - Len(a)] BY <1>2, <1>3, <2>2
    <3> QED BY <3>1 DEF AllIn
  <2> QED BY <1>2, <1>3, <2>1, <2>2
<1> QED BY <1>4 DEF AllIn, d

\* A sequence of one step or two.
LEMMA Short ==
  /\ \A n \in Step : <<n>> \in Seq(Step) /\ Len(<<n>>) = 1 /\ <<n>>[1] = n
  /\ \A m, n \in Step : /\ <<m, n>> \in Seq(Step) /\ Len(<<m, n>>) = 2
                        /\ <<m, n>>[1] = m /\ <<m, n>>[2] = n
  /\ \A S : \A n \in Step : n \in S => AllIn(<<n>>, S)
  /\ \A S : \A m, n \in Step : m \in S /\ n \in S => AllIn(<<m, n>>, S)
<1>1. /\ \A n \in Step : <<n>> \in Seq(Step) /\ Len(<<n>>) = 1 /\ <<n>>[1] = n
      /\ \A m, n \in Step : /\ <<m, n>> \in Seq(Step) /\ Len(<<m, n>>) = 2
                            /\ <<m, n>>[1] = m /\ <<m, n>>[2] = n
  OBVIOUS
<1>2. ASSUME NEW n \in Step, NEW S, n \in S PROVE AllIn(<<n>>, S)
  BY <1>1, <1>2 DEF AllIn
<1>3. ASSUME NEW m \in Step, NEW n \in Step, NEW S, m \in S, n \in S PROVE AllIn(<<m, n>>, S)
  <2>1. \A i \in 1 .. 2 : i = 1 \/ i = 2 OBVIOUS
  <2> QED BY <1>1, <1>3, <2>1 DEF AllIn
<1> QED BY <1>1, <1>2, <1>3

\* Publishing is made of the steps of its name.
LEMMA Publishes2 ==
  \A S : Publication \subseteq S => AllIn(WriteStatus, S)
<1>1. CASE Publishing
  <2>1. "look" \in Step /\ "open" \in Step BY DEF Step
  <2> QED BY <1>1, <2>1, Short DEF WriteStatus, Publication
<1>2. CASE ~Publishing
  <2>1. Len(WriteStatus) = 0 BY <1>2 DEF WriteStatus
  <2> QED BY <2>1 DEF AllIn
<1> QED BY <1>1, <1>2

\* Taking the first step off: what was planned is still planned.
LEMMA PlanAfterReturn ==
  ASSUME NEW c \in Seq(Step), c # <<>>, ControlPlan(c), NEW d, d = Tail(c)
  PROVE  /\ ControlPlan(d)
         /\ Starts(d) => Starts(c)
         /\ Busy(c) => (Busy(d) \/ c[1] \in BusyStep)
         /\ c[1] \in {"ask", "blocked"} => Busy(d)
         /\ Holding(d) => c[1] \in {"ask", "blocked"}
<1>1. /\ d \in Seq(Step) /\ Len(c) \in Nat /\ Len(c) > 0 /\ Len(d) = Len(c) - 1
      /\ \A i \in 1 .. Len(d) : d[i] = c[i + 1] /\ i + 1 \in 1 .. Len(c)
      /\ \A i \in 1 .. Len(c) : i = 1 \/ (i - 1 \in 1 .. Len(d) /\ d[i - 1] = c[i])
  BY TailIs
<1>2. 1 \in 1 .. Len(c) BY <1>1
<1>3. d # <<>> => Len(d) > 0 BY <1>1
<1>4. ControlPlan(d) BY <1>1, <1>2 DEF ControlPlan
<1>5. Starts(d) => Starts(c) BY <1>1 DEF Starts
<1>6. Busy(c) => (Busy(d) \/ c[1] \in BusyStep) BY <1>1 DEF Busy
<1>7. c[1] \in {"ask", "blocked"} => Busy(d)
  <2> SUFFICES ASSUME c[1] \in {"ask", "blocked"} PROVE Busy(d)
    OBVIOUS
  <2>1. 1 < Len(c) /\ c[2] = "await" BY <1>2 DEF ControlPlan
  <2>2. 1 \in 1 .. Len(d) /\ d[1] = "await" BY <1>1, <2>1
  <2> QED BY <2>2 DEF Busy, BusyStep
<1>8. Holding(d) => c[1] \in {"ask", "blocked"}
  <2> SUFFICES ASSUME Holding(d) PROVE c[1] \in {"ask", "blocked"}
    OBVIOUS
  <2>1. d[1] \in {"ask", "blocked", "await", "reap", "kill"} /\ d # <<>> BY DEF Holding
  <2>2. 1 \in 1 .. Len(d) BY <1>1, <1>3, <2>1
  <2>3. c[2] = d[1] /\ 2 \in 1 .. Len(c) BY <1>1, <2>2
  <2> QED BY <2>1, <2>3 DEF ControlPlan
<1> QED BY <1>4, <1>5, <1>6, <1>7, <1>8

\* Putting the rest of a routine in front of what follows a first step.
LEMMA PlanAfterCall ==
  ASSUME NEW c \in Seq(Step), c # <<>>, ControlPlan(c),
         NEW p, Continues(c[1], p), NEW d, d = p \o Tail(c)
  PROVE  /\ ControlPlan(d)
         /\ Starts(d) => Starts(c)
         /\ Busy(c) => Busy(d)
         /\ Holding(d) => (c[1] \in {"stop", "grab"} \/ Holding(c))
<1>1. Len(c) \in Nat /\ Len(c) > 0 /\ 1 \in 1 .. Len(c)
  OBVIOUS
<1>2. ASSUME c[1] = "stop", p = <<"ask", "await">>
      PROVE  /\ ControlPlan(d) /\ Busy(d)
             /\ Starts(d) => Starts(c)
  <2>1. /\ Len(d) = Len(c) + 1 /\ d[1] = "ask" /\ d[2] = "await"
        /\ \A i \in 3 .. Len(d) : d[i] = c[i - 1]
    BY <1>2
  <2>2. \A i \in 1 .. Len(d) :
          \/ i = 1 /\ d[i] = "ask"
          \/ i = 2 /\ d[i] = "await"
          \/ i > 2 /\ i - 1 \in 1 .. Len(c) /\ i - 1 > 1 /\ d[i] = c[i - 1]
    BY <1>1, <2>1
  <2>3. \A k \in 1 .. Len(c) :
          k > 1 => c[k] \notin {"spawn", "resume", "exit", "ask", "blocked", "await", "reap", "kill"}
    BY <1>1, <1>2 DEF ControlPlan
  <2>4. ControlPlan(d)
    <3>1. ASSUME NEW i \in 1 .. Len(d), i > 2
          PROVE  d[i] \notin {"spawn", "resume", "exit", "ask", "blocked", "await", "reap", "kill"}
      BY <2>2, <2>3, <3>1
    <3>2. Len(d) > 1 BY <1>1, <2>1
    <3> QED BY <2>1, <2>2, <3>1, <3>2 DEF ControlPlan
  <2>5. Busy(d) BY <1>1, <2>1 DEF Busy, BusyStep
  <2>6. Starts(d) => Starts(c) BY <2>2 DEF Starts
  <2> QED BY <2>4, <2>5, <2>6
<1>3. ASSUME NEW n \in Step, <<c[1], n>> \in Leads, p = <<n>>
      PROVE  /\ ControlPlan(d)
             /\ Starts(d) => Starts(c)
             /\ Busy(c) => Busy(d)
             /\ Holding(d) => (c[1] = "grab" \/ Holding(c))
  <2>1. /\ Len(d) = Len(c) /\ d[1] = n /\ d # <<>>
        /\ \A i \in 2 .. Len(d) : d[i] = c[i]
    <3>1. Len(<<n>>) = 1 /\ <<n>>[1] = n OBVIOUS
    <3>2. Len(Tail(c)) = Len(c) - 1 /\ Tail(c) \in Seq(Step)
          /\ \A i \in 1 .. Len(c) - 1 : Tail(c)[i] = c[i + 1]
      OBVIOUS
    <3> QED BY <1>3
  <2>2. \A i \in 1 .. Len(d) : i = 1 \/ (i > 1 /\ i \in 1 .. Len(c) /\ d[i] = c[i])
    BY <1>1, <2>1
  <2>3. /\ n \in {"write", "rename", "running", "stopped", "blocked", "reap", "kill"}
        /\ n = "blocked" <=> c[1] = "ask"
        /\ n = "reap" <=> c[1] = "await"
        /\ n = "kill" <=> c[1] = "grab"
        /\ c[1] \notin {"start", "blocked", "stop", "reap", "kill"}
    BY <1>3 DEF Leads
  <2>4. \A i \in 1 .. Len(c) :
          i > 1 => /\ c[i] \notin {"spawn", "resume", "exit", "ask", "blocked", "reap", "kill"}
                   /\ c[i] = "await" => (i = 2 /\ c[1] = "ask")
    BY <1>1, <2>3 DEF ControlPlan
  <2>5. c[1] = "ask" => (Len(c) > 1 /\ c[2] = "await") BY <1>1 DEF ControlPlan
  <2>6. ControlPlan(d)
    <3>1. n = "blocked" => (Len(d) > 1 /\ d[2] = "await")
      BY <1>1, <2>1, <2>3, <2>5
    <3> QED BY <2>1, <2>2, <2>3, <2>4, <3>1 DEF ControlPlan
  <2>7. Starts(d) => Starts(c) BY <2>1, <2>2, <2>3 DEF Starts
  <2>8. Busy(c) => Busy(d)
    <3> SUFFICES ASSUME Busy(c) PROVE Busy(d) OBVIOUS
    <3>1. PICK i \in 1 .. Len(c) : c[i] \in BusyStep BY DEF Busy
    <3>2. i \in 1 .. Len(d) BY <2>1
    <3>3. CASE i = 1 BY <2>1, <2>3, <3>1, <3>2, <3>3 DEF Busy, BusyStep
    <3>4. CASE i # 1
      <4>1. d[i] = c[i] BY <2>2, <3>2, <3>4
      <4> QED BY <3>1, <3>2, <4>1 DEF Busy
    <3> QED BY <3>3, <3>4
  <2>9. Holding(d) => (c[1] = "grab" \/ Holding(c)) BY <2>1, <2>3 DEF Holding
  <2> QED BY <2>6, <2>7, <2>8, <2>9
<1>4. CASE c[1] = "stop" /\ p = <<"ask", "await">> BY <1>2, <1>4
<1>5. CASE \E n \in Step : <<c[1], n>> \in Leads /\ p = <<n>> BY <1>3, <1>5
<1> QED BY <1>4, <1>5 DEF Continues

\* A verb that has just been read is a plan, and none that holds a process.
LEMMA FreshPlan ==
  ASSUME NEW c, AllIn(c, Fresh)
  PROVE  ControlPlan(c) /\ (c \in Seq(Step) => ~Holding(c))
<1>1. ControlPlan(c) BY DEF AllIn, Fresh, Publication, ControlPlan
<1>2. ASSUME c \in Seq(Step), c # <<>> PROVE c[1] \in Fresh
  BY <1>2, AllInTail
<1> QED BY <1>1, <1>2 DEF Holding, Fresh, Publication

LEMMA ProgramPlan ==
  ASSUME NEW verb \in Verb, NEW d, d = Program(verb)
  PROVE  /\ ControlPlan(d) /\ ~Holding(d)
         /\ Starts(d) => Asks(verb) = "running"
         /\ Asks(verb) = "stopped" => Busy(d)
<1>1. /\ "wantRunning" \in Step /\ "wantStopped" \in Step /\ "start" \in Step
      /\ "stop" \in Step /\ "grab" \in Step
  BY DEF Step
<1>2. WriteStatus \in Seq(Step) /\ d \in Seq(Step) BY RoutineType
<1>3. AllIn(WriteStatus, Fresh) /\ AllIn(WriteStatus, Fresh \ {"start"})
  BY Publishes2 DEF Fresh, Publication
<1>4. CASE verb = "START"
  <2> DEFINE p == <<"wantRunning", "start">>
  <2>1. p \in Seq(Step) /\ AllIn(p, Fresh) BY <1>1, Short DEF Fresh
  <2> HIDE DEF p
  <2>2. d = p \o WriteStatus BY <1>4 DEF Program, p
  <2>3. AllIn(d, Fresh) BY <1>2, <1>3, <2>1, <2>2, AllInConcat
  <2> QED BY <1>2, <1>4, <2>3, FreshPlan DEF Asks
<1>5. CASE verb = "RESTART"
  <2> DEFINE p == <<"wantRunning", "stop", "start">>
  <2>1. p \in Seq(Step) /\ AllIn(p, Fresh)
    <3>1. /\ p \in Seq(Step) /\ Len(p) = 3
          /\ p[1] = "wantRunning" /\ p[2] = "stop" /\ p[3] = "start"
      BY <1>1
    <3> QED BY <3>1 DEF AllIn, Fresh
  <2> HIDE DEF p
  <2>2. d = p \o WriteStatus BY <1>5 DEF Program, p
  <2>3. AllIn(d, Fresh) BY <1>2, <1>3, <2>1, <2>2, AllInConcat
  <2> QED BY <1>2, <1>5, <2>3, FreshPlan DEF Asks
<1>6. CASE verb = "STOP"
  <2> DEFINE p == <<"wantStopped", "stop">>
             S == Fresh \ {"start"}
  <2>1. p \in Seq(Step) /\ Len(p) = 2 /\ p[2] = "stop" /\ AllIn(p, S) BY <1>1, Short DEF Fresh
  <2> HIDE DEF p
  <2>2. d = p \o WriteStatus BY <1>6 DEF Program, p
  <2>3. AllIn(d, S) BY <1>2, <1>3, <2>1, <2>2, AllInConcat
  <2>4. AllIn(d, Fresh) /\ ~Starts(d) BY <2>3 DEF AllIn, Starts
  <2>5. Len(d) = Len(p) + Len(WriteStatus) /\ \A i \in 1 .. Len(p) : d[i] = p[i]
    <3>1. p \in Seq(Step) /\ WriteStatus \in Seq(Step) /\ d = p \o WriteStatus
      BY <1>2, <2>1, <2>2
    <3> QED BY <3>1, ConcatIs
  <2>6. 2 \in 1 .. Len(d) /\ d[2] = "stop"
    <3>1. Len(WriteStatus) \in Nat BY <1>2
    <3> QED BY <2>1, <2>5, <3>1
  <2>7. Busy(d) BY <2>6 DEF Busy, BusyStep
  <2> QED BY <1>2, <2>4, <2>7, FreshPlan
<1>7. CASE verb = "KILL"
  <2>1. d = <<"wantStopped", "grab">> BY <1>7 DEF Program
  <2>2. Len(d) = 2 /\ d[2] = "grab" /\ AllIn(d, Fresh \ {"start"})
    BY <1>1, <2>1, Short DEF Fresh
  <2>3. AllIn(d, Fresh) /\ ~Starts(d) BY <2>2 DEF AllIn, Starts
  <2>4. Busy(d) BY <2>2 DEF Busy, BusyStep
  <2> QED BY <1>2, <2>3, <2>4, FreshPlan
<1> QED BY <1>4, <1>5, <1>6, <1>7 DEF Verb

\* So are the programs of main and of the other goroutines.
LEMMA RoutinePlan ==
  /\ AllIn(WriteStatus \o <<"spawn", "resume">>, MainSteps)
  /\ ~Starts(WriteStatus \o <<"spawn", "resume">>)
  /\ AllIn(<<"start">> \o WriteStatus, MainSteps)
  /\ AllIn(WriteStatus, OtherSteps)
  /\ AllIn(<<"stop">> \o WriteStatus \o <<"exit">>, OtherSteps)
<1>1. WriteStatus \in Seq(Step) BY RoutineType
<1>2. /\ AllIn(WriteStatus, MainSteps) /\ AllIn(WriteStatus, OtherSteps)
      /\ AllIn(WriteStatus, MainSteps \ {"start"})
  BY Publishes2 DEF MainSteps, OtherSteps, Publication
<1>3. /\ "spawn" \in Step /\ "resume" \in Step /\ "start" \in Step
      /\ "stop" \in Step /\ "exit" \in Step
  BY DEF Step
<1>4. /\ <<"spawn", "resume">> \in Seq(Step)
      /\ AllIn(<<"spawn", "resume">>, MainSteps \ {"start"})
  BY <1>3, Short DEF MainSteps
<1>5. AllIn(WriteStatus \o <<"spawn", "resume">>, MainSteps \ {"start"})
  BY <1>1, <1>2, <1>4, AllInConcat
<1>6. /\ AllIn(WriteStatus \o <<"spawn", "resume">>, MainSteps)
      /\ ~Starts(WriteStatus \o <<"spawn", "resume">>)
  BY <1>5 DEF AllIn, Starts
<1>7. AllIn(<<"start">> \o WriteStatus, MainSteps)
  <2>1. <<"start">> \in Seq(Step) /\ AllIn(<<"start">>, MainSteps)
    BY <1>3, Short DEF MainSteps
  <2> QED BY <1>1, <1>2, <2>1, AllInConcat
<1>8. AllIn(<<"stop">> \o WriteStatus \o <<"exit">>, OtherSteps)
  <2>1. /\ <<"stop">> \in Seq(Step) /\ AllIn(<<"stop">>, OtherSteps)
        /\ <<"exit">> \in Seq(Step) /\ AllIn(<<"exit">>, OtherSteps)
    BY <1>3, Short DEF OtherSteps
  <2>2. <<"stop">> \o WriteStatus \in Seq(Step) BY <1>1, <2>1, ConcatProperties
  <2>3. AllIn(<<"stop">> \o WriteStatus, OtherSteps)
    BY <1>1, <1>2, <2>1, AllInConcat
  <2> QED BY <2>1, <2>2, <2>3, AllInConcat
<1> QED BY <1>2, <1>6, <1>7, <1>8

\* Nothing is left of a plan that is empty.
LEMMA NothingPlanned ==
  /\ \A t \in Thread : Plan(t, <<>>)
  /\ ~Starts(<<>>) /\ ~Busy(<<>>) /\ ~Holding(<<>>)
BY DEF Plan, ControlPlan, AllIn, Starts, Busy, Holding
-----------------------------------------------------------------------------
\* Every goroutine has one of its plans before it, and none when the
\* container is down.
PlansOK == \A t \in Thread : Plan(t, todo[t])

DownIsBlank ==
  mode \notin {"boot", "up"} =>
     control = <<>> /\ cmd = None /\ \A t \in Thread : todo[t] = <<>>

\* Before a verb is read, main starts a JVM only while "running" is desired
\* and none is up while "stopped" is; afterwards only a verb that asks for it
\* starts one, a verb that stops one has work left while one is up, and the
\* process it copied is the only one there can be: main's own start aside.
Orderly ==
  /\ told = "" =>
       /\ todo["control"] = <<>>
       /\ Starts(todo["main"]) => Desired = "running"
       /\ Desired = "stopped" => \A j \in Jvm : jvm[j] # "up"
  /\ Starts(todo["control"]) => told = "running"
  /\ Holding(todo["control"]) => cmd \in {None, held["control"]} \cup stray
  /\ told = "stopped" =>
       (Busy(todo["control"]) \/ \A j \in Jvm : jvm[j] = "up" => j \in stray)

OrderInv == PlansOK /\ DownIsBlank /\ Orderly

\* The goroutine at a step is one that has that step in its plans.
LEMMA WhoseStep ==
  ASSUME TypeOK, PlansOK, NEW t \in Thread, NEW s, At(t, s)
  PROVE  /\ todo[t] \in Seq(Step) /\ todo[t] # <<>> /\ todo[t][1] = s
         /\ Plan(t, todo[t]) /\ mode \in {"boot", "up"}
         /\ t = "control" => s \notin {"spawn", "resume", "exit"}
         /\ t = "main" => s \in MainSteps
         /\ t \notin {"control", "main"} => s \in OtherSteps
<1>1. todo[t] \in Seq(Step) /\ todo[t] # <<>> /\ Plan(t, todo[t]) /\ mode \in {"boot", "up"}
  BY DEF TypeOK, PlansOK, At
<1> DEFINE c == todo[t]
<1>2. Head(c) = s BY DEF At
<1>3. c \in Seq(Step) /\ c # <<>> /\ Plan(t, c) BY <1>1
<1> HIDE DEF c
<1>4. c[1] = s /\ 1 \in 1 .. Len(c) BY <1>2, <1>3
<1>5. t = "control" => s \notin {"spawn", "resume", "exit"}
  BY <1>3, <1>4 DEF Plan, ControlPlan
<1>6. t = "main" => s \in MainSteps
  BY <1>3, <1>4 DEF Plan, AllIn
<1>7. t \notin {"control", "main"} => s \in OtherSteps
  BY <1>3, <1>4 DEF Plan, AllIn
<1> QED BY <1>1, <1>4, <1>5, <1>6, <1>7 DEF c

\* A new plan for one goroutine leaves the others theirs.
LEMMA NewPlan ==
  ASSUME TypeOK, PlansOK, NEW t \in Thread, NEW d, Plan(t, d),
         todo' = [todo EXCEPT ![t] = d]
  PROVE  PlansOK'
BY DEF PlansOK, TypeOK

\* Whatever is in all of what a goroutine but the control reader may do, is
\* in what it calls.
LEMMA CallsIn ==
  ASSUME NEW s, NEW p, Continues(s, p), NEW S \in {MainSteps, OtherSteps}, s \in S
  PROVE  p \in Seq(Step) /\ AllIn(p, S)
<1>1. CASE s = "stop" /\ p = <<"ask", "await">>
  <2>1. "ask" \in Step /\ "await" \in Step BY DEF Step
  <2>2. "ask" \in S /\ "await" \in S BY <1>1 DEF MainSteps, OtherSteps, Publication
  <2> QED BY <1>1, <2>1, <2>2, Short
<1>2. CASE \E n \in Step : <<s, n>> \in Leads /\ p = <<n>>
  <2>1. PICK n \in Step : <<s, n>> \in Leads /\ p = <<n>> BY <1>2
  <2>2. n \in S BY <2>1 DEF Leads, MainSteps, OtherSteps, Publication
  <2> QED BY <2>1, <2>2, Short
<1> QED BY <1>1, <1>2 DEF Continues

\* A goroutine that takes a step keeps to its plan.
LEMMA MoveKeepsPlan ==
  ASSUME TypeOK, PlansOK, NEW t \in Thread, Moves(t), ~Exit(t)
  PROVE  /\ PlansOK'
         /\ \E d : todo' = [todo EXCEPT ![t] = d]
         /\ t = "main" /\ Starts(todo'["main"]) =>
              (Starts(todo["main"]) \/ (At("main", "resume") /\ Desired = "running"))
<1>1. PICK s : Takes(t, s) BY MoveIs
<1> DEFINE c == todo[t]
<1>2. /\ c \in Seq(Step) /\ c # <<>> /\ c[1] = s /\ Plan(t, c) /\ At(t, s)
      /\ t = "control" => s # "resume"
      /\ t = "main" => s \in MainSteps
      /\ t \notin {"control", "main"} => s \in OtherSteps
  BY <1>1, WhoseStep DEF Takes
<1>3. ASSUME NEW d, todo' = [todo EXCEPT ![t] = d], Plan(t, d),
             t = "main" /\ Starts(d) =>
               (Starts(c) \/ (At("main", "resume") /\ Desired = "running"))
      PROVE  /\ PlansOK'
             /\ \E e : todo' = [todo EXCEPT ![t] = e]
             /\ t = "main" /\ Starts(todo'["main"]) =>
                  (Starts(todo["main"]) \/ (At("main", "resume") /\ Desired = "running"))
  <2>1. todo'[t] = d BY <1>3 DEF TypeOK
  <2> QED BY <1>3, <2>1, NewPlan
<1>4. CASE Return(t)
  <2>1. todo' = [todo EXCEPT ![t] = Tail(c)] BY <1>4 DEF Return
  <2> HIDE DEF c
  <2>2. Starts(Tail(c)) => Starts(c)
    <3>1. \A i \in 1 .. Len(Tail(c)) : Tail(c)[i] = c[i + 1] /\ i + 1 \in 1 .. Len(c)
      BY <1>2, TailIs
    <3> QED BY <3>1 DEF Starts
  <2>3. Plan(t, Tail(c))
    <3>1. CASE t = "control" BY <1>2, <3>1, PlanAfterReturn DEF Plan
    <3>2. CASE t # "control" BY <1>2, <3>2, AllInTail DEF Plan
    <3> QED BY <3>1, <3>2
  <2> QED BY <1>3, <2>1, <2>2, <2>3
<1>5. CASE \E p : Continues(s, p) /\ Call(t, p)
  <2>1. PICK p : Continues(s, p) /\ Call(t, p) BY <1>5
  <2>2. todo' = [todo EXCEPT ![t] = p \o Tail(c)] BY <2>1 DEF Call
  <2> HIDE DEF c
  <2>3. p \in Seq(Step) BY <2>1, ContinuationType
  <2>4. CASE t = "control"
    <3>1. ControlPlan(p \o Tail(c)) BY <1>2, <2>1, <2>4, PlanAfterCall DEF Plan
    <3>2. Plan(t, p \o Tail(c)) BY <2>4, <3>1 DEF Plan
    <3> QED BY <1>3, <2>2, <2>4, <3>2
  <2>5. CASE t # "control"
    <3>1. Tail(c) \in Seq(Step) BY <1>2, TailIs
    <3>2. CASE t = "main"
      <4>1. AllIn(c, MainSteps) /\ AllIn(Tail(c), MainSteps)
        BY <1>2, <3>2, AllInTail DEF Plan
      <4>2. AllIn(p, MainSteps) BY <1>2, <2>1, <3>2, CallsIn
      <4>3. Plan(t, p \o Tail(c)) BY <2>3, <3>1, <3>2, <4>1, <4>2, AllInConcat DEF Plan
      <4>4. AllIn(p, Step \ {"start"})
        <5>1. CASE s = "stop" BY <1>2, <3>2, <5>1 DEF MainSteps, Publication
        <5>2. CASE \E n \in Step : <<s, n>> \in Leads /\ p = <<n>>
          <6>1. PICK n \in Step : <<s, n>> \in Leads /\ p = <<n>> BY <5>2
          <6>2. n # "start" BY <6>1 DEF Leads
          <6> QED BY <6>1, <6>2, Short
        <5> QED BY <2>1, <5>1, <5>2 DEF Continues
      <4>5. Starts(p \o Tail(c)) => Starts(c)
        <5>1. ASSUME ~Starts(c) PROVE AllIn(c, Step \ {"start"})
          BY <1>2, <5>1, ElementOfSeq DEF Starts, AllIn
        <5>2. ASSUME ~Starts(c) PROVE AllIn(p \o Tail(c), Step \ {"start"})
          BY <1>2, <2>3, <3>1, <4>4, <5>1, <5>2, AllInTail, AllInConcat
        <5> QED BY <5>2 DEF AllIn, Starts
      <4> QED BY <1>3, <2>2, <4>3, <4>5
    <3>3. CASE t # "main"
      <4>1. AllIn(c, OtherSteps) /\ AllIn(Tail(c), OtherSteps)
        BY <1>2, <2>5, <3>3, AllInTail DEF Plan
      <4>2. AllIn(p, OtherSteps) BY <1>2, <2>1, <2>5, <3>3, CallsIn
      <4>3. Plan(t, p \o Tail(c))
        BY <2>3, <2>5, <3>1, <3>3, <4>1, <4>2, AllInConcat DEF Plan
      <4> QED BY <1>3, <2>2, <3>3, <4>3
    <3> QED BY <3>2, <3>3
  <2> QED BY <2>4, <2>5
<1>6. CASE s = "resume" /\ Desired = "running" /\ Call(t, <<"start">> \o WriteStatus)
  <2> DEFINE p == <<"start">> \o WriteStatus
  <2>1. p \in Seq(Step) /\ AllIn(p, MainSteps) BY ContinuationType, RoutinePlan
  <2>2. todo' = [todo EXCEPT ![t] = p \o Tail(c)] BY <1>6 DEF Call
  <2>3. t = "main" BY <1>2, <1>6 DEF OtherSteps, Publication
  <2> HIDE DEF c, p
  <2>4. Tail(c) \in Seq(Step) /\ AllIn(Tail(c), MainSteps)
    BY <1>2, <2>3, AllInTail, TailIs DEF Plan
  <2>5. Plan(t, p \o Tail(c)) BY <2>1, <2>3, <2>4, AllInConcat DEF Plan
  <2> QED BY <1>2, <1>3, <1>6, <2>2, <2>3, <2>5
<1> QED BY <1>1, <1>4, <1>5, <1>6 DEF Takes

\* Every step keeps PlansOK.
LEMMA PlansInductive ==
  ASSUME TypeOK, PlansOK, [Next]_vars
  PROVE  PlansOK'
<1>1. CASE UNCHANGED vars BY <1>1 DEF vars, PlansOK
<1>2. CASE Boot
  <2>1. todo' = [todo EXCEPT !["main"] = WriteStatus \o <<"spawn", "resume">>]
    BY <1>2 DEF Boot, Begin
  <2>2. Plan("main", WriteStatus \o <<"spawn", "resume">>) BY RoutinePlan DEF Plan
  <2> QED BY <2>1, <2>2, NewPlan
<1>3. CASE Heartbeat
  <2>1. todo' = [todo EXCEPT !["heartbeat"] = WriteStatus] BY <1>3 DEF Heartbeat, Begin
  <2>2. Plan("heartbeat", WriteStatus) BY RoutinePlan DEF Plan
  <2> QED BY <2>1, <2>2, NewPlan
<1>4. CASE ReadControl
  <2>1. todo' = [todo EXCEPT !["control"] = Program(Head(control))]
    BY <1>4 DEF ReadControl, Begin
  <2>2. Head(control) \in Verb BY <1>4, HeadTailProperties DEF ReadControl, TypeOK
  <2>3. Plan("control", Program(Head(control))) BY <2>2, ProgramPlan DEF Plan
  <2> QED BY <2>1, <2>3, NewPlan
<1>5. CASE Signal
  <2>1. todo' = [todo EXCEPT !["signal"] = <<"stop">> \o WriteStatus \o <<"exit">>]
    BY <1>5 DEF Signal, Begin
  <2>2. Plan("signal", <<"stop">> \o WriteStatus \o <<"exit">>) BY RoutinePlan DEF Plan
  <2> QED BY <2>1, <2>2, NewPlan
<1>6. ASSUME NEW how, Down(how) PROVE PlansOK'
  <2>1. \A t \in Thread : todo'[t] = <<>> BY <1>6 DEF Down
  <2> QED BY <2>1, NothingPlanned DEF PlansOK
<1>7. ASSUME NEW t \in Thread, Moves(t) PROVE PlansOK'
  <2>1. CASE Exit(t) BY <1>6, <2>1 DEF Exit
  <2>2. CASE ~Exit(t) BY <1>7, <2>2, MoveKeepsPlan
  <2> QED BY <2>1, <2>2
<1>8. ASSUME NEW j \in Jvm, Waiter(j) PROVE PlansOK'
  <2>1. CASE WaitReturns(j) \/ ClearCmd(j)
    BY <2>1 DEF WaitReturns, ClearCmd, PlansOK
  <2>2. CASE CloseDone(j)
    <3>1. todo' = [todo EXCEPT ![j] = WriteStatus] BY <2>2 DEF CloseDone, Begin
    <3>2. Plan(j, WriteStatus) BY RoutinePlan DEF Plan
    <3> QED BY <3>1, <3>2, NewPlan
  <2> QED BY <1>8, <2>1, <2>2 DEF Waiter
<1>9. ASSUME NEW j \in Jvm, JvmQuits(j) \/ JvmDies(j) PROVE PlansOK'
  BY <1>9 DEF JvmQuits, JvmDies, PlansOK
<1>10. ASSUME NEW verb \in Verb, SendVerb(verb) PROVE PlansOK'
  BY <1>10 DEF SendVerb, PlansOK
<1> QED
  BY <1>1, <1>2, <1>3, <1>4, <1>5, <1>6, <1>7, <1>8, <1>9, <1>10 DEF Next, Moves, Crash

\* A goroutine that takes a step and does not exit leaves the container on.
LEMMA MoveStaysOn ==
  ASSUME NEW t \in Thread, Moves(t), ~Exit(t)
  PROVE  mode \in {"boot", "up"} /\ mode' \in {"boot", "up"}
<1>1. CASE \/ Look(t) \/ OpenTmp(t) \/ WriteTmp(t) \/ RenameTmp(t) \/ PublishFails(t)
           \/ BlankDesired(t) \/ WriteDesired(t) \/ DesiredFails(t)
  BY <1>1 DEF At, Look, OpenTmp, WriteTmp, RenameTmp, PublishFails, BlankDesired,
       WriteDesired, DesiredFails
<1>2. CASE \/ AlreadyStarted(t) \/ StartFails(t) \/ (\E j \in Jvm : Start(t, j))
           \/ Stop(t) \/ Ask(t) \/ PipeIsFull(t) \/ PipeIsRead(t) \/ PipeBreaks(t)
  BY <1>2 DEF At, AlreadyStarted, StartFails, Start, Stop, Ask, PipeIsFull, PipeIsRead,
       PipeBreaks
<1>3. CASE \/ Stopped(t) \/ StopTimesOut(t) \/ Grab(t) \/ Kill(t) \/ Spawn(t) \/ Resume(t)
  BY <1>3 DEF At, Stopped, StopTimesOut, Grab, Kill, Spawn, Resume
<1> QED BY <1>1, <1>2, <1>3 DEF Moves, RunStep

\* A container that is down has nothing planned, and only Boot changes that.
LEMMA DownInductive ==
  ASSUME TypeOK, DownIsBlank, [Next]_vars
  PROVE  DownIsBlank'
<1> USE DEF DownIsBlank
<1>1. CASE UNCHANGED vars BY <1>1 DEF vars
<1>2. CASE Boot \/ Heartbeat \/ ReadControl \/ Signal
  BY <1>2 DEF Boot, Heartbeat, ReadControl, Signal, Idle
<1>3. ASSUME NEW how, Down(how) PROVE DownIsBlank'
  BY <1>3 DEF Down
<1>4. ASSUME NEW t \in Thread, Moves(t) PROVE DownIsBlank'
  <2>1. mode' \in {"boot", "up"} \/ Exit(t) BY <1>4, MoveStaysOn
  <2> QED BY <1>3, <2>1 DEF Exit
<1>5. ASSUME NEW j \in Jvm, Waiter(j) PROVE DownIsBlank'
  BY <1>5 DEF Waiter, WaitReturns, ClearCmd, CloseDone
<1>6. ASSUME NEW j \in Jvm, JvmQuits(j) \/ JvmDies(j) PROVE DownIsBlank'
  BY <1>6 DEF JvmQuits, JvmDies
<1>7. ASSUME NEW verb \in Verb, SendVerb(verb) PROVE DownIsBlank'
  BY <1>7 DEF SendVerb
<1> QED BY <1>1, <1>2, <1>3, <1>4, <1>5, <1>6, <1>7 DEF Next, Moves, Crash
-----------------------------------------------------------------------------
\* Whoever acts on neither main's nor the control reader's plans, launches
\* nothing and leaves the desired file alone keeps the order.
LEMMA OthersKeepOrder ==
  ASSUME TypeOK, Orderly,
         todo'["main"] = todo["main"], todo'["control"] = todo["control"],
         desired' = desired, told' = told, stray' = stray, cmd' \in {cmd, None},
         held'["control"] = held["control"],
         \A j \in Jvm : jvm'[j] = "up" => jvm[j] = "up"
  PROVE  Orderly'
<1>1. Desired' = Desired BY DEF Desired
<1> QED BY <1>1 DEF Orderly

\* So does main: what it launches before a verb is read it launches while
\* "running" is desired, and what it launches later is the stray.
LEMMA MainKeepsOrder ==
  ASSUME TypeOK, PlansOK, CmdTracksJvm, Orderly, Moves("main"), ~Exit("main")
  PROVE  Orderly'
<1>1. todo'["control"] = todo["control"]
  <2>1. PICK d : todo' = [todo EXCEPT !["main"] = d] BY MoveKeepsPlan
  <2> QED BY <2>1 DEF TypeOK
<1>2. Starts(todo'["main"]) =>
        (Starts(todo["main"]) \/ (At("main", "resume") /\ Desired = "running"))
  BY MoveKeepsPlan
<1>3. ASSUME UNCHANGED <<desired, told, stray, cmd, held, jvm>>, ~At("main", "start")
      PROVE  Orderly'
  <2>1. Desired' = Desired BY <1>3 DEF Desired
  <2>2. told = "" /\ Starts(todo'["main"]) => Desired = "running"
    BY <1>2 DEF Orderly
  <2> QED BY <1>1, <1>3, <2>1, <2>2 DEF Orderly
<1>4. ASSUME At("main", "start") PROVE ~At("main", "resume") /\ Starts(todo["main"])
  <2>1. ~At("main", "resume") BY <1>4 DEF At
  <2> DEFINE m == todo["main"]
  <2>2. m \in Seq(Step) /\ m # <<>> /\ m[1] = "start" BY <1>4, WhoseStep
  <2> HIDE DEF m
  <2>3. Starts(m) BY <2>2 DEF Starts
  <2> QED BY <2>1, <2>3 DEF m
<1>5. CASE AlreadyStarted("main") \/ StartFails("main")
  <2>1. /\ UNCHANGED <<desired, told, stray, cmd, held, jvm>> /\ At("main", "start")
    BY <1>5 DEF AlreadyStarted, StartFails, history
  <2>2. Desired' = Desired BY <2>1 DEF Desired
  <2> QED BY <1>1, <1>2, <2>1, <2>2, <1>4 DEF Orderly
<1>6. ASSUME NEW j \in Jvm, Start("main", j) PROVE Orderly'
  <2>1. /\ At("main", "start") /\ cmd = None /\ cmd' = j
        /\ jvm' = [jvm EXCEPT ![j] = "up"]
        /\ stray' = IF told # "" THEN {j} ELSE stray \ {j}
        /\ UNCHANGED <<desired, told, held>>
    BY <1>6 DEF Start
  <2>2. Desired' = Desired BY <2>1 DEF Desired
  <2>3. \A i \in Jvm : jvm'[i] = "up" => i = j BY <2>1 DEF CmdTracksJvm, TypeOK
  <2>4. CASE told = ""
    <3>1. todo["control"] = <<>> /\ Desired = "running" BY <1>4, <2>1, <2>4 DEF Orderly
    <3> QED BY <1>1, <2>1, <2>2, <2>4, <3>1, NothingPlanned DEF Orderly
  <2>5. CASE told # ""
    <3>1. j \in stray' BY <2>1, <2>5
    <3> QED BY <1>1, <2>1, <2>3, <2>5, <3>1 DEF Orderly
  <2> QED BY <2>4, <2>5
<1>7. CASE \/ Look("main") \/ OpenTmp("main") \/ WriteTmp("main") \/ RenameTmp("main")
           \/ PublishFails("main") \/ Spawn("main") \/ Resume("main")
  <2>1. UNCHANGED <<desired, told, stray, cmd, held, jvm>> /\ ~At("main", "start")
    BY <1>7 DEF At, Look, OpenTmp, WriteTmp, RenameTmp, PublishFails, Spawn, Resume, history
  <2> QED BY <1>3, <2>1
<1>8. ASSUME NEW s, At("main", s) PROVE s \in MainSteps BY <1>8, WhoseStep
<1>9. /\ \A d \in {"wantRunning", "wantStopped", "running", "stopped"} : ~At("main", d)
      /\ \A d \in {"stop", "ask", "blocked", "await", "reap", "grab", "kill"} : ~At("main", d)
  BY <1>8 DEF MainSteps, Publication
<1>10. /\ ~(BlankDesired("main") \/ WriteDesired("main") \/ DesiredFails("main"))
       /\ ~(Stop("main") \/ Ask("main") \/ PipeIsFull("main") \/ PipeIsRead("main"))
       /\ ~(PipeBreaks("main") \/ Stopped("main") \/ StopTimesOut("main"))
       /\ ~(Grab("main") \/ Kill("main"))
  BY <1>9 DEF BlankDesired, WriteDesired, DesiredFails, Stop, Ask, PipeIsFull, PipeIsRead,
       PipeBreaks, Stopped, StopTimesOut, Grab, Kill
<1> QED BY <1>5, <1>6, <1>7, <1>10 DEF Moves, RunStep

\* A goroutine other than those two never launches, writes the desired file
\* or touches what the control reader holds.
LEMMA OtherKeepsOrder ==
  ASSUME TypeOK, PlansOK, Orderly, NEW t \in Thread, t \notin {"main", "control"},
         Moves(t), ~Exit(t)
  PROVE  Orderly'
<1>1. todo'["main"] = todo["main"] /\ todo'["control"] = todo["control"]
  <2>1. PICK d : todo' = [todo EXCEPT ![t] = d] BY MoveKeepsPlan
  <2> QED BY <2>1 DEF TypeOK
<1>2. CASE Look(t) \/ OpenTmp(t) \/ WriteTmp(t) \/ RenameTmp(t) \/ PublishFails(t)
  BY <1>1, <1>2, OthersKeepOrder
  DEF Look, OpenTmp, WriteTmp, RenameTmp, PublishFails, history
<1>3. CASE \/ Stop(t) \/ Ask(t) \/ Stopped(t)
           \/ PipeIsFull(t) \/ PipeIsRead(t) \/ PipeBreaks(t)
  <2>1. held'["control"] = held["control"]
    BY <1>3 DEF Stop, Ask, Stopped, PipeIsFull, PipeIsRead, PipeBreaks, TypeOK
  <2>2. UNCHANGED <<desired, told, stray, cmd, jvm>>
    BY <1>3 DEF Stop, Ask, Stopped, PipeIsFull, PipeIsRead, PipeBreaks, history
  <2> QED BY <1>1, <2>1, <2>2, OthersKeepOrder
<1>4. CASE StopTimesOut(t)
  <2>1. \A j \in Jvm : jvm'[j] = "up" => jvm[j] = "up"
    BY <1>4 DEF StopTimesOut, Killed, TypeOK
  <2> QED BY <1>1, <1>4, <2>1, OthersKeepOrder DEF StopTimesOut, history
<1>5. ASSUME NEW s, At(t, s) PROVE s \in OtherSteps BY <1>5, WhoseStep
<1>6. \A d \in {"wantRunning", "wantStopped", "running", "stopped", "start",
                "grab", "kill", "spawn", "resume"} : ~At(t, d)
  BY <1>5 DEF OtherSteps, Publication
<1>7. /\ ~(BlankDesired(t) \/ WriteDesired(t) \/ DesiredFails(t))
      /\ ~(AlreadyStarted(t) \/ StartFails(t) \/ \E j \in Jvm : Start(t, j))
      /\ ~(Grab(t) \/ Kill(t) \/ Spawn(t) \/ Resume(t))
  BY <1>6 DEF BlankDesired, WriteDesired, DesiredFails, AlreadyStarted, StartFails, Start,
       Grab, Kill, Spawn, Resume
<1> QED BY <1>2, <1>3, <1>4, <1>7 DEF Moves, RunStep

\* When s.cmd is nil no process is up.
LEMMA NoneUp ==
  ASSUME TypeOK, CmdTracksJvm, cmd = None
  PROVE  \A j \in Jvm : jvm[j] \notin {"up", "dying"}
BY DEF CmdTracksJvm

\* The process a finished stop of the control reader waited for was the only
\* one there could be, unless main has launched its own.
LEMMA StopFindsNone ==
  ASSUME TypeOK, PlansOK, CmdTracksJvm, Orderly, Stopped("control")
  PROVE  /\ cmd \in {None} \cup stray
         /\ \A j \in Jvm : jvm[j] \in {"up", "dying"} => j \in stray
<1>1. PICK s \in {"await", "reap"} : At("control", s) BY DEF Stopped
<1>2. Holding(todo["control"]) BY <1>1, WhoseStep DEF Holding
<1>3. jvm[held["control"]] = "none" BY DEF Stopped
<1>4. cmd \in {None, held["control"]} \cup stray BY <1>2 DEF Orderly
<1>5. cmd \in Jvm => jvm[cmd] # "none" BY DEF CmdTracksJvm
<1>6. cmd \in {None} \cup stray BY <1>3, <1>4, <1>5 DEF TypeOK
<1>7. \A j \in Jvm : jvm[j] \in {"up", "dying"} => j = cmd BY DEF CmdTracksJvm
<1> QED BY <1>6, <1>7, JvmAssumption

\* What the control reader's next plan must satisfy.
LEMMA ControlOrder ==
  ASSUME TypeOK, Orderly, todo["control"] # <<>>, NEW d,
         todo' = [todo EXCEPT !["control"] = d], told' = told,
         Starts(d) => Starts(todo["control"]),
         Holding(d) => cmd' \in {None, held'["control"]} \cup stray',
         told = "stopped" => (Busy(d) \/ \A j \in Jvm : jvm'[j] = "up" => j \in stray')
  PROVE  Orderly'
<1>1. told # "" BY DEF Orderly
<1>2. todo'["control"] = d BY DEF TypeOK
<1> QED BY <1>1, <1>2 DEF Orderly

\* The control reader keeps the order.
LEMMA ControlKeepsOrder ==
  ASSUME TypeOK, PlansOK, CmdTracksJvm, Orderly, Moves("control"), ~Exit("control")
  PROVE  Orderly'
<1> DEFINE c == todo["control"]
<1>1. /\ c \in Seq(Step) /\ c # <<>> /\ ControlPlan(c)
      /\ Starts(c) => told = "running"
      /\ Holding(c) => cmd \in {None, held["control"]} \cup stray
      /\ told = "stopped" => (Busy(c) \/ \A j \in Jvm : jvm[j] = "up" => j \in stray)
  <2>1. PICK s : Takes("control", s) BY MoveIs
  <2>2. At("control", s) BY <2>1 DEF Takes
  <2>3. c \in Seq(Step) /\ c # <<>> /\ ControlPlan(c) BY <2>2, WhoseStep DEF Plan
  <2> QED BY <2>3 DEF Orderly
<1>2. ASSUME NEW s, At("control", s) PROVE c[1] = s BY <1>2, WhoseStep
<1>3. ASSUME Return("control") PROVE todo' = [todo EXCEPT !["control"] = Tail(c)]
  BY <1>3 DEF Return
<1>4. ASSUME NEW p, Call("control", p) PROVE todo' = [todo EXCEPT !["control"] = p \o Tail(c)]
  BY <1>4 DEF Call
<1> HIDE DEF c
<1>5. \A j \in Jvm : jvm[j] \in {"up", "dying"} => j = cmd BY DEF CmdTracksJvm
<1>6. ASSUME NEW s, At("control", s), s \notin BusyStep \ {"ask", "blocked"},
             Return("control"), UNCHANGED <<told, stray, cmd, held, jvm>>
      PROVE  Orderly'
  <2> DEFINE d == Tail(c)
  <2>1. /\ Starts(d) => Starts(c)
        /\ Busy(c) => (Busy(d) \/ c[1] \in BusyStep)
        /\ c[1] \in {"ask", "blocked"} => Busy(d)
        /\ Holding(d) => c[1] \in {"ask", "blocked"}
    BY <1>1, PlanAfterReturn
  <2>2. c[1] = s /\ todo' = [todo EXCEPT !["control"] = d] BY <1>2, <1>3, <1>6
  <2> HIDE DEF d
  <2>3. Busy(c) => Busy(d) BY <1>6, <2>1, <2>2
  <2>4. Holding(d) => Holding(c) BY <1>1, <2>1 DEF Holding
  <2>5. Starts(d) => Starts(todo["control"]) BY <2>1 DEF c
  <2>6. Holding(d) => cmd' \in {None, held'["control"]} \cup stray' BY <1>1, <1>6, <2>4
  <2>7. told = "stopped" => (Busy(d) \/ \A j \in Jvm : jvm'[j] = "up" => j \in stray')
    BY <1>1, <1>6, <2>3
  <2>8. todo["control"] # <<>> BY <1>1 DEF c
  <2> QED BY <1>6, <2>2, <2>5, <2>6, <2>7, <2>8, ControlOrder
<1>7. ASSUME NEW s, NEW p, At("control", s), Continues(s, p), Call("control", p),
             UNCHANGED <<told, stray, cmd>>,
             s \in {"stop", "grab"} => held'["control"] = cmd,
             s \notin {"stop", "grab"} => held' = held,
             \A j \in Jvm : jvm'[j] = "up" => jvm[j] = "up"
      PROVE  Orderly'
  <2> DEFINE d == p \o Tail(c)
  <2>1. c[1] = s /\ todo' = [todo EXCEPT !["control"] = d] BY <1>2, <1>4, <1>7
  <2>2. /\ Starts(d) => Starts(c)
        /\ Busy(c) => Busy(d)
        /\ Holding(d) => (c[1] \in {"stop", "grab"} \/ Holding(c))
    <3>1. Continues(c[1], p) BY <1>7, <2>1
    <3> QED BY <1>1, <3>1, PlanAfterCall
  <2> HIDE DEF d
  <2>3. Starts(d) => Starts(todo["control"]) BY <2>2 DEF c
  <2>4. Holding(d) => cmd' \in {None, held'["control"]} \cup stray' BY <1>1, <1>7, <2>1, <2>2
  <2>5. told = "stopped" => (Busy(d) \/ \A j \in Jvm : jvm'[j] = "up" => j \in stray')
    BY <1>1, <1>7, <2>2
  <2>6. todo["control"] # <<>> BY <1>1 DEF c
  <2> QED BY <1>7, <2>1, <2>3, <2>4, <2>5, <2>6, ControlOrder
<1>8. ASSUME NEW s, At("control", s), s \notin {"ask", "blocked"}, Return("control"),
             told' = told,
             told = "stopped" => \A j \in Jvm : jvm'[j] = "up" => j \in stray'
      PROVE  Orderly'
  <2> DEFINE d == Tail(c)
  <2>1. (Starts(d) => Starts(c)) /\ (Holding(d) => c[1] \in {"ask", "blocked"})
    BY <1>1, PlanAfterReturn
  <2>2. c[1] = s /\ todo' = [todo EXCEPT !["control"] = d] BY <1>2, <1>3, <1>8
  <2> HIDE DEF d
  <2>3. ~Holding(d) BY <1>8, <2>1, <2>2
  <2>4. Starts(d) => Starts(todo["control"]) BY <2>1 DEF c
  <2>5. todo["control"] # <<>> BY <1>1 DEF c
  <2> QED BY <1>8, <2>2, <2>3, <2>4, <2>5, ControlOrder
<1>9. CASE \/ Look("control") \/ RenameTmp("control") \/ PublishFails("control")
           \/ WriteDesired("control") \/ DesiredFails("control")
           \/ AlreadyStarted("control") \/ StartFails("control")
           \/ Ask("control") \/ PipeIsRead("control") \/ PipeBreaks("control")
  <2>1. UNCHANGED <<told, stray, cmd, held, jvm>>
    BY <1>9 DEF Look, RenameTmp, PublishFails, WriteDesired, DesiredFails, AlreadyStarted,
         StartFails, Ask, PipeIsRead, PipeBreaks, history
  <2>2. \E s : At("control", s) /\ s \notin BusyStep \ {"ask", "blocked"} /\ Return("control")
    BY <1>9 DEF Look, RenameTmp, PublishFails, WriteDesired, DesiredFails, AlreadyStarted,
         StartFails, Ask, PipeIsRead, PipeBreaks, BusyStep
  <2> QED BY <1>6, <2>1, <2>2
<1>10. CASE \/ OpenTmp("control") \/ WriteTmp("control") \/ BlankDesired("control")
            \/ PipeIsFull("control") \/ StopTimesOut("control")
  <2>1. UNCHANGED <<told, stray, cmd, held>>
    BY <1>10 DEF OpenTmp, WriteTmp, BlankDesired, PipeIsFull, StopTimesOut, history
  <2>2. \A j \in Jvm : jvm'[j] = "up" => jvm[j] = "up"
    BY <1>10 DEF OpenTmp, WriteTmp, BlankDesired, PipeIsFull, StopTimesOut, Killed, TypeOK
  <2>3. ASSUME NEW s, NEW n, At("control", s), Call("control", <<n>>), <<s, n>> \in Leads,
               s \notin {"stop", "grab"}
        PROVE  Orderly'
    <3>1. Continues(s, <<n>>) BY <2>3, LeadsContinue
    <3> QED BY <1>7, <2>1, <2>2, <2>3, <3>1
  <2>4. {<<"open", "write">>, <<"write", "rename">>, <<"wantRunning", "running">>,
         <<"wantStopped", "stopped">>, <<"ask", "blocked">>, <<"await", "reap">>} \subseteq Leads
    BY DEF Leads
  <2>5. CASE OpenTmp("control") BY <2>3, <2>4, <2>5 DEF OpenTmp
  <2>6. CASE WriteTmp("control") BY <2>3, <2>4, <2>6 DEF WriteTmp
  <2>7. CASE BlankDesired("control") BY <2>3, <2>4, <2>7 DEF BlankDesired
  <2>8. CASE PipeIsFull("control") BY <2>3, <2>4, <2>8 DEF PipeIsFull
  <2>9. CASE StopTimesOut("control") BY <2>3, <2>4, <2>9 DEF StopTimesOut
  <2> QED BY <1>10, <2>5, <2>6, <2>7, <2>8, <2>9
<1>11. CASE (Stop("control") \/ Grab("control")) /\ cmd = None
  <2>1. UNCHANGED <<told, stray, cmd, jvm>> BY <1>11 DEF Stop, Grab, history
  <2>2. PICK s : At("control", s) /\ s \notin {"ask", "blocked"} /\ Return("control")
    BY <1>11 DEF Stop, Grab
  <2>3. \A j \in Jvm : jvm'[j] # "up" BY <1>11, <2>1, NoneUp
  <2> QED BY <1>8, <2>1, <2>2, <2>3
<1>12. CASE Stop("control") /\ cmd # None
  <2>1. /\ UNCHANGED <<told, stray, cmd, jvm>> /\ held' = [held EXCEPT !["control"] = cmd]
        /\ At("control", "stop") /\ Call("control", <<"ask", "await">>)
    BY <1>12 DEF Stop, history
  <2>2. Continues("stop", <<"ask", "await">>) BY DEF Continues
  <2>3. held'["control"] = cmd BY <2>1 DEF TypeOK
  <2> QED BY <1>7, <2>1, <2>2, <2>3
<1>13. CASE Grab("control") /\ cmd # None
  <2>1. /\ UNCHANGED <<told, stray, cmd, jvm>> /\ held' = [held EXCEPT !["control"] = cmd]
        /\ At("control", "grab") /\ Call("control", <<"kill">>)
    BY <1>13 DEF Grab, history
  <2>2. Continues("grab", <<"kill">>)
    <3>1. <<"grab", "kill">> \in Leads BY DEF Leads
    <3> QED BY <3>1, LeadsContinue
  <2>3. held'["control"] = cmd BY <2>1 DEF TypeOK
  <2> QED BY <1>7, <2>1, <2>2, <2>3
<1>14. CASE Stopped("control")
  <2>1. PICK s : At("control", s) /\ s \notin {"ask", "blocked"} /\ Return("control")
    BY <1>14 DEF Stopped
  <2>2. UNCHANGED <<told, stray, jvm>> BY <1>14 DEF Stopped, history
  <2>3. \A j \in Jvm : jvm[j] = "up" => j \in stray BY <1>14, StopFindsNone
  <2> QED BY <1>8, <2>1, <2>2, <2>3
<1>15. CASE Kill("control")
  <2>1. /\ At("control", "kill") /\ Return("control") /\ jvm' = Killed(held["control"])
        /\ UNCHANGED <<told, stray, cmd>>
    BY <1>15 DEF Kill, history
  <2>2. Holding(c) BY <1>1, <1>2, <2>1 DEF Holding
  <2>3. cmd \in {None, held["control"]} \cup stray BY <1>1, <2>2
  <2>4. \A j \in Jvm : jvm'[j] = "up" => (jvm[j] = "up" /\ j # held["control"])
    BY <2>1 DEF Killed, TypeOK
  <2>5. \A j \in Jvm : jvm'[j] = "up" => j \in stray'
    BY <1>5, <2>1, <2>3, <2>4, JvmAssumption
  <2> QED BY <1>8, <2>1, <2>5
<1>16. ASSUME NEW j \in Jvm, Start("control", j) PROVE Orderly'
  <2>1. At("control", "start") /\ Return("control") /\ told' = told BY <1>16 DEF Start
  <2>2. c[1] = "start" BY <1>2, <2>1
  <2>3. Starts(c) BY <1>1, <2>2 DEF Starts
  <2>4. told # "stopped" BY <1>1, <2>3
  <2> QED BY <1>8, <2>1, <2>4
<1>17. ~At("control", "spawn") /\ ~At("control", "resume")
  BY WhoseStep
<1>18. ~Spawn("control") /\ ~Resume("control") BY <1>17 DEF Spawn, Resume
<1> QED
  BY <1>9, <1>10, <1>11, <1>12, <1>13, <1>14, <1>15, <1>16, <1>18 DEF Moves, RunStep

\* OrderInv is inductive relative to TypeOK and CmdTracksJvm.
LEMMA OrderInductive ==
  ASSUME TypeOK, CmdTracksJvm, OrderInv, [Next]_vars
  PROVE  OrderInv'
<1> USE DEF OrderInv
<1>1. PlansOK' BY PlansInductive
<1>2. DownIsBlank' BY DownInductive
<1>3. SUFFICES Orderly'
  BY <1>1, <1>2
<1>4. CASE UNCHANGED vars BY <1>4, OthersKeepOrder DEF vars, history
<1>5. CASE Boot
  <2>1. /\ UNCHANGED <<cmd, held, jvm, desired, told, stray>>
        /\ todo'["main"] = WriteStatus \o <<"spawn", "resume">>
        /\ todo'["control"] = todo["control"]
    BY <1>5 DEF Boot, Begin, TypeOK, history
  <2>2. ~Starts(todo'["main"]) BY <2>1, RoutinePlan
  <2>3. Desired' = Desired BY <2>1 DEF Desired
  <2> QED BY <2>1, <2>2, <2>3 DEF Orderly
<1>6. CASE Heartbeat \/ Signal
  <2>1. todo'["main"] = todo["main"] /\ todo'["control"] = todo["control"]
    BY <1>6 DEF Heartbeat, Signal, Begin, TypeOK
  <2> QED BY <1>6, <2>1, OthersKeepOrder DEF Heartbeat, Signal, history
<1>7. CASE ReadControl
  <2> DEFINE verb == Head(control)
  <2>1. verb \in Verb BY <1>7, HeadTailProperties DEF ReadControl, TypeOK
  <2>2. told' = Asks(verb) /\ todo'["control"] = Program(verb)
    BY <1>7 DEF ReadControl, Begin, TypeOK
  <2> HIDE DEF verb
  <2>3. Asks(verb) \in {"running", "stopped"} BY DEF Asks
  <2>4. /\ ~Holding(todo'["control"])
        /\ Starts(todo'["control"]) => told' = "running"
        /\ told' = "stopped" => Busy(todo'["control"])
    BY <2>1, <2>2, ProgramPlan
  <2> QED BY <2>2, <2>3, <2>4 DEF Orderly
<1>8. ASSUME NEW how, Down(how) PROVE Orderly'
  <2>1. /\ todo'["main"] = <<>> /\ todo'["control"] = <<>> /\ told' = ""
        /\ \A j \in Jvm : jvm'[j] # "up"
    BY <1>8 DEF Down
  <2> QED BY <2>1, NothingPlanned DEF Orderly
<1>9. ASSUME NEW t \in Thread, Moves(t) PROVE Orderly'
  <2>1. CASE Exit(t) BY <1>8, <2>1 DEF Exit
  <2>2. CASE ~Exit(t)
    <3>1. CASE t = "main" BY <1>9, <2>2, <3>1, MainKeepsOrder
    <3>2. CASE t = "control" BY <1>9, <2>2, <3>2, ControlKeepsOrder
    <3>3. CASE t \notin {"main", "control"} BY <1>9, <2>2, <3>3, OtherKeepsOrder
    <3> QED BY <3>1, <3>2, <3>3
  <2> QED BY <2>1, <2>2
<1>10. ASSUME NEW j \in Jvm, Waiter(j) PROVE Orderly'
  <2>1. todo'["main"] = todo["main"] /\ todo'["control"] = todo["control"]
    BY <1>10 DEF Waiter, WaitReturns, ClearCmd, CloseDone, Begin, TypeOK
  <2>2. \A i \in Jvm : jvm'[i] = "up" => jvm[i] = "up"
    BY <1>10 DEF Waiter, WaitReturns, ClearCmd, CloseDone, TypeOK
  <2> QED
    BY <1>10, <2>1, <2>2, OthersKeepOrder
    DEF Waiter, WaitReturns, ClearCmd, CloseDone, history
<1>11. ASSUME NEW j \in Jvm, JvmQuits(j) \/ JvmDies(j) PROVE Orderly'
  <2>1. \A i \in Jvm : jvm'[i] = "up" => jvm[i] = "up"
    BY <1>11 DEF JvmQuits, JvmDies, TypeOK
  <2> QED BY <1>11, <2>1, OthersKeepOrder DEF JvmQuits, JvmDies, history
<1>12. ASSUME NEW verb \in Verb, SendVerb(verb) PROVE Orderly'
  BY <1>12, OthersKeepOrder DEF SendVerb, history
<1> QED
  BY <1>4, <1>5, <1>6, <1>7, <1>8, <1>9, <1>10, <1>11, <1>12 DEF Next, Moves, Crash

LEMMA OrderHolds == Spec => []OrderInv
<1>1. Init => OrderInv
  <2> SUFFICES ASSUME Init PROVE OrderInv OBVIOUS
  <2>1. \A t \in Thread : todo[t] = <<>> BY DEF Init
  <2>2. control = <<>> /\ cmd = None /\ told = "" /\ \A j \in Jvm : jvm[j] # "up"
    BY DEF Init
  <2>3. PlansOK BY <2>1, NothingPlanned DEF PlansOK
  <2>4. DownIsBlank BY <2>1, <2>2 DEF DownIsBlank
  <2>5. todo["main"] = <<>> /\ todo["control"] = <<>> BY <2>1
  <2>6. Orderly BY <2>2, <2>5, NothingPlanned DEF Orderly
  <2> QED BY <2>3, <2>4, <2>6 DEF OrderInv
<1>2. TypeOK /\ CmdTracksJvm /\ OrderInv /\ [Next]_vars => OrderInv'
  BY OrderInductive
<1> QED BY <1>1, <1>2, TypeCorrect, CmdTracks, PTL DEF Spec

\* No JVM runs on once a STOP or a KILL has been carried out, nor after a boot
\* that found "stopped", whether or not the desired file could be written and
\* whatever signals, crashes and time-outs come in between: but for one that
\* main, which had read "running" before the verb, launched after it.
THEOREM StoppedIsDown == Spec => []StoppedMeansDown
<1>1. ASSUME OrderInv PROVE StoppedMeansDown
  <2> SUFFICES ASSUME Idle("control"), Supposed = "stopped"
               PROVE  \A j \in Jvm : jvm[j] = "up" => j \in stray
    BY DEF StoppedMeansDown
  <2>1. todo["control"] = <<>> BY DEF Idle
  <2>2. CASE told = "" BY <1>1, <2>2 DEF OrderInv, Orderly, Supposed
  <2>3. CASE told = "stopped"
    BY <1>1, <2>1, <2>3, NothingPlanned DEF OrderInv, Orderly
  <2> QED BY <2>2, <2>3 DEF Supposed
<1> QED BY <1>1, OrderHolds, PTL

\* When the stop of a STOP or RESTART returns, the JVM slot is free, so that
\* the start of a RESTART does launch, unless main's own start came first.
THEOREM StopFreesSlot == Spec => StopLeavesNothing
<1>1. ASSUME TypeOK, CmdTracksJvm, OrderInv
      PROVE  Stopped("control") => cmd \in {None} \cup stray /\ Live \subseteq stray
  BY <1>1, StopFindsNone DEF OrderInv, Live
<1> QED
  BY <1>1, TypeCorrect, CmdTracks, OrderHolds, PTL DEF StopLeavesNothing
-----------------------------------------------------------------------------
(* What a boot leaves in status.json                                       *)

\* What the booted supervisor has to say before anything happened to it.
FirstStatus == [running |-> None, desired |-> Desired]

\* How far main is with it: nobody else runs yet, and each step leaves the
\* status where the next one finds it; a failure ends the publication.
Publishes ==
  \/ todo["main"] = <<"look", "open", "spawn", "resume">>
  \/ /\ todo["main"] = <<"open", "spawn", "resume">>
     /\ buf["main"] = FirstStatus
  \/ /\ todo["main"] = <<"write", "spawn", "resume">>
     /\ buf["main"] = FirstStatus
     /\ tmp = Empty /\ fd["main"] = "tmp"
  \/ /\ todo["main"] = <<"rename", "spawn", "resume">>
     /\ tmp = FirstStatus
  \/ /\ todo["main"] = <<"spawn", "resume">>
     /\ faults > 0 \/ status = FirstStatus

BootInv ==
  mode = "boot" =>
    /\ cmd = None
    /\ \A t \in Thread \ {"main"} : todo[t] = <<>>
    /\ Publishes

\* The programs that main goes through.
LEMMA BootPrograms ==
  /\ \A n \in Step : <<n>> \o <<"spawn", "resume">> = <<n, "spawn", "resume">>
  /\ Publishing =>
       WriteStatus \o <<"spawn", "resume">> = <<"look", "open", "spawn", "resume">>
<1> DEFINE b == <<"spawn", "resume">>
<1>1. b \in Seq(Step) /\ Len(b) = 2 /\ b[1] = "spawn" /\ b[2] = "resume"
  <2>1. "spawn" \in Step /\ "resume" \in Step BY DEF Step
  <2> QED BY <2>1
<1>2. ASSUME NEW n \in Step PROVE <<n>> \o b = <<n, "spawn", "resume">>
  <2> DEFINE a == <<n>>  d == a \o b  e == <<n, "spawn", "resume">>
  <2>1. /\ a \in Seq(Step) /\ Len(a) = 1 /\ a[1] = n
        /\ e \in Seq(Step) /\ Len(e) = 3
        /\ e[1] = n /\ e[2] = "spawn" /\ e[3] = "resume"
    BY DEF Step
  <2>2. d = a \o b OBVIOUS
  <2> HIDE DEF a, b, d, e
  <2>3. /\ d \in Seq(Step) /\ Len(d) = 3
        /\ d[1] = a[1] /\ d[2] = b[1] /\ d[3] = b[2]
    <3>1. /\ d \in Seq(Step) /\ Len(d) = Len(a) + Len(b)
          /\ \A i \in 1 .. Len(a) : d[i] = a[i]
          /\ \A i \in Len(a) + 1 .. Len(d) : d[i] = b[i - Len(a)]
      <4>1. a \in Seq(Step) /\ b \in Seq(Step) /\ d = a \o b BY <1>1, <2>1, <2>2
      <4> QED BY <4>1, ConcatIs
    <3> QED BY <1>1, <2>1, <3>1
  <2>4. \A i \in 1 .. 3 : i = 1 \/ i = 2 \/ i = 3 OBVIOUS
  <2>5. \A i \in 1 .. Len(d) : d[i] = e[i] BY <1>1, <2>1, <2>3, <2>4
  <2>6. d = e BY <2>1, <2>3, <2>5, SeqEqual
  <2> QED BY <2>6 DEF a, d, e, b
<1>3. ASSUME Publishing PROVE WriteStatus \o b = <<"look", "open", "spawn", "resume">>
  <2> DEFINE a == <<"look", "open">>  d == a \o b
             e == <<"look", "open", "spawn", "resume">>
  <2>1. /\ a \in Seq(Step) /\ Len(a) = 2 /\ a[1] = "look" /\ a[2] = "open"
        /\ e \in Seq(Step) /\ Len(e) = 4
        /\ e[1] = "look" /\ e[2] = "open" /\ e[3] = "spawn" /\ e[4] = "resume"
    BY DEF Step
  <2>2. d = a \o b /\ WriteStatus = a BY <1>3 DEF WriteStatus
  <2> HIDE DEF a, b, d, e
  <2>3. /\ d \in Seq(Step) /\ Len(d) = 4
        /\ d[1] = a[1] /\ d[2] = a[2] /\ d[3] = b[1] /\ d[4] = b[2]
    <3>1. /\ d \in Seq(Step) /\ Len(d) = Len(a) + Len(b)
          /\ \A i \in 1 .. Len(a) : d[i] = a[i]
          /\ \A i \in Len(a) + 1 .. Len(d) : d[i] = b[i - Len(a)]
      <4>1. a \in Seq(Step) /\ b \in Seq(Step) /\ d = a \o b BY <1>1, <2>1, <2>2
      <4> QED BY <4>1, ConcatIs
    <3> QED BY <1>1, <2>1, <3>1
  <2>4. \A i \in 1 .. 4 : i = 1 \/ i = 2 \/ i = 3 \/ i = 4 OBVIOUS
  <2>5. \A i \in 1 .. Len(d) : d[i] = e[i] BY <1>1, <2>1, <2>3, <2>4
  <2>6. d = e BY <2>1, <2>3, <2>5, SeqEqual
  <2> QED BY <2>2, <2>6 DEF e, d
<1> QED BY <1>2, <1>3

\* Where main is on its way.
LEMMA BootSteps ==
  ASSUME Publishes
  PROVE  /\ todo["main"] # <<>>
         /\ Head(todo["main"]) \in {"look", "open", "write", "rename", "spawn"}
         /\ Head(todo["main"]) = "look" =>
              Tail(todo["main"]) = <<"open", "spawn", "resume">>
         /\ Head(todo["main"]) \in {"open", "write", "rename"} =>
              Tail(todo["main"]) = <<"spawn", "resume">>
         /\ Head(todo["main"]) = "open" => buf["main"] = FirstStatus
         /\ Head(todo["main"]) = "write" =>
              buf["main"] = FirstStatus /\ tmp = Empty /\ fd["main"] = "tmp"
         /\ Head(todo["main"]) = "rename" => tmp = FirstStatus
         /\ Head(todo["main"]) = "spawn" => faults > 0 \/ status = FirstStatus
<1> DEFINE m == todo["main"]
<1>1. CASE m = <<"look", "open", "spawn", "resume">> BY <1>1
<1>2. CASE m = <<"open", "spawn", "resume">> /\ buf["main"] = FirstStatus BY <1>2
<1>3. CASE /\ m = <<"write", "spawn", "resume">>
           /\ buf["main"] = FirstStatus /\ tmp = Empty /\ fd["main"] = "tmp"
  BY <1>3
<1>4. CASE m = <<"rename", "spawn", "resume">> /\ tmp = FirstStatus BY <1>4
<1>5. CASE m = <<"spawn", "resume">> /\ (faults > 0 \/ status = FirstStatus) BY <1>5
<1> QED BY <1>1, <1>2, <1>3, <1>4, <1>5 DEF Publishes

\* main's step while it boots.
LEMMA BootStep ==
  ASSUME Publishing, TypeOK, BootInv, mode = "boot", mode' = "boot", Moves("main")
  PROVE  Publishes' /\ cmd' = cmd
<1> DEFINE m == todo["main"]
<1>1. cmd = None /\ Publishes BY DEF BootInv
<1>2. FirstStatus \in Status /\ FirstStatus # Absent
  BY StatusType, ContentsAssumption DEF FirstStatus
<1>3. "write" \in Step /\ "rename" \in Step BY DEF Step
<1>4. CASE Look("main")
  <2>1. Head(m) = "look" BY <1>4 DEF Look, At
  <2>2. todo'["main"] = <<"open", "spawn", "resume">>
    BY <1>1, <1>4, <2>1, BootSteps DEF Look, Return, TypeOK
  <2>3. FirstStatus' = FirstStatus /\ cmd' = cmd
    BY <1>4 DEF Look, FirstStatus, Desired
  <2>4. buf'["main"] = FirstStatus BY <1>1, <1>4 DEF Look, FirstStatus, TypeOK
  <2> QED BY <2>2, <2>3, <2>4 DEF Publishes
<1>5. CASE OpenTmp("main")
  <2>1. Head(m) = "open" BY <1>5 DEF OpenTmp, At
  <2>2. Tail(m) = <<"spawn", "resume">> /\ buf["main"] = FirstStatus
    BY <1>1, <2>1, BootSteps
  <2>3. todo'["main"] = <<"write", "spawn", "resume">>
    BY <1>3, <1>5, <2>2, BootPrograms DEF OpenTmp, Call, TypeOK
  <2>4. FirstStatus' = FirstStatus /\ buf' = buf /\ cmd' = cmd
    BY <1>5 DEF OpenTmp, FirstStatus, Desired
  <2>5. tmp' = Empty /\ fd'["main"] = "tmp"
    BY <1>5 DEF OpenTmp, StatusFile!Open, TypeOK, StatusFile!FilesTypeOK
  <2> QED BY <2>2, <2>3, <2>4, <2>5 DEF Publishes
<1>6. CASE WriteTmp("main")
  <2>1. Head(m) = "write" BY <1>6 DEF WriteTmp, At
  <2>2. /\ Tail(m) = <<"spawn", "resume">> /\ buf["main"] = FirstStatus
        /\ tmp = Empty /\ fd["main"] = "tmp"
    BY <1>1, <2>1, BootSteps
  <2>3. todo'["main"] = <<"rename", "spawn", "resume">>
    BY <1>3, <1>6, <2>2, BootPrograms DEF WriteTmp, Call, TypeOK
  <2>4. FirstStatus' = FirstStatus /\ cmd' = cmd BY <1>6 DEF WriteTmp, FirstStatus, Desired
  <2>5. tmp' = FirstStatus
    BY <1>6, <2>2 DEF WriteTmp, StatusFile!Write, StatusFile!Overwrite
  <2> QED BY <2>3, <2>4, <2>5 DEF Publishes
<1>7. CASE RenameTmp("main")
  <2>1. Head(m) = "rename" BY <1>7 DEF RenameTmp, At
  <2>2. Tail(m) = <<"spawn", "resume">> /\ tmp = FirstStatus BY <1>1, <2>1, BootSteps
  <2>3. todo'["main"] = <<"spawn", "resume">>
    BY <1>7, <2>2 DEF RenameTmp, Return, TypeOK
  <2>4. FirstStatus' = FirstStatus /\ cmd' = cmd BY <1>7 DEF RenameTmp, FirstStatus, Desired
  <2>5. status' = FirstStatus
    BY <1>2, <1>7, <2>2 DEF RenameTmp, StatusFile!Rename
  <2> QED BY <2>3, <2>4, <2>5 DEF Publishes
<1>8. CASE PublishFails("main")
  <2>1. Head(m) \in {"open", "write", "rename"} BY <1>8 DEF PublishFails, At
  <2>2. Tail(m) = <<"spawn", "resume">> BY <1>1, <2>1, BootSteps
  <2>3. todo'["main"] = <<"spawn", "resume">> /\ cmd' = cmd
    BY <1>8, <2>2 DEF PublishFails, Return, TypeOK
  <2>4. faults' > 0
    <3>1. faults \in 0 .. MaxFaults /\ faults' = faults + 1 BY <1>8 DEF PublishFails, TypeOK
    <3> QED BY <3>1
  <2> QED BY <2>3, <2>4 DEF Publishes
<1>9. \/ Look("main") \/ OpenTmp("main") \/ WriteTmp("main") \/ RenameTmp("main")
      \/ PublishFails("main")
  <2>1. ~Spawn("main") BY DEF Spawn
  <2>2. \A s : At("main", s) => s \in {"look", "open", "write", "rename", "spawn"}
    BY <1>1, BootSteps DEF At
  <2>3. \A s \in {"wantRunning", "running", "wantStopped", "stopped", "start", "stop", "ask",
                  "blocked", "await", "reap", "grab", "kill", "resume", "exit"} : ~At("main", s)
    BY <2>2
  <2>4. /\ ~(BlankDesired("main") \/ WriteDesired("main") \/ DesiredFails("main"))
        /\ ~(AlreadyStarted("main") \/ StartFails("main") \/ \E j \in Jvm : Start("main", j))
    BY <2>3 DEF BlankDesired, WriteDesired, DesiredFails, AlreadyStarted, StartFails, Start
  <2>5. /\ ~(Stop("main") \/ Ask("main") \/ PipeIsFull("main") \/ PipeIsRead("main"))
        /\ ~(PipeBreaks("main") \/ Stopped("main") \/ StopTimesOut("main"))
        /\ ~(Grab("main") \/ Kill("main") \/ Resume("main") \/ Exit("main"))
    BY <2>3 DEF Stop, Ask, PipeIsFull, PipeIsRead, PipeBreaks, Stopped, StopTimesOut, Grab,
         Kill, Resume, Exit
  <2> QED BY <2>1, <2>4, <2>5 DEF Moves, RunStep
<1> QED BY <1>4, <1>5, <1>6, <1>7, <1>8, <1>9

\* A goroutine that takes a step has one to take.
LEMMA MoveHasStep ==
  ASSUME NEW t \in Thread, Moves(t)
  PROVE  todo[t] # <<>>
<1>1. CASE Exit(t) BY <1>1 DEF Exit, At
<1>2. CASE ~Exit(t) BY <1>2, MoveIs DEF Takes, At
<1> QED BY <1>1, <1>2

\* BootInv is inductive.
LEMMA BootInductive ==
  ASSUME Publishing, TypeOK, OrderInv, BootInv, [Next]_vars
  PROVE  BootInv'
<1> SUFFICES ASSUME mode' = "boot" PROVE BootInv'
  BY DEF BootInv
<1>1. CASE Boot
  <2>1. mode \notin {"boot", "up"} BY <1>1 DEF Boot
  <2>2. cmd = None /\ \A t \in Thread : todo[t] = <<>>
    BY <2>1 DEF OrderInv, DownIsBlank
  <2>3. todo'["main"] = <<"look", "open", "spawn", "resume">>
        /\ \A t \in Thread \ {"main"} : todo'[t] = todo[t]
    BY <1>1, BootPrograms DEF Boot, Begin, TypeOK
  <2>4. cmd' = None BY <1>1, <2>2 DEF Boot
  <2> QED BY <2>2, <2>3, <2>4 DEF BootInv, Publishes
<1>2. CASE Heartbeat \/ ReadControl \/ Signal \/ Crash
  BY <1>2 DEF Heartbeat, ReadControl, Signal, Crash, Idle, Down
<1>3. ASSUME NEW t \in Thread, Moves(t) PROVE BootInv'
  <2>1. ~Exit(t) BY DEF Exit, Down
  <2>2. mode = "boot"
    <3>1. \/ Spawn(t) \/ Exit(t) \/ mode' = mode
      BY <1>3 DEF Moves, RunStep, Look, OpenTmp, WriteTmp, RenameTmp, PublishFails,
           BlankDesired, WriteDesired, DesiredFails, AlreadyStarted, StartFails, Start, Stop,
           Ask, PipeIsFull, PipeIsRead, PipeBreaks, Stopped, StopTimesOut, Grab, Kill, Resume
    <3> QED BY <2>1, <3>1 DEF Spawn
  <2>3. cmd = None /\ \A u \in Thread \ {"main"} : todo[u] = <<>>
    BY <2>2 DEF BootInv
  <2>4. t = "main" BY <1>3, <2>3, MoveHasStep
  <2>5. Publishes' /\ cmd' = cmd BY <1>3, <2>2, <2>4, BootStep
  <2>6. PICK d : todo' = [todo EXCEPT !["main"] = d]
    BY <1>3, <2>1, <2>4, MoveKeepsPlan DEF OrderInv
  <2>7. \A u \in Thread \ {"main"} : todo'[u] = todo[u] BY <2>6 DEF TypeOK
  <2> QED BY <2>3, <2>5, <2>7 DEF BootInv
<1>4. ASSUME \/ UNCHANGED vars
             \/ \E j \in Jvm : JvmQuits(j) \/ JvmDies(j)
      PROVE  BootInv'
  <2>1. UNCHANGED <<mode, todo, cmd, desired, faults, tmp, status, fd, buf>>
    BY <1>4 DEF vars, JvmQuits, JvmDies, counts, files
  <2>2. FirstStatus' = FirstStatus BY <2>1 DEF FirstStatus, Desired
  <2> QED BY <2>1, <2>2 DEF BootInv, Publishes
<1>5. ASSUME \/ \E j \in Jvm : Waiter(j)
             \/ \E verb \in Verb : SendVerb(verb)
      PROVE  FALSE
  BY <1>5 DEF Waiter, WaitReturns, ClearCmd, CloseDone, SendVerb
<1> QED BY <1>1, <1>2, <1>3, <1>4, <1>5 DEF Next, Moves

\* Unless writeStatus is sliced away, a booted supervisor has replaced what
\* its predecessor left in status.json before anything else of it runs, or a
\* publication since the boot has failed.
THEOREM BootPublishes == Publishing => (Spec => BootPublishesFirst)
<1> SUFFICES ASSUME Publishing PROVE Spec => BootPublishesFirst
  OBVIOUS
<1>1. Init => BootInv BY DEF Init, BootInv
<1>2. TypeOK /\ OrderInv /\ BootInv /\ [Next]_vars => BootInv'
  BY BootInductive
<1>3. TypeOK /\ OrderInv /\ BootInv /\ [Next]_vars
        => ((mode = "boot" /\ mode' = "up")
              => faults > 0 \/ status = [running |-> None, desired |-> Desired])
  <2> SUFFICES ASSUME TypeOK, BootInv, [Next]_vars, mode = "boot", mode' = "up"
               PROVE  faults > 0 \/ status = FirstStatus
    BY DEF FirstStatus
  <2>1. PICK t \in Thread : Spawn(t)
    <3>1. ASSUME NEW t \in Thread, Moves(t) PROVE Spawn(t)
      BY <3>1 DEF Moves, RunStep, Look, OpenTmp, WriteTmp, RenameTmp, PublishFails,
           BlankDesired, WriteDesired, DesiredFails, AlreadyStarted, StartFails, Start, Stop,
           Ask, PipeIsFull, PipeIsRead, PipeBreaks, Stopped, StopTimesOut, Grab, Kill, Resume,
           Exit, Down
    <3>2. \E t \in Thread : Moves(t)
      BY DEF Next, Moves, vars, Boot, Heartbeat, ReadControl, Signal, Crash, Down, Idle,
           Waiter, WaitReturns, ClearCmd, CloseDone, JvmQuits, JvmDies, SendVerb
    <3> QED BY <3>1, <3>2
  <2>2. t = "main" BY <2>1 DEF BootInv, Spawn, At
  <2>3. Head(todo["main"]) = "spawn" /\ Publishes BY <2>1, <2>2 DEF BootInv, Spawn, At
  <2> QED BY <2>3, BootSteps
<1> QED
  BY <1>1, <1>2, <1>3, TypeCorrect, OrderHolds, PTL DEF Spec, BootPublishesFirst
-----------------------------------------------------------------------------
(* Start requests (ServerStart)                                            *)
(*                                                                         *)
(* The inductive invariant is StartInv: StartTypeOK, RequestInv, SettledInv *)
(* and StageInv.                                                           *)

AllAbove(s, n) == \A i \in DOMAIN s : s[i][1] > n
Hears(r) == Subscribed(r) /\ ~Full(r)
SomeDone(s) == \E i \in DOMAIN s : s[i][2]

\* A request has a result only when it is over; what lies in the channel of one
\* that waits comes from a later session than those settled when it sent START,
\* and in that of one about to send it from a later session than those settled
\* now.
RequestOK(q) ==
  /\ q.pc # "idle" => q.result = <<>>
  /\ q.result # <<>> => q.result[1] > q.mark
  /\ q.pc = "waiting" => (q.mark <= settled /\ AllAbove(q.queue, q.mark))
  /\ q.pc = "drained" => AllAbove(q.queue, settled)

RequestInv == \A r \in Request : RequestOK(req[r])

\* A settled session is over, and the hub has had all its lines.
SettledInv ==
  /\ settled <= server.session /\ (Alive => settled < server.session)
  /\ AllAbove(unread, settled)

\* From a tick after the launch on, the status keeps new requests out; a
\* request that waits still has the "Done" line before it once that is
\* printed, if no full channel has dropped it; and a tick later none waits and
\* no verb is under way.
StageInv ==
  /\ Alive => server.session > 0
  /\ ~misled =>
     /\ server.stage \in {"loading", "ready", "serving"} =>
          (shown /\ \A r \in Request : req[r].pc \in {"idle", "waiting"})
     /\ server.stage = "ready" =>
          \/ missed
          \/ \A r \in Request :
               req[r].pc = "waiting" => (SomeDone(unread) \/ SomeDone(req[r].queue))
     /\ server.stage = "serving" =>
          \/ missed
          \/ fifo = <<>> /\ \A r \in Request : req[r].pc # "waiting"

StartInv == StartTypeOK /\ RequestInv /\ SettledInv /\ StageInv

\* What the two predicates on lines make of the operations on sequences.
LEMMA LineAppended ==
  ASSUME NEW s \in Seq(Line), NEW l \in Line
  PROVE  /\ Append(s, l) \in Seq(Line)
         /\ \A n : (AllAbove(s, n) /\ l[1] > n) => AllAbove(Append(s, l), n)
         /\ (SomeDone(s) \/ l[2]) => SomeDone(Append(s, l))
<1> DEFINE t == Append(s, l)
<1>1. /\ t \in Seq(Line) /\ Len(t) = Len(s) + 1 /\ Len(s) \in Nat
      /\ \A i \in 1 .. Len(s) : t[i] = s[i]
      /\ t[Len(s) + 1] = l
  OBVIOUS
<1>2. DOMAIN s = 1 .. Len(s) /\ DOMAIN t = 1 .. Len(t) BY <1>1
<1> HIDE DEF t
<1>3. \A i \in DOMAIN t : i \in DOMAIN s \/ i = Len(s) + 1 BY <1>1, <1>2
<1>4. DOMAIN s \subseteq DOMAIN t /\ Len(s) + 1 \in DOMAIN t BY <1>1, <1>2
<1>5. ASSUME NEW n, AllAbove(s, n), l[1] > n PROVE AllAbove(t, n)
  BY <1>1, <1>2, <1>3, <1>5 DEF AllAbove
<1>6. (SomeDone(s) \/ l[2]) => SomeDone(t)
  <2>1. CASE SomeDone(s) BY <1>1, <1>2, <1>4, <2>1 DEF SomeDone
  <2>2. CASE l[2] BY <1>1, <1>4, <2>2 DEF SomeDone
  <2> QED BY <2>1, <2>2
<1> QED BY <1>1, <1>5, <1>6 DEF t

LEMMA LineTaken ==
  ASSUME NEW s \in Seq(Line), s # <<>>
  PROVE  /\ Tail(s) \in Seq(Line) /\ Head(s) \in Line
         /\ \A n : AllAbove(s, n) => (AllAbove(Tail(s), n) /\ Head(s)[1] > n)
         /\ SomeDone(s) => (SomeDone(Tail(s)) \/ Head(s)[2])
<1> DEFINE t == Tail(s)
<1>1. /\ t \in Seq(Line) /\ Len(t) = Len(s) - 1 /\ Len(s) \in Nat /\ Len(s) > 0
      /\ \A i \in 1 .. Len(t) : t[i] = s[i + 1]
      /\ Head(s) = s[1] /\ s[1] \in Line
  OBVIOUS
<1>2. DOMAIN s = 1 .. Len(s) /\ DOMAIN t = 1 .. Len(t) BY <1>1
<1> HIDE DEF t
<1>3. /\ 1 \in DOMAIN s
      /\ \A i \in DOMAIN t : i + 1 \in DOMAIN s /\ t[i] = s[i + 1]
      /\ \A i \in DOMAIN s : i = 1 \/ (i - 1 \in DOMAIN t /\ t[i - 1] = s[i])
  BY <1>1, <1>2
<1>4. ASSUME NEW n, AllAbove(s, n) PROVE AllAbove(t, n) /\ s[1][1] > n
  BY <1>3, <1>4 DEF AllAbove
<1>5. SomeDone(s) => (SomeDone(t) \/ s[1][2])
  BY <1>3 DEF SomeDone
<1> QED BY <1>1, <1>4, <1>5 DEF t

\* Above the later session is above the earlier one.
LEMMA AboveEarlier ==
  ASSUME NEW s \in Seq(Line), NEW m \in Nat, NEW n \in Nat, m <= n, AllAbove(s, n)
  PROVE  AllAbove(s, m)
<1>1. ASSUME NEW i \in DOMAIN s PROVE s[i][1] > m
  <2>1. s[i] \in Line BY <1>1
  <2>2. s[i][1] \in Nat BY <2>1, StartAssumption DEF Line
  <2>3. s[i][1] > n BY <1>1 DEF AllAbove
  <2> QED BY <2>2, <2>3
<1> QED BY <1>1 DEF AllAbove

\* Shapes of a request.
LEMMA RequestTyped ==
  /\ NoRequest \in StartRequest /\ NoRequest.pc = "idle" /\ NoRequest.result = <<>>
  /\ <<>> \in Seq(Line)
<1>1. <<>> \in Seq(Line) OBVIOUS
<1> QED BY <1>1, StartAssumption DEF NoRequest, StartRequest, Label

LEMMA RequestSet ==
  ASSUME StartTypeOK, NEW r \in Request, NEW q \in StartRequest,
         req' = [req EXCEPT ![r] = q]
  PROVE  /\ req' \in [Request -> StartRequest] /\ req'[r] = q
         /\ \A o \in Request \ {r} : req'[o] = req[o]
BY DEF StartTypeOK

\* What a step of a request makes of it.
RequestAfter(r, q) ==
  /\ q \in StartRequest
  /\ req' = [req EXCEPT ![r] = q]

LEMMA RequestSteps ==
  ASSUME StartTypeOK, NEW r \in Request
  PROVE  /\ (CheckNotRunning(r) \/ Misread(r)) =>
              RequestAfter(r, [NoRequest EXCEPT !.pc = "admitted"])
         /\ Subscribe(r) =>
              RequestAfter(r, [req[r] EXCEPT !.pc = "draining", !.queue = ring])
         /\ Drain(r) => RequestAfter(r, [req[r] EXCEPT !.queue = Tail(@)])
         /\ DrainEnds(r) => RequestAfter(r, [req[r] EXCEPT !.pc = "drained"])
         /\ SendStart(r) =>
              RequestAfter(r, [req[r] EXCEPT !.pc = "waiting", !.mark = settled])
         /\ (StartRefused(r) \/ TimeOut(r)) => RequestAfter(r, NoRequest)
         /\ (Receive(r) /\ Head(req[r].queue)[2]) =>
              RequestAfter(r, [req[r] EXCEPT !.pc = "idle", !.queue = <<>>, !.quiet = 0,
                                             !.result = Head(req[r].queue)])
         /\ (Receive(r) /\ ~Head(req[r].queue)[2]) =>
              RequestAfter(r, [req[r] EXCEPT !.queue = Tail(@), !.quiet = 0])
<1>1. req[r] \in StartRequest /\ req \in [Request -> StartRequest] /\ ring \in Seq(Line)
  BY DEF StartTypeOK
<1>2. PICK q \in StartRequest : q = req[r] BY <1>1
<1>3. req[r].queue # <<>> => (Tail(req[r].queue) \in Seq(Line) /\ Head(req[r].queue) \in Line)
  BY <1>1, LineTaken DEF StartRequest
<1>4. 0 \in 0 .. Limit BY StartAssumption
<1> USE DEF RequestAfter
<1>5. (CheckNotRunning(r) \/ Misread(r)) =>
         RequestAfter(r, [NoRequest EXCEPT !.pc = "admitted"])
  BY <1>1, RequestTyped DEF CheckNotRunning, Misread, StartRequest, Label
<1>6. Subscribe(r) => RequestAfter(r, [req[r] EXCEPT !.pc = "draining", !.queue = ring])
  BY <1>1 DEF Subscribe, StartRequest, Label
<1>7. Drain(r) => RequestAfter(r, [req[r] EXCEPT !.queue = Tail(@)])
  BY <1>1, <1>3 DEF Drain, StartRequest
<1>11. DrainEnds(r) => RequestAfter(r, [req[r] EXCEPT !.pc = "drained"])
  BY <1>1 DEF DrainEnds, StartRequest, Label
<1>12. SendStart(r) => RequestAfter(r, [req[r] EXCEPT !.pc = "waiting", !.mark = settled])
  <2>1. settled \in 0 .. MaxSessions BY DEF StartTypeOK
  <2> QED BY <1>1, <2>1 DEF SendStart, StartRequest, Label
<1>8. (StartRefused(r) \/ TimeOut(r)) => RequestAfter(r, NoRequest)
  BY <1>1, RequestTyped DEF StartRefused, TimeOut
<1>9. (Receive(r) /\ Head(req[r].queue)[2]) =>
         RequestAfter(r, [req[r] EXCEPT !.pc = "idle", !.queue = <<>>, !.quiet = 0,
                                        !.result = Head(req[r].queue)])
  BY <1>1, <1>3, <1>4, RequestTyped DEF Receive, StartRequest, Label
<1>10. (Receive(r) /\ ~Head(req[r].queue)[2]) =>
          RequestAfter(r, [req[r] EXCEPT !.queue = Tail(@), !.quiet = 0])
  BY <1>1, <1>3, <1>4 DEF Receive, StartRequest
<1> QED BY <1>5, <1>6, <1>7, <1>8, <1>9, <1>10, <1>11, <1>12

\* A line that is tailed reaches every subscriber's channel that has room.
LEMMA TailLineIs ==
  ASSUME StartTypeOK, TailLine
  PROVE  /\ req' \in [Request -> StartRequest]
         /\ \A r \in Request :
              /\ req'[r].pc = req[r].pc /\ req'[r].result = req[r].result
              /\ req'[r].mark = req[r].mark
              /\ req'[r].queue = IF Hears(r) THEN Append(req[r].queue, Head(unread))
                                             ELSE req[r].queue
<1>1. unread \in Seq(Line) /\ unread # <<>> BY DEF TailLine, StartTypeOK
<1>2. Head(unread) \in Line BY <1>1, LineTaken
<1> DEFINE l == Head(unread)
<1> HIDE DEF l
<1>3. ASSUME NEW r \in Request
      PROVE  /\ req'[r] \in StartRequest
             /\ req'[r].pc = req[r].pc /\ req'[r].result = req[r].result
             /\ req'[r].mark = req[r].mark
             /\ req'[r].queue = IF Hears(r) THEN Append(req[r].queue, l) ELSE req[r].queue
  <2>1. req[r] \in StartRequest /\ Append(req[r].queue, l) \in Seq(Line)
    BY <1>2, LineAppended DEF l, StartTypeOK, StartRequest
  <2>2. req'[r] = IF Hears(r) THEN [req[r] EXCEPT !.queue = Append(@, l)] ELSE req[r]
    BY DEF TailLine, Hears, l
  <2> QED BY <2>1, <2>2 DEF StartRequest
<1>4. DOMAIN req' = Request /\ req' = [r \in Request |-> req'[r]] BY DEF TailLine
<1> QED BY <1>3, <1>4 DEF l

\* A tick changes nothing of a request but its timer.
LEMMA TickIs ==
  ASSUME StartTypeOK, Tick
  PROVE  /\ req' \in [Request -> StartRequest]
         /\ \A r \in Request :
              /\ req'[r].pc = req[r].pc /\ req'[r].result = req[r].result
              /\ req'[r].mark = req[r].mark
              /\ req'[r].queue = req[r].queue
<1>1. ASSUME NEW r \in Request
      PROVE  /\ req'[r] \in StartRequest
             /\ req'[r].pc = req[r].pc /\ req'[r].result = req[r].result
             /\ req'[r].mark = req[r].mark
             /\ req'[r].queue = req[r].queue
  <2>1. req[r] \in StartRequest BY DEF StartTypeOK
  <2>2. CASE r \in Waiting
    <3>1. req'[r] = [req[r] EXCEPT !.quiet = @ + 1] BY <2>2 DEF Tick
    <3>2. req[r].quiet \in 0 .. Limit /\ req[r].quiet < Limit BY <2>1, <2>2 DEF Tick, StartRequest
    <3>3. req[r].quiet + 1 \in 0 .. Limit BY <3>2, StartAssumption
    <3> QED BY <2>1, <3>1, <3>3 DEF StartRequest
  <2>3. CASE r \notin Waiting BY <2>1, <2>3 DEF Tick
  <2> QED BY <2>2, <2>3
<1>2. DOMAIN req' = Request /\ req' = [r \in Request |-> req'[r]] BY DEF Tick
<1> QED BY <1>1, <1>2

\* StartTypeOK is inductive relative to the other two.
LEMMA StartTyped ==
  ASSUME StartInv, [StartNext]_startVars
  PROVE  StartTypeOK'
<1> USE StartAssumption DEF startHistory, StartInv
<1>0. /\ server \in [session : 0 .. MaxSessions, stage : Stage] /\ shown \in BOOLEAN
      /\ fifo \in Seq({"START", "KILL"}) /\ unread \in Seq(Line) /\ ring \in Seq(Line)
      /\ req \in [Request -> StartRequest] /\ chatter \in 0 .. MaxChatter
      /\ ticks \in 0 .. MaxTicks /\ misled \in BOOLEAN /\ missed \in BOOLEAN
      /\ settled \in 0 .. MaxSessions
  BY DEF StartTypeOK
<1>10. /\ \A v \in Seq({"START", "KILL"}) : v # <<>> => Tail(v) \in Seq({"START", "KILL"})
       /\ \A v \in Seq({"START", "KILL"}), x \in {"START", "KILL"} :
            Append(v, x) \in Seq({"START", "KILL"})
       /\ "down" \in Stage /\ "launched" \in Stage /\ "ready" \in Stage
       /\ server.session \in 0 .. MaxSessions /\ server.stage \in Stage
       /\ server = [session |-> server.session, stage |-> server.stage]
  <2> DEFINE V == {"START", "KILL"}
  <2> HIDE DEF V
  <2>1. /\ \A v \in Seq(V) : v # <<>> => Tail(v) \in Seq(V)
        /\ \A v \in Seq(V), x \in V : Append(v, x) \in Seq(V)
    OBVIOUS
  <2> QED BY <1>0, <2>1 DEF V, Stage
<1>1. CASE UNCHANGED startVars BY <1>0, <1>1 DEF startVars, StartTypeOK
<1>2. CASE ReadStart \/ ReadKill
  <2>1. fifo # <<>> /\ fifo' = Tail(fifo) BY <1>2 DEF ReadStart, ReadKill, ReadVerb
  <2>2. fifo' \in Seq({"START", "KILL"}) BY <1>0, <1>10, <2>1
  <2>3. server' \in [session : 0 .. MaxSessions, stage : Stage]
    <3>1. CASE ReadStart
      <4>1. \/ server' = server
            \/ /\ server' = [session |-> server.session + 1, stage |-> "launched"]
               /\ server.session < MaxSessions
        BY <3>1 DEF ReadStart
      <4> QED BY <1>0, <1>10, <4>1
    <3>2. CASE ReadKill BY <1>0, <1>10, <3>2 DEF ReadKill
    <3> QED BY <1>2, <3>1, <3>2
  <2> QED BY <1>0, <1>2, <2>2, <2>3 DEF ReadStart, ReadKill, StartTypeOK
<1>3. CASE JvmEnds \/ Publish
  BY <1>0, <1>3 DEF JvmEnds, Publish, Stage, Alive, StartTypeOK
<1>4. CASE PrintDone \/ PrintOther
  <2>0. Alive BY <1>4 DEF Alive, PrintDone, PrintOther
  <2>1. server.session \in 1 .. MaxSessions BY <1>10, <2>0 DEF StageInv
  <2>2. <<server.session, TRUE>> \in Line /\ <<server.session, FALSE>> \in Line
    BY <2>1 DEF Line
  <2>3. unread' \in Seq(Line)
    <3>1. unread' = Append(unread, <<server.session, TRUE>>)
          \/ unread' = Append(unread, <<server.session, FALSE>>)
      BY <1>4 DEF PrintDone, PrintOther
    <3>2. unread \in Seq(Line) BY <1>0
    <3>3. CASE unread' = Append(unread, <<server.session, TRUE>>)
      BY <2>2, <3>2, <3>3, LineAppended
    <3>4. CASE unread' = Append(unread, <<server.session, FALSE>>)
      BY <2>2, <3>2, <3>4, LineAppended
    <3> QED BY <3>1, <3>3, <3>4
  <2>4. chatter' \in 0 .. MaxChatter
    <3>1. chatter' = chatter \/ (chatter' = chatter + 1 /\ chatter < MaxChatter)
      BY <1>4 DEF PrintDone, PrintOther
    <3> QED BY <1>0, <3>1
  <2>5. server' \in [session : 0 .. MaxSessions, stage : Stage]
    BY <1>0, <1>4 DEF PrintDone, PrintOther, Stage
  <2> QED BY <1>0, <1>4, <2>3, <2>4, <2>5 DEF PrintDone, PrintOther, StartTypeOK
<1>5. CASE TailLine
  <2>1. unread' \in Seq(Line) /\ Head(unread) \in Line BY <1>0, <1>5, LineTaken DEF TailLine
  <2>2. ring' \in Seq(Line)
    <3>1. Append(ring, Head(unread)) \in Seq(Line) /\ Append(ring, Head(unread)) # <<>>
      <4>1. ring \in Seq(Line) /\ Head(unread) \in Line BY <1>0, <2>1
      <4> HIDE DEF StartInv
      <4> QED BY ONLY <4>1, AppendProperties
    <3>2. Tail(Append(ring, Head(unread))) \in Seq(Line) BY <3>1, LineTaken
    <3> QED BY <1>5, <3>1, <3>2 DEF TailLine, LastOf
  <2>3. req' \in [Request -> StartRequest] BY <1>5, TailLineIs
  <2>4. missed' \in BOOLEAN BY <1>5 DEF TailLine
  <2> QED BY <1>0, <1>5, <2>1, <2>2, <2>3, <2>4 DEF TailLine, StartTypeOK
<1>6. CASE Tick
  <2>1. req' \in [Request -> StartRequest] BY <1>6, TickIs
  <2>2. ticks' \in 0 .. MaxTicks
    <3>1. ticks' = ticks + 1 /\ ticks < MaxTicks BY <1>6 DEF Tick
    <3>2. ticks \in 0 .. MaxTicks /\ MaxTicks \in Nat BY <1>0
    <3> HIDE DEF StartInv
    <3> QED BY <3>1, <3>2
  <2>3. server' \in [session : 0 .. MaxSessions, stage : Stage] BY <1>0, <1>6 DEF Tick, Stage
  <2>4. settled' \in 0 .. MaxSessions
    <3>1. Alive => server.session > 0 BY DEF StageInv
    <3> QED BY <1>0, <1>6, <3>1 DEF Tick
  <2> QED BY <1>0, <1>6, <2>1, <2>2, <2>3, <2>4 DEF Tick, StartTypeOK
<1>7. ASSUME NEW r \in Request, NEW q, RequestAfter(r, q)
      PROVE  req' \in [Request -> StartRequest]
  BY <1>7, RequestSet DEF RequestAfter
<1>8. ASSUME NEW r \in Request,
             CheckNotRunning(r) \/ Misread(r) \/ Subscribe(r) \/ Drain(r) \/ DrainEnds(r)
             \/ StartRefused(r) \/ Receive(r)
      PROVE  StartTypeOK'
  <2>1. req' \in [Request -> StartRequest] BY <1>7, <1>8, RequestSteps
  <2> QED
    BY <1>0, <1>8, <2>1
    DEF CheckNotRunning, Misread, Subscribe, Drain, DrainEnds, StartRefused, Receive,
        StartTypeOK
<1>9. ASSUME NEW r \in Request, SendStart(r) \/ TimeOut(r) PROVE StartTypeOK'
  <2>1. req' \in [Request -> StartRequest] BY <1>7, <1>9, RequestSteps
  <2>2. fifo' \in Seq({"START", "KILL"})
    <3>1. fifo' = Append(fifo, "START") \/ fifo' = Append(fifo, "KILL") \/ fifo' = fifo
      BY <1>9 DEF SendStart, TimeOut
    <3> QED BY <1>0, <1>10, <3>1
  <2> QED BY <1>0, <1>9, <2>1, <2>2 DEF SendStart, TimeOut, StartTypeOK
<1> QED BY <1>1, <1>2, <1>3, <1>4, <1>5, <1>6, <1>8, <1>9 DEF StartNext

\* A step of one request is in order if what it makes of it is.
LEMMA OneRequestOK ==
  ASSUME StartTypeOK, RequestInv, NEW r \in Request, NEW q \in StartRequest,
         req' = [req EXCEPT ![r] = q],
         settled' = settled, RequestOK(q)
  PROVE  RequestInv'
<1>1. req'[r] = q /\ \A o \in Request \ {r} : req'[o] = req[o] BY RequestSet
<1>3. ASSUME NEW o \in Request PROVE RequestOK(req[o])'
  BY <1>1, <1>3 DEF RequestInv, RequestOK
<1> QED BY <1>3 DEF RequestInv

\* SettledInv is inductive relative to the others.
LEMMA SettledInductive ==
  ASSUME StartInv, [StartNext]_startVars
  PROVE  SettledInv'
<1> USE DEF startHistory, StartInv
<1>1. /\ server.session \in Nat /\ settled \in Nat /\ unread \in Seq(Line)
      /\ (Alive => server.session > 0) /\ \A l \in Line : l[1] \in Nat
  BY StartAssumption DEF StartTypeOK, StageInv, Line
<1>2. /\ settled <= server.session /\ (Alive => settled < server.session)
      /\ AllAbove(unread, settled)
  BY DEF SettledInv
<1>3. ASSUME settled' = settled, unread' = unread,
             server'.session >= server.session, server'.session \in Nat,
             Alive' => (Alive \/ server'.session > server.session)
      PROVE  SettledInv'
  <2> HIDE DEF Alive
  <2>1. Alive' => settled < server'.session BY <1>1, <1>2, <1>3
  <2> QED BY <1>1, <1>2, <1>3, <2>1 DEF SettledInv
<1>4. CASE ReadStart \/ ReadKill \/ JvmEnds
  <2>1. settled' = settled /\ unread' = unread BY <1>4 DEF ReadStart, ReadKill, JvmEnds
  <2>2. /\ server'.session >= server.session /\ server'.session \in Nat
        /\ Alive' => (Alive \/ server'.session > server.session)
    <3>1. CASE ReadStart BY <1>1, <3>1 DEF ReadStart, Alive, StartTypeOK
    <3>2. CASE ReadKill BY <1>1, <3>2 DEF ReadKill, Alive, StartTypeOK
    <3>3. CASE JvmEnds BY <1>1, <3>3 DEF JvmEnds, Alive, StartTypeOK
    <3> QED BY <1>4, <3>1, <3>2, <3>3
  <2> QED BY <1>3, <2>1, <2>2
<1>5. CASE PrintDone \/ PrintOther
  <2>1. PICK b \in BOOLEAN : unread' = Append(unread, <<server.session, b>>)
    BY <1>5 DEF PrintDone, PrintOther
  <2>2. Alive /\ Alive' /\ settled' = settled /\ server'.session = server.session
    BY <1>5 DEF PrintDone, PrintOther, Alive, StartTypeOK
  <2>3. <<server.session, b>> \in Line /\ <<server.session, b>>[1] = server.session
    BY <1>1, <2>2, StartAssumption DEF StartTypeOK, Line
  <2>4. AllAbove(unread', settled) BY <1>1, <1>2, <2>1, <2>2, <2>3, LineAppended
  <2> QED BY <1>2, <2>2, <2>4 DEF SettledInv
<1>6. CASE TailLine
  <2>1. unread # <<>> /\ unread' = Tail(unread) /\ server' = server /\ settled' = settled
    BY <1>6 DEF TailLine
  <2>2. AllAbove(unread', settled) BY <1>1, <1>2, <2>1, LineTaken
  <2> QED BY <1>2, <2>1, <2>2 DEF SettledInv, Alive
<1>7. CASE Tick
  <2>1. /\ unread = <<>> /\ unread' = unread /\ server'.session = server.session
        /\ (Alive' <=> Alive)
        /\ settled' = IF Alive THEN server.session - 1 ELSE server.session
    BY <1>7 DEF Tick, Alive, StartTypeOK
  <2> HIDE DEF Alive
  <2>2. settled' <= server'.session /\ (Alive' => settled' < server'.session) BY <1>1, <2>1
  <2> QED BY <2>1, <2>2 DEF SettledInv, AllAbove
<1>8. CASE UNCHANGED startVars \/ Publish
  BY <1>8, <1>1, <1>3 DEF startVars, Publish, Alive
<1>9. ASSUME NEW r \in Request,
             \/ CheckNotRunning(r) \/ Misread(r) \/ Subscribe(r) \/ Drain(r) \/ DrainEnds(r)
             \/ SendStart(r) \/ StartRefused(r) \/ Receive(r) \/ TimeOut(r)
      PROVE  SettledInv'
  <2>1. UNCHANGED <<server, unread, settled>>
    BY <1>9 DEF CheckNotRunning, Misread, Subscribe, Drain, DrainEnds, SendStart,
                StartRefused, Receive, TimeOut
  <2> QED BY <1>1, <1>3, <2>1 DEF Alive
<1> QED BY <1>4, <1>5, <1>6, <1>7, <1>8, <1>9 DEF StartNext

\* RequestInv is inductive relative to the others.
LEMMA RequestInductive ==
  ASSUME StartInv, [StartNext]_startVars
  PROVE  RequestInv'
<1> USE DEF startHistory, StartInv
<1>1. /\ settled \in Nat /\ unread \in Seq(Line) /\ req \in [Request -> StartRequest]
  BY StartAssumption DEF StartTypeOK
<1>2. \A r \in Request :
        /\ req[r] \in StartRequest /\ req[r].mark \in Nat /\ req[r].queue \in Seq(Line)
        /\ RequestOK(req[r])
  BY <1>1, StartAssumption DEF StartRequest, RequestInv
<1>3. CASE UNCHANGED <<req, settled>>
  BY <1>3 DEF RequestInv, RequestOK
<1>4. CASE \/ ReadStart \/ ReadKill \/ JvmEnds \/ PrintDone \/ PrintOther \/ Publish
           \/ UNCHANGED startVars
  <2>1. UNCHANGED <<req, settled>>
    BY <1>4 DEF ReadStart, ReadKill, JvmEnds, PrintDone, PrintOther, Publish, startVars
  <2> QED BY <1>3, <2>1
<1>6. CASE TailLine
  <2>1. unread # <<>> /\ settled' = settled BY <1>6 DEF TailLine
  <2>2. Head(unread) \in Line /\ Head(unread)[1] > settled
    BY <1>1, <2>1, LineTaken DEF SettledInv
  <2>3. ASSUME NEW r \in Request PROVE RequestOK(req[r])'
    <3>1. RequestOK(req[r]) /\ req[r].queue \in Seq(Line) /\ req[r].mark \in Nat BY <1>2
    <3>2. /\ req'[r].pc = req[r].pc /\ req'[r].result = req[r].result
          /\ req'[r].mark = req[r].mark
          /\ \/ req'[r].queue = Append(req[r].queue, Head(unread))
             \/ req'[r].queue = req[r].queue
      BY <1>6, TailLineIs
    <3>3. ASSUME NEW n \in Nat, n <= settled, AllAbove(req[r].queue, n)
          PROVE  AllAbove(req'[r].queue, n)
      <4>1. Head(unread)[1] > n
        <5>1. Head(unread)[1] \in Nat BY <2>2, StartAssumption DEF Line
        <5> QED BY <1>1, <2>2, <3>3, <5>1
      <4>2. AllAbove(Append(req[r].queue, Head(unread)), n)
        BY <2>2, <3>1, <3>3, <4>1, LineAppended
      <4> QED BY <3>2, <3>3, <4>2
    <3>4. settled <= settled BY <1>1
    <3> QED BY <1>1, <2>1, <3>1, <3>2, <3>3, <3>4 DEF RequestOK
  <2> QED BY <2>3 DEF RequestInv
<1>7. CASE Tick
  <2>1. settled <= settled' /\ settled' \in Nat
    BY <1>1, <1>7, StartAssumption DEF Tick, SettledInv, StartTypeOK, Alive
  <2>2. ASSUME NEW r \in Request PROVE RequestOK(req[r])'
    <3>1. RequestOK(req[r]) /\ req[r].mark \in Nat /\ req[r].pc # "drained"
      BY <1>2, <1>7 DEF Tick
    <3>2. /\ req'[r].pc = req[r].pc /\ req'[r].result = req[r].result
          /\ req'[r].mark = req[r].mark
          /\ req'[r].queue = req[r].queue
      BY <1>7, TickIs
    <3>3. req[r].mark <= settled => req[r].mark <= settled' BY <1>1, <2>1, <3>1
    <3> QED BY <3>1, <3>2, <3>3 DEF RequestOK
  <2> QED BY <2>2 DEF RequestInv
<1>8. ASSUME NEW r \in Request, CheckNotRunning(r) \/ Misread(r) \/ StartRefused(r) \/ TimeOut(r)
      PROVE  RequestInv'
  <2>1. PICK q \in StartRequest :
          /\ req' = [req EXCEPT ![r] = q]
          /\ q.result = <<>> /\ q.pc \in {"idle", "admitted"}
    <3>1. /\ [NoRequest EXCEPT !.pc = "admitted"].result = <<>>
          /\ [NoRequest EXCEPT !.pc = "admitted"].pc = "admitted"
      BY DEF NoRequest
    <3> QED BY <1>8, <3>1, RequestSteps, RequestTyped DEF RequestAfter
  <2>2. RequestOK(q) BY <2>1 DEF RequestOK
  <2>3. settled' = settled
    BY <1>8 DEF CheckNotRunning, Misread, StartRefused, TimeOut
  <2> QED BY <2>1, <2>2, <2>3, OneRequestOK
<1>9. ASSUME NEW r \in Request, Subscribe(r) \/ Drain(r) \/ DrainEnds(r) PROVE RequestInv'
  <2>1. req[r].pc \in {"admitted", "draining"} /\ req[r] \in StartRequest /\ RequestOK(req[r])
    BY <1>2, <1>9 DEF Subscribe, Drain, DrainEnds
  <2>2. PICK q \in StartRequest :
          /\ req' = [req EXCEPT ![r] = q]
          /\ q.result = req[r].result
          /\ q.pc = "draining" \/ (q.pc = "drained" /\ q.queue = <<>>)
    <3>1. CASE Subscribe(r)
      <4>1. RequestAfter(r, [req[r] EXCEPT !.pc = "draining", !.queue = ring])
        BY <3>1, RequestSteps
      <4> QED BY <2>1, <4>1 DEF RequestAfter, StartRequest
    <3>2. CASE Drain(r)
      <4>1. RequestAfter(r, [req[r] EXCEPT !.queue = Tail(@)]) BY <3>2, RequestSteps
      <4>2. req[r].pc = "draining" BY <3>2 DEF Drain
      <4> QED BY <2>1, <4>1, <4>2 DEF RequestAfter, StartRequest
    <3>3. CASE DrainEnds(r)
      <4>1. RequestAfter(r, [req[r] EXCEPT !.pc = "drained"]) BY <3>3, RequestSteps
      <4>2. req[r].queue = <<>> BY <3>3 DEF DrainEnds
      <4> QED BY <2>1, <4>1, <4>2 DEF RequestAfter, StartRequest
    <3> QED BY <1>9, <3>1, <3>2, <3>3
  <2>3. AllAbove(<<>>, settled) BY DEF AllAbove
  <2>4. RequestOK(q) BY <2>1, <2>2, <2>3 DEF RequestOK
  <2>5. settled' = settled BY <1>9 DEF Subscribe, Drain, DrainEnds
  <2> QED BY <2>2, <2>4, <2>5, OneRequestOK
<1>10. ASSUME NEW r \in Request, SendStart(r) PROVE RequestInv'
  <2>1. RequestAfter(r, [req[r] EXCEPT !.pc = "waiting", !.mark = settled])
    BY <1>10, RequestSteps
  <2> DEFINE q == [req[r] EXCEPT !.pc = "waiting", !.mark = settled]
  <2>2. q \in StartRequest /\ req' = [req EXCEPT ![r] = q] BY <2>1 DEF RequestAfter
  <2>3. /\ q.pc = "waiting" /\ q.mark = settled /\ q.queue = req[r].queue
        /\ q.result = req[r].result
    BY <1>2 DEF StartRequest
  <2> HIDE DEF q
  <2>4. req[r].pc = "drained" /\ RequestOK(req[r]) BY <1>2, <1>10 DEF SendStart
  <2>5. settled <= settled BY <1>1
  <2>6. RequestOK(q) BY <2>3, <2>4, <2>5 DEF RequestOK
  <2>7. settled' = settled BY <1>10 DEF SendStart
  <2> QED BY <2>2, <2>6, <2>7, OneRequestOK
<1>11. ASSUME NEW r \in Request, Receive(r) PROVE RequestInv'
  <2>1. /\ req[r].pc = "waiting" /\ req[r].queue # <<>> /\ req[r] \in StartRequest
        /\ RequestOK(req[r]) /\ req[r].queue \in Seq(Line)
        /\ settled' = settled
    BY <1>2, <1>11 DEF Receive
  <2>2. Head(req[r].queue)[1] > req[r].mark /\ AllAbove(Tail(req[r].queue), req[r].mark)
    BY <2>1, LineTaken DEF RequestOK
  <2>3. CASE Head(req[r].queue)[2]
    <3> DEFINE q == [req[r] EXCEPT !.pc = "idle", !.queue = <<>>, !.quiet = 0,
                                   !.result = Head(req[r].queue)]
    <3>1. q \in StartRequest /\ req' = [req EXCEPT ![r] = q]
      BY <1>11, <2>3, RequestSteps DEF RequestAfter
    <3>2. q.pc = "idle" /\ q.result = Head(req[r].queue) /\ q.mark = req[r].mark
      BY <2>1 DEF StartRequest
    <3> HIDE DEF q
    <3>3. RequestOK(q) BY <2>2, <3>2 DEF RequestOK
    <3> QED BY <2>1, <3>1, <3>3, OneRequestOK
  <2>4. CASE ~Head(req[r].queue)[2]
    <3> DEFINE q == [req[r] EXCEPT !.queue = Tail(@), !.quiet = 0]
    <3>1. q \in StartRequest /\ req' = [req EXCEPT ![r] = q]
      BY <1>11, <2>4, RequestSteps DEF RequestAfter
    <3>2. q.pc = "waiting" /\ q.result = req[r].result /\ q.mark = req[r].mark
          /\ q.queue = Tail(req[r].queue)
      BY <2>1 DEF StartRequest
    <3> HIDE DEF q
    <3>3. RequestOK(q) BY <2>1, <2>2, <3>2 DEF RequestOK
    <3> QED BY <2>1, <3>1, <3>3, OneRequestOK
  <2> QED BY <2>3, <2>4
<1> QED BY <1>4, <1>6, <1>7, <1>8, <1>9, <1>10, <1>11 DEF StartNext

\* StageInv is inductive relative to StartTypeOK and RequestInv.
LEMMA StageInductive ==
  ASSUME StartInv, [StartNext]_startVars
  PROVE  StageInv'
<1> USE DEF startHistory, StartInv
<1>1. /\ server.session \in Nat /\ unread \in Seq(Line)
      /\ req \in [Request -> StartRequest] /\ server.stage \in Stage
      /\ \A r \in Request : req[r].queue \in Seq(Line)
  BY StartAssumption DEF StartTypeOK, StartRequest
<1>2. CASE UNCHANGED startVars BY <1>2 DEF startVars, StageInv, Alive
<1>3. CASE ReadKill \/ JvmEnds
  <2>1. server'.stage = "down" BY <1>3 DEF ReadKill, JvmEnds, StartTypeOK
  <2> QED BY <2>1 DEF StageInv, Alive
<1>4. CASE ReadStart
  <2>1. fifo # <<>> /\ req' = req /\ unread' = unread /\ shown' = shown /\ misled' = misled
        /\ missed' = missed
    BY <1>4 DEF ReadStart, ReadVerb
  <2>2. CASE Alive
    <3>1. server' = server BY <1>4, <2>2 DEF ReadStart
    <3> QED BY <2>1, <3>1 DEF StageInv, Alive
  <2>3. CASE ~Alive
    <3>1. server'.stage = "launched" /\ server'.session > 0
      BY <1>1, <1>4, <2>3 DEF ReadStart
    <3> QED BY <3>1 DEF StageInv, Alive
  <2> QED BY <2>2, <2>3
<1>5. CASE Publish
  <2>1. shown' = Alive /\ shown # Alive /\ UNCHANGED <<server, fifo, unread, req, misled, missed>>
    BY <1>5 DEF Publish
  <2> QED BY <2>1 DEF StageInv, Alive
<1>6. CASE PrintDone
  <2>1. /\ server.stage = "loading" /\ server'.stage = "ready"
        /\ server'.session = server.session
        /\ unread' = Append(unread, <<server.session, TRUE>>)
        /\ UNCHANGED <<shown, fifo, req, misled, missed>>
    BY <1>6 DEF PrintDone, StartTypeOK
  <2>2. server.session > 0 BY <2>1 DEF StageInv, Alive
  <2>3. <<server.session, TRUE>> \in Line /\ <<server.session, TRUE>>[2]
    <3>1. server.session \in 0 .. MaxSessions BY DEF StartTypeOK
    <3>2. server.session \in 1 .. MaxSessions BY <2>2, <3>1, StartAssumption
    <3> QED BY <3>2 DEF Line
  <2>4. SomeDone(unread') BY <1>1, <2>1, <2>3, LineAppended
  <2> QED BY <2>1, <2>2, <2>4 DEF StageInv, Alive
<1>7. CASE PrintOther
  <2>1. /\ Alive /\ unread' = Append(unread, <<server.session, FALSE>>)
        /\ UNCHANGED <<server, shown, fifo, req, misled, missed>>
    BY <1>7 DEF PrintOther
  <2>2. <<server.session, FALSE>> \in Line
    <3>1. server.session \in 0 .. MaxSessions BY DEF StartTypeOK
    <3>2. server.session > 0 BY <2>1 DEF StageInv
    <3>3. server.session \in 1 .. MaxSessions BY <3>1, <3>2, StartAssumption
    <3> QED BY <3>3 DEF Line
  <2>3. SomeDone(unread) => SomeDone(unread') BY <1>1, <2>1, <2>2, LineAppended
  <2> QED BY <2>1, <2>3 DEF StageInv, Alive
<1>8. CASE TailLine
  <2>1. /\ unread # <<>> /\ unread' = Tail(unread)
        /\ UNCHANGED <<server, shown, fifo, misled>>
    BY <1>8 DEF TailLine
  <2>2. \A r \in Request :
          /\ req'[r].pc = req[r].pc
          /\ req'[r].queue = IF Hears(r) THEN Append(req[r].queue, Head(unread))
                                         ELSE req[r].queue
    BY <1>8, TailLineIs
  <2>3. ASSUME NEW r \in Request, req[r].pc = "waiting",
               SomeDone(unread) \/ SomeDone(req[r].queue), ~missed'
        PROVE  SomeDone(unread') \/ SomeDone(req'[r].queue)
    <3>1. Head(unread) \in Line BY <1>1, <2>1, LineTaken
    <3>2. Subscribed(r) BY <2>3 DEF Subscribed
    <3>3. (SomeDone(req[r].queue) \/ Head(unread)[2]) => SomeDone(req'[r].queue)
      <4>1. CASE Hears(r)
        <5>1. req'[r].queue = Append(req[r].queue, Head(unread)) BY <2>2, <4>1
        <5> QED BY <1>1, <3>1, <5>1, LineAppended
      <4>2. CASE ~Hears(r)
        <5>1. ~Head(unread)[2] BY <1>8, <2>3, <3>2, <4>2 DEF TailLine, Hears
        <5>2. req'[r].queue = req[r].queue BY <2>2, <4>2
        <5> QED BY <5>1, <5>2
      <4> QED BY <4>1, <4>2
    <3>4. SomeDone(unread) => (SomeDone(unread') \/ Head(unread)[2])
      BY <1>1, <2>1, LineTaken
    <3> QED BY <2>3, <3>3, <3>4
  <2>4. ~missed' => ~missed BY <1>8 DEF TailLine
  <2> QED BY <2>1, <2>2, <2>3, <2>4 DEF StageInv, Alive
<1>9. CASE Tick
  <2>1. \A r \in Request : /\ req'[r].pc = req[r].pc /\ req'[r].queue = req[r].queue
                           /\ req[r].pc \in {"idle", "waiting"} /\ req[r].queue = <<>>
    BY <1>9, TickIs DEF Tick
  <2>2. /\ shown = Alive /\ fifo = <<>> /\ unread = <<>>
        /\ UNCHANGED <<shown, fifo, unread, misled, missed>> /\ server'.session = server.session
    BY <1>9 DEF Tick, StartTypeOK
  <2>3. /\ server.stage = "launched" => server'.stage = "loading"
        /\ server.stage = "ready" => server'.stage = "serving"
        /\ server.stage \notin {"launched", "ready"} => server'.stage = server.stage
    BY <1>9 DEF Tick, StartTypeOK
  <2>4. ~SomeDone(<<>>) BY DEF SomeDone
  <2>5. Alive' => Alive BY <2>3 DEF Alive
  <2>6. server'.stage \in {"loading", "ready", "serving"} => shown BY <2>2, <2>3 DEF Alive
  <2>7. server'.stage # "ready" BY <2>3, <1>1 DEF Stage
  <2>8. (~misled /\ ~missed /\ server'.stage = "serving") => \A r \in Request : req[r].pc # "waiting"
    BY <2>1, <2>2, <2>3, <2>4 DEF StageInv
  <2> QED BY <2>1, <2>2, <2>5, <2>6, <2>7, <2>8 DEF StageInv
<1>10. ASSUME NEW r \in Request, Misread(r) PROVE StageInv'
  BY <1>10 DEF Misread, StageInv, Alive
<1>11. ASSUME NEW r \in Request,
              CheckNotRunning(r) \/ Subscribe(r) \/ Drain(r) \/ DrainEnds(r)
              \/ SendStart(r) \/ StartRefused(r)
       PROVE  StageInv'
  <2>1. /\ UNCHANGED <<server, shown, misled, missed>>
        /\ ~shown \/ req[r].pc \in {"admitted", "draining", "drained"}
    BY <1>11 DEF CheckNotRunning, Subscribe, Drain, DrainEnds, SendStart, StartRefused
  <2>2. misled \/ server.stage \notin {"loading", "ready", "serving"}
    BY <2>1 DEF StageInv
  <2> QED BY <2>1, <2>2 DEF StageInv, Alive
<1>12. ASSUME NEW r \in Request, Receive(r) PROVE StageInv'
  <2>1. /\ req[r].pc = "waiting" /\ req[r].queue # <<>>
        /\ UNCHANGED <<server, shown, fifo, unread, misled, missed>>
    BY <1>12 DEF Receive
  <2>2. PICK q \in StartRequest :
          /\ req' = [req EXCEPT ![r] = q] /\ q.pc \in {"idle", "waiting"}
          /\ (q.pc = "waiting" /\ SomeDone(req[r].queue)) => SomeDone(q.queue)
    <3>1. req[r] \in StartRequest BY <1>1
    <3>2. CASE Head(req[r].queue)[2]
      <4> DEFINE q == [req[r] EXCEPT !.pc = "idle", !.queue = <<>>, !.quiet = 0,
                                     !.result = Head(req[r].queue)]
      <4>1. q \in StartRequest /\ req' = [req EXCEPT ![r] = q]
        BY <1>12, <3>2, RequestSteps DEF RequestAfter
      <4>2. q.pc = "idle" BY <3>1 DEF StartRequest
      <4> HIDE DEF q
      <4> QED BY <4>1, <4>2
    <3>3. CASE ~Head(req[r].queue)[2]
      <4> DEFINE q == [req[r] EXCEPT !.queue = Tail(@), !.quiet = 0]
      <4>1. q \in StartRequest /\ req' = [req EXCEPT ![r] = q]
        BY <1>12, <3>3, RequestSteps DEF RequestAfter
      <4>2. q.pc = "waiting" /\ q.queue = Tail(req[r].queue)
        BY <2>1, <3>1 DEF StartRequest
      <4> HIDE DEF q
      <4>3. SomeDone(req[r].queue) => SomeDone(q.queue)
        BY <1>1, <2>1, <3>3, <4>2, LineTaken
      <4> QED BY <4>1, <4>2, <4>3
    <3> QED BY <3>2, <3>3
  <2>3. req'[r] = q /\ \A o \in Request \ {r} : req'[o] = req[o] BY <2>2, RequestSet
  <2>4. server.stage = "serving" => (misled \/ missed) BY <2>1 DEF StageInv
  <2>5. ASSUME ~misled, ~missed, server.stage = "ready", NEW o \in Request, req'[o].pc = "waiting"
        PROVE  SomeDone(unread) \/ SomeDone(req'[o].queue)
    BY <2>1, <2>2, <2>3, <2>5 DEF StageInv
  <2>6. ASSUME ~misled, server.stage \in {"loading", "ready", "serving"}, NEW o \in Request
        PROVE  req'[o].pc \in {"idle", "waiting"}
    BY <2>2, <2>3, <2>6 DEF StageInv
  <2> QED BY <2>1, <2>4, <2>5, <2>6 DEF StageInv, Alive
<1>13. ASSUME NEW r \in Request, TimeOut(r) PROVE StageInv'
  <2>1. /\ req[r].pc = "waiting" /\ UNCHANGED <<server, shown, unread, misled, missed>>
    BY <1>13 DEF TimeOut
  <2>2. req'[r] = NoRequest /\ \A o \in Request \ {r} : req'[o] = req[o]
    BY <1>13, RequestSteps, RequestSet, RequestTyped DEF RequestAfter
  <2>3. req'[r].pc = "idle" BY <2>2, RequestTyped
  <2>4. server.stage = "serving" => (misled \/ missed) BY <2>1 DEF StageInv
  <2> QED BY <2>1, <2>2, <2>3, <2>4 DEF StageInv, Alive
<1> QED
  BY <1>2, <1>3, <1>4, <1>5, <1>6, <1>7, <1>8, <1>9, <1>10, <1>11, <1>12, <1>13
  DEF StartNext

LEMMA StartInvariant == StartSpec => []StartInv
<1>1. StartInit => StartInv
  <2> SUFFICES ASSUME StartInit PROVE StartInv OBVIOUS
  <2>1. \A r \in Request : req[r] = NoRequest BY DEF StartInit
  <2>2. StartTypeOK
    <3>1. <<>> \in Seq({"START", "KILL"}) /\ <<>> \in Seq(Line) OBVIOUS
    <3>2. 0 \in 0 .. MaxSessions /\ 0 \in 0 .. MaxChatter /\ 0 \in 0 .. MaxTicks
      BY StartAssumption
    <3>3. server \in [session : 0 .. MaxSessions, stage : Stage]
      BY <3>2 DEF StartInit, Stage
    <3>4. req \in [Request -> StartRequest] BY RequestTyped DEF StartInit
    <3> QED BY <3>1, <3>2, <3>3, <3>4 DEF StartInit, StartTypeOK
  <2>3. RequestInv
    <3>1. RequestOK(NoRequest) BY RequestTyped DEF RequestOK
    <3> QED BY <2>1, <3>1 DEF RequestInv
  <2>4. StageInv BY DEF StartInit, StageInv, Alive
  <2>5. SettledInv BY DEF StartInit, SettledInv, Alive, AllAbove
  <2> QED BY <2>2, <2>3, <2>4, <2>5 DEF StartInv
<1>2. StartInv /\ [StartNext]_startVars => StartInv'
  BY StartTyped, RequestInductive, SettledInductive, StageInductive DEF StartInv
<1> QED BY <1>1, <1>2, PTL DEF StartSpec

\* Every variable of ServerStart keeps its type.
THEOREM StartTypeCorrect == StartSpec => []StartTypeOK
<1>1. StartInv => StartTypeOK BY DEF StartInv
<1> QED BY <1>1, StartInvariant, PTL

\* The "Done" line a start request returns is of a session that was not over a
\* tick before it sent START, whatever the hub replayed to it.
THEOREM ReadyIsFresh == StartSpec => []ReadyIsNotStale
<1>1. StartInv => ReadyIsNotStale
  BY DEF StartInv, RequestInv, RequestOK, ReadyIsNotStale
<1> QED BY <1>1, StartInvariant, PTL

\* No time-out of a start request kills a server that has been ready for a
\* tick, unless a torn status.json has let a request in or a full channel has
\* dropped a "Done" line.
THEOREM ServingSpared == StartSpec => ServingIsNotKilled
<1>1. StartInv => ((ReadKill /\ ~misled /\ ~missed) => server.stage # "serving")
  BY DEF StartInv, StageInv, ReadKill, ReadVerb
<1> QED BY <1>1, StartInvariant, PTL DEF ServingIsNotKilled
=============================================================================
