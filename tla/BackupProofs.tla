---------------------------- MODULE BackupProofs ----------------------------
(***************************************************************************)
(* Theorems about Backup for any number of jobs, archives, versions and    *)
(* crashes: the types, that the JVM is told to save again, that archives   *)
(* are whole, that a whole world survives and comes back, and that pruning *)
(* leaves what it is to keep.                                              *)
(***************************************************************************)
EXTENDS Backup, FiniteSetTheorems, SequenceTheorems, WellFoundedInduction, TLAPS

USE BoundAssumption, NoneAssumption, KeepAssumption

Busy == Creating \cup Restoring
\* A world directory is its two halves.
LEMMA WorldFacts ==
  /\ 0 \in Half /\ 1 \in Half
  /\ \A a, b \in Half : <<a, b>> \in World /\ <<a, b>>[1] = a /\ <<a, b>>[2] = b
  /\ \A w \in World : w[1] \in Half /\ w[2] \in Half /\ w = <<w[1], w[2]>>
BY DEF World, Half

\* The bare task, and the empty directory, are of their type.
LEMMA TaskType == Idle \in Task /\ Absent \in World
BY WorldFacts DEF Task, Idle, Label, Absent

\* A step of job j that goes on holding backupMu, or gives it back when it is
\* no longer busy, or does not need it.
LEMMA JobSet ==
  ASSUME Jobs, NEW j \in Job, NEW t \in Task, job' = [job EXCEPT ![j] = t],
         \/ lock' = lock /\ (t.pc \in Busy => lock = j)
         \/ lock' = j /\ lock = None
         \/ lock = j /\ t.pc \notin Busy,
         t.pc \in Restoring => t.name # 0
  PROVE  Jobs'
BY DEF Jobs, Busy

LEMMA GotoSet ==
  ASSUME Jobs, NEW j \in Job, NEW pc \in Label, Goto(j, pc),
         job[j].pc \in Busy, lock' = lock,
         pc \in Restoring => job[j].pc \in Restoring
  PROVE  Jobs'
<1>1. [job[j] EXCEPT !.pc = pc] \in Task BY DEF Jobs, Task
<1>2. job' = [job EXCEPT ![j] = [job[j] EXCEPT !.pc = pc]] BY DEF Goto
<1>3. lock = j BY DEF Jobs, Busy
<1>4. pc \in Restoring => job[j].name # 0 BY DEF Jobs
<1> QED BY <1>1, <1>2, <1>3, <1>4, JobSet DEF Jobs, Task

-----------------------------------------------------------------------------
(* Types *)

LEMMA ServerType ==
  ASSUME TypeOK, Launch \/ Exit \/ SaveHalf \/ SaveRest \/ Obey \/ ClockTicks
  PROVE  TypeOK'
<1>0. ASSUME UNCHANGED <<job, lock>> PROVE Jobs'
  BY <1>0 DEF TypeOK, Jobs
<1> USE <1>0, WorldFacts DEF TypeOK, server, disk, history
<1>1. CASE Launch
  <2>1. version < MaxVersions => version + 1 \in Half BY DEF Half
  <2>2. world' \in World /\ version' \in Half BY <1>1, <2>1 DEF Launch
  <2> QED BY <1>1, <2>2 DEF Launch
<1>2. CASE Exit BY <1>2, EmptySeq DEF Exit
<1>3. CASE SaveHalf
  <2>1. version < MaxVersions => version + 1 \in Half BY DEF Half
  <2> QED BY <1>3, <2>1 DEF SaveHalf
<1>4. CASE SaveRest BY <1>4 DEF SaveRest
<1>5. CASE Obey BY <1>5 DEF Obey
<1>6. CASE ClockTicks BY <1>6 DEF ClockTicks, Second
<1> QED BY <1>1, <1>2, <1>3, <1>4, <1>5, <1>6

LEMMA JobType ==
  ASSUME TypeOK, NEW j \in Job,
         \/ BeginCreate(j) \/ PauseSaving(j) \/ SleepOver(j) \/ ZipHalf(j)
         \/ ZipRest(j) \/ Finalize(j) \/ CreateFails(j) \/ EndCreate(j)
  PROVE  TypeOK'
<1> USE TaskType DEF TypeOK, server, disk, history, Seen
<1>1. CASE BeginCreate(j)
  <2>1. PICK running \in Seen :
          /\ job' = [job EXCEPT ![j] = [Idle EXCEPT
               !.pc = IF running THEN "pause" ELSE "zip1", !.paused = running]]
          /\ overlap' = (overlap \/ (alive /\ ~running))
    BY <1>1 DEF BeginCreate
  <2>2. [Idle EXCEPT !.pc = IF running THEN "pause" ELSE "zip1", !.paused = running] \in Task
    BY DEF Task, Idle, Label, Creating
  <2>3. [Idle EXCEPT !.pc = IF running THEN "pause" ELSE "zip1", !.paused = running].pc
          \notin Restoring
    BY DEF Idle, Restoring
  <2>4. Jobs' BY <1>1, <2>1, <2>2, <2>3, JobSet DEF BeginCreate
  <2> QED BY <1>1, <2>1, <2>4 DEF BeginCreate
<1>2. CASE PauseSaving(j)
  <2>1. Jobs' BY <1>2, GotoSet DEF PauseSaving, Busy, Creating, Label, Restoring
  <2> QED BY <1>2, <2>1 DEF PauseSaving, Send
<1>3. CASE SleepOver(j)
  <2>1. Jobs' BY <1>3, GotoSet DEF SleepOver, Busy, Creating, Label, Restoring
  <2> QED BY <1>3, <2>1 DEF SleepOver
<1>4. CASE ZipHalf(j)
  <2> DEFINE t == [job[j] EXCEPT !.pc = "zip2", !.name = clock, !.zip = <<world[1], 0>>]
  <2>0. job[j] \in Task /\ <<world[1], 0>> \in World BY WorldFacts DEF Jobs
  <2>1. t \in Task /\ t.pc \notin Restoring BY <2>0 DEF Task, Label, Creating, Restoring
  <2>2. job' = [job EXCEPT ![j] = t] BY <1>4 DEF ZipHalf, Jobs
  <2>3. lock = j BY <1>4 DEF ZipHalf, Jobs, Busy, Creating
  <2>4. Jobs' BY <1>4, <2>1, <2>2, <2>3, JobSet DEF ZipHalf
  <2> QED BY <1>4, <2>4 DEF ZipHalf
<1>5. CASE ZipRest(j)
  <2> DEFINE t == [job[j] EXCEPT !.pc = "rename", !.zip = <<job[j].zip[1], world[2]>>]
  <2>0. job[j] \in Task /\ job[j].zip \in World BY DEF Jobs, Task
  <2>1. <<job[j].zip[1], world[2]>> \in World BY <2>0, WorldFacts
  <2>2. t \in Task /\ t.pc \notin Restoring
    BY <2>0, <2>1 DEF Task, Label, Creating, Restoring
  <2>3. job' = [job EXCEPT ![j] = t] BY <1>5 DEF ZipRest, Jobs
  <2>4. lock = j BY <1>5 DEF ZipRest, Jobs, Busy, Creating
  <2>5. Jobs' BY <1>5, <2>2, <2>3, <2>4, JobSet DEF ZipRest
  <2> QED BY <1>5, <2>5 DEF ZipRest
<1>6. CASE Finalize(j)
  <2>1. Jobs' BY <1>6, GotoSet DEF Finalize, Busy, Creating, Label, Restoring
  <2>2. archives' \in [Second -> World \cup {None}]
    BY <1>6 DEF Finalize, Jobs, Task
  <2> QED BY <1>6, <2>1, <2>2 DEF Finalize
<1>7. CASE CreateFails(j)
  <2> DEFINE t == [job[j] EXCEPT !.pc = "resume", !.name = 0]
  <2>1. t \in Task /\ t.pc \notin Restoring BY DEF Jobs, Task, Label, Creating, Restoring
  <2>2. job' = [job EXCEPT ![j] = t] BY <1>7 DEF CreateFails, Jobs
  <2>3. lock = j BY <1>7 DEF CreateFails, Jobs, Busy, Creating
  <2>4. Jobs' BY <1>7, <2>1, <2>2, <2>3, JobSet DEF CreateFails
  <2> QED BY <1>7, <2>4 DEF CreateFails
<1>8. CASE EndCreate(j)
  <2> DEFINE t == [Idle EXCEPT
                !.pc = IF j = Scheduler /\ job[j].name # 0 THEN "list" ELSE "idle"]
  <2>1. t \in Task /\ t.pc \notin Busy
    BY DEF Task, Idle, Label, Pruning, Busy, Creating, Restoring
  <2>2. lock = j BY <1>8 DEF EndCreate, Jobs, Busy, Creating
  <2>3. Jobs' BY <1>8, <2>1, <2>2, JobSet DEF EndCreate, Busy, Restoring
  <2>4. \A running : console' \in Seq({"pause", "resume"})
          \/ ~(Send("resume", running) \/ UNCHANGED console)
    BY DEF Send
  <2>5. console' \in Seq({"pause", "resume"}) /\ cut' \in BOOLEAN
    BY <1>8, <2>4 DEF EndCreate
  <2> QED BY <1>8, <2>3, <2>5 DEF EndCreate
<1> QED BY <1>1, <1>2, <1>3, <1>4, <1>5, <1>6, <1>7, <1>8

LEMMA PruneType ==
  ASSUME TypeOK, NEW j \in Job, ListOld(j) \/ RemoveOld(j)
  PROVE  TypeOK'
<1> USE DEF TypeOK, server, disk, history
<1>1. CASE ListOld(j)
  <2> DEFINE t == [job[j] EXCEPT !.pc = IF BeyondKeep = {} THEN "idle" ELSE "prune",
                                 !.old = BeyondKeep]
  <2>1. job[j] \in Task /\ BeyondKeep \in SUBSET Second
    BY DEF Jobs, BeyondKeep, Existing
  <2>2. t \in Task /\ t.pc \notin Busy
    BY <2>1 DEF Task, Label, Pruning, Busy, Creating, Restoring
  <2>3. job' = [job EXCEPT ![j] = t] BY <1>1 DEF ListOld, Jobs
  <2>4. Jobs' BY <1>1, <2>2, <2>3, JobSet DEF ListOld, Busy, Restoring
  <2> QED BY <1>1, <2>4 DEF ListOld
<1>2. CASE RemoveOld(j)
  <2>1. PICK s \in job[j].old :
          /\ archives' \in {archives, [archives EXCEPT ![s] = None]}
          /\ job' = [job EXCEPT ![j].pc = IF job[j].old = {s} THEN "idle" ELSE @,
                                ![j].old = @ \ {s}]
    BY <1>2 DEF RemoveOld
  <2> DEFINE t == [job[j] EXCEPT !.pc = IF job[j].old = {s} THEN "idle" ELSE job[j].pc,
                                 !.old = job[j].old \ {s}]
  <2>2. job[j] \in Task /\ job[j].old \in SUBSET Second /\ job[j].pc = "prune"
    BY <1>2 DEF Jobs, Task, RemoveOld
  <2>3. t \in Task /\ t.pc \notin Busy
    BY <2>2 DEF Task, Label, Pruning, Busy, Creating, Restoring
  <2>4. job' = [job EXCEPT ![j] = t] BY <2>1 DEF Jobs
  <2>5. Jobs' BY <1>2, <2>3, <2>4, JobSet DEF RemoveOld, Busy, Restoring
  <2>6. archives' \in [Second -> World \cup {None}] BY <2>1
  <2> QED BY <1>2, <2>5, <2>6 DEF RemoveOld
<1> QED BY <1>1, <1>2

LEMMA RestoreType ==
  ASSUME TypeOK, NEW j \in Job,
         \/ \E s \in Second : BeginRestore(j, s)
         \/ MoveAside(j) \/ MoveAsideFails(j) \/ ExtractHalf(j) \/ ExtractRest(j)
         \/ EndRestore(j) \/ RestoreFails(j) \/ PutBack(j)
  PROVE  TypeOK'
<1>o. \A w \in World : Orphaned(w) /\ TypeOK => orphans' \subseteq World
  BY DEF Orphaned, TypeOK
<1>l. \A w \in World : Leavings(w) \subseteq World
  BY WorldFacts, TaskType DEF Leavings
<1>n. \A a, b \in Half : Onto(a, b) \in Half BY DEF Onto
<1> USE TaskType DEF TypeOK, server, disk, history, Seen
<1>0. Idle.pc \notin Busy BY DEF Idle, Busy, Creating, Restoring
<1>1. ASSUME NEW s \in Second, BeginRestore(j, s) PROVE TypeOK'
  <2> DEFINE t == [Idle EXCEPT !.pc = "aside", !.name = s]
  <2>0. s # 0 BY DEF Second
  <2>1. t \in Task /\ t.name = s BY DEF Task, Idle, Label, Restoring
  <2>2. Jobs' BY <1>1, <2>0, <2>1, JobSet DEF BeginRestore
  <2> QED BY <1>1, <2>2 DEF BeginRestore
<1>2. CASE MoveAside(j)
  <2>1. Jobs' BY <1>2, GotoSet DEF MoveAside, Busy, Restoring, Label
  <2> QED BY <1>2, <2>1 DEF MoveAside
<1>3. CASE ExtractHalf(j)
  <2> DEFINE zip == archives[job[j].name]
             t == [job[j] EXCEPT !.pc = "extract2", !.zip = zip]
  <2>1. /\ zip # None /\ job' = [job EXCEPT ![j] = t]
        /\ world' = <<Onto(zip[1], world[1]), world[2]>>
    BY <1>3 DEF ExtractHalf, Jobs
  <2>2. job[j] \in Task /\ job[j].name \in {0} \cup Second BY DEF Jobs, Task
  <2>3. zip \in World
    <3>1. job[j].name \in Second BY <1>3, <2>2 DEF ExtractHalf, Jobs, Restoring
    <3> QED BY <2>1, <3>1
  <2>4. lock = j BY <1>3 DEF ExtractHalf, Jobs, Restoring
  <2>5. t \in Task BY <2>2, <2>3 DEF Task, Label, Restoring
  <2>6. Jobs' BY <1>3, <2>1, <2>4, <2>5, JobSet DEF ExtractHalf, Jobs, Restoring
  <2>7. world' \in World BY <1>n, <2>1, <2>3, WorldFacts
  <2> QED BY <1>3, <2>6, <2>7 DEF ExtractHalf
<1>4. CASE ExtractRest(j)
  <2> DEFINE t == [job[j] EXCEPT !.pc = "rest", !.zip = Absent]
  <2>1. t \in Task BY DEF Jobs, Task, Label, Restoring
  <2>2. job' = [job EXCEPT ![j] = t] BY <1>4 DEF ExtractRest, Jobs
  <2>3. lock = j BY <1>4 DEF ExtractRest, Jobs, Restoring
  <2>4. Jobs' BY <1>4, <2>1, <2>2, <2>3, JobSet DEF ExtractRest, Jobs, Restoring
  <2>5. job[j].zip \in World BY DEF Jobs, Task
  <2>6. world' \in World BY <1>4, <1>n, <2>5, WorldFacts DEF ExtractRest
  <2> QED BY <1>4, <2>4, <2>6 DEF ExtractRest
<1>5. CASE EndRestore(j)
  <2>1. Jobs' BY <1>0, <1>5, JobSet DEF EndRestore, Jobs, Busy, Restoring
  <2>2. orphans' \subseteq World BY <1>5, <1>l, <1>o DEF EndRestore
  <2> QED BY <1>5, <2>1, <2>2 DEF EndRestore
<1>6. CASE RestoreFails(j)
  <2>1. Jobs' BY <1>6, GotoSet DEF RestoreFails, Busy, Restoring, Label
  <2>2. world' \in World BY <1>6, <1>l DEF RestoreFails
  <2> QED BY <1>6, <2>1, <2>2 DEF RestoreFails
<1>7. CASE PutBack(j)
  <2>1. Jobs' BY <1>0, <1>7, JobSet DEF PutBack, Jobs, Busy, Restoring
  <2>2. orphans' \subseteq World /\ world' \in World /\ wrecked' \in BOOLEAN
    BY <1>7, <1>o DEF PutBack
  <2> QED BY <1>7, <2>1, <2>2 DEF PutBack
<1>8. CASE MoveAsideFails(j)
  <2>1. Jobs' BY <1>0, <1>8, JobSet DEF MoveAsideFails, Jobs, Busy, Restoring
  <2> QED BY <1>8, <2>1 DEF MoveAsideFails
<1> QED BY <1>1, <1>2, <1>3, <1>4, <1>5, <1>6, <1>7, <1>8

LEMMA TypeStep == TypeOK /\ [Next]_vars => TypeOK'
<1> SUFFICES ASSUME TypeOK, [Next]_vars PROVE TypeOK'
  OBVIOUS
<1>1. ASSUME NEW s \in Second, DeleteBackup(s) PROVE TypeOK'
  BY <1>1 DEF DeleteBackup, TypeOK, Jobs, server, disk
<1>2. CASE Crash
  <2>1. Jobs' BY <1>2, TaskType DEF Crash, Jobs, Idle, Creating, Restoring
  <2>2. crashes' \in 0 .. MaxCrashes BY <1>2 DEF Crash, TypeOK
  <2>3. orphans' \subseteq World BY <1>2 DEF Crash, Orphaned, TypeOK
  <2> QED BY <1>2, <2>1, <2>2, <2>3, TaskType DEF Crash, TypeOK, server, disk
<1>3. CASE UNCHANGED vars
  BY <1>3 DEF vars, server, disk, history, TypeOK, Jobs
<1> QED BY <1>1, <1>2, <1>3, ServerType, JobType, PruneType, RestoreType DEF Next

LEMMA TypeInit == Init => TypeOK
<1> SUFFICES ASSUME Init PROVE TypeOK
  OBVIOUS
<1>1. Jobs BY TaskType DEF Init, Jobs, Idle, Creating, Restoring
<1>2. world \in World /\ version \in Half BY WorldFacts DEF Init
<1>3. crashes \in 0 .. MaxCrashes /\ clock \in Second /\ archives \in [Second -> World \cup {None}]
  BY DEF Init, Second
<1> QED BY <1>1, <1>2, <1>3, TaskType, EmptySeq DEF Init, TypeOK

\* Every variable keeps its type, a job that works on the world holds backupMu,
\* and a restore knows which archive it restores.
THEOREM TypeCorrect == Spec => []TypeOK
BY TypeInit, TypeStep, PTL DEF Spec

-----------------------------------------------------------------------------
(* The JVM is told to save again *)

Command == {"pause", "resume"}
LastCommand == console[Len(console)]

\* Whether the JVM will save on its own once it has read its console
SavesNext == IF console = <<>> THEN saveOn ELSE LastCommand = "resume"

Unpaused == \A j \in Job : ~job[j].paused

\* A job that paused saving is still at work and will send save-on; when there
\* is none, the last word the JVM has had, or will read, is save-on.
SavingInv ==
  /\ ~alive => console = <<>>
  /\ \A j \in Job : /\ job[j].paused => job[j].pc \in Creating
                    /\ job[j].pc \in {"pause", "sleep"} => job[j].paused
  /\ (alive /\ ~cut /\ Unpaused) => SavesNext

\* What the JVM reads last after one more command, and after reading one
LEMMA LastFacts ==
  ASSUME NEW q \in Seq(Command)
  PROVE  /\ \A c \in Command : /\ Append(q, c) # <<>>
                               /\ Append(q, c)[Len(Append(q, c))] = c
         /\ q # <<>> => /\ Tail(q) = <<>> => Head(q) = q[Len(q)]
                        /\ Tail(q) # <<>> => Tail(q)[Len(Tail(q))] = q[Len(q)]
<1>1. \A c \in Command : /\ Append(q, c) # <<>>
                         /\ Append(q, c)[Len(Append(q, c))] = c
  OBVIOUS
<1>2. ASSUME q # <<>> PROVE /\ Tail(q) = <<>> => Head(q) = q[Len(q)]
                            /\ Tail(q) # <<>> => Tail(q)[Len(Tail(q))] = q[Len(q)]
  <2>1. Len(q) \in Nat /\ Len(q) >= 1 /\ Head(q) = q[1] BY <1>2
  <2>2. Len(Tail(q)) = Len(q) - 1 /\ \A i \in 1 .. Len(q) - 1 : Tail(q)[i] = q[i + 1]
    BY <1>2
  <2>3. Tail(q) \in Seq(Command) BY <1>2
  <2>4. ASSUME Tail(q) = <<>> PROVE Head(q) = q[Len(q)]
    <3>1. Len(Tail(q)) = 0 BY <2>4, EmptySeq
    <3> QED BY <3>1, <2>1, <2>2
  <2>5. ASSUME Tail(q) # <<>> PROVE Tail(q)[Len(Tail(q))] = q[Len(q)]
    <3>1. Len(Tail(q)) # 0 BY <2>3, <2>5, EmptySeq
    <3>2. Len(q) - 1 \in 1 .. Len(q) - 1
      <4>1. Len(q) - 1 # 0 BY <3>1, <2>2
      <4>2. \A n \in Nat : n >= 1 /\ n - 1 # 0 => n - 1 \in 1 .. n - 1 OBVIOUS
      <4>3. Len(q) \in Nat /\ Len(q) >= 1 BY <2>1
      <4> QED BY ONLY <4>1, <4>2, <4>3
    <3>3. Tail(q)[Len(q) - 1] = q[(Len(q) - 1) + 1] BY <3>2, <2>2
    <3>4. (Len(q) - 1) + 1 = Len(q) BY <2>1
    <3> QED BY <3>3, <3>4, <2>2
  <2> QED BY <2>4, <2>5
<1> QED BY <1>1, <1>2

\* A step of job j that neither pauses saving nor ends a pause
LEMMA SavingKept ==
  ASSUME TypeOK, TypeOK', SavingInv, NEW j \in Job,
         \A i \in Job \ {j} : job'[i] = job[i],
         job'[j].paused = job[j].paused,
         job'[j].paused => job'[j].pc \in Creating,
         job'[j].pc \in {"pause", "sleep"} => job'[j].paused,
         UNCHANGED <<alive, saveOn, console, cut>>
  PROVE  SavingInv'
BY DEF SavingInv, SavesNext, LastCommand, Unpaused

\* Nothing reaches a server that is down.
LEMMA SendsAlive ==
  ASSUME NEW cmd, NEW running \in Seen, Send(cmd, running), ~alive
  PROVE  UNCHANGED console
BY DEF Send

\* Whatever the server does, the pause stays paired with its end.
LEMMA SavingByServer ==
  ASSUME TypeOK, SavingInv,
         Launch \/ Exit \/ SaveHalf \/ SaveRest \/ Obey \/ ClockTicks
  PROVE  SavingInv'
<1> USE DEF SavingInv, SavesNext, LastCommand, Unpaused, TypeOK, server, disk, history
<1>1. CASE Launch BY <1>1 DEF Launch
<1>2. CASE Exit BY <1>2 DEF Exit
<1>3. CASE SaveHalf \/ SaveRest \/ ClockTicks
  BY <1>3 DEF SaveHalf, SaveRest, ClockTicks
<1>4. CASE Obey
  <2>1. /\ Tail(console) = <<>> => Head(console) = LastCommand
        /\ Tail(console) # <<>> => Tail(console)[Len(Tail(console))] = LastCommand
    BY <1>4, LastFacts DEF Obey, Command
  <2> QED BY <1>4, <2>1 DEF Obey
<1> QED BY <1>1, <1>2, <1>3, <1>4

LEMMA SavingByJob ==
  ASSUME TypeOK, TypeOK', SavingInv, NEW j \in Job,
         \/ BeginCreate(j) \/ PauseSaving(j) \/ SleepOver(j) \/ ZipHalf(j)
         \/ ZipRest(j) \/ Finalize(j) \/ CreateFails(j) \/ EndCreate(j)
  PROVE  SavingInv'
<1> USE DEF SavingInv, SavesNext, LastCommand, Unpaused, TypeOK, Jobs, Task,
            server, disk, history
<1>1. CASE BeginCreate(j)
  <2>1. PICK running \in Seen : job' = [job EXCEPT ![j] = [Idle EXCEPT
          !.pc = IF running THEN "pause" ELSE "zip1", !.paused = running]]
    BY <1>1 DEF BeginCreate
  <2>2. /\ job'[j].paused = running
        /\ job'[j].pc = IF running THEN "pause" ELSE "zip1"
        /\ \A i \in Job \ {j} : job'[i] = job[i]
    BY <2>1 DEF Idle
  <2>3. ~job[j].paused BY <1>1 DEF BeginCreate, Creating
  <2>4. UNCHANGED <<alive, saveOn, console, cut>> BY <1>1 DEF BeginCreate
  <2>5. Unpaused' => Unpaused BY <2>2, <2>3
  <2>6. \A i \in Job : /\ job'[i].paused => job'[i].pc \in Creating
                       /\ job'[i].pc \in {"pause", "sleep"} => job'[i].paused
    BY <2>2 DEF Creating
  <2> QED BY <2>4, <2>5, <2>6
<1>2. CASE PauseSaving(j)
  <2>1. job'[j].paused /\ job'[j].pc = "sleep" /\ \A i \in Job \ {j} : job'[i] = job[i]
    BY <1>2 DEF PauseSaving, Goto
  <2>2. UNCHANGED alive /\ (~alive => UNCHANGED console)
    <3>1. PICK running \in Seen : Send("pause", running) BY <1>2 DEF PauseSaving
    <3> QED BY <1>2, <3>1, SendsAlive DEF PauseSaving
  <2> QED BY <2>1, <2>2 DEF Creating
<1>3. CASE SleepOver(j) \/ Finalize(j)
  BY <1>3, SMTT(30) DEF SleepOver, Finalize, Goto, Creating
<1>4. CASE ZipHalf(j) \/ ZipRest(j) \/ CreateFails(j)
  <2>1. /\ job'[j].paused = job[j].paused
        /\ job'[j].pc \in {"zip2", "rename", "resume"}
        /\ \A i \in Job \ {j} : job'[i] = job[i]
    BY <1>4 DEF ZipHalf, ZipRest, CreateFails
  <2>2. UNCHANGED <<alive, saveOn, console, cut>>
    BY <1>4 DEF ZipHalf, ZipRest, CreateFails
  <2> QED BY <2>1, <2>2, SavingKept DEF Creating
<1>5. CASE EndCreate(j)
  <2>1. ~job'[j].paused /\ job'[j].pc \in {"idle", "list"}
        /\ \A i \in Job \ {j} : job'[i] = job[i]
    BY <1>5 DEF EndCreate, Idle
  <2>2. CASE ~job[j].paused
    BY <1>5, <2>1, <2>2, SavingKept DEF EndCreate
  <2>3. CASE job[j].paused
    <3>1. PICK running \in Seen : Send("resume", running) /\ cut' = (cut \/ (alive /\ ~running))
      BY <1>5, <2>3 DEF EndCreate
    <3>2. UNCHANGED <<alive, saveOn>> BY <1>5 DEF EndCreate
    <3>3. ~alive => UNCHANGED console BY <3>1, SendsAlive
    <3>4. (alive /\ ~cut') => console' = Append(console, "resume")
      BY <3>1 DEF Seen, Send
    <3>5. (alive /\ ~cut') => SavesNext'
      BY <3>4, LastFacts DEF Command
    <3> QED BY <2>1, <3>2, <3>3, <3>5
  <2> QED BY <2>2, <2>3
<1> QED BY <1>1, <1>2, <1>3, <1>4, <1>5

LEMMA SavingStep == TypeOK /\ TypeOK' /\ SavingInv /\ [Next]_vars => SavingInv'
<1> SUFFICES ASSUME TypeOK, TypeOK', SavingInv, [Next]_vars PROVE SavingInv'
  OBVIOUS
<1> USE DEF SavingInv, SavesNext, LastCommand, Unpaused, TypeOK, Jobs, Task,
            server, disk, history
<1>1. ASSUME NEW j \in Job, ListOld(j) \/ RemoveOld(j) PROVE SavingInv'
  <2>1. /\ job'[j].paused = job[j].paused
        /\ job[j].pc \in Pruning /\ job'[j].pc \in {"prune", "idle"}
        /\ \A i \in Job \ {j} : job'[i] = job[i]
    BY <1>1 DEF ListOld, RemoveOld, Pruning
  <2>2. UNCHANGED <<alive, saveOn, console, cut>> BY <1>1 DEF ListOld, RemoveOld
  <2> QED BY <2>1, <2>2, SavingKept DEF Creating, Pruning
<1>2. ASSUME NEW j \in Job, NEW s \in Second, BeginRestore(j, s) PROVE SavingInv'
  BY <1>2 DEF BeginRestore, Idle, Creating
<1>3. ASSUME NEW j \in Job, MoveAside(j) \/ RestoreFails(j) PROVE SavingInv'
  BY <1>3, SMTT(30) DEF MoveAside, RestoreFails, Goto, Creating
<1>4. ASSUME NEW j \in Job, ExtractHalf(j) \/ ExtractRest(j) PROVE SavingInv'
  <2>1. /\ job'[j].paused = job[j].paused
        /\ job[j].pc \in {"extract1", "extract2"} /\ job'[j].pc \in {"extract2", "rest"}
        /\ \A i \in Job \ {j} : job'[i] = job[i]
    BY <1>4 DEF ExtractHalf, ExtractRest
  <2>2. UNCHANGED <<alive, saveOn, console, cut>> BY <1>4 DEF ExtractHalf, ExtractRest
  <2> QED BY <2>1, <2>2, SavingKept DEF Creating
<1>5. ASSUME NEW j \in Job, EndRestore(j) \/ PutBack(j) \/ MoveAsideFails(j)
      PROVE  SavingInv'
  <2>1. /\ job[j].pc \in {"aside", "rest", "putback"}
        /\ ~job'[j].paused /\ job'[j].pc = "idle"
        /\ \A i \in Job \ {j} : job'[i] = job[i]
    BY <1>5 DEF EndRestore, PutBack, MoveAsideFails, Idle
  <2>2. UNCHANGED <<alive, saveOn, console, cut>>
    BY <1>5 DEF EndRestore, PutBack, MoveAsideFails
  <2> QED BY <2>1, <2>2, SavingKept DEF Creating
<1>6. ASSUME NEW s \in Second, DeleteBackup(s) PROVE SavingInv'
  BY <1>6 DEF DeleteBackup
<1>7. CASE Crash
  BY <1>7 DEF Crash, Idle
<1>8. CASE UNCHANGED vars BY <1>8 DEF vars
<1> QED
  BY <1>1, <1>2, <1>3, <1>4, <1>5, <1>6, <1>7, <1>8, SavingByServer, SavingByJob DEF Next

\* A backup does not leave the JVM paused, however it ends, unless the API
\* died or its save-on got lost, and then only until the JVM's next start.
THEOREM SavingResumes == Spec => []SavingComesBack
<1>1. Init => SavingInv
  BY DEF Init, SavingInv, SavesNext, Unpaused, Idle
<1>2. TypeOK /\ SavingInv => SavingComesBack
  BY DEF TypeOK, Jobs, SavingInv, SavingComesBack, SavesNext, Unpaused
<1> QED BY <1>1, <1>2, SavingStep, TypeCorrect, PTL DEF Spec
-----------------------------------------------------------------------------
(* Whole archives, and a whole world *)

Zipping == {"zip1", "zip2", "rename"}
Extracting == {"extract1", "extract2", "rest", "putback"}
Even == world[1] = world[2]

\* Nobody writes to the world.
Quiet == ~alive \/ (~saveOn /\ console = <<>> /\ Even)

\* While files are read into a zip nothing changes them.
CreateInv(j) ==
  /\ job[j].pc \in Zipping => Quiet
  /\ job[j].pc = "sleep" => Quiet \/ (console # <<>> /\ LastCommand = "pause")
  /\ job[j].pc = "zip2" => job[j].zip[1] # 0 /\ job[j].zip[1] = world[1]
  /\ job[j].pc = "rename" => Whole(job[j].zip)

\* A restore works on a stopped server, and puts a whole archive where nothing is.
RestoreInv(j) ==
  /\ job[j].pc \in Restoring => ~alive
  /\ job[j].pc = "extract1" => world = Absent
  /\ job[j].pc = "extract2" => Whole(job[j].zip) /\ world = <<job[j].zip[1], 0>>
  /\ job[j].pc = "rest" => Whole(world)

JobInv(j) == CreateInv(j) /\ RestoreInv(j)

\* While a restore is incomplete the old world is aside; otherwise there is one
\* in its place, which a JVM may be writing to.
Back ==
  IF lock \in Job /\ job[lock].pc \in Extracting
  THEN Whole(aside) ELSE Whole(world) \/ alive

Sound ==
  /\ alive => world[1] # 0
  /\ ArchivesAreWhole
  /\ Back
  /\ \A j \in Job : JobInv(j)

\* What a restore that was wrecked had moved aside is still there.
Saved == \E w \in orphans : Whole(w)

WorldInv == ~overlap => IF wrecked THEN Saved ELSE Sound

-----------------------------------------------------------------------------
\* A job that does not hold backupMu is promised nothing.
LEMMA IdleInv ==
  ASSUME NEW i \in Job, job'[i].pc \notin Busy
  PROVE  JobInv(i)'
BY DEF JobInv, CreateInv, RestoreInv, Zipping, Extracting, Busy, Creating, Restoring

\* One job at a time is busy.
LEMMA OthersIdle ==
  ASSUME TypeOK, NEW i \in Job, lock # i
  PROVE  job[i].pc \notin Busy
BY DEF TypeOK, Jobs, Busy

\* A step of the job that holds backupMu, or takes it, concerns no other.
LEMMA MyInv ==
  ASSUME TypeOK, NEW j \in Job, lock = j \/ lock = None,
         \A i \in Job \ {j} : job'[i] = job[i], JobInv(j)'
  PROVE  \A i \in Job : JobInv(i)'
<1>1. ASSUME NEW i \in Job \ {j} PROVE JobInv(i)'
  <2>1. job[i].pc \notin Busy BY OthersIdle
  <2> QED BY <2>1, IdleInv
<1> QED BY <1>1

\* The world is whole when both halves are of one version.
LEMMA WholeFacts ==
  /\ \A a, b \in Half : /\ Whole(<<a, b>>) <=> (a = b /\ a # 0)
                        /\ <<a, b>> = Absent <=> (a = 0 /\ b = 0)
  /\ \A w \in World : /\ Whole(w) <=> (w[1] = w[2] /\ w[1] # 0)
                      /\ w = Absent <=> (w[1] = 0 /\ w[2] = 0)
<1>1. \A w \in World : /\ Whole(w) <=> (w[1] = w[2] /\ w[1] # 0)
                       /\ w = Absent <=> (w[1] = 0 /\ w[2] = 0)
  BY WorldFacts DEF Whole, Absent
<1>2. ASSUME NEW a \in Half, NEW b \in Half
      PROVE  /\ Whole(<<a, b>>) <=> (a = b /\ a # 0)
             /\ <<a, b>> = Absent <=> (a = 0 /\ b = 0)
  <2>1. <<a, b>> \in World /\ <<a, b>>[1] = a /\ <<a, b>>[2] = b BY WorldFacts
  <2> QED BY <1>1, <2>1
<1> QED BY <1>1, <1>2

\* What the server does, while nobody else is at work on the world or it is one
\* that reads a quiet world, or replaces that of a stopped server.
LEMMA SoundByServer ==
  ASSUME TypeOK, TypeOK', Sound, ~overlap',
         Launch \/ Exit \/ SaveHalf \/ SaveRest \/ Obey \/ ClockTicks
  PROVE  Sound'
<1> USE DEF Sound, server, disk, history
<1>0. world \in World /\ world' \in World /\ version' \in Half /\ version \in Half
  BY DEF TypeOK
<1>w. Whole(world) <=> (world[1] = world[2] /\ world[1] # 0)
  BY <1>0, WholeFacts
<1>a. UNCHANGED <<archives, job, lock, aside, orphans>>
  BY DEF Launch, Exit, SaveHalf, SaveRest, Obey, ClockTicks
<1>b. ArchivesAreWhole'
  BY <1>a DEF ArchivesAreWhole, Existing
<1>1. CASE Launch
  <2>1. lock = None BY <1>1 DEF Launch
  <2>2. \A j \in Job : JobInv(j)'
    BY <1>a, <2>1, OthersIdle, IdleInv DEF TypeOK
  <2>3. world'[1] # 0
    <3>1. CASE world[1] = 0
      <4>1. version' = version + 1 /\ world' = <<version', world[2]>> BY <1>1, <3>1 DEF Launch
      <4>2. version' # 0 BY <4>1, <1>0 DEF Half
      <4> QED BY <4>1, <4>2
    <3>2. CASE world[1] # 0 BY <1>1, <3>2 DEF Launch
    <3> QED BY <3>1, <3>2
  <2>4. alive' BY <1>1 DEF Launch
  <2> QED BY <1>a, <1>b, <2>1, <2>2, <2>3, <2>4, NoneAssumption DEF Back
<1>2. CASE Exit
  <2>1. alive /\ ~alive' /\ UNCHANGED world /\ Whole(world)
    BY <1>2, <1>w DEF Exit
  <2>2. \A j \in Job : JobInv(j)'
    BY <1>a, <2>1 DEF JobInv, CreateInv, RestoreInv, Quiet, Zipping, Restoring
  <2>3. \A j \in Job : job[j].pc \notin Extracting
    BY <2>1 DEF JobInv, RestoreInv, Extracting, Restoring
  <2> QED BY <1>a, <1>b, <2>1, <2>2, <2>3 DEF Back, Whole
<1>3. ASSUME alive, alive', world'[1] # 0, \A j \in Job : CreateInv(j)' PROVE Sound'
  <2>1. \A j \in Job : job[j].pc \notin Restoring
    BY <1>3 DEF JobInv, RestoreInv
  <2>2. \A j \in Job : JobInv(j)'
    BY <1>3, <1>a, <2>1 DEF JobInv, RestoreInv, Restoring
  <2> QED BY <1>3, <1>a, <1>b, <2>1, <2>2 DEF Back, Restoring, Extracting
<1>4. CASE SaveHalf
  <2>1. alive /\ alive' /\ saveOn /\ UNCHANGED <<saveOn, console>> BY <1>4 DEF SaveHalf
  <2>2. \A j \in Job : CreateInv(j)'
    BY <1>a, <2>1 DEF JobInv, CreateInv, Quiet, Zipping, LastCommand
  <2>3. world' = <<version', world[2]>> /\ version' = version + 1 BY <1>4 DEF SaveHalf
  <2>4. world'[1] # 0 BY <2>3, <1>0 DEF Half
  <2> QED BY <1>3, <2>1, <2>2, <2>4
<1>5. CASE SaveRest
  <2>1. alive /\ alive' /\ UNCHANGED <<saveOn, console>> BY <1>5 DEF SaveRest
  <2>2. world' = <<world[1], world[1]>> BY <1>5 DEF SaveRest
  <2>3. world'[1] = world[1] /\ world'[2] = world[1] BY <2>2
  <2>4. \A j \in Job : CreateInv(j)'
    BY <1>a, <2>1, <2>3 DEF JobInv, CreateInv, Quiet, Zipping, LastCommand, Even
  <2> QED BY <1>3, <2>1, <2>3, <2>4
<1>6. CASE Obey
  <2>1. /\ alive /\ alive' /\ console # <<>>
        /\ console' = Tail(console) /\ saveOn' = (Head(console) = "resume")
        /\ world' = IF Head(console) = "pause" THEN <<world[1], world[1]>> ELSE world
    BY <1>6 DEF Obey
  <2>2. world'[1] = world[1] /\ (Head(console) = "pause" => world'[2] = world'[1])
    BY <2>1
  <2>3. /\ Tail(console) = <<>> => Head(console) = LastCommand
        /\ Tail(console) # <<>> => Tail(console)[Len(Tail(console))] = LastCommand
    BY <2>1, LastFacts DEF TypeOK, Command, LastCommand
  <2>4. ASSUME NEW j \in Job PROVE CreateInv(j)'
    <3>1. ~Quiet BY <2>1 DEF Quiet
    <3>2. job[j].pc \notin Zipping BY <3>1 DEF JobInv, CreateInv
    <3>3. ASSUME job[j].pc = "sleep"
          PROVE  Quiet' \/ (console' # <<>> /\ LastCommand' = "pause")
      <4>1. LastCommand = "pause" BY <3>1, <3>3 DEF JobInv, CreateInv
      <4>2. CASE Tail(console) = <<>>
        BY <2>1, <2>2, <2>3, <4>1, <4>2 DEF Quiet, Even
      <4>3. CASE Tail(console) # <<>>
        BY <2>1, <2>3, <4>1, <4>3 DEF LastCommand
      <4> QED BY <4>2, <4>3
    <3> QED BY <1>a, <3>2, <3>3 DEF CreateInv, Zipping
  <2> QED BY <1>3, <2>1, <2>2, <2>4
<1>7. CASE ClockTicks
  <2>1. UNCHANGED <<server, disk>> BY <1>7 DEF ClockTicks
  <2>2. \A j \in Job : JobInv(j)'
    BY <1>a, <2>1 DEF JobInv, CreateInv, RestoreInv, Quiet, LastCommand, Even
  <2> QED BY <1>a, <1>b, <2>1, <2>2 DEF Back
<1> QED BY <1>1, <1>2, <1>4, <1>5, <1>6, <1>7

\* Making a backup changes neither the world nor what is kept aside.
LEMMA SoundByCreate ==
  ASSUME TypeOK, TypeOK', Sound, ~overlap', NEW j \in Job,
         \/ BeginCreate(j) \/ PauseSaving(j) \/ SleepOver(j) \/ ZipHalf(j)
         \/ ZipRest(j) \/ CreateFails(j) \/ Finalize(j) \/ EndCreate(j)
  PROVE  Sound'
<1> USE DEF Sound, server, disk, history
<1>0. world \in World /\ job[j] \in Task /\ job[j].zip \in World
  BY DEF TypeOK, Jobs, Task
<1>1. UNCHANGED <<alive, saveOn, world, aside>>
  BY DEF BeginCreate, PauseSaving, SleepOver, ZipHalf, ZipRest, CreateFails, Finalize, EndCreate
<1>2. \A i \in Job \ {j} : job'[i] = job[i]
  BY DEF BeginCreate, PauseSaving, SleepOver, ZipHalf, ZipRest, CreateFails, Finalize,
         EndCreate, Goto, TypeOK, Jobs
<1>3. lock = j \/ lock = None
  BY DEF BeginCreate, PauseSaving, SleepOver, ZipHalf, ZipRest, CreateFails, Finalize,
         EndCreate, TypeOK, Jobs, Creating
<1>4. /\ job[j].pc \notin Extracting
      /\ lock' \in Job => lock' = j
      /\ job'[j].pc \notin Restoring
  <2> USE DEF TypeOK, Jobs, Extracting, Restoring, Creating
  <2>1. CASE BeginCreate(j)
    <3>0. PICK running \in Seen : job' = [job EXCEPT ![j] = [Idle EXCEPT
            !.pc = IF running THEN "pause" ELSE "zip1", !.paused = running]]
      BY <2>1 DEF BeginCreate
    <3>1. job'[j].pc = IF running THEN "pause" ELSE "zip1" BY <3>0 DEF Idle
    <3> QED BY <2>1, <3>1 DEF BeginCreate
  <2>2. CASE PauseSaving(j) \/ SleepOver(j) \/ Finalize(j)
    <3>1. job'[j].pc \in {"sleep", "zip1", "resume"}
      BY <1>0, <2>2 DEF PauseSaving, SleepOver, Finalize, Goto, Task
    <3> QED BY <2>2, <3>1 DEF PauseSaving, SleepOver, Finalize
  <2>3. CASE ZipHalf(j) \/ ZipRest(j) \/ CreateFails(j)
    <3>1. job'[j].pc \in {"zip2", "rename", "resume"}
      BY <1>0, <2>3 DEF ZipHalf, ZipRest, CreateFails, Task
    <3> QED BY <2>3, <3>1 DEF ZipHalf, ZipRest, CreateFails
  <2>4. CASE EndCreate(j) BY <2>4 DEF EndCreate, Idle
  <2> QED BY <2>1, <2>2, <2>3, <2>4
<1>5. lock \in Job /\ job[lock].pc \in Extracting => FALSE BY <1>3, <1>4, NoneAssumption
<1>6. CreateInv(j)' /\ ArchivesAreWhole' => Sound'
  <2>1. RestoreInv(j)' BY <1>4 DEF RestoreInv, Restoring
  <2>2. lock' \in Job /\ job'[lock'].pc \in Extracting => FALSE
    BY <1>4 DEF Extracting, Restoring
  <2>3. Back' BY <1>1, <1>5, <2>2 DEF Back, Whole
  <2> QED BY <1>1, <1>2, <1>3, <2>1, <2>3, MyInv DEF JobInv
<1>7. CASE BeginCreate(j)
  <2>1. PICK running \in Seen :
          /\ job' = [job EXCEPT ![j] = [Idle EXCEPT
               !.pc = IF running THEN "pause" ELSE "zip1", !.paused = running]]
          /\ overlap' = (overlap \/ (alive /\ ~running))
    BY <1>7 DEF BeginCreate
  <2>2. job'[j].pc = IF running THEN "pause" ELSE "zip1" BY <2>1 DEF TypeOK, Jobs, Idle
  <2>3. ~(alive /\ ~running) BY <2>1
  <2>4. job'[j].pc = "zip1" => ~alive BY <2>2, <2>3
  <2>5. job'[j].pc \in {"pause", "zip1"} BY <2>2
  <2>6. CreateInv(j)' BY <1>1, <2>4, <2>5 DEF CreateInv, Zipping, Quiet
  <2> QED BY <1>6, <1>7, <2>6 DEF BeginCreate, ArchivesAreWhole, Existing
<1>8. CASE PauseSaving(j)
  <2>1. PICK running \in Seen :
          Send("pause", running) /\ overlap' = (overlap \/ (alive /\ ~running))
    BY <1>8 DEF PauseSaving
  <2>2. alive => running BY <2>1
  <2>3. alive => console' = Append(console, "pause") BY <2>1, <2>2 DEF Send
  <2>4. alive => console' # <<>> /\ LastCommand' = "pause"
    BY <2>3, LastFacts DEF LastCommand, Command, TypeOK
  <2>5. job'[j].pc = "sleep" BY <1>8, <1>0 DEF PauseSaving, Goto, TypeOK, Jobs
  <2>6. CreateInv(j)' BY <1>1, <2>4, <2>5 DEF CreateInv, Zipping, Quiet
  <2> QED BY <1>6, <1>8, <2>6 DEF PauseSaving, ArchivesAreWhole, Existing
<1>9. CASE SleepOver(j)
  <2>1. job'[j].pc = "zip1" BY <1>9, <1>0 DEF SleepOver, Goto, TypeOK, Jobs
  <2>2. console = <<>> BY <1>9 DEF SleepOver
  <2>3. Quiet /\ UNCHANGED console BY <1>9, <2>2 DEF SleepOver, JobInv, CreateInv
  <2>4. CreateInv(j)' BY <1>1, <2>1, <2>3 DEF CreateInv, Zipping, Quiet, Even
  <2> QED BY <1>6, <1>9, <2>4 DEF SleepOver, ArchivesAreWhole, Existing
<1>10. CASE ZipHalf(j)
  <2>1. job'[j].pc = "zip2" /\ job'[j].zip = <<world[1], 0>>
    BY <1>10, <1>0 DEF ZipHalf, TypeOK, Jobs, Task
  <2>2. Quiet /\ UNCHANGED console
    BY <1>10 DEF ZipHalf, JobInv, CreateInv, Zipping
  <2>3. world[1] # 0 BY <1>0, <1>5, WholeFacts DEF Back
  <2>4. CreateInv(j)' BY <1>1, <2>1, <2>2, <2>3 DEF CreateInv, Zipping, Quiet, Even
  <2> QED BY <1>6, <1>10, <2>4 DEF ZipHalf, ArchivesAreWhole, Existing
<1>11. CASE ZipRest(j)
  <2>1. job'[j].pc = "rename" /\ job'[j].zip = <<job[j].zip[1], world[2]>>
    BY <1>11, <1>0 DEF ZipRest, TypeOK, Jobs, Task
  <2>2. Quiet /\ UNCHANGED console
        /\ job[j].zip[1] # 0 /\ job[j].zip[1] = world[1]
    BY <1>11 DEF ZipRest, JobInv, CreateInv, Zipping
  <2>3. Even BY <1>0, <1>5, <2>2, WholeFacts DEF Quiet, Back, Even
  <2>4. Whole(job'[j].zip) BY <1>0, <2>1, <2>2, <2>3, WholeFacts, WorldFacts DEF Even
  <2>5. CreateInv(j)' BY <1>1, <2>1, <2>2, <2>4 DEF CreateInv, Zipping, Quiet, Even
  <2> QED BY <1>6, <1>11, <2>5 DEF ZipRest, ArchivesAreWhole, Existing
<1>12. CASE CreateFails(j)
  <2>1. job'[j].pc = "resume" BY <1>12, <1>0 DEF CreateFails, TypeOK, Jobs, Task
  <2>2. CreateInv(j)' BY <2>1 DEF CreateInv, Zipping
  <2> QED BY <1>6, <1>12, <2>2 DEF CreateFails, ArchivesAreWhole, Existing
<1>13. CASE Finalize(j)
  <2>1. job'[j].pc = "resume" BY <1>13, <1>0 DEF Finalize, Goto, TypeOK, Jobs
  <2>2. CreateInv(j)' BY <2>1 DEF CreateInv, Zipping
  <2>3. Whole(job[j].zip) BY <1>13 DEF Finalize, JobInv, CreateInv
  <2>4. archives' = [archives EXCEPT ![job[j].name] = job[j].zip] BY <1>13 DEF Finalize
  <2>5. ArchivesAreWhole' BY <2>3, <2>4 DEF ArchivesAreWhole, Existing, TypeOK, Whole
  <2> QED BY <1>6, <2>2, <2>5
<1>14. CASE EndCreate(j)
  <2>1. job'[j].pc \in {"idle", "list"} BY <1>14 DEF EndCreate, TypeOK, Jobs, Idle
  <2>2. CreateInv(j)' BY <2>1 DEF CreateInv, Zipping
  <2> QED BY <1>6, <1>14, <2>2 DEF EndCreate, ArchivesAreWhole, Existing
<1> QED BY <1>7, <1>8, <1>9, <1>10, <1>11, <1>12, <1>13, <1>14

\* A restore needs a whole archive and keeps the world it replaces.
LEMMA SoundByRestore ==
  ASSUME TypeOK, TypeOK', Sound, ~overlap', ~wrecked', NEW j \in Job,
         \/ \E s \in Second : BeginRestore(j, s)
         \/ MoveAside(j) \/ MoveAsideFails(j) \/ ExtractHalf(j) \/ ExtractRest(j)
         \/ EndRestore(j) \/ RestoreFails(j) \/ PutBack(j)
  PROVE  Sound'
<1> USE DEF Sound, server, disk, history
<1>0. /\ world \in World /\ aside \in World /\ job[j] \in Task
      /\ world'[1] \in Half /\ world'[2] \in Half /\ job[j].zip \in World
      /\ 0 \in Half
  BY WorldFacts DEF TypeOK, Jobs, Task
<1>1. UNCHANGED <<alive, archives>>
  BY DEF BeginRestore, MoveAside, MoveAsideFails, ExtractHalf, ExtractRest, EndRestore,
         RestoreFails, PutBack
<1>2. \A i \in Job \ {j} : job'[i] = job[i]
  BY DEF BeginRestore, MoveAside, MoveAsideFails, ExtractHalf, ExtractRest, EndRestore,
         RestoreFails, PutBack, Goto, TypeOK, Jobs
<1>3. ArchivesAreWhole' BY <1>1 DEF ArchivesAreWhole, Existing
<1>4. lock = j \/ lock = None
  BY DEF BeginRestore, MoveAside, MoveAsideFails, ExtractHalf, ExtractRest, EndRestore,
         RestoreFails, PutBack, TypeOK, Jobs, Restoring
<1>5. ~alive /\ Back' /\ RestoreInv(j)' /\ job'[j].pc \notin Creating => Sound'
  <2>1. job'[j].pc \notin Creating => CreateInv(j)' BY DEF CreateInv, Zipping, Creating
  <2> QED BY <1>1, <1>2, <1>3, <1>4, <2>1, MyInv DEF JobInv
<1>6. ASSUME NEW s \in Second, BeginRestore(j, s) PROVE Sound'
  <2>1. lock = None /\ lock' = j /\ job'[j].pc = "aside" /\ ~alive
        /\ UNCHANGED <<world, aside, orphans>>
    <3>1. job'[j].pc = "aside" BY <1>6 DEF BeginRestore, TypeOK, Jobs, Idle
    <3>2. ~alive BY <1>6 DEF BeginRestore
    <3> QED BY <1>6, <3>1, <3>2 DEF BeginRestore
  <2>2. lock \notin Job BY <2>1, NoneAssumption
  <2>3. Back' BY <2>1, <2>2 DEF Back, Whole, Extracting
  <2>4. RestoreInv(j)' BY <1>1, <2>1 DEF RestoreInv
  <2> QED BY <1>5, <2>1, <2>3, <2>4 DEF Creating
<1>7. CASE MoveAside(j)
  <2>1. /\ lock = j /\ lock' = j /\ job[j].pc = "aside" /\ job'[j].pc = "extract1"
        /\ aside' = world /\ world' = Absent
    BY <1>0, <1>7 DEF MoveAside, Goto, TypeOK, Jobs, Restoring
  <2>2. ~alive BY <2>1 DEF JobInv, RestoreInv, Restoring
  <2>3. Whole(aside') BY <2>1, <2>2 DEF Back, Extracting
  <2>4. Back' BY <2>1, <2>3 DEF Back, Extracting, Whole
  <2>5. RestoreInv(j)' BY <1>1, <2>1, <2>2 DEF RestoreInv
  <2> QED BY <1>5, <2>1, <2>2, <2>4, <2>5 DEF Creating
<1>8. CASE MoveAsideFails(j)
  <2>1. /\ lock = j /\ lock' = None /\ job[j].pc = "aside" /\ job'[j].pc = "idle"
        /\ UNCHANGED world
    BY <1>8 DEF MoveAsideFails, TypeOK, Jobs, Restoring, Idle
  <2>2. ~alive BY <2>1 DEF JobInv, RestoreInv, Restoring
  <2>3. Back' BY <2>1, <2>2, NoneAssumption DEF Back, Whole, Extracting
  <2>4. RestoreInv(j)' BY <2>1 DEF RestoreInv, Restoring
  <2> QED BY <1>5, <2>1, <2>2, <2>3, <2>4 DEF Creating
<1>9. CASE ExtractHalf(j)
  <2> DEFINE zip == archives[job[j].name]
  <2>1. /\ lock = j /\ lock' = j /\ job[j].pc = "extract1" /\ job'[j].pc = "extract2"
        /\ zip # None /\ job'[j].zip = zip
        /\ world' = <<Onto(zip[1], world[1]), world[2]>> /\ UNCHANGED aside
    BY <1>0, <1>9 DEF ExtractHalf, TypeOK, Jobs, Restoring, Task
  <2>2. ~alive /\ world = Absent
    BY <2>1 DEF JobInv, RestoreInv, Restoring
  <2>3. job[j].name \in Second BY <1>0, <2>1 DEF TypeOK, Jobs, Restoring, Task
  <2>4. Whole(zip) BY <2>1, <2>3 DEF ArchivesAreWhole, Existing
  <2>5. world' = <<zip[1], 0>> BY <2>1, <2>2 DEF Absent, Onto
  <2>6. Back' BY <2>1 DEF Back, Extracting, Whole
  <2>7. RestoreInv(j)' BY <1>1, <2>1, <2>2, <2>4, <2>5 DEF RestoreInv
  <2> QED BY <1>5, <2>1, <2>2, <2>6, <2>7 DEF Creating
<1>10. CASE ExtractRest(j)
  <2>1. /\ lock = j /\ lock' = j /\ job[j].pc = "extract2" /\ job'[j].pc = "rest"
        /\ world' = <<world[1], Onto(job[j].zip[2], world[2])>> /\ UNCHANGED aside
    BY <1>0, <1>10 DEF ExtractRest, TypeOK, Jobs, Restoring, Task
  <2>2. ~alive /\ Whole(job[j].zip) /\ world = <<job[j].zip[1], 0>>
    BY <2>1 DEF JobInv, RestoreInv, Restoring
  <2>3. world' = <<job[j].zip[1], job[j].zip[2]>> BY <2>1, <2>2 DEF Onto
  <2>4. Whole(world') BY <1>0, <2>2, <2>3, WholeFacts DEF Whole
  <2>5. Back' BY <2>1 DEF Back, Extracting, Whole
  <2>6. RestoreInv(j)' BY <1>1, <2>1, <2>2, <2>4 DEF RestoreInv, Whole
  <2> QED BY <1>5, <2>1, <2>2, <2>5, <2>6 DEF Creating
<1>11. CASE EndRestore(j)
  <2>1. /\ lock = j /\ lock' = None /\ job[j].pc = "rest" /\ job'[j].pc = "idle"
        /\ UNCHANGED world
    BY <1>11 DEF EndRestore, TypeOK, Jobs, Restoring, Idle
  <2>2. ~alive /\ Whole(world)
    BY <2>1 DEF JobInv, RestoreInv, Restoring
  <2>3. Back' BY <2>1, <2>2, NoneAssumption DEF Back, Whole
  <2>4. RestoreInv(j)' BY <2>1 DEF RestoreInv, Restoring
  <2> QED BY <1>5, <2>1, <2>2, <2>3, <2>4 DEF Creating
<1>12. CASE RestoreFails(j)
  <2>1. /\ lock = j /\ lock' = j /\ job[j].pc \in Extracting /\ job'[j].pc = "putback"
        /\ UNCHANGED aside
    BY <1>0, <1>12 DEF RestoreFails, Goto, TypeOK, Jobs, Restoring, Extracting
  <2>2. ~alive BY <2>1 DEF JobInv, RestoreInv, Restoring, Extracting
  <2>3. Back' BY <2>1 DEF Back, Extracting, Whole
  <2>4. RestoreInv(j)' BY <1>1, <2>1, <2>2 DEF RestoreInv
  <2> QED BY <1>5, <2>1, <2>2, <2>3, <2>4 DEF Creating
<1>13. CASE PutBack(j)
  <2>1. /\ lock = j /\ lock' = None /\ job[j].pc = "putback" /\ job'[j].pc = "idle"
        /\ world' = aside
    BY <1>13 DEF PutBack, TypeOK, Jobs, Restoring, Idle
  <2>2. ~alive BY <2>1 DEF JobInv, RestoreInv, Restoring
  <2>3. Whole(world') BY <2>1 DEF Back, Extracting
  <2>4. Back' BY <2>1, <2>3, NoneAssumption DEF Back, Whole
  <2>5. RestoreInv(j)' BY <2>1 DEF RestoreInv, Restoring
  <2> QED BY <1>5, <2>1, <2>2, <2>4, <2>5 DEF Creating
<1> QED BY <1>6, <1>7, <1>8, <1>9, <1>10, <1>11, <1>12, <1>13

\* Pruning and deleting only take archives away, and do not touch the world.
LEMMA SoundByRemoval ==
  ASSUME TypeOK, TypeOK', Sound, ~overlap',
         \/ \E j \in Job : ListOld(j) \/ RemoveOld(j)
         \/ \E s \in Second : DeleteBackup(s)
  PROVE  Sound'
<1> USE DEF Sound, server, disk, history, TypeOK, Jobs
<1>1. /\ UNCHANGED <<alive, saveOn, console, world, aside, lock>>
      /\ \A s \in Existing' : s \in Existing /\ archives'[s] = archives[s]
  BY DEF ListOld, RemoveOld, DeleteBackup, Existing
<1>2. \A i \in Job : job'[i] = job[i] \/ (job[i].pc \in Pruning /\ job'[i].pc \notin Busy)
  <2>1. ASSUME NEW j \in Job, ListOld(j)
        PROVE  \A i \in Job : job'[i] = job[i]
                 \/ (job[i].pc \in Pruning /\ job'[i].pc \notin Busy)
    <3>1. job[j].pc = "list" /\ job'[j].pc \in {"idle", "prune"}
          /\ \A i \in Job \ {j} : job'[i] = job[i]
      BY <2>1 DEF ListOld, Task
    <3> QED BY <3>1 DEF Pruning, Busy, Creating, Restoring
  <2>2. ASSUME NEW j \in Job, RemoveOld(j)
        PROVE  \A i \in Job : job'[i] = job[i]
                 \/ (job[i].pc \in Pruning /\ job'[i].pc \notin Busy)
    <3>1. job[j].pc = "prune" /\ job'[j].pc \in {"idle", "prune"}
          /\ \A i \in Job \ {j} : job'[i] = job[i]
      <4>1. PICK s \in job[j].old :
              job' = [job EXCEPT ![j].pc = IF job[j].old = {s} THEN "idle" ELSE @,
                                 ![j].old = @ \ {s}]
        BY <2>2 DEF RemoveOld
      <4> QED BY <2>2, <4>1 DEF RemoveOld, Task
    <3> QED BY <3>1 DEF Pruning, Busy, Creating, Restoring
  <2>3. ASSUME NEW s \in Second, DeleteBackup(s) PROVE UNCHANGED job
    BY <2>3 DEF DeleteBackup
  <2> QED BY <2>1, <2>2, <2>3
<1>3. ArchivesAreWhole' BY <1>1 DEF ArchivesAreWhole, Whole
<1>4. Back'
  <2>1. lock \in Job => (job'[lock].pc \in Extracting <=> job[lock].pc \in Extracting)
    BY <1>2 DEF Pruning, Busy, Extracting, Restoring
  <2> QED BY <1>1, <2>1 DEF Back, Whole
<1>5. ASSUME NEW i \in Job PROVE JobInv(i)'
  <2>1. CASE job'[i] = job[i]
    BY <1>1, <2>1 DEF JobInv, CreateInv, RestoreInv, Quiet, Even, LastCommand, Whole
  <2>2. CASE job'[i].pc \notin Busy BY <2>2, IdleInv
  <2> QED BY <1>2, <2>1, <2>2
<1> QED BY <1>1, <1>3, <1>4, <1>5

\* The API dies where there is a whole world in place, or a JVM that has one.
LEMMA SoundByCrash ==
  ASSUME TypeOK, TypeOK', Sound, Crash, ~wrecked'
  PROVE  Sound'
<1> USE DEF Crash, Sound, server, disk, TypeOK
<1>1. \A i \in Job : JobInv(i)'
  <2>1. \A i \in Job : job'[i].pc \notin Busy
    BY DEF Idle, Busy, Creating, Restoring
  <2> QED BY <2>1, IdleInv
<1>2. Whole(world) \/ alive
  <2>1. CASE lock \in Job /\ job[lock].pc \in Extracting
    <3>1. job[lock].pc = "rest" BY <2>1 DEF Extracting
    <3> QED BY <2>1, <3>1 DEF JobInv, RestoreInv
  <2>2. CASE ~(lock \in Job /\ job[lock].pc \in Extracting) BY <2>2 DEF Back
  <2> QED BY <2>1, <2>2
<1>3. Back' BY <1>2, NoneAssumption DEF Back, Whole
<1> QED BY <1>1, <1>3 DEF ArchivesAreWhole, Existing, Whole

\* A restore that is wrecked leaves the old world, whole, in its directory aside.
LEMMA SavedByWreck ==
  ASSUME TypeOK, Sound, wrecked', ~wrecked, [Next]_vars
  PROVE  Saved'
<1>0. Whole(aside) /\ Orphaned(aside) => Saved' BY DEF Saved, Orphaned, Whole
<1>1. Crash \/ \E j \in Job : PutBack(j)
  BY DEF Next, vars, history, Launch, Exit, SaveHalf, SaveRest, Obey, ClockTicks,
         BeginCreate, PauseSaving, SleepOver, ZipHalf, ZipRest, CreateFails, Finalize,
         EndCreate, ListOld, RemoveOld, DeleteBackup, BeginRestore, MoveAside,
         MoveAsideFails, ExtractHalf, ExtractRest, EndRestore, RestoreFails
<1>2. ASSUME NEW j \in Job, job[j].pc \in Extracting PROVE Whole(aside)
  <2>1. lock = j BY <1>2 DEF TypeOK, Jobs, Extracting, Restoring
  <2> QED BY <1>2, <2>1 DEF Sound, Back
<1>3. CASE Crash
  <2>1. \E j \in Job : job[j].pc \in {"extract1", "extract2", "putback"} BY <1>3 DEF Crash
  <2>2. Whole(aside) BY <1>2, <2>1 DEF Extracting
  <2> QED BY <1>0, <1>3, <2>2 DEF Crash
<1>4. ASSUME NEW j \in Job, PutBack(j) PROVE Saved'
  <2>1. Whole(aside) BY <1>2, <1>4 DEF PutBack, Extracting
  <2> QED BY <1>0, <1>4, <2>1 DEF PutBack
<1> QED BY <1>1, <1>3, <1>4

\* What is aside for good stays there, and what was excused stays excused.
LEMMA Kept ==
  ASSUME TypeOK, TypeOK', [Next]_vars
  PROVE  /\ orphans \subseteq orphans'
         /\ overlap => overlap'
         /\ wrecked => wrecked'
<1>1. ASSUME NEW w, Orphaned(w) PROVE orphans \subseteq orphans' BY <1>1 DEF Orphaned
<1>0. {overlap, overlap', wrecked, wrecked'} \subseteq BOOLEAN BY DEF TypeOK
<1> USE <1>0 DEF vars, server, disk, history
<1>2. CASE UNCHANGED vars BY <1>2
<1>3. CASE Launch \/ Exit \/ SaveHalf \/ SaveRest \/ Obey \/ ClockTicks
  BY <1>3 DEF Launch, Exit, SaveHalf, SaveRest, Obey, ClockTicks
<1>4. ASSUME NEW j \in Job,
             \/ BeginCreate(j) \/ PauseSaving(j) \/ SleepOver(j) \/ ZipHalf(j) \/ ZipRest(j)
             \/ CreateFails(j) \/ Finalize(j) \/ EndCreate(j) \/ ListOld(j) \/ RemoveOld(j)
      PROVE  UNCHANGED <<orphans, wrecked>> /\ (overlap => overlap')
  <2>1. UNCHANGED <<orphans, wrecked>>
    BY <1>4 DEF BeginCreate, PauseSaving, SleepOver, ZipHalf, ZipRest, CreateFails,
                Finalize, EndCreate, ListOld, RemoveOld
  <2>2. CASE BeginCreate(j) BY <2>1, <2>2 DEF BeginCreate
  <2>3. CASE PauseSaving(j) BY <2>1, <2>3 DEF PauseSaving
  <2>4. CASE SleepOver(j) BY <2>1, <2>4 DEF SleepOver
  <2>5. CASE \/ ZipHalf(j) \/ ZipRest(j) \/ CreateFails(j) \/ Finalize(j)
             \/ EndCreate(j) \/ ListOld(j) \/ RemoveOld(j)
    BY <2>1, <2>5 DEF ZipHalf, ZipRest, CreateFails, Finalize, EndCreate, ListOld, RemoveOld
  <2> QED BY <1>4, <2>2, <2>3, <2>4, <2>5
<1>5. ASSUME NEW j \in Job,
             \/ \E s \in Second : BeginRestore(j, s)
             \/ MoveAside(j) \/ MoveAsideFails(j) \/ ExtractHalf(j) \/ ExtractRest(j)
             \/ RestoreFails(j)
      PROVE  UNCHANGED <<orphans, wrecked>> /\ (overlap => overlap')
  <2>1. CASE \E s \in Second : BeginRestore(j, s) BY <2>1 DEF BeginRestore
  <2>2. CASE MoveAside(j) \/ MoveAsideFails(j) BY <2>2 DEF MoveAside, MoveAsideFails
  <2>3. CASE ExtractHalf(j) \/ ExtractRest(j) BY <2>3 DEF ExtractHalf, ExtractRest
  <2>4. CASE RestoreFails(j) BY <2>4 DEF RestoreFails
  <2> QED BY <1>5, <2>1, <2>2, <2>3, <2>4
<1>6. ASSUME NEW j \in Job, EndRestore(j)
      PROVE  orphans \subseteq orphans' /\ UNCHANGED <<overlap, wrecked>>
  BY <1>1, <1>6 DEF EndRestore
<1>7. ASSUME NEW j \in Job, PutBack(j)
      PROVE  orphans \subseteq orphans' /\ UNCHANGED overlap /\ (wrecked => wrecked')
  BY <1>1, <1>7 DEF PutBack
<1>8. ASSUME NEW s \in Second, DeleteBackup(s) PROVE UNCHANGED <<orphans, overlap, wrecked>>
  BY <1>8 DEF DeleteBackup
<1>9. CASE Crash BY <1>1, <1>9 DEF Crash
<1> QED BY <1>2, <1>3, <1>4, <1>5, <1>6, <1>7, <1>8, <1>9 DEF Next

\* The invariant is kept by every step.
LEMMA WorldStep ==
  TypeOK /\ TypeOK' /\ WorldInv /\ [Next]_vars => WorldInv'
<1> SUFFICES ASSUME TypeOK, TypeOK', WorldInv, [Next]_vars, ~overlap'
             PROVE  IF wrecked' THEN Saved' ELSE Sound'
  BY DEF WorldInv
<1>1. ~overlap /\ (wrecked => wrecked') /\ (Saved => Saved')
  BY Kept DEF Saved, Whole
<1>2. CASE wrecked BY <1>1, <1>2 DEF WorldInv
<1>3. CASE ~wrecked
  <2>1. Sound BY <1>1, <1>3 DEF WorldInv
  <2>2. CASE wrecked' BY <1>3, <2>1, <2>2, SavedByWreck
  <2>3. CASE ~wrecked'
    <3>1. ASSUME UNCHANGED vars PROVE Sound'
      BY <2>1, <3>1 DEF vars, server, disk, history, Sound, ArchivesAreWhole, Existing,
         Back, JobInv, CreateInv, RestoreInv, Quiet, Even, LastCommand, Whole
    <3>2. Sound'
      BY <2>1, <2>3, <3>1, SoundByServer, SoundByCreate, SoundByRestore, SoundByRemoval,
         SoundByCrash DEF Next
    <3> QED BY <2>3, <3>2
  <2> QED BY <2>2, <2>3
<1> QED BY <1>2, <1>3

LEMMA WorldInit == Init => WorldInv
<1> SUFFICES ASSUME Init PROVE WorldInv
  OBVIOUS
<1>1. Whole(world) BY DEF Init, Whole, Absent
<1>2. \A j \in Job : JobInv(j)
  BY DEF Init, Idle, JobInv, CreateInv, RestoreInv, Zipping, Restoring
<1>3. lock \notin Job BY NoneAssumption DEF Init
<1> QED BY <1>1, <1>2, <1>3
        DEF Init, WorldInv, Sound, ArchivesAreWhole, Existing, Back

\* The invariant the next three rest on
LEMMA WorldHolds == Spec => [](TypeOK /\ WorldInv)
BY WorldInit, WorldStep, TypeInit, TypeStep, PTL DEF Spec

\* No archive holds a half-written region file, as long as the server is neither
\* started while backupMu is held, nor taken for stopped, nor slower to obey than
\* it is waited for, and no restore was wrecked.
THEOREM ArchivesWhole == Spec => []WholeUnlessOverlap
<1>1. WorldInv => WholeUnlessOverlap BY DEF WorldInv, Sound, WholeUnlessOverlap
<1> QED BY <1>1, WorldHolds, PTL

\* A whole world survives every failure and every crash, in its place or in a
\* directory moved aside, wrecked restores included.
THEOREM WorldSurvives == Spec => []AWorldSurvives
<1>1. TypeOK /\ WorldInv => AWorldSurvives
  BY WholeFacts DEF TypeOK, WorldInv, Sound, Back, Saved, AWorldSurvives
<1> QED BY <1>1, WorldHolds, PTL

\* A restore that ends, well or badly, leaves a whole world in its place, unless
\* its rollback fails too or the API dies between its first and its last file.
THEOREM WorldBack == Spec => []WorldIsBack
<1>1. TypeOK /\ WorldInv => WorldIsBack
  BY NoneAssumption DEF TypeOK, WorldInv, Sound, WorldIsBack, Back
<1> QED BY <1>1, WorldHolds, PTL

-----------------------------------------------------------------------------
(* Pruning *)

\* Only the scheduler prunes, and what it has found to keep stays, unless an
\* archive is deleted by hand.
PruneInv ==
  \A j \in Job :
    /\ job[j].pc \in Pruning => j = Scheduler
    /\ job[j].pc = "prune" /\ ~thinned => Cardinality(Existing \ job[j].old) >= Keep

\* More archives are not fewer.
LEMMA NoFewer ==
  ASSUME NEW A, NEW B \in SUBSET Second, A \subseteq B
  PROVE  /\ IsFiniteSet(A) /\ Cardinality(A) \in Nat /\ Cardinality(B) \in Nat
         /\ Cardinality(A) <= Cardinality(B)
<1>1. IsFiniteSet(Second) BY FS_Interval DEF Second
<1>2. IsFiniteSet(B) BY <1>1, FS_Subset
<1> QED BY <1>2, FS_Subset, FS_CardinalityType

\* Among seconds there is a last one.
LEMMA LastSecond ==
  ASSUME NEW S \in SUBSET Second, S # {}
  PROVE  \E m \in S : \A s \in S : s <= m
<1> DEFINE T == {MaxSeconds - s : s \in S}
<1>1. \A s \in S : s \in Nat /\ MaxSeconds - s \in Nat BY DEF Second
<1>2. T \subseteq Nat /\ T # {} BY <1>1
<1>3. PICK x \in T : \A y \in T : <<y, x>> \notin OpToRel(<, Nat)
  <2> HIDE DEF T
  <2> QED BY <1>2, WFMin, NatLessThanWellFounded
<1>4. PICK m \in S : x = MaxSeconds - m OBVIOUS
<1>5. ASSUME NEW s \in S PROVE s <= m
  <2>1. MaxSeconds - s \in T OBVIOUS
  <2>2. ~(MaxSeconds - s < MaxSeconds - m) BY <1>1, <1>3, <1>4, <2>1 DEF OpToRel
  <2> QED BY <1>1, <2>2
<1> QED BY <1>5

\* What ListBackups gives beyond the first Keep leaves Keep archives, when there
\* is anything beyond them.
LEMMA BeyondLeaves ==
  ASSUME BeyondKeep # {}
  PROVE  Cardinality(Existing \ BeyondKeep) >= Keep
<1>0. Existing \in SUBSET Second BY DEF Existing
<1>1. PICK m \in BeyondKeep : \A s \in BeyondKeep : s <= m
  BY <1>0, LastSecond DEF BeyondKeep
<1> DEFINE Newer == {t \in Existing : t > m}
<1>2. Cardinality(Newer) >= Keep BY <1>1 DEF BeyondKeep
<1>3. Newer \subseteq Existing \ BeyondKeep
  <2>1. \A t \in Existing : t \in Nat BY <1>0 DEF Second
  <2>2. BeyondKeep \subseteq Existing BY DEF BeyondKeep
  <2>3. \A t \in BeyondKeep : ~(t > m) BY <1>1, <2>1, <2>2
  <2> QED BY <2>3
<1>4. Cardinality(Newer) <= Cardinality(Existing \ BeyondKeep)
      /\ Cardinality(Newer) \in Nat /\ Cardinality(Existing \ BeyondKeep) \in Nat
  <2> HIDE DEF Newer
  <2> QED BY <1>0, <1>3, NoFewer
<1> QED BY <1>2, <1>4

\* One removal leaves everything that was not to be removed.
LEMMA RemovalLeaves ==
  ASSUME TypeOK, PruneInv, NEW j \in Job, RemoveOld(j)
  PROVE  /\ Existing \ job[j].old \subseteq Existing' \ job'[j].old
         /\ ~thinned => Cardinality(Existing' \ job'[j].old) >= Keep
         /\ \A i \in Job \ {j} : job'[i] = job[i]
         /\ job[j].pc = "prune" /\ job'[j].pc \in {"idle", "prune"}
<1>1. PICK s \in job[j].old :
        /\ archives' \in {archives, [archives EXCEPT ![s] = None]}
        /\ job' = [job EXCEPT ![j].pc = IF job[j].old = {s} THEN "idle" ELSE @,
                              ![j].old = @ \ {s}]
  BY DEF RemoveOld
<1>2. /\ job'[j].old = job[j].old \ {s}
      /\ \A i \in Job \ {j} : job'[i] = job[i]
      /\ job[j].pc = "prune" /\ job'[j].pc \in {"idle", "prune"}
  BY <1>1 DEF TypeOK, Jobs, Task, RemoveOld
<1>3. Existing \ job[j].old \subseteq Existing' \ job'[j].old
  BY <1>1, <1>2 DEF Existing, TypeOK
<1>4. Existing' \ job'[j].old \in SUBSET Second BY DEF Existing
<1>5. ASSUME ~thinned PROVE Cardinality(Existing' \ job'[j].old) >= Keep
  <2>1. Cardinality(Existing \ job[j].old) >= Keep BY <1>2, <1>5 DEF PruneInv
  <2> QED BY <1>3, <1>4, <2>1, NoFewer
<1> QED BY <1>2, <1>3, <1>5

\* A step that takes no archive away and does not let anybody prune
LEMMA PruneKept ==
  ASSUME TypeOK, PruneInv, Existing \subseteq Existing', thinned' = thinned,
         \A i \in Job : job'[i] = job[i] \/ job'[i].pc \notin Pruning
  PROVE  PruneInv'
<1> SUFFICES ASSUME NEW i \in Job, job'[i].pc \in Pruning
             PROVE  /\ i = Scheduler
                    /\ job'[i].pc = "prune" /\ ~thinned'
                         => Cardinality(Existing' \ job'[i].old) >= Keep
  BY DEF PruneInv, Pruning
<1>1. job'[i] = job[i] OBVIOUS
<1>2. Existing \ job[i].old \subseteq Existing' \ job[i].old
      /\ Existing' \ job[i].old \in SUBSET Second
  BY DEF Existing
<1>3. Cardinality(Existing \ job[i].old) <= Cardinality(Existing' \ job[i].old)
      /\ Cardinality(Existing \ job[i].old) \in Nat
      /\ Cardinality(Existing' \ job[i].old) \in Nat
  BY <1>2, NoFewer
<1> QED BY <1>1, <1>3 DEF PruneInv

LEMMA PruneStep == TypeOK /\ TypeOK' /\ PruneInv /\ [Next]_vars => PruneInv'
<1> SUFFICES ASSUME TypeOK, TypeOK', PruneInv, [Next]_vars PROVE PruneInv'
  OBVIOUS
<1> USE DEF server, disk, history, Existing, TypeOK, Jobs
<1>1. CASE Launch \/ Exit \/ SaveHalf \/ SaveRest \/ Obey \/ ClockTicks
  <2>1. UNCHANGED <<archives, job, thinned>>
    BY <1>1 DEF Launch, Exit, SaveHalf, SaveRest, Obey, ClockTicks
  <2> QED BY <2>1, PruneKept
<1>2. ASSUME NEW j \in Job, BeginCreate(j) PROVE PruneInv'
  <2>0. PICK running \in Seen : job' = [job EXCEPT ![j] = [Idle EXCEPT
          !.pc = IF running THEN "pause" ELSE "zip1", !.paused = running]]
    BY <1>2 DEF BeginCreate
  <2>1. job'[j].pc = IF running THEN "pause" ELSE "zip1" BY <2>0 DEF Idle
  <2>2. \A i \in Job : job'[i] = job[i] \/ job'[i].pc \notin Pruning
    BY <2>0, <2>1 DEF Pruning
  <2> QED BY <1>2, <2>2, PruneKept DEF BeginCreate
<1>3. ASSUME NEW j \in Job, PauseSaving(j) \/ SleepOver(j) \/ MoveAside(j) \/ RestoreFails(j)
      PROVE  PruneInv'
  <2>1. job'[j].pc \in {"sleep", "zip1", "extract1", "putback"}
        /\ \A i \in Job \ {j} : job'[i] = job[i]
    BY <1>3 DEF PauseSaving, SleepOver, MoveAside, RestoreFails, Goto, Task
  <2>2. UNCHANGED <<archives, thinned>>
    BY <1>3 DEF PauseSaving, SleepOver, MoveAside, RestoreFails
  <2> QED BY <2>1, <2>2, PruneKept DEF Pruning
<1>4. ASSUME NEW j \in Job,
             ZipHalf(j) \/ ZipRest(j) \/ CreateFails(j) \/ ExtractHalf(j) \/ ExtractRest(j)
      PROVE  PruneInv'
  <2>1. job'[j].pc \in {"zip2", "rename", "resume", "extract2", "rest"}
        /\ \A i \in Job \ {j} : job'[i] = job[i]
    BY <1>4 DEF ZipHalf, ZipRest, CreateFails, ExtractHalf, ExtractRest, Task
  <2>2. UNCHANGED <<archives, thinned>>
    BY <1>4 DEF ZipHalf, ZipRest, CreateFails, ExtractHalf, ExtractRest
  <2> QED BY <2>1, <2>2, PruneKept DEF Pruning
<1>5. ASSUME NEW j \in Job, Finalize(j) PROVE PruneInv'
  <2>1. job'[j].pc = "resume" /\ (\A i \in Job \ {j} : job'[i] = job[i]) /\ UNCHANGED thinned
    BY <1>5 DEF Finalize, Goto, Task
  <2>2. archives' = [archives EXCEPT ![job[j].name] = job[j].zip] /\ job[j].zip # None
    BY <1>5 DEF Finalize, Task
  <2>3. Existing \subseteq Existing' BY <2>2
  <2> QED BY <2>1, <2>3, PruneKept DEF Pruning
<1>6. ASSUME NEW j \in Job, EndCreate(j) PROVE PruneInv'
  <2>1. /\ job'[j].pc \in {"idle", "list"} /\ (job'[j].pc = "list" => j = Scheduler)
        /\ \A i \in Job \ {j} : job'[i] = job[i]
        /\ UNCHANGED <<archives, thinned>>
    BY <1>6 DEF EndCreate, Idle
  <2> QED BY <2>1 DEF PruneInv, Pruning
<1>7. ASSUME NEW j \in Job, ListOld(j) PROVE PruneInv'
  <2>1. /\ job[j].pc = "list" /\ job'[j].old = BeyondKeep /\ UNCHANGED archives
        /\ job'[j].pc = IF BeyondKeep = {} THEN "idle" ELSE "prune"
        /\ \A i \in Job \ {j} : job'[i] = job[i]
    BY <1>7 DEF ListOld, Task
  <2>2. j = Scheduler BY <2>1 DEF PruneInv, Pruning
  <2>3. \A i \in Job : i # j => job'[i].pc \notin Pruning BY <2>1, <2>2 DEF PruneInv
  <2>4. BeyondKeep # {} => Cardinality(Existing' \ job'[j].old) >= Keep
    BY <2>1, BeyondLeaves
  <2> QED BY <2>1, <2>2, <2>3, <2>4 DEF PruneInv, Pruning
<1>8. ASSUME NEW j \in Job, RemoveOld(j) PROVE PruneInv'
  <2>1. /\ ~thinned => Cardinality(Existing' \ job'[j].old) >= Keep
        /\ \A i \in Job \ {j} : job'[i] = job[i]
        /\ job[j].pc = "prune" /\ job'[j].pc \in {"idle", "prune"}
        /\ UNCHANGED thinned
    BY <1>8, RemovalLeaves DEF RemoveOld
  <2>2. j = Scheduler BY <2>1 DEF PruneInv, Pruning
  <2>3. \A i \in Job : i # j => job'[i].pc \notin Pruning BY <2>1, <2>2 DEF PruneInv
  <2> QED BY <2>1, <2>2, <2>3 DEF PruneInv, Pruning
<1>9. ASSUME NEW j \in Job, NEW s \in Second, BeginRestore(j, s) PROVE PruneInv'
  <2>1. job'[j].pc = "aside" /\ \A i \in Job \ {j} : job'[i] = job[i]
    BY <1>9 DEF BeginRestore, Idle
  <2> QED BY <1>9, <2>1, PruneKept DEF BeginRestore, Pruning
<1>10. ASSUME NEW j \in Job, EndRestore(j) \/ PutBack(j) \/ MoveAsideFails(j)
       PROVE  PruneInv'
  <2>1. job'[j].pc = "idle" /\ \A i \in Job \ {j} : job'[i] = job[i]
    BY <1>10 DEF EndRestore, PutBack, MoveAsideFails, Idle
  <2>2. UNCHANGED <<archives, thinned>> BY <1>10 DEF EndRestore, PutBack, MoveAsideFails
  <2> QED BY <2>1, <2>2, PruneKept DEF Pruning
<1>11. ASSUME NEW s \in Second, DeleteBackup(s) PROVE PruneInv'
  BY <1>11 DEF DeleteBackup, PruneInv
<1>12. CASE Crash
  <2>1. \A i \in Job : job'[i].pc \notin Pruning BY <1>12 DEF Crash, Idle, Pruning
  <2> QED BY <1>12, <2>1, PruneKept DEF Crash
<1>13. CASE UNCHANGED vars BY <1>13, PruneKept DEF vars
<1> QED
  BY <1>1, <1>2, <1>3, <1>4, <1>5, <1>6, <1>7, <1>8, <1>9, <1>10, <1>11, <1>12, <1>13
  DEF Next

\* A removal leaves Keep archives, however the finishing of new ones falls
\* between the listing and the removals; only a deletion by hand can leave fewer.
THEOREM PruningLeavesKeep == Spec => PruneLeavesKeep
<1>1. Init => PruneInv
  BY DEF Init, PruneInv, Idle, Pruning
<1>2. ASSUME TypeOK, PruneInv, NEW j \in Job, RemoveOld(j) /\ ~thinned
      PROVE  Cardinality({s \in Second : archives'[s] # None}) >= Keep
  <2>1. Cardinality(Existing' \ job'[j].old) >= Keep BY <1>2, RemovalLeaves
  <2>2. Existing' \ job'[j].old \subseteq Existing' /\ Existing' \in SUBSET Second
    BY DEF Existing
  <2>3. Cardinality(Existing') >= Keep BY <2>1, <2>2, NoFewer
  <2> QED BY <2>3 DEF Existing
<1>3. TypeOK /\ PruneInv =>
        [\A j \in Job : (RemoveOld(j) /\ ~thinned)
           => Cardinality({s \in Second : archives'[s] # None}) >= Keep]_vars
  BY <1>2
<1> QED BY <1>1, <1>3, PruneStep, TypeInit, TypeStep, PTL DEF Spec, PruneLeavesKeep

=============================================================================
