------------------------ MODULE BackupSchedulerProofs ------------------------
(***************************************************************************)
(* That no wake-up of the backup scheduler is lost, for any number of      *)
(* requests, any intervals and any word size; that a stop request answers  *)
(* the truth, for any number of them and any two deadlines of which the    *)
(* supervisor's is the shorter; and that a server has one runtime, for any *)
(* number of goroutines and servers.                                       *)
(***************************************************************************)
EXTENDS BackupScheduler, ServerStop, Runtimes, FiniteSetTheorems, SequenceTheorems, TLAPS

\* The scheduler's state is of its type: in particular the row it reads was
\* validated, whoever wrote it.
THEOREM TypeCorrect == Spec => []TypeOK
<1>1. Init => TypeOK
  BY DEF Init, TypeOK
<1>2. TypeOK /\ [Next]_vars => TypeOK'
  <2> SUFFICES ASSUME TypeOK, [Next]_vars PROVE TypeOK'
    OBVIOUS
  <2> USE DEF TypeOK
  <2>1. ASSUME NEW r \in Request, NEW cfg \in Config, Save(r, cfg) PROVE TypeOK'
    BY <2>1 DEF Save
  <2>2. ASSUME NEW r \in Request, Notify(r) PROVE TypeOK'
    BY <2>2 DEF Notify
  <2>3. CASE ApplyConfig
    <3>1. row # None /\ row.enabled => row.interval \in Minutes
      BY DEF Config
    <3>2. Period(row) \in {Duration(m) : m \in Minutes} \cup {None}
      BY <3>1 DEF Period
    <3> QED BY <2>3, <3>2 DEF ApplyConfig
  <2>4. CASE ApplyFails BY <2>4 DEF ApplyFails
  <2>5. CASE TakeReload BY <2>5 DEF TakeReload
  <2>6. CASE TakeTick BY <2>6 DEF TakeTick
  <2>7. CASE EndBackup BY <2>7 DEF EndBackup
  <2>8. CASE Tick BY <2>8 DEF Tick
  <2>9. CASE Restart BY <2>9 DEF Restart
  <2>10. CASE UNCHANGED vars BY <2>10 DEF vars
  <2> QED
    BY <2>1, <2>2, <2>3, <2>4, <2>5, <2>6, <2>7, <2>8, <2>9, <2>10 DEF Next
<1> QED BY <1>1, <1>2, PTL DEF Spec

-----------------------------------------------------------------------------
\* What makes ScheduleFollowsRow inductive: the same holds during a backup,
\* and a row newer than the ticker is always announced, by a token or by a
\* request that has still to leave one.
Announced ==
  (pc \in {"wait", "backup"} /\ ~reload /\ saved = {} /\ ~blind) => ticker = Period(row)

\* Whatever requests save while the scheduler reloads, waits or makes a
\* backup, once every one of them has notified it and the token is taken, the
\* ticker runs at the period of the row.
THEOREM NoWakeUpIsLost == Spec => []ScheduleFollowsRow
<1>1. Init => Announced
  BY DEF Init, Announced
<1>2. Announced /\ [Next]_vars => Announced'
  <2> SUFFICES ASSUME Announced, [Next]_vars PROVE Announced'
    OBVIOUS
  <2> USE DEF Announced
  <2>1. ASSUME NEW r \in Request, NEW cfg \in Config, Save(r, cfg) PROVE Announced'
    BY <2>1 DEF Save
  <2>2. ASSUME NEW r \in Request, Notify(r) PROVE Announced'
    BY <2>2 DEF Notify
  <2>3. CASE ApplyConfig BY <2>3 DEF ApplyConfig
  <2>4. CASE ApplyFails BY <2>4 DEF ApplyFails
  <2>5. CASE TakeReload BY <2>5 DEF TakeReload
  <2>6. CASE TakeTick BY <2>6 DEF TakeTick
  <2>7. CASE EndBackup BY <2>7 DEF EndBackup
  <2>8. CASE Tick BY <2>8 DEF Tick
  <2>9. CASE Restart BY <2>9 DEF Restart
  <2>10. CASE UNCHANGED vars BY <2>10 DEF vars
  <2> QED
    BY <2>1, <2>2, <2>3, <2>4, <2>5, <2>6, <2>7, <2>8, <2>9, <2>10 DEF Next
<1>3. Announced => ScheduleFollowsRow
  BY DEF Announced, ScheduleFollowsRow
<1> QED BY <1>1, <1>2, <1>3, PTL DEF Spec

-----------------------------------------------------------------------------
\* An interval whose nanoseconds fit into a word's positive half is a positive
\* period.
LEMMA NoOverflow ==
  ASSUME NEW m \in Int, m >= 1, 2 * m * Minute < Word
  PROVE  Duration(m) > 0
<1> DEFINE d == m * Minute
<1>1. d \in Int /\ d >= 1 /\ 2 * d < Word
  BY WordAssumption
<1>2. d % Word = d
  <2> HIDE DEF d
  <2> QED BY <1>1, WordAssumption
<1> QED BY <1>1, <1>2 DEF Duration

\* What validation lets pass panics by overflow only, and stays that way: a dead
\* process saves no other row.
THEOREM PanicsByOverflow == Spec => []OnlyOverflowPanics
<1>1. Init => OnlyOverflowPanics
  BY DEF Init, OnlyOverflowPanics
<1>2. TypeOK /\ OnlyOverflowPanics /\ [Next]_vars => OnlyOverflowPanics'
  <2> SUFFICES ASSUME TypeOK, OnlyOverflowPanics, [Next]_vars, pc' = "dead"
               PROVE  OnlyOverflowPanics'
    BY DEF OnlyOverflowPanics
  <2>1. CASE UNCHANGED <<pc, row>> BY <2>1 DEF OnlyOverflowPanics
  <2>2. CASE ApplyConfig
    <3>1. row' = row BY <2>2 DEF ApplyConfig
    <3>2. Panics(Period(row)) BY <2>2 DEF ApplyConfig
    <3>3. row # None /\ row.enabled /\ Duration(row.interval) <= 0
      BY <3>2 DEF Panics, Period
    <3>4. row.interval \in Int /\ row.interval >= 1
      BY <3>3, WordAssumption DEF TypeOK, Config, Valid
    <3>5. 2 * row.interval * Minute >= Word
      <4> DEFINE m == row.interval
      <4>1. Duration(m) \in Int
        BY <3>4, WordAssumption DEF Duration
      <4>2. ~(2 * m * Minute < Word)
        <5> HIDE DEF m
        <5> SUFFICES ASSUME 2 * m * Minute < Word PROVE FALSE
          OBVIOUS
        <5>1. m \in Int /\ m >= 1 /\ Duration(m) <= 0 BY <3>3, <3>4 DEF m
        <5>2. Duration(m) \in Int BY <4>1
        <5> QED BY <5>1, <5>2, NoOverflow
      <4> QED BY <4>2, <3>4, WordAssumption
    <3> QED BY <3>1, <3>3, <3>5 DEF OnlyOverflowPanics
  <2>3. ASSUME NEW r \in Request, NEW cfg \in Config, Save(r, cfg)
        PROVE  OnlyOverflowPanics'
    BY <2>3 DEF Save
  <2>4. ASSUME NEW r \in Request, Notify(r) PROVE OnlyOverflowPanics'
    BY <2>4, <2>1 DEF Notify
  <2>5. CASE ApplyFails BY <2>5 DEF ApplyFails
  <2>6. CASE TakeReload BY <2>6 DEF TakeReload
  <2>7. CASE TakeTick BY <2>7 DEF TakeTick
  <2>8. CASE EndBackup BY <2>8 DEF EndBackup
  <2>9. CASE Tick BY <2>9, <2>1 DEF Tick
  <2>10. CASE Restart BY <2>10 DEF Restart
  <2>11. CASE UNCHANGED vars BY <2>11, <2>1 DEF vars
  <2> QED
    BY <2>2, <2>3, <2>4, <2>5, <2>6, <2>7, <2>8, <2>9, <2>10, <2>11 DEF Next
<1> QED BY <1>1, <1>2, TypeCorrect, PTL DEF Spec
-----------------------------------------------------------------------------
(* Stop requests *)

\* The state of the stop requests is of its type.
LEMMA NoStopType ==
  /\ NoStop \in [pc : Stop, age : 0 .. Deadline, alone : BOOLEAN]
  /\ 0 \in 0 .. StopLimit /\ <<>> \in Seq({"START", "STOP"})
BY StopAssumption, EmptySeq DEF NoStop, Stop

LEMMA StopTypeInit == StopInit => StopTypeOK
BY NoStopType DEF StopInit, StopTypeOK

LEMMA StopTypeStep == StopTypeOK /\ [StopNext]_stopVars => StopTypeOK'
<1> SUFFICES ASSUME StopTypeOK, [StopNext]_stopVars PROVE StopTypeOK'
  OBVIOUS
<1> USE NoStopType DEF StopTypeOK
<1>0. NobodyAlone \in [Stopper -> [pc : Stop, age : 0 .. Deadline, alone : BOOLEAN]]
  BY DEF NobodyAlone
<1>1. CASE SomebodyStarts BY <1>1 DEF SomebodyStarts, SendVerb
<1>2. CASE ObeyStart BY <1>0, <1>2 DEF ObeyStart, ReadVerb
<1>3. CASE ObeyStop BY <1>3 DEF ObeyStop, ReadVerb
<1>4. CASE JvmIsOver BY <1>4 DEF JvmIsOver
<1>5. CASE KillHung BY <1>5 DEF KillHung
<1>6. CASE StopReturns BY <1>6 DEF StopReturns
<1>7. CASE StatusFollows BY <1>7 DEF StatusFollows
<1>8. CASE ContainerDies BY <1>8 DEF ContainerDies
<1>9. CASE ContainerBoots BY <1>0, <1>9 DEF ContainerBoots
<1>10. ASSUME NEW s \in Stopper,
              \/ AskStop(s) \/ SendStop(s) \/ SendStopFails(s)
              \/ SeeStopped(s) \/ MisreadStopped(s) \/ GiveUp(s) \/ Answer(s)
       PROVE  StopTypeOK'
  <2>1. stops' \in [Stopper -> [pc : Stop, age : 0 .. Deadline, alone : BOOLEAN]]
    <3>1. \A label \in Stop : Goes(s, label) =>
            stops' \in [Stopper -> [pc : Stop, age : 0 .. Deadline, alone : BOOLEAN]]
      BY SMTT(30) DEF Goes
    <3>2. CASE AskStop(s) \/ SendStop(s) \/ SeeStopped(s) \/ GiveUp(s)
      BY <3>1, <3>2 DEF AskStop, SendStop, SeeStopped, GiveUp, Stop
    <3>3. CASE SendStopFails(s) \/ Answer(s)
      BY <3>3 DEF SendStopFails, Answer
    <3>4. CASE MisreadStopped(s)
      BY <3>4 DEF MisreadStopped, Stop
    <3> QED BY <1>10, <3>2, <3>3, <3>4
  <2>2. UNCHANGED <<up, reader, waited, said>>
    BY <1>10, Zenon
    DEF AskStop, SendStop, SendVerb, SendStopFails, SeeStopped, MisreadStopped, GiveUp, Answer
  <2>3. UNCHANGED verbs \/ verbs' = Append(verbs, "STOP")
    BY <1>10, Zenon
    DEF AskStop, SendStop, SendVerb, SendStopFails, SeeStopped, MisreadStopped, GiveUp, Answer
  <2>4. verbs' \in Seq({"START", "STOP"}) BY <2>3
  <2> QED BY <2>1, <2>2, <2>4
<1>11. CASE StopTick
  <2>1. ASSUME NEW s \in Stopper
        PROVE  (IF stops[s].pc = "polling" THEN [stops[s] EXCEPT !.age = @ + 1] ELSE stops[s])
                 \in [pc : Stop, age : 0 .. Deadline, alone : BOOLEAN]
    <3>1. stops[s].pc = "polling" => stops[s].age < Deadline
      BY <1>11, Zenon DEF StopTick
    <3> QED BY <3>1, StopAssumption
  <2>2. waited' \in 0 .. StopLimit BY <1>11, StopAssumption DEF StopTick
  <2> QED BY <1>11, <2>1, <2>2 DEF StopTick
<1>12. CASE UNCHANGED stopVars BY <1>12 DEF stopVars
<1> QED
  BY <1>1, <1>2, <1>3, <1>4, <1>5, <1>6, <1>7, <1>8, <1>9, <1>10, <1>11, <1>12 DEF StopNext

\* A STOP that nobody has read yet
StopQueued == \E i \in 1 .. Len(verbs) : verbs[i] = "STOP"

\* The JVM of a request that nobody interfered with is down for good; or the
\* supervisor stops it, and has waited as long as the request; or the request
\* has not waited at all, for a STOP that is still to be read.
OnItsWay(s) ==
  \/ ~up
  \/ reader = "stopping" /\ stops[s].age <= waited
  \/ reader = "free" /\ stops[s].age = 0 /\ StopQueued

StopInv ==
  /\ reader = "gone" => ~up
  /\ \A s \in Stopper :
       /\ stops[s].pc \in {"idle", "asked"} => stops[s].age = 0
       /\ stops[s].alone /\ stops[s].pc # "idle" =>
            /\ ~said => ~up
            /\ stops[s].age <= StopLimit
            /\ stops[s].pc = "polling" => OnItsWay(s)
            /\ stops[s].pc = "stopped" => ~up
            /\ stops[s].pc # "late"

LEMMA StopStep == StopTypeOK /\ StopTypeOK' /\ StopInv /\ [StopNext]_stopVars => StopInv'
<1> SUFFICES ASSUME StopTypeOK, StopTypeOK', StopInv, [StopNext]_stopVars PROVE StopInv'
  OBVIOUS
<1> USE StopAssumption DEF StopInv, StopTypeOK
<1>1. CASE SomebodyStarts
  <2>1. verbs' = Append(verbs, "START") /\ UNCHANGED <<up, reader, waited, said, stops>>
    BY <1>1 DEF SomebodyStarts, SendVerb
  <2>2. StopQueued => StopQueued' BY <2>1 DEF StopQueued
  <2> QED BY <2>1, <2>2 DEF OnItsWay
<1>2. CASE ObeyStart
  <2>1. \A s \in Stopper : /\ stops'[s].pc = stops[s].pc /\ stops'[s].age = stops[s].age
                           /\ stops'[s].alone => stops[s].pc = "idle"
    BY <1>2 DEF ObeyStart, NobodyAlone
  <2>2. reader' = "free" BY <1>2 DEF ObeyStart, ReadVerb
  <2> QED BY <2>1, <2>2
<1>3. CASE ObeyStop
  <2>1. UNCHANGED <<up, said, stops>> /\ reader = "free" /\ waited' = 0
        /\ (up => reader' = "stopping") /\ (~up => reader' = "free")
    BY <1>3 DEF ObeyStop, ReadVerb
  <2>2. \A s \in Stopper : OnItsWay(s) => OnItsWay(s)'
    BY <2>1 DEF OnItsWay
  <2> QED BY <2>1, <2>2
<1>4. CASE JvmIsOver \/ KillHung \/ ContainerDies
  <2>1. ~up' /\ UNCHANGED <<said, stops>> BY <1>4 DEF JvmIsOver, KillHung, ContainerDies
  <2> QED BY <2>1 DEF OnItsWay
<1>5. CASE StopReturns
  <2>1. ~up /\ ~up' /\ UNCHANGED stops BY <1>5 DEF StopReturns
  <2> QED BY <2>1 DEF OnItsWay
<1>6. CASE StatusFollows
  <2>1. UNCHANGED <<up, reader, waited, verbs, stops>> /\ said' = up
    BY <1>6 DEF StatusFollows
  <2>2. \A s \in Stopper : OnItsWay(s) => OnItsWay(s)'
    BY <2>1 DEF OnItsWay, StopQueued
  <2> QED BY <2>1, <2>2
<1>7. CASE ContainerBoots
  <2>1. CASE up'
    <3>1. \A s \in Stopper : /\ stops'[s].pc = stops[s].pc /\ stops'[s].age = stops[s].age
                             /\ stops'[s].alone => stops[s].pc = "idle"
      BY <1>7, <2>1 DEF ContainerBoots, NobodyAlone
    <3> QED BY <1>7, <3>1 DEF ContainerBoots
  <2>2. CASE ~up'
    BY <1>7, <2>2 DEF ContainerBoots, OnItsWay
  <2> QED BY <2>1, <2>2
<1>8. ASSUME NEW r \in Stopper, AskStop(r) PROVE StopInv'
  BY <1>8 DEF AskStop, Goes, OnItsWay, StopQueued
<1>9. ASSUME NEW r \in Stopper, SendStop(r) PROVE StopInv'
  <2>1. /\ verbs' = Append(verbs, "STOP") /\ UNCHANGED <<up, reader, waited, said>>
        /\ stops' = [stops EXCEPT ![r].pc = "polling"]
        /\ stops[r].pc = "asked" /\ reader # "gone"
    BY <1>9 DEF SendStop, SendVerb, Goes
  <2>2. StopQueued'
    <3>1. Append(verbs, "STOP")[Len(verbs) + 1] = "STOP"
          /\ Len(Append(verbs, "STOP")) = Len(verbs) + 1 /\ Len(verbs) \in Nat
      OBVIOUS
    <3>2. Len(verbs) + 1 \in 1 .. Len(verbs') BY <2>1, <3>1
    <3> QED BY <2>1, <3>1, <3>2 DEF StopQueued
  <2>3. \A s \in Stopper : OnItsWay(s) => OnItsWay(s)'
    BY <2>1, <2>2 DEF OnItsWay
  <2>4. OnItsWay(r)' BY <2>1, <2>2 DEF OnItsWay
  <2> QED BY <2>1, <2>3, <2>4
<1>10. ASSUME NEW r \in Stopper,
              SendStopFails(r) \/ SeeStopped(r) \/ MisreadStopped(r) \/ GiveUp(r) \/ Answer(r)
       PROVE  StopInv'
  <2>1. UNCHANGED <<up, reader, waited, said, verbs>>
        /\ \A s \in Stopper \ {r} : stops'[s] = stops[s]
    BY <1>10 DEF SendStopFails, SeeStopped, MisreadStopped, GiveUp, Answer, Goes
  <2>2. \/ stops'[r] = NoStop
        \/ ~stops'[r].alone /\ stops'[r].pc = "stopped"
        \/ /\ stops[r].pc = "polling" /\ stops'[r].pc = "stopped" /\ ~said
           /\ stops'[r].alone = stops[r].alone /\ stops'[r].age = stops[r].age
        \/ /\ stops[r].pc = "polling" /\ stops'[r].pc = "late" /\ stops[r].age = Deadline
           /\ stops'[r].alone = stops[r].alone /\ stops'[r].age = stops[r].age
    BY <1>10 DEF SendStopFails, SeeStopped, MisreadStopped, GiveUp, Answer, Goes
  <2>3. \A s \in Stopper \ {r} : OnItsWay(s) => OnItsWay(s)'
    BY <2>1 DEF OnItsWay, StopQueued
  <2> QED BY <2>1, <2>2, <2>3 DEF NoStop
<1>11. CASE StopTick
  <2>1. /\ said = up /\ UNCHANGED <<up, reader, said, verbs>>
        /\ reader = "free" => verbs = <<>>
        /\ reader = "stopping" => up /\ waited < StopLimit /\ waited' = waited + 1
    BY <1>11 DEF StopTick
  <2>2. ASSUME NEW s \in Stopper PROVE stops[s].pc = "idle" \/ (stops[s].pc = "polling" /\ said)
    <3>1. \/ stops[s].pc = "idle"
          \/ stops[s].pc = "polling" /\ said /\ stops[s].age < Deadline
      BY <1>11, Zenon DEF StopTick
    <3> QED BY <3>1
  <2>3. \A s \in Stopper : /\ stops'[s].pc = stops[s].pc /\ stops'[s].alone = stops[s].alone
                           /\ stops[s].pc = "polling" => stops'[s].age = stops[s].age + 1
                           /\ stops[s].pc = "idle" => stops'[s].age = stops[s].age
    BY <1>11 DEF StopTick
  <2>4. ~(reader = "free" /\ StopQueued) BY <2>1, EmptySeq DEF StopQueued
  <2>5. ASSUME NEW s \in Stopper, stops[s].alone, stops[s].pc = "polling"
        PROVE  OnItsWay(s)' /\ stops'[s].age <= StopLimit
    <3>1. up BY <2>1, <2>2, <2>5
    <3>2. reader = "stopping" /\ stops[s].age <= waited
      BY <2>4, <2>5, <3>1 DEF OnItsWay
    <3> QED BY <2>1, <2>3, <2>5, <3>2 DEF OnItsWay
  <2> QED BY <2>1, <2>2, <2>3, <2>5
<1>12. CASE UNCHANGED stopVars BY <1>12 DEF stopVars, OnItsWay, StopQueued
<1> QED
  BY <1>1, <1>2, <1>3, <1>4, <1>5, <1>6, <1>7, <1>8, <1>9, <1>10, <1>11, <1>12 DEF StopNext

\* Unless a server was started meanwhile, or the status misread, a stop request
\* never gives up on a JVM the supervisor is about to kill, however many STOPs
\* are ahead of its own, and "server stopped" is true.
THEOREM StopsAnswerTrue == StopSpec => []StopAnswersTrue
<1>1. StopInit => StopInv
  BY StopAssumption DEF StopInit, StopInv, NoStop
<1>2. StopInv => StopAnswersTrue
  BY DEF StopInv, StopAnswersTrue
<1> QED BY <1>1, <1>2, StopStep, StopTypeInit, StopTypeStep, PTL DEF StopSpec

-----------------------------------------------------------------------------
(* Servers and their runtimes *)

\* Every number a goroutine holds is that of its server's runtime; a tailer is
\* started once the hub is set, by the goroutine that set it.
RuntimesInv ==
  /\ RuntimesTypeOK
  /\ \A i \in ServerID : runtimes[i] <= made
  /\ \A c \in Caller :
       /\ calls[c].pc \in {"got", "created"} => calls[c].got # 0
       /\ calls[c].got # 0 => calls[c].got = runtimes[calls[c].id]
       /\ calls[c].pc = "created" => calls[c].got \in hub /\ tailers[calls[c].got] = 0
  /\ \A c, d \in Caller :
       (/\ calls[c].pc = "created" /\ calls[d].pc = "created"
        /\ calls[c].got = calls[d].got) => c = d
  /\ \A n \in 1 .. MaxMade : tailers[n] <= 1 /\ (n \notin hub => tailers[n] = 0)

\* The servers that have a runtime
Served == {i \in ServerID : runtimes[i] # 0}

CountInv == IsFiniteSet(Served) /\ made = Cardinality(Served)

CallType == [pc : Call, id : ServerID, loading : BOOLEAN, got : 0 .. MaxMade]

LEMMA GotType ==
  ASSUME NEW t \in CallType, NEW n \in 1 .. MaxMade
  PROVE  LET g == [t EXCEPT !.pc = "got", !.got = n]
         IN  g \in CallType /\ g.pc = "got" /\ g.got = n /\ g.id = t.id
<1>1. n \in 0 .. MaxMade BY RuntimesAssumption
<1>2. "got" \in Call BY DEF Call
<1> QED BY <1>1, <1>2 DEF CallType

\* A goroutine goes on with the runtime the map has, or without one.
LEMMA CallGoesOn ==
  ASSUME RuntimesInv, NEW c \in Caller, NEW t \in CallType,
         calls' = [calls EXCEPT ![c] = t],
         t.pc # "created", t.pc = "got" => t.got # 0,
         t.got # 0 => t.got = runtimes[t.id],
         UNCHANGED <<registry, runtimes, made, hub, tailers>>
  PROVE  RuntimesInv'
BY DEF RuntimesInv, RuntimesTypeOK, CallType

\* A goroutine that gets a runtime out of the map holds nothing stale.
LEMMA RuntimesStep == RuntimesInv /\ [RuntimesNext]_runtimesVars => RuntimesInv'
<1> SUFFICES ASSUME RuntimesInv, [RuntimesNext]_runtimesVars PROVE RuntimesInv'
  OBVIOUS
<1> USE RuntimesAssumption DEF RuntimesInv, RuntimesTypeOK, Call
<1>0. NoCall \in CallType /\ NoCall.pc = "none" /\ NoCall.got = 0
  BY DEF NoCall, CallType
<1>b. \A c \in Caller : calls[c] \in CallType BY DEF CallType
<1>a. ASSUME NEW c \in Caller, NEW n \in 1 .. MaxMade, Gets(c, n)
      PROVE  \E t \in CallType : /\ calls' = [calls EXCEPT ![c] = t]
                                 /\ t.pc = "got" /\ t.got = n /\ t.id = calls[c].id
  <2> DEFINE t == [calls[c] EXCEPT !.pc = "got", !.got = n]
  <2>1. t \in CallType /\ t.pc = "got" /\ t.got = n /\ t.id = calls[c].id
    BY <1>b, GotType
  <2>2. calls' = [calls EXCEPT ![c] = t] BY <1>a DEF Gets
  <2> QED BY <2>1, <2>2
<1>1. CASE EnsureDefaultServer BY <1>1 DEF EnsureDefaultServer
<1>2. ASSUME NEW c \in Caller, NEW id \in ServerID, Resolve(c, id) \/ ResolveDefault(c)
      PROVE  RuntimesInv'
  <2>1. PICK i \in ServerID : \E loading \in BOOLEAN : Wants(c, i, loading)
    BY <1>2 DEF Resolve, ResolveDefault
  <2>2. UNCHANGED <<registry, runtimes, made, hub, tailers>>
    BY <1>2 DEF Resolve, ResolveDefault
  <2> QED BY <2>1, <2>2 DEF Wants
<1>3. ASSUME NEW c \in Caller, ReadMap(c) PROVE RuntimesInv'
  <2>1. UNCHANGED <<registry, runtimes, made, hub, tailers>> BY <1>3 DEF ReadMap
  <2>2. CASE runtimes[calls[c].id] # 0
    <3>1. runtimes[calls[c].id] \in 1 .. MaxMade BY <2>2
    <3>2. Gets(c, runtimes[calls[c].id]) BY <1>3, <2>2 DEF ReadMap
    <3>3. PICK t \in CallType :
            /\ calls' = [calls EXCEPT ![c] = t]
            /\ t.pc = "got" /\ t.got = runtimes[calls[c].id] /\ t.id = calls[c].id
      BY <1>a, <3>1, <3>2
    <3>4. t.got # 0 /\ t.got = runtimes[t.id] BY <2>2, <3>3
    <3> HIDE DEF RuntimesInv, RuntimesTypeOK
    <3> QED BY <2>1, <3>2, <3>3, <3>4, CallGoesOn
  <2>3. CASE runtimes[calls[c].id] = 0
    <3> DEFINE t == [calls[c] EXCEPT !.pc = "missed"]
    <3>1. t \in CallType /\ t.got = calls[c].got /\ t.id = calls[c].id /\ t.pc = "missed"
      BY DEF CallType
    <3>2. calls' = [calls EXCEPT ![c] = t] BY <1>3, <2>3 DEF ReadMap
    <3> QED BY <2>1, <3>1, <3>2, CallGoesOn
  <2> QED BY <2>2, <2>3
<1>4. ASSUME NEW c \in Caller, TakeOrMake(c) PROVE RuntimesInv'
  <2>1. UNCHANGED <<registry, hub, tailers>> BY <1>4 DEF TakeOrMake
  <2>2. CASE runtimes[calls[c].id] # 0
    <3>1. runtimes[calls[c].id] \in 1 .. MaxMade BY <2>2
    <3>2. Gets(c, runtimes[calls[c].id]) /\ UNCHANGED <<runtimes, made>>
      BY <1>4, <2>2 DEF TakeOrMake
    <3>3. PICK t \in CallType :
            /\ calls' = [calls EXCEPT ![c] = t]
            /\ t.pc = "got" /\ t.got = runtimes[calls[c].id] /\ t.id = calls[c].id
      BY <1>a, <3>1, <3>2
    <3>4. t.got # 0 /\ t.got = runtimes[t.id] BY <2>2, <3>3
    <3> HIDE DEF RuntimesInv, RuntimesTypeOK
    <3> QED BY <2>1, <3>2, <3>3, <3>4, CallGoesOn
  <2>3. CASE runtimes[calls[c].id] = 0
    <3>1. /\ made < MaxMade /\ made' = made + 1
          /\ runtimes' = [runtimes EXCEPT ![calls[c].id] = made']
          /\ calls' = [calls EXCEPT ![c].pc = "got", ![c].got = made']
      BY <1>4, <2>3 DEF TakeOrMake, Gets
    <3>2. made' \in 1 .. MaxMade /\ \A i \in ServerID : runtimes'[i] <= made'
      BY <3>1
    <3>3. ASSUME NEW d \in Caller PROVE calls'[d].got # 0 => calls'[d].got = runtimes'[calls'[d].id]
      BY <2>3, <3>1
    <3>4. RuntimesTypeOK'
      <4>1. calls' \in [Caller -> CallType]
        <5>1. PICK t \in CallType : calls' = [calls EXCEPT ![c] = t]
          <6>1. made' \in 1 .. MaxMade BY <3>2
          <6>2. Gets(c, made') BY <1>4, <2>3 DEF TakeOrMake
          <6>3. \E t \in CallType : calls' = [calls EXCEPT ![c] = t]
            BY <1>a, <6>1, <6>2
          <6> QED BY <6>3
        <5> QED BY <1>b, <5>1
      <4>2. runtimes' \in [ServerID -> 0 .. MaxMade] BY <3>1, <3>2
      <4> QED BY <2>1, <3>2, <4>1, <4>2, SMTT(30) DEF CallType
    <3>5. \A d \in Caller : /\ calls'[d].pc = "created" => d # c /\ calls'[d] = calls[d]
                            /\ calls'[d].pc = "got" => calls'[d].got # 0
      BY <3>1, <3>2
    <3>6. \A d \in Caller : calls'[d].pc = "created" =>
            calls'[d].got \in hub' /\ tailers'[calls'[d].got] = 0
      BY <2>1, <3>5
    <3>7. \A d, e \in Caller :
            (/\ calls'[d].pc = "created" /\ calls'[e].pc = "created"
             /\ calls'[d].got = calls'[e].got) => d = e
      BY <3>5
    <3>8. \A n \in 1 .. MaxMade : tailers'[n] <= 1 /\ (n \notin hub' => tailers'[n] = 0)
      BY <2>1
    <3>9. \A d \in Caller : calls'[d].pc \in {"got", "created"} => calls'[d].got # 0
      BY <3>5
    <3> QED BY <3>2, <3>3, <3>4, <3>6, <3>7, <3>8, <3>9
  <2> QED BY <2>2, <2>3
<1>5. ASSUME NEW c \in Caller, StartTailer(c) PROVE RuntimesInv'
  <2>1. UNCHANGED <<registry, runtimes, made, tailers>> /\ Once(calls[c].got)
        /\ calls[c].pc = "got"
    BY <1>5 DEF StartTailer
  <2>2. CASE calls[c].got \in hub
    BY <1>0, <1>5, <2>1, <2>2, CallGoesOn DEF StartTailer
  <2>3. CASE calls[c].got \notin hub
    <3>1. /\ calls' = [calls EXCEPT ![c].pc = "created"]
          /\ hub' = hub \cup {calls[c].got}
      BY <1>5, <2>3 DEF StartTailer
    <3>2. calls[c].got \in 1 .. MaxMade /\ tailers[calls[c].got] = 0
      BY <2>1, <2>3
    <3>3. \A d \in Caller : d # c /\ calls[d].pc = "created" => calls[d].got # calls[c].got
      BY <2>1 DEF Once
    <3> QED BY <2>1, <3>1, <3>2, <3>3, ZenonT(30)
  <2> QED BY <2>2, <2>3
<1>6. ASSUME NEW c \in Caller, FollowLog(c) PROVE RuntimesInv'
  <2>1. /\ calls[c].pc = "created" /\ UNCHANGED <<registry, runtimes, made, hub>>
        /\ tailers' = [tailers EXCEPT ![calls[c].got] = @ + 1]
        /\ calls' = [calls EXCEPT ![c] = NoCall]
    BY <1>6 DEF FollowLog
  <2>2. calls[c].got \in 1 .. MaxMade /\ calls[c].got \in hub /\ tailers[calls[c].got] = 0
    BY <2>1
  <2> QED BY <2>1, <2>2 DEF NoCall
<1>7. ASSUME NEW c \in Caller, CallEnds(c) PROVE RuntimesInv'
  BY <1>7 DEF CallEnds, NoCall
<1>8. CASE UNCHANGED runtimesVars BY <1>8 DEF runtimesVars
<1> QED
  BY <1>1, <1>2, <1>3, <1>4, <1>5, <1>6, <1>7, <1>8 DEF RuntimesNext

\* As many runtimes as servers that have one
LEMMA CountStep == RuntimesInv /\ CountInv /\ [RuntimesNext]_runtimesVars => CountInv'
<1> SUFFICES ASSUME RuntimesInv, CountInv, [RuntimesNext]_runtimesVars PROVE CountInv'
  OBVIOUS
<1>1. CASE UNCHANGED <<runtimes, made>> BY <1>1 DEF CountInv, Served
<1>2. ASSUME NEW c \in Caller, TakeOrMake(c) PROVE CountInv'
  <2>1. CASE runtimes[calls[c].id] # 0 BY <1>1, <1>2, <2>1 DEF TakeOrMake
  <2>2. CASE runtimes[calls[c].id] = 0
    <3>1. calls[c].id \in ServerID /\ runtimes \in [ServerID -> Nat] /\ made \in Nat
      BY DEF RuntimesInv, RuntimesTypeOK
    <3>2. made' = made + 1 /\ runtimes' = [runtimes EXCEPT ![calls[c].id] = made']
      BY <1>2, <2>2 DEF TakeOrMake
    <3>3. Served' = Served \cup {calls[c].id} /\ calls[c].id \notin Served
      BY <2>2, <3>1, <3>2 DEF Served
    <3> QED BY <3>2, <3>3, FS_AddElement DEF CountInv
  <2> QED BY <2>1, <2>2
<1> QED
  BY <1>1, <1>2
  DEF RuntimesNext, runtimesVars, EnsureDefaultServer, Resolve, ResolveDefault, ReadMap,
      StartTailer, FollowLog, CallEnds

\* All who work on a server hold the same runtime, which has one tailer, for any
\* number of goroutines that ask for it for the first time at once.
THEOREM OneRuntime == RuntimesSpec => []OneRuntimePerServer
<1>1. RuntimesInit => RuntimesInv /\ CountInv
  <2> SUFFICES ASSUME RuntimesInit PROVE RuntimesInv /\ CountInv
    OBVIOUS
  <2>1. RuntimesInv
    BY RuntimesAssumption DEF RuntimesInit, RuntimesInv, RuntimesTypeOK, NoCall, Call
  <2>2. Served = {} BY DEF RuntimesInit, Served
  <2> QED BY <2>1, <2>2, FS_EmptySet DEF CountInv, RuntimesInit
<1>2. RuntimesInv /\ CountInv => OneRuntimePerServer
  BY DEF RuntimesInv, CountInv, OneRuntimePerServer, Served
<1> QED BY <1>1, <1>2, RuntimesStep, CountStep, PTL DEF RuntimesSpec

=============================================================================
