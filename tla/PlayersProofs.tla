---------------------------- MODULE PlayersProofs ----------------------------
(***************************************************************************)
(* Theorems about WriteFileAtomic, for any writers and any contents, and   *)
(* about Players, whose steps are steps of WriteFileAtomic: so what is     *)
(* proved of that module holds for usercache.json while players are        *)
(* deleted; and server.properties keeps its keys.                          *)
(***************************************************************************)
EXTENDS Players, SequenceTheorems, TLAPS

-----------------------------------------------------------------------------
(* WriteFileAtomic. The inductive invariant is                              *)
(* TypeOK /\ LoneUnlessMixed /\ WholeUnlessMixed.                          *)

USE ContentsAssumption DEF Label, FilesTypeOK, Content

\* Every variable keeps its type.
THEOREM TypeCorrect == Spec => []TypeOK
<1>1. Init => TypeOK BY DEF Init, TypeOK
<1>2. ASSUME TypeOK, [Next]_vars PROVE TypeOK'
  <2> USE <1>2 DEF TypeOK
  <2>1. ASSUME NEW w \in Writer, NEW v \in Value, BeginWrite(w, v) PROVE TypeOK'
    BY <2>1 DEF BeginWrite, Open
  <2>2. ASSUME NEW w \in Writer, FillTmp(w) PROVE TypeOK'
    <3>1. buf[w] \in Content OBVIOUS
    <3>2. \A old \in Content : Overwrite(old, buf[w]) \subseteq Content
      BY <3>1 DEF Overwrite
    <3> QED BY <2>2, <3>2 DEF FillTmp, Write
  <2>9. ASSUME NEW w \in Writer, FillTmpFails(w) PROVE TypeOK'
    BY <2>9 DEF FillTmpFails, WriteFails
  <2>3. ASSUME NEW w \in Writer, Publish(w) PROVE TypeOK'
    <3>1. fd' \in [Writer -> {"none", "tmp", "file", "gone"}]
      BY <2>3 DEF Publish, Rename, Renamed
    <3> QED BY <2>3, <3>1 DEF Publish, Rename
  <2>4. ASSUME NEW w \in Writer, PublishFails(w) PROVE TypeOK'
    BY <2>4 DEF PublishFails, RenameFails
  <2>5. ASSUME NEW w \in Writer, CleanUp(w) PROVE TypeOK'
    BY <2>5 DEF CleanUp, Remove, Unlinked
  <2>6. CASE Crash BY <2>6 DEF Crash, CloseAll
  <2>7. CASE UNCHANGED vars BY <2>7 DEF vars
  <2>8. ASSUME NEW v \in Value, OtherWrite(v) PROVE TypeOK'
    BY <2>8 DEF OtherWrite
  <2> QED BY <1>2, <2>1, <2>2, <2>3, <2>4, <2>5, <2>6, <2>7, <2>8, <2>9 DEF Next
<1> QED BY <1>1, <1>2, PTL DEF Spec

-----------------------------------------------------------------------------
\* What the writers own and what a reader sees, while no calls have overlapped
IInv == TypeOK /\ LoneUnlessMixed /\ WholeUnlessMixed

\* A call that starts while none is in progress is the only one.
LEMMA BeginInductive ==
  ASSUME IInv, TypeOK', NEW w \in Writer, NEW v \in Value, BeginWrite(w, v)
  PROVE  IInv'
<1> USE DEF IInv, TypeOK, LoneUnlessMixed, WholeUnlessMixed, Whole
<1> SUFFICES ASSUME ~mixed' PROVE LoneWriter' /\ Whole'
  OBVIOUS
<1>1. ~mixed /\ Busy = {} /\ LoneWriter BY DEF BeginWrite
<1>2. Busy' = {w} BY <1>1 DEF Busy, BeginWrite
<1>3. \A u \in Writer \ {w} : pc'[u] = "idle" /\ fd'[u] = "none"
  BY <1>1 DEF LoneWriter, Busy, BeginWrite, Open
<1>4. pc'[w] = "opened" /\ fd'[w] = "tmp" /\ tmp' = Empty
      /\ file' = file /\ buf'[w] \in Value
  BY DEF BeginWrite, Open
<1> QED BY <1>1, <1>2, <1>3, <1>4 DEF LoneWriter

\* The step of a call in progress: everyone else is idle.
LEMMA StepInductive ==
  ASSUME IInv, TypeOK', NEW w \in Writer,
         \/ FillTmp(w) \/ FillTmpFails(w)
         \/ Publish(w) \/ PublishFails(w) \/ CleanUp(w)
  PROVE  IInv'
<1> USE DEF IInv, TypeOK, LoneUnlessMixed, WholeUnlessMixed, Whole
<1> SUFFICES ASSUME ~mixed' PROVE LoneWriter' /\ Whole'
  OBVIOUS
<1>1. ~mixed /\ LoneWriter
  BY DEF FillTmp, FillTmpFails, Publish, PublishFails, CleanUp
<1>2. \A u \in Writer \ {w} : pc[u] = "idle" /\ fd[u] = "none"
  BY <1>1 DEF LoneWriter, Busy, FillTmp, FillTmpFails, Publish, PublishFails, CleanUp
<1>3. CASE FillTmp(w)
  <2>1. fd[w] = "tmp" /\ tmp = Empty /\ buf[w] \in Value BY <1>1, <1>3 DEF LoneWriter, FillTmp
  <2>2. tmp' = buf[w] /\ file' = file /\ fd' = [fd EXCEPT ![w] = "none"]
    BY <1>3, <2>1 DEF FillTmp, Write, Overwrite
  <2>3. pc' = [pc EXCEPT ![w] = "filled"] /\ buf' = buf BY <1>3 DEF FillTmp
  <2> QED BY <1>1, <1>2, <2>1, <2>2, <2>3 DEF LoneWriter, Busy
<1>4. CASE Publish(w)
  <2>1. fd[w] = "none" /\ tmp = buf[w] /\ buf[w] \in Value BY <1>1, <1>4 DEF LoneWriter, Publish
  <2>2. file' \in Value BY <1>4, <2>1 DEF Publish, Rename
  <2>3. \A u \in Writer : pc'[u] = "idle" /\ fd'[u] = "none"
    BY <1>2, <1>4, <2>1 DEF Publish, Rename, Renamed
  <2> QED BY <2>2, <2>3 DEF LoneWriter, Busy
<1>5. CASE PublishFails(w)
  <2>1. fd[w] = "none" BY <1>1, <1>5 DEF LoneWriter, PublishFails
  <2>2. pc' = [pc EXCEPT ![w] = "cleaning"] /\ UNCHANGED <<tmp, file, fd, buf>>
    BY <1>5 DEF PublishFails, RenameFails
  <2> QED BY <1>1, <1>2, <2>1, <2>2 DEF LoneWriter, Busy
<1>6. CASE CleanUp(w)
  <2>1. fd[w] = "none" BY <1>1, <1>6 DEF LoneWriter, CleanUp
  <2>2. file' = file /\ \A u \in Writer : pc'[u] = "idle" /\ fd'[u] = "none"
    BY <1>2, <1>6, <2>1 DEF CleanUp, Remove, Unlinked
  <2> QED BY <1>1, <2>2 DEF LoneWriter, Busy
<1>7. CASE FillTmpFails(w)
  <2>1. fd[w] = "tmp" BY <1>1, <1>7 DEF LoneWriter, FillTmpFails
  <2>2. file' = file /\ \A u \in Writer : pc'[u] = "idle" /\ fd'[u] = "none"
    BY <1>2, <1>7, <2>1 DEF FillTmpFails, WriteFails
  <2> QED BY <1>1, <2>2 DEF LoneWriter, Busy
<1> QED BY <1>3, <1>4, <1>5, <1>6, <1>7

\* While calls do not overlap, the call in progress is alone with the
\* temporary file, and a reader sees one whole version of the target, also
\* after crashes at any step.
THEOREM WholeWithoutOverlap == Spec => [](LoneUnlessMixed /\ WholeUnlessMixed)
<1>1. Init => LoneUnlessMixed /\ WholeUnlessMixed
  BY DEF Init, LoneUnlessMixed, WholeUnlessMixed, LoneWriter, Busy, Whole
<1>2. ASSUME IInv, TypeOK', [Next]_vars PROVE IInv'
  <2>1. ASSUME NEW w \in Writer, NEW v \in Value, BeginWrite(w, v) PROVE IInv'
    BY <1>2, <2>1, BeginInductive
  <2>2. ASSUME NEW w \in Writer,
               \/ FillTmp(w) \/ FillTmpFails(w)
               \/ Publish(w) \/ PublishFails(w) \/ CleanUp(w)
        PROVE  IInv'
    BY <1>2, <2>2, StepInductive
  <2>3. CASE Crash
    BY <1>2, <2>3
    DEF Crash, CloseAll, IInv, TypeOK, LoneUnlessMixed, WholeUnlessMixed,
        LoneWriter, Busy, Whole
  <2>4. CASE UNCHANGED vars
    BY <1>2, <2>4
    DEF vars, IInv, LoneUnlessMixed, WholeUnlessMixed, LoneWriter, Busy, Whole
  <2>5. ASSUME NEW v \in Value, OtherWrite(v) PROVE IInv'
    BY <1>2, <2>5
    DEF OtherWrite, IInv, LoneUnlessMixed, WholeUnlessMixed, LoneWriter, Busy, Whole
  <2> QED BY <1>2, <2>1, <2>2, <2>3, <2>4, <2>5 DEF Next
<1> QED BY <1>1, <1>2, TypeCorrect, PTL DEF Spec, IInv

-----------------------------------------------------------------------------
HIDE ContentsAssumption DEF Label, FilesTypeOK, Content
USE UserCacheAssumption, PlayersAssumption DEF File, Step

-----------------------------------------------------------------------------
(* Types *)

LEMMA ListsTyped == <<"ops", "whitelist">> \in Seq(File) /\ <<>> \in Seq(File)
  OBVIOUS

LEMMA NoDeletionTyped == NoDeletion \in Deletion /\ NoDeletion.at = "idle"
  BY ListsTyped DEF NoDeletion, Deletion

\* A request may go over to any step of a deletion that makes sense.
LEMMA JobSet ==
  ASSUME JobOK, NEW r \in Writer, NEW d, JobAt(d), job' = [job EXCEPT ![r] = d]
  PROVE  JobOK'
  BY DEF JobOK, JobAt

\* The steps of a deletion before WriteFileAtomic
LEMMA RemovalTyped ==
  ASSUME JobOK, NEW r \in Writer,
         \/ SendRemove(r) \/ SendRemoveFails(r)
         \/ ReadList(r) \/ StoreList(r) \/ FileFails(r),
         disk \in [File -> SUBSET Player], console \in Seq(File \X Player)
  PROVE  JobOK' /\ disk' \in [File -> SUBSET Player] /\ console' \in Seq(File \X Player)
<1> DEFINE j == job[r]
<1> USE DEF At, Skip, NextList, Deletion
<1>1. j \in Deletion /\ JobAt(j) BY DEF JobOK
<1>2. j.todo # <<>> => Head(j.todo) \in File /\ Tail(j.todo) \in Seq(File)
  BY <1>1
<1>3. CASE SendRemove(r)
  <2>1. <<Head(j.todo), j.player>> \in File \X Player
    BY <1>1, <1>2, <1>3 DEF SendRemove, JobAt
  <2>2. console' \in Seq(File \X Player) BY <1>3, <2>1 DEF SendRemove
  <2>3. JobAt([j EXCEPT !.todo = Tail(@)])
    BY <1>1, <1>2, <1>3 DEF SendRemove, JobAt
  <2>4. JobOK' BY <1>3, <2>3, JobSet DEF SendRemove
  <2> QED BY <1>3, <2>2, <2>4 DEF SendRemove
<1>4. CASE SendRemoveFails(r)
  <2>1. JobAt([j EXCEPT !.todo = Tail(@), !.fair = FALSE])
    BY <1>1, <1>2, <1>4 DEF SendRemoveFails, JobAt
  <2>2. job' = [job EXCEPT ![r] = [j EXCEPT !.todo = Tail(@), !.fair = FALSE]]
    BY <1>4 DEF SendRemoveFails, JobOK
  <2> QED BY <1>4, <2>1, <2>2, JobSet DEF SendRemoveFails
<1>5. CASE ReadList(r)
  <2>1. CASE j.player \in disk[NextList(r)]
    <3>1. JobAt([j EXCEPT !.at = "edit", !.copy = disk[NextList(r)]])
      BY <1>1, <1>2, <1>5 DEF ReadList, JobAt
    <3>2. job' = [job EXCEPT ![r] = [j EXCEPT !.at = "edit", !.copy = disk[NextList(r)]]]
      BY <1>5, <2>1 DEF ReadList, JobOK
    <3> QED BY <1>5, <3>1, <3>2, JobSet DEF ReadList
  <2>2. CASE j.player \notin disk[NextList(r)]
    <3>1. JobAt([j EXCEPT !.todo = Tail(@)])
      BY <1>1, <1>2, <1>5 DEF ReadList, JobAt
    <3>2. job' = [job EXCEPT ![r] = [j EXCEPT !.todo = Tail(@)]]
      BY <1>5, <2>2 DEF ReadList
    <3> QED BY <1>5, <3>1, <3>2, JobSet DEF ReadList
  <2> QED BY <2>1, <2>2
<1>6. CASE StoreList(r)
  <2>1. disk' \in [File -> SUBSET Player]
    BY <1>1, <1>6 DEF StoreList
  <2>2. JobAt([j EXCEPT !.todo = Tail(@), !.at = "files", !.copy = {}])
    BY <1>1, <1>2, <1>6 DEF StoreList, JobAt
  <2>3. job' = [job EXCEPT ![r] = [j EXCEPT !.todo = Tail(@), !.at = "files", !.copy = {}]]
    BY <1>6 DEF StoreList, JobOK
  <2> QED BY <1>6, <2>1, <2>2, <2>3, JobSet DEF StoreList
<1>7. CASE FileFails(r)
  <2>1. JobAt(NoDeletion) BY NoDeletionTyped DEF JobAt
  <2> QED BY <1>7, <2>1, JobSet DEF FileFails, EndDeletion
<1> QED BY <1>3, <1>4, <1>5, <1>6, <1>7

\* The other steps that change what a request is doing
LEMMA JobTyped ==
  ASSUME JobOK, NEW r \in Writer,
         \/ \E p \in Player : Find(r, p)
         \/ \E running \in BOOLEAN : LookAtStatus(r, running)
         \/ CheckJoined(r) \/ RemoveFromCache(r) \/ CleansUp(r) \/ CannotFill(r),
         up \in BOOLEAN
  PROVE  JobOK'
<1> DEFINE j == job[r]
<1> USE DEF At, Set, Deletion
<1>1. j \in Deletion /\ JobAt(j) BY DEF JobOK
<1>2. JobAt(NoDeletion) BY NoDeletionTyped DEF JobAt
<1>3. ASSUME NEW p \in Player, Find(r, p) PROVE JobOK'
  <2> DEFINE d == [NoDeletion EXCEPT !.at = "found", !.player = p, !.cache = file]
  <2>1. JobAt(d) BY <1>2, <1>3 DEF Find, JobAt
  <2> QED BY <1>3, <2>1, JobSet DEF Find
<1>4. ASSUME NEW running \in BOOLEAN, LookAtStatus(r, running) PROVE JobOK'
  <2> DEFINE d == [j EXCEPT !.at = IF running THEN "live" ELSE "files",
                            !.todo = <<"ops", "whitelist">>, !.fair = (running = up)]
  <2>1. JobAt(d) BY <1>1, <1>4, ListsTyped DEF LookAtStatus, JobAt
  <2>2. job' = [job EXCEPT ![r] = d] BY <1>4 DEF LookAtStatus, JobOK
  <2> QED BY <2>1, <2>2, JobSet
<1>5. CASE CheckJoined(r)
  <2>1. CASE LoggedIn(j.player)
    BY <1>2, <1>5, <2>1, JobSet DEF CheckJoined, EndDeletion
  <2>2. CASE ~LoggedIn(j.player)
    <3> DEFINE d == [j EXCEPT !.at = "prune", !.fair = TRUE,
                              !.late = @ \/ "level-name" \notin props]
    <3>1. JobAt(d) BY <1>1, <1>5 DEF CheckJoined, JobAt
    <3>2. job' = [job EXCEPT ![r] = d] BY <1>5, <2>2 DEF CheckJoined, JobOK
    <3> QED BY <3>1, <3>2, JobSet
  <2> QED BY <2>1, <2>2
<1>6. CASE RemoveFromCache(r)
  <2>1. JobAt([j EXCEPT !.at = "write"]) BY <1>1, <1>6 DEF RemoveFromCache, JobAt
  <2> QED BY <1>6, <2>1, JobSet DEF RemoveFromCache
<1>7. CASE CleansUp(r) \/ CannotFill(r)
  BY <1>2, <1>7, JobSet DEF CleansUp, CannotFill, EndDeletion
<1> QED BY <1>3, <1>4, <1>5, <1>6, <1>7

\* Steps that change what every request is doing
LEMMA JobsTyped ==
  ASSUME JobOK,
         \/ Launch \/ Exit \/ ApiCrash
         \/ \E p \in Player : Join(p)
         \/ \E v \in Value : SaveCache(v)
         \/ \E r \in Writer : Publishes(r)
  PROVE  JobOK'
<1> USE DEF At, Deletion
<1>1. \A R \in SUBSET Writer : \A r \in Writer : JobAt(Late(R)[r])
  BY ZenonT(30) DEF JobOK, JobAt, Late
<1>2. \A r \in Writer : JobAt(NoDeletion) BY NoDeletionTyped DEF JobAt
<1>3. CASE Launch \/ Exit
  <2> DEFINE d(r) == IF job[r].at \in {"live", "files", "edit"}
                     THEN [job[r] EXCEPT !.fair = FALSE] ELSE job[r]
  <2>1. \A r \in Writer : JobAt(d(r)) BY ZenonT(30) DEF JobOK, JobAt
  <2>2. job' = [r \in Writer |-> d(r)] BY <1>3 DEF Launch, Exit, Unsettle
  <2> QED BY <2>1, <2>2 DEF JobOK, JobAt
<1>4. CASE ApiCrash
  BY <1>2, <1>4 DEF ApiCrash, JobOK, JobAt
<1>5. ASSUME NEW R \in SUBSET Writer, job' = Late(R) PROVE JobOK'
  BY <1>1, <1>5, ZenonT(30) DEF JobOK, JobAt, Late
<1>6. ASSUME NEW p \in Player, Join(p) PROVE JobOK'
  BY <1>5, <1>6 DEF Join
<1>7. ASSUME NEW v \in Value, SaveCache(v) PROVE JobOK'
  BY <1>5, <1>7 DEF SaveCache
<1>8. ASSUME NEW r \in Writer, Publishes(r) PROVE JobOK'
  BY <1>1, <1>2, <1>8, ZenonT(30) DEF Publishes, JobOK, JobAt, Late
<1> QED BY <1>3, <1>4, <1>6, <1>7, <1>8

-----------------------------------------------------------------------------
(* usercache.json *)

\* What typing the deletions rests on
OwnTyped ==
  /\ JobOK
  /\ up \in BOOLEAN
  /\ disk \in [File -> SUBSET Player] /\ mem \in [File -> SUBSET Player]
  /\ console \in Seq(File \X Player)

LEMMA OwnTypedInductive ==
  ASSUME OwnTyped, [PlayersNext]_allVars
  PROVE  OwnTyped'
<1> USE DEF OwnTyped
<1>1. ASSUME NEW r \in Writer, DeleteStep(r) PROVE OwnTyped'
  <2>1. CASE SendRemove(r) \/ SendRemoveFails(r)
             \/ ReadList(r) \/ StoreList(r) \/ FileFails(r)
    <3>1. up' = up /\ mem' = mem
      BY <2>1 DEF SendRemove, SendRemoveFails, ReadList, StoreList, FileFails
    <3> QED BY <2>1, <3>1, RemovalTyped
  <2>2. CASE (\E p \in Player : Find(r, p))
             \/ (\E running \in BOOLEAN : LookAtStatus(r, running))
             \/ CheckJoined(r) \/ RemoveFromCache(r) \/ CleansUp(r)
    <3>1. UNCHANGED <<up, disk, mem, console>>
      BY <2>2 DEF Find, LookAtStatus, CheckJoined, RemoveFromCache, CleansUp
    <3> QED BY <2>2, <3>1, JobTyped
  <2>3. CASE Publishes(r)
    BY <2>3, JobsTyped DEF Publishes
  <2>5. CASE CannotFill(r)
    <3>1. UNCHANGED <<up, disk, mem, console>> BY <2>5 DEF CannotFill
    <3> QED BY <2>5, <3>1, JobTyped
  <2>4. CASE Fills(r) \/ CannotPublish(r)
    BY <2>4 DEF Fills, CannotPublish, JobOK, JobAt
  <2> QED BY <1>1, <2>1, <2>2, <2>3, <2>4, <2>5 DEF DeleteStep
<1>2. CASE Obey
  <2>1. Tail(console) \in Seq(File \X Player) BY <1>2 DEF Obey
  <2>2. mem' \in [File -> SUBSET Player] /\ disk' \in [File -> SUBSET Player]
    BY <1>2 DEF Obey
  <2> QED BY <1>2, <2>1, <2>2 DEF Obey, JobOK, JobAt
<1>3. CASE ServerStep
  <2>1. JobOK' BY <1>3, JobsTyped DEF ServerStep
  <2> QED BY <1>3, <2>1 DEF ServerStep, Launch, Exit, Join, SaveCache
<1>4. CASE UpdateBegins \/ UpdateGoesOn
  BY <1>4 DEF UpdateBegins, UpdateGoesOn, JobOK, JobAt
<1>5. CASE ApiCrash
  BY <1>5, JobsTyped DEF ApiCrash
<1>6. CASE UNCHANGED allVars
  BY <1>6 DEF allVars, playerVars, JobOK, JobAt
<1> QED BY <1>1, <1>2, <1>3, <1>4, <1>5, <1>6 DEF PlayersNext

\* A step of Players does to usercache.json what a step of WriteFileAtomic
\* does, or nothing.
LEMMA StepMaps ==
  ASSUME OwnTyped, [PlayersNext]_allVars
  PROVE  [Next]_vars
<1> USE DEF Next
<1>1. ASSUME NEW r \in Writer, DeleteStep(r) PROVE [Next]_vars
  <2>1. CASE RemoveFromCache(r)
    <3>1. job[r].cache \ {job[r].player} \in Value
      BY DEF OwnTyped, JobOK, Deletion
    <3> QED BY <2>1, <3>1 DEF RemoveFromCache
  <2>2. CASE Fills(r) \/ CannotFill(r) \/ Publishes(r) \/ CannotPublish(r) \/ CleansUp(r)
    BY <2>2 DEF Fills, CannotFill, Publishes, CannotPublish, CleansUp
  <2>3. CASE (\E p \in Player : Find(r, p))
             \/ (\E running \in BOOLEAN : LookAtStatus(r, running))
             \/ SendRemove(r) \/ SendRemoveFails(r) \/ ReadList(r)
             \/ StoreList(r) \/ FileFails(r) \/ CheckJoined(r)
    BY <2>3 DEF Find, LookAtStatus, SendRemove, SendRemoveFails, ReadList,
                StoreList, FileFails, CheckJoined
  <2> QED BY <1>1, <2>1, <2>2, <2>3 DEF DeleteStep
<1>2. CASE Obey BY <1>2 DEF Obey
<1>3. CASE ServerStep BY <1>3 DEF ServerStep, Launch, Exit, Join, SaveCache
<1>4. CASE UpdateBegins \/ UpdateGoesOn BY <1>4 DEF UpdateBegins, UpdateGoesOn
<1>5. CASE ApiCrash BY <1>5 DEF ApiCrash
<1>6. CASE UNCHANGED allVars BY <1>6 DEF allVars
<1> QED BY <1>1, <1>2, <1>3, <1>4, <1>5, <1>6 DEF PlayersNext

\* Deleting players implements WriteFileAtomic: all that is proved of that
\* module holds here.
THEOREM ImplementsWriteFileAtomic == PlayersSpec => Spec
<1>1. PlayersInit => Init /\ OwnTyped
  <2>1. NoDeletion \in Deletion /\ JobAt(NoDeletion)
    BY NoDeletionTyped DEF JobAt
  <2> QED BY <2>1, NoDeletionTyped DEF PlayersInit, OwnTyped, JobOK, JobAt
<1>2. OwnTyped /\ [PlayersNext]_allVars => OwnTyped' BY OwnTypedInductive
<1>3. OwnTyped /\ [PlayersNext]_allVars => [Next]_vars BY StepMaps
<1> QED BY <1>1, <1>2, <1>3, PTL DEF PlayersSpec, Spec

\* While players are deleted, the server writes usercache.json and the process
\* dies at any step, a reader sees it whole, unless two deletions write at once.
THEOREM CacheIsWhole == PlayersSpec => []WholeUnlessMixed
  BY ImplementsWriteFileAtomic, WholeWithoutOverlap, PTL

-----------------------------------------------------------------------------
(* server.properties *)

\* Every update in progress carries every key from its reading on.
Kept ==
  /\ PropsTypeOK
  /\ ~torn =>
       /\ \A u \in Updater : update[u].pc # "idle" => update[u].merged = Key
       /\ props = Key \/ \E u \in Updater : update[u].pc = "truncated"

LEMMA KeptInductive ==
  ASSUME Kept,
         \/ \E u \in Updater, keys \in SUBSET Key : BeginUpdate(u, keys)
         \/ \E u \in Updater : Truncate(u) \/ TruncateFails(u) \/ Fill(u) \/ FillFails(u)
         \/ PropsCrash
         \/ UNCHANGED propsVars
  PROVE  Kept'
<1> USE DEF Kept, PropsTypeOK
<1>1. ASSUME NEW u \in Updater, NEW keys \in SUBSET Key, BeginUpdate(u, keys) PROVE Kept'
  <2>1. PropsTypeOK' BY <1>1 DEF BeginUpdate, Begin
  <2>2. ASSUME ~torn' PROVE ~torn /\ props = Key
    BY <1>1, <2>2 DEF BeginUpdate, Begin
  <2>3. ~torn' => update'[u].merged = Key BY <1>1, <2>2 DEF BeginUpdate, Begin
  <2>4. props' = props /\ \A w \in Updater \ {u} : update'[w] = update[w]
    BY <1>1 DEF BeginUpdate, Begin
  <2> QED BY <2>1, <2>2, <2>3, <2>4
<1>2. ASSUME NEW u \in Updater, Truncate(u) PROVE Kept'
  <2>1. PropsTypeOK' BY <1>2 DEF Truncate
  <2> QED BY <1>2, <2>1 DEF Truncate
<1>3. ASSUME NEW u \in Updater, Fill(u) PROVE Kept'
  <2>1. PropsTypeOK' BY <1>3 DEF Fill, NoUpdate
  <2>2. ASSUME ~torn PROVE props' = Key
    <3>1. update[u].merged = Key /\ props \subseteq Key BY <1>3, <2>2 DEF Fill
    <3> QED BY <1>3, <3>1 DEF Fill
  <2>3. \A w \in Updater : update'[w] = update[w] \/ update'[w].pc = "idle"
    BY <1>3 DEF Fill, NoUpdate
  <2> QED BY <1>3, <2>1, <2>2, <2>3 DEF Fill
<1>4. CASE PropsCrash
  <2>1. PropsTypeOK' BY <1>4 DEF PropsCrash, NoUpdate
  <2>2. \A u \in Updater : update'[u].pc = "idle" BY <1>4 DEF PropsCrash, NoUpdate
  <2>3. ~torn' => props' = Key BY <1>4 DEF PropsCrash
  <2> QED BY <2>1, <2>2, <2>3
<1>5. CASE UNCHANGED propsVars BY <1>5 DEF propsVars
<1>6. ASSUME NEW u \in Updater, FillFails(u) PROVE Kept'
  BY <1>6 DEF FillFails, NoUpdate
<1>7. ASSUME NEW u \in Updater, TruncateFails(u) PROVE Kept'
  <2>1. PropsTypeOK' BY <1>7 DEF TruncateFails, NoUpdate
  <2>2. \A w \in Updater :
          /\ update'[w] = update[w] \/ update'[w].pc = "idle"
          /\ (update[w].pc = "truncated" => update'[w] = update[w])
    BY <1>7 DEF TruncateFails, NoUpdate
  <2>3. props' = props /\ torn' = torn BY <1>7 DEF TruncateFails
  <2>4. ASSUME ~torn, NEW w \in Updater, update'[w].pc # "idle"
        PROVE  update'[w].merged = Key
    BY <2>2, <2>4
  <2>5. ~torn => (props' = Key \/ \E w \in Updater : update'[w].pc = "truncated")
    BY <2>2, <2>3
  <2> QED BY <2>1, <2>3, <2>4, <2>5
<1> QED BY <1>1, <1>2, <1>3, <1>4, <1>5, <1>6, <1>7

\* Kept is an invariant of the whole.
LEMMA KeptAlways == PlayersSpec => []Kept
<1>1. ASSUME PropsInit PROVE Kept
  <2>1. PropsTypeOK BY <1>1 DEF PropsInit, PropsTypeOK, NoUpdate
  <2>2. \A u \in Updater : update[u].pc = "idle" BY <1>1 DEF PropsInit, NoUpdate
  <2>3. props = Key BY <1>1 DEF PropsInit
  <2> QED BY <2>1, <2>2, <2>3 DEF Kept
<1>2. ASSUME Kept, [PlayersNext]_allVars PROVE Kept'
  <2>1. \/ UNCHANGED propsVars
        \/ \E u \in Updater, keys \in SUBSET Key : BeginUpdate(u, keys)
        \/ \E u \in Updater : Truncate(u) \/ TruncateFails(u) \/ Fill(u) \/ FillFails(u)
        \/ PropsCrash
    BY <1>2 DEF PlayersNext, DeleteStep, ServerStep, UpdateBegins, UpdateGoesOn,
         ApiCrash, Find, LookAtStatus, SendRemove, SendRemoveFails, ReadList,
         StoreList, FileFails, CheckJoined, RemoveFromCache, Fills, CannotFill, Publishes,
         CannotPublish, CleansUp, Obey, Launch, Exit, Join, SaveCache, allVars
  <2> QED BY <1>2, <2>1, KeptInductive
<1>3. PlayersInit => PropsInit BY DEF PlayersInit
<1> QED BY <1>1, <1>2, <1>3, PTL DEF PlayersSpec

\* server.properties loses no key, for any number of updates, overlapping or
\* not, as long as none reads it while it is empty, and none dies or fails
\* having emptied it.
THEOREM KeysKept == PlayersSpec => []KeysAreKept
<1>1. Kept => KeysAreKept BY DEF Kept, KeysAreKept
<1> QED BY <1>1, KeptAlways, PTL

-----------------------------------------------------------------------------
\* The histories and the counters
Counted ==
  /\ joined \subseteq Player /\ gone \subseteq Player
  /\ begun \in 0 .. MaxDeletions /\ events \in 0 .. MaxEvents
  /\ crowded \in BOOLEAN

LEMMA CountedInductive ==
  ASSUME OwnTyped, Counted, [PlayersNext]_allVars
  PROVE  Counted'
<1> USE DEF Counted, At
<1>1. CASE UNCHANGED allVars BY <1>1 DEF allVars, playerVars
<1>2. CASE PlayersNext
  <2>1. crowded' \in BOOLEAN BY <1>2 DEF PlayersNext
  <2>2. events' \in 0 .. MaxEvents BY <1>2 DEF PlayersNext
  <2>3. \/ UNCHANGED <<joined, gone, begun>>
        \/ \E r \in Writer, p \in Player : Find(r, p)
        \/ \E r \in Writer : CheckJoined(r)
        \/ Exit
        \/ \E p \in Player : Join(p)
    BY <1>2 DEF PlayersNext, DeleteStep, ServerStep, UpdateBegins, UpdateGoesOn,
         ApiCrash, LookAtStatus, SendRemove, SendRemoveFails, ReadList, StoreList,
         FileFails, RemoveFromCache, Fills, CannotFill, Publishes,
         CannotPublish, CleansUp, Obey, Launch, SaveCache
  <2>4. ASSUME NEW r \in Writer, NEW p \in Player, Find(r, p)
        PROVE  UNCHANGED <<joined, gone>> /\ begun' \in 0 .. MaxDeletions
    BY <2>4 DEF Find
  <2>5. ASSUME NEW r \in Writer, CheckJoined(r)
        PROVE  UNCHANGED <<joined, begun>> /\ gone' \subseteq Player
    <3>1. job[r].player \in Player BY <2>5 DEF CheckJoined, OwnTyped, JobOK, JobAt
    <3> QED BY <2>5, <3>1 DEF CheckJoined
  <2> QED BY <2>1, <2>2, <2>3, <2>4, <2>5 DEF Exit, Join
<1> QED BY <1>1, <1>2

\* Every variable keeps its type, whatever the players, requests and bounds.
THEOREM PlayersTypeCorrect == PlayersSpec => []PlayersTypeOK
<1>1. PlayersInit => OwnTyped /\ Counted
  <2>1. NoDeletion \in Deletion /\ JobAt(NoDeletion)
    BY NoDeletionTyped DEF JobAt
  <2>2. PlayersInit => OwnTyped
    BY <2>1, NoDeletionTyped DEF PlayersInit, OwnTyped, JobOK, JobAt
  <2>3. PlayersInit => /\ joined \subseteq Player /\ gone = {} /\ crowded = FALSE
                       /\ begun = 0 /\ events = 0
    BY DEF PlayersInit
  <2>4. ASSUME PlayersInit PROVE Counted
    <3>1. 0 \in 0 .. MaxDeletions /\ 0 \in 0 .. MaxEvents OBVIOUS
    <3>2. joined \subseteq Player /\ gone \subseteq Player BY <2>3, <2>4
    <3>3. begun = 0 /\ events = 0 /\ crowded \in BOOLEAN BY <2>3, <2>4
    <3> QED BY <3>1, <3>2, <3>3 DEF Counted
  <2> QED BY <2>2, <2>4
<1>2. OwnTyped /\ [PlayersNext]_allVars => OwnTyped' BY OwnTypedInductive
<1>3. OwnTyped /\ Counted /\ [PlayersNext]_allVars => Counted' BY CountedInductive
<1>4. OwnTyped /\ Counted => OwnTypeOK BY DEF OwnTyped, Counted, OwnTypeOK
<1>5. PlayersTypeOK <=> TypeOK /\ PropsTypeOK /\ OwnTypeOK BY DEF PlayersTypeOK
<1>6. Kept => PropsTypeOK BY DEF Kept
<1> QED BY <1>1, <1>2, <1>3, <1>4, <1>5, <1>6, ImplementsWriteFileAtomic,
           TypeCorrect, KeptAlways, PTL DEF PlayersSpec

-----------------------------------------------------------------------------
(* The lists                                                                *)

Has(s, x) == \E i \in DOMAIN s : s[i] = x

LEMMA HasAppended ==
  ASSUME NEW S, NEW s \in Seq(S), NEW e \in S, NEW x
  PROVE  Has(Append(s, e), x) <=> (Has(s, x) \/ x = e)
<1>1. /\ Len(Append(s, e)) = Len(s) + 1 /\ Append(s, e)[Len(s) + 1] = e
      /\ \A i \in 1 .. Len(s) : Append(s, e)[i] = s[i]
      /\ DOMAIN s = 1 .. Len(s) /\ DOMAIN Append(s, e) = 1 .. Len(s) + 1
      /\ Len(s) \in Nat
  OBVIOUS
<1> HIDE DEF Has
<1>2. ASSUME Has(s, x) PROVE Has(Append(s, e), x)
  <2>1. PICK i \in DOMAIN s : s[i] = x BY <1>2 DEF Has
  <2>2. i \in DOMAIN Append(s, e) /\ Append(s, e)[i] = x BY <1>1, <2>1
  <2> QED BY <2>2 DEF Has
<1>3. ASSUME x = e PROVE Has(Append(s, e), x)
  <2>1. Len(s) + 1 \in DOMAIN Append(s, e) BY <1>1
  <2> QED BY <1>1, <1>3, <2>1 DEF Has
<1>4. ASSUME Has(Append(s, e), x), x # e PROVE Has(s, x)
  <2>1. PICK i \in DOMAIN Append(s, e) : Append(s, e)[i] = x BY <1>4 DEF Has
  <2>2. i \in 1 .. Len(s) BY <1>1, <1>4, <2>1
  <2> QED BY <1>1, <2>1, <2>2 DEF Has
<1> QED BY <1>2, <1>3, <1>4

LEMMA HasTaken ==
  ASSUME NEW S, NEW s \in Seq(S), s # <<>>, NEW x, Has(s, x), x # Head(s)
  PROVE  Has(Tail(s), x)
<1>1. /\ DOMAIN s = 1 .. Len(s) /\ DOMAIN Tail(s) = 1 .. Len(s) - 1
      /\ \A i \in 1 .. Len(s) - 1 : Tail(s)[i] = s[i + 1]
      /\ Head(s) = s[1] /\ Len(s) \in Nat
  OBVIOUS
<1>2. PICK i \in DOMAIN s : s[i] = x BY DEF Has
<1>3. i - 1 \in DOMAIN Tail(s) /\ Tail(s)[i - 1] = x BY <1>1, <1>2
<1> QED BY <1>3 DEF Has

LEMMA HasBoth == \A l \in File : Has(<<"ops", "whitelist">>, l)
<1>1. /\ 1 \in DOMAIN <<"ops", "whitelist">> /\ 2 \in DOMAIN <<"ops", "whitelist">>
      /\ <<"ops", "whitelist">>[1] = "ops" /\ <<"ops", "whitelist">>[2] = "whitelist"
  OBVIOUS
<1> QED BY <1>1 DEF Has

\* p is off the list l, or the command that takes p off is on its way to a
\* server that will obey it.
Removed(l, p) == p \notin disk[l] \cup mem[l] \/ (up /\ Has(console, <<l, p>>))

\* A deletion that nothing has interfered with goes the right way about it and
\* has seen to the lists it no longer has before it.
RemovesFairly(r) ==
  (job[r].at \in {"live", "files", "edit"} /\ job[r].fair) =>
    /\ up <=> At(r, "live")
    /\ \A l \in File : Has(job[r].todo, l) \/ Removed(l, job[r].player)

\* Until a crowd, who edits a file holds the list that is in it, and the
\* running server has every entry in its memory that the file has: otherwise it
\* would not obey a command to remove it, and write it back later.
GoneInv ==
  /\ ~up => \A l \in File : mem[l] = {}
  /\ ~crowded =>
       /\ ~Crowd
       /\ \A r \in Writer : At(r, "edit") => job[r].copy = disk[NextList(r)]
       /\ up => \A l \in File : disk[l] \subseteq mem[l]
       /\ \A p \in gone, l \in File : Removed(l, p)
       /\ \A r \in Writer : RemovesFairly(r)

\* What a request is doing, as far as the lists are concerned, is unchanged, or
\* it has nothing to do with them.
SameOrOff(q) ==
  \/ job'[q].at \notin {"live", "files", "edit"}
  \/ /\ job'[q].at = job[q].at /\ job'[q].player = job[q].player
     /\ job'[q].todo = job[q].todo /\ job'[q].copy = job[q].copy
     /\ job'[q].fair = job[q].fair

\* Steps that leave lists, server and console alone
LEMMA GoneByOthers ==
  ASSUME GoneInv, UNCHANGED <<up, disk, mem, console>>, gone' = gone,
         ~crowded' => (~crowded /\ ~Crowd'),
         \A q \in Writer : SameOrOff(q)
  PROVE  GoneInv'
<1>1. \A l, p : Removed(l, p)' = Removed(l, p) BY DEF Removed, Has
<1>2. ASSUME ~crowded', NEW q \in Writer PROVE RemovesFairly(q)'
  <2>1. ~crowded /\ RemovesFairly(q) BY <1>2 DEF GoneInv
  <2>2. CASE job'[q].at \notin {"live", "files", "edit"} BY <2>2 DEF RemovesFairly
  <2>3. CASE job'[q].at \in {"live", "files", "edit"}
    <3>1. /\ job'[q].at = job[q].at /\ job'[q].player = job[q].player
          /\ job'[q].todo = job[q].todo /\ job'[q].fair = job[q].fair
      BY <2>3 DEF SameOrOff
    <3> QED BY <1>1, <2>1, <3>1 DEF RemovesFairly, At
  <2> QED BY <2>2, <2>3
<1>3. ASSUME ~crowded', NEW q \in Writer, At(q, "edit")' PROVE (job[q].copy = disk[NextList(q)])'
  <2>1. /\ job'[q].at = job[q].at /\ job'[q].copy = job[q].copy
        /\ job'[q].todo = job[q].todo
    BY <1>3 DEF SameOrOff, At
  <2> QED BY <1>3, <2>1 DEF GoneInv, At, NextList
<1> QED BY <1>1, <1>2, <1>3 DEF GoneInv

\* A step of one request: what counts is that request, and the lists that are
\* off for everybody stay off.
LEMMA GoneByOne ==
  ASSUME GoneInv, NEW r \in Writer, OwnTyped,
         UNCHANGED <<up, mem>>,
         ~crowded' => (~crowded /\ ~Crowd'),
         \A q \in Writer \ {r} : job'[q] = job[q],
         ~crowded' => /\ \A l \in File : disk'[l] \subseteq disk[l]
                      /\ \A l \in File, p \in Player : Removed(l, p) => Removed(l, p)'
                      /\ \A p \in gone', l \in File : Removed(l, p)'
                      /\ \A q \in Writer \ {r} : At(q, "edit") => disk' = disk
                      /\ At(r, "edit")' => (job[r].copy = disk[NextList(r)])'
                      /\ RemovesFairly(r)'
  PROVE  GoneInv'
<1>1. ASSUME ~crowded', NEW q \in Writer \ {r} PROVE RemovesFairly(q)'
  <2>1. ~crowded /\ RemovesFairly(q) BY <1>1 DEF GoneInv
  <2>2. job[q].at # "idle" => job[q].player \in Player
    BY DEF OwnTyped, JobOK, JobAt
  <2> QED BY <1>1, <2>1, <2>2 DEF RemovesFairly, At
<1>2. ASSUME ~crowded', NEW q \in Writer \ {r}, At(q, "edit")'
      PROVE (job[q].copy = disk[NextList(q)])'
  BY <1>2 DEF GoneInv, At, NextList
<1> QED BY <1>1, <1>2 DEF GoneInv

\* Steps of a deletion that do not touch lists or console
LEMMA GoneByLook ==
  ASSUME OwnTyped, GoneInv, ~crowded' => (~crowded /\ ~Crowd'), NEW r \in Writer,
         \/ \E running \in BOOLEAN : LookAtStatus(r, running)
         \/ SendRemoveFails(r) \/ ReadList(r) \/ CheckJoined(r)
  PROVE  GoneInv'
<1> DEFINE j == job[r]
<1> USE DEF At
<1>1. j \in Deletion /\ JobAt(j) /\ job \in [Writer -> Deletion] /\ j.todo \in Seq(File)
  BY DEF OwnTyped, JobOK, Deletion
<1>2. UNCHANGED <<up, disk, mem, console>>
  BY DEF LookAtStatus, SendRemoveFails, ReadList, CheckJoined
<1>3. \A l, p : Removed(l, p)' = Removed(l, p) BY <1>2 DEF Removed, Has
<1> DEFINE InOrder ==
             /\ \A q \in Writer \ {r} : job'[q] = job[q]
             /\ ~crowded' =>
                  /\ \A p \in gone', l \in File : Removed(l, p)
                  /\ job'[r].at = "edit" => job'[r].copy = disk[Head(job'[r].todo)]
                  /\ (job'[r].at \in {"live", "files", "edit"} /\ job'[r].fair) =>
                       /\ up <=> job'[r].at = "live"
                       /\ \A l \in File : Has(job'[r].todo, l) \/ Removed(l, job'[r].player)
<1>4. ASSUME InOrder PROVE GoneInv'
  <2>1. \A q \in Writer \ {r} : job'[q] = job[q] BY <1>4
  <2>2. ASSUME ~crowded'
        PROVE  /\ \A l \in File : disk'[l] \subseteq disk[l]
               /\ \A l \in File, p \in Player : Removed(l, p) => Removed(l, p)'
               /\ \A q \in Writer \ {r} : At(q, "edit") => disk' = disk
    BY <1>2, <1>3
  <2>3. ASSUME ~crowded' PROVE \A p \in gone', l \in File : Removed(l, p)'
    BY <1>3, <1>4, <2>3
  <2>4. ASSUME ~crowded' PROVE At(r, "edit")' => (job[r].copy = disk[NextList(r)])'
    BY <1>2, <1>4, <2>4 DEF NextList
  <2>5. ASSUME ~crowded' PROVE RemovesFairly(r)'
    <3> SUFFICES ASSUME job'[r].at \in {"live", "files", "edit"}, job'[r].fair
                 PROVE  /\ up' <=> job'[r].at = "live"
                        /\ \A l \in File : Has(job[r].todo, l)' \/ Removed(l, job[r].player)'
      BY DEF RemovesFairly
    <3>1. /\ up <=> job'[r].at = "live"
          /\ \A l \in File : Has(job'[r].todo, l) \/ Removed(l, job'[r].player)
      BY <1>4, <2>5
    <3> QED BY <1>2, <3>1 DEF Removed, Has
  <2> QED BY <1>2, <2>1, <2>2, <2>3, <2>4, <2>5, GoneByOne
<1>5. ASSUME ~crowded' PROVE /\ \A p \in gone, l \in File : Removed(l, p)
                             /\ RemovesFairly(r)
                             /\ ~up => \A l \in File : mem[l] = {}
  BY <1>5 DEF GoneInv
<1>6. ASSUME NEW running \in BOOLEAN, LookAtStatus(r, running) PROVE InOrder
  <2>1. /\ job'[r].at = IF running THEN "live" ELSE "files"
        /\ job'[r].todo = <<"ops", "whitelist">> /\ job'[r].fair = (running = up)
        /\ \A q \in Writer \ {r} : job'[q] = job[q]
    BY <1>1, <1>6 DEF LookAtStatus, Deletion
  <2>2. gone' = gone BY <1>6 DEF LookAtStatus
  <2>3. job'[r].fair => (up <=> job'[r].at = "live")
    BY <2>1 DEF OwnTyped
  <2>4. job'[r].at # "edit" BY <2>1
  <2> QED BY <1>5, <2>1, <2>2, <2>3, <2>4, HasBoth
<1>7. ASSUME SendRemoveFails(r) PROVE InOrder
  <2>1. job' = [job EXCEPT ![r] = [j EXCEPT !.todo = Tail(@), !.fair = FALSE]]
    BY <1>1, <1>7 DEF SendRemoveFails, Skip
  <2>2. ~job'[r].fair /\ job'[r].at = "live" /\ gone' = gone
        /\ \A q \in Writer \ {r} : job'[q] = job[q]
    BY <1>1, <1>7, <2>1, ZenonT(30) DEF SendRemoveFails, Deletion
  <2> QED BY <1>5, <2>2
<1>8. ASSUME ReadList(r) PROVE InOrder
  <2>1. j.at = "files" /\ j.todo # <<>> /\ gone' = gone BY <1>8 DEF ReadList
  <2>2. CASE j.player \in disk[NextList(r)]
    <3>1. job' = [job EXCEPT ![r] = [j EXCEPT !.at = "edit", !.copy = disk[NextList(r)]]]
      BY <1>1, <1>8, <2>2 DEF ReadList
    <3>2. /\ job'[r].at = "edit" /\ job'[r].copy = disk[Head(j.todo)]
          /\ job'[r].todo = j.todo /\ job'[r].fair = j.fair /\ job'[r].player = j.player
          /\ \A q \in Writer \ {r} : job'[q] = job[q]
      BY <1>1, <3>1 DEF Deletion, NextList
    <3> QED BY <1>5, <2>1, <3>2 DEF RemovesFairly
  <2>3. CASE j.player \notin disk[NextList(r)]
    <3>1. job' = [job EXCEPT ![r] = [j EXCEPT !.todo = Tail(@)]]
      BY <1>1, <1>8, <2>3 DEF ReadList, Skip
    <3>2. /\ job'[r].at = "files"
          /\ job'[r].todo = Tail(j.todo) /\ job'[r].fair = j.fair
          /\ job'[r].player = j.player
          /\ \A q \in Writer \ {r} : job'[q] = job[q]
      BY <1>1, <2>1, <3>1 DEF Deletion
    <3>3. ASSUME ~crowded', j.fair, NEW l \in File
          PROVE  ~up /\ (Has(Tail(j.todo), l) \/ Removed(l, j.player))
      <4>1. ~up /\ mem[l] = {} /\ (Has(j.todo, l) \/ Removed(l, j.player))
        BY <1>5, <2>1, <3>3 DEF RemovesFairly
      <4>2. CASE l = Head(j.todo)
        BY <2>3, <4>1, <4>2 DEF Removed, NextList
      <4>3. CASE l # Head(j.todo) BY <1>1, <2>1, <4>1, <4>3, HasTaken
      <4> QED BY <4>1, <4>2, <4>3
    <3>4. "ops" \in File OBVIOUS
    <3> QED BY <1>5, <2>1, <3>2, <3>3, <3>4
  <2> QED BY <2>2, <2>3
<1>9. ASSUME CheckJoined(r) PROVE InOrder
  <2>1. /\ j.at \in {"live", "files"} /\ j.todo = <<>>
        /\ gone' = IF j.fair THEN gone \cup {j.player} ELSE gone
    BY <1>9 DEF CheckJoined
  <2>2. job'[r].at \in {"idle", "prune"} /\ \A q \in Writer \ {r} : job'[q] = job[q]
    BY <1>1, <1>9, NoDeletionTyped DEF CheckJoined, EndDeletion, Deletion
  <2>3. ASSUME ~crowded', j.fair, NEW l \in File PROVE Removed(l, j.player)
    <3>1. ~Has(j.todo, l) BY <2>1 DEF Has
    <3> QED BY <1>5, <2>1, <2>3, <3>1 DEF RemovesFairly
  <2> QED BY <1>5, <2>1, <2>2, <2>3
<1> HIDE DEF InOrder
<1> QED BY <1>4, <1>6, <1>7, <1>8, <1>9

\* A command to remove somebody is sent.
LEMMA GoneBySend ==
  ASSUME OwnTyped, GoneInv, ~crowded' => (~crowded /\ ~Crowd'), NEW r \in Writer,
         SendRemove(r)
  PROVE  GoneInv'
<1> DEFINE j == job[r]  c == <<Head(j.todo), j.player>>
<1>1. /\ j \in Deletion /\ job \in [Writer -> Deletion]
      /\ j.todo \in Seq(File) /\ j.todo # <<>> /\ j.at = "live"
      /\ console \in Seq(File \X Player) /\ j.player \in Player /\ gone' = gone
      /\ UNCHANGED <<up, disk, mem>>
  BY DEF OwnTyped, JobOK, JobAt, Deletion, SendRemove, At
<1>2. Head(j.todo) \in File BY <1>1
<1>3. c \in File \X Player /\ console' = Append(console, c)
  BY <1>1, <1>2 DEF SendRemove, NextList
<1>4. \A x : Has(console, x)' <=> (Has(console, x) \/ x = c)
  <2>1. \A x : Has(console', x) <=> (Has(console, x) \/ x = c)
    BY <1>1, <1>3, HasAppended
  <2> QED BY <2>1 DEF Has
<1>5. \A l, p : Removed(l, p) => Removed(l, p)' BY <1>1, <1>4 DEF Removed
<1>6. /\ job'[r].at = "live" /\ job'[r].todo = Tail(j.todo)
      /\ job'[r].fair = j.fair /\ job'[r].player = j.player
      /\ \A q \in Writer \ {r} : job'[q] = job[q]
  <2>1. job' = [job EXCEPT ![r] = [j EXCEPT !.todo = Tail(@)]]
    BY <1>1 DEF SendRemove, Skip
  <2> QED BY <1>1, <2>1 DEF Deletion
<1>7. ASSUME ~crowded' PROVE RemovesFairly(r)'
  <2> SUFFICES ASSUME j.fair, NEW l \in File
               PROVE  up' /\ (Has(job'[r].todo, l) \/ Removed(l, j.player)')
    BY <1>6 DEF RemovesFairly, At, Has
  <2>1. up /\ (Has(j.todo, l) \/ Removed(l, j.player))
    BY <1>1, <1>7 DEF GoneInv, RemovesFairly, At
  <2>2. CASE l = Head(j.todo)
    BY <1>1, <1>4, <1>6, <2>1, <2>2 DEF Removed
  <2>3. CASE l # Head(j.todo)
    BY <1>1, <1>5, <1>6, <2>1, <2>3, HasTaken
  <2> QED BY <1>1, <2>1, <2>2, <2>3
<1>8. ~At(r, "edit")' BY <1>6 DEF At
<1>9. ASSUME ~crowded' PROVE \A p \in gone', l \in File : Removed(l, p)'
  BY <1>1, <1>5, <1>9 DEF GoneInv
<1> QED BY <1>1, <1>5, <1>6, <1>7, <1>8, <1>9, GoneByOne

\* A list is written over its file, by who is alone with it.
LEMMA GoneByStore ==
  ASSUME OwnTyped, GoneInv, ~crowded' => (~crowded /\ ~Crowd'), NEW r \in Writer,
         StoreList(r)
  PROVE  GoneInv'
<1> DEFINE j == job[r]  h == Head(j.todo)
<1>1. /\ j \in Deletion /\ job \in [Writer -> Deletion]
      /\ j.todo \in Seq(File) /\ j.todo # <<>> /\ j.at = "edit"
      /\ disk \in [File -> SUBSET Player] /\ gone' = gone
      /\ UNCHANGED <<up, mem, console>>
  BY DEF OwnTyped, JobOK, JobAt, Deletion, StoreList, At
<1>2. h \in File BY <1>1
<1>3. disk' = [disk EXCEPT ![h] = j.copy \ {j.player}] BY DEF StoreList, NextList
<1>4. /\ job'[r].at = "files" /\ job'[r].todo = Tail(j.todo)
      /\ job'[r].fair = j.fair /\ job'[r].player = j.player
      /\ \A q \in Writer \ {r} : job'[q] = job[q]
  <2>1. job' = [job EXCEPT ![r] = [j EXCEPT !.todo = Tail(@), !.at = "files", !.copy = {}]]
    BY <1>1 DEF StoreList, Skip
  <2> QED BY <1>1, <2>1 DEF Deletion
<1>5. ASSUME ~crowded'
      PROVE  /\ \A l \in File : disk'[l] \subseteq disk[l]
             /\ j.player \notin disk'[h]
             /\ \A q \in Writer \ {r} : ~At(q, "edit")
  <2>1. j.copy = disk[h] BY <1>1, <1>5 DEF GoneInv, At, NextList
  <2>2. \A q \in Writer \ {r} : At(q, "idle")
    BY <1>1, <1>5 DEF GoneInv, Crowd, At
  <2> QED BY <1>1, <1>2, <1>3, <2>1, <2>2 DEF At
<1>6. ASSUME ~crowded' PROVE \A l \in File : \A p : Removed(l, p) => Removed(l, p)'
  BY <1>1, <1>5, <1>6 DEF Removed, Has
<1>7. ASSUME ~crowded' PROVE RemovesFairly(r)'
  <2> SUFFICES ASSUME j.fair, NEW l \in File
               PROVE  ~up' /\ (Has(job'[r].todo, l) \/ Removed(l, j.player)')
    <3>1. "ops" \in File OBVIOUS
    <3> QED BY <1>4, <3>1 DEF RemovesFairly, At, Has
  <2>1. ~up /\ mem[l] = {} /\ (Has(j.todo, l) \/ Removed(l, j.player))
    BY <1>1, <1>7 DEF GoneInv, RemovesFairly, At
  <2>2. CASE l = h
    BY <1>1, <1>4, <1>5, <1>7, <2>1, <2>2 DEF Removed
  <2>3. CASE l # h
    BY <1>1, <1>4, <1>6, <1>7, <2>1, <2>3, HasTaken
  <2> QED BY <1>1, <2>1, <2>2, <2>3
<1>8. ~At(r, "edit")' BY <1>4 DEF At
<1>9. ASSUME ~crowded' PROVE \A p \in gone', l \in File : Removed(l, p)'
  BY <1>1, <1>6, <1>9 DEF GoneInv
<1> QED BY <1>1, <1>4, <1>5, <1>6, <1>7, <1>8, <1>9, GoneByOne

\* A command is carried out, or dropped.
LEMMA GoneByObey ==
  ASSUME OwnTyped, GoneInv, ~crowded' => (~crowded /\ ~Crowd'), Obey
  PROVE  GoneInv'
<1> DEFINE h == Head(console)[1]  o == Head(console)[2]
<1>1. /\ console # <<>> /\ console' = Tail(console) /\ console \in Seq(File \X Player)
      /\ UNCHANGED <<up, job, gone>>
      /\ disk \in [File -> SUBSET Player] /\ mem \in [File -> SUBSET Player]
  BY DEF Obey, OwnTyped
<1>2. Head(console) \in File \X Player /\ Head(console) = <<h, o>> BY <1>1
<1>3. CASE up /\ o \in mem[h]
  <2>1. mem' = [mem EXCEPT ![h] = @ \ {o}] /\ disk' = [disk EXCEPT ![h] = mem'[h]]
    BY <1>3 DEF Obey
  <2>2. /\ \A l \in File : mem'[l] \subseteq mem[l]
        /\ \A l \in File : disk'[l] \subseteq disk[l] \cup mem'[l]
        /\ o \notin mem'[h] /\ o \notin disk'[h]
        /\ \A l \in File : disk[l] \subseteq mem[l] => disk'[l] \subseteq mem'[l]
    BY <1>1, <1>2, <2>1
  <2>3. ASSUME ~crowded', NEW l \in File, NEW p, Removed(l, p) PROVE Removed(l, p)'
    <3>1. CASE l = h /\ p = o BY <2>2, <3>1 DEF Removed
    <3>2. CASE ~(l = h /\ p = o) /\ Has(console, <<l, p>>)
      <4>1. Has(Tail(console), <<l, p>>) BY <1>1, <1>2, <3>2, HasTaken
      <4> QED BY <1>1, <1>3, <4>1 DEF Removed, Has
    <3>3. CASE p \notin disk[l] \cup mem[l] BY <2>2, <3>3 DEF Removed
    <3> QED BY <2>3, <3>1, <3>2, <3>3 DEF Removed
  <2>4. ASSUME ~crowded', NEW q \in Writer PROVE ~At(q, "edit")
    BY <1>1, <2>4 DEF GoneInv, Crowd
  <2>5. ASSUME ~crowded', NEW q \in Writer PROVE RemovesFairly(q)'
    <3>1. RemovesFairly(q) BY <2>5 DEF GoneInv
    <3> QED BY <1>1, <2>3, <2>5, <3>1 DEF RemovesFairly, At, Has
  <2>6. ASSUME ~crowded', NEW q \in Writer PROVE ~At(q, "edit")'
    BY <1>1, <2>4, <2>6 DEF At
  <2>7. ASSUME ~crowded', up' PROVE \A l \in File : disk'[l] \subseteq mem'[l]
    BY <1>1, <2>2, <2>7 DEF GoneInv
  <2> QED BY <1>1, <1>3, <2>3, <2>5, <2>6, <2>7 DEF GoneInv
<1>4. CASE ~(up /\ o \in mem[h])
  <2>1. disk' = disk /\ mem' = mem BY <1>4 DEF Obey
  <2>2. ASSUME ~crowded', NEW l \in File, NEW p, Removed(l, p) PROVE Removed(l, p)'
    <3>1. CASE p \notin disk[l] \cup mem[l] BY <2>1, <3>1 DEF Removed
    <3>2. CASE up /\ Has(console, <<l, p>>) /\ <<l, p>> # Head(console)
      <4>1. Has(Tail(console), <<l, p>>) BY <1>1, <1>2, <3>2, HasTaken
      <4> QED BY <1>1, <3>2, <4>1 DEF Removed, Has
    <3>3. CASE up /\ <<l, p>> = Head(console)
      <4>1. l = h /\ p = o /\ disk[l] \subseteq mem[l]
        BY <1>2, <2>2, <3>3 DEF GoneInv
      <4> QED BY <1>4, <2>1, <3>3, <4>1 DEF Removed
    <3> QED BY <2>2, <3>1, <3>2, <3>3 DEF Removed
  <2>3. ASSUME ~crowded', NEW q \in Writer PROVE RemovesFairly(q)'
    <3>1. RemovesFairly(q) BY <2>3 DEF GoneInv
    <3> QED BY <1>1, <2>2, <2>3, <3>1 DEF RemovesFairly, At, Has
  <2> QED BY <1>1, <2>1, <2>2, <2>3 DEF GoneInv, At, NextList
<1> QED BY <1>3, <1>4

\* The server starts or stops: whoever is removing somebody is told.
LEMMA GoneByServer ==
  ASSUME OwnTyped, GoneInv, ~crowded' => (~crowded /\ ~Crowd'), Launch \/ Exit
  PROVE  GoneInv'
<1>1. /\ job \in [Writer -> Deletion] /\ console \in Seq(File \X Player)
      /\ disk' = disk /\ console' = console
      /\ disk \in [File -> SUBSET Player] /\ mem \in [File -> SUBSET Player]
  BY DEF Launch, Exit, OwnTyped, JobOK
<1>2. \A q \in Writer : /\ job'[q].at = job[q].at /\ job'[q].todo = job[q].todo
                        /\ job'[q].copy = job[q].copy
                        /\ job'[q].at \in {"live", "files", "edit"} => ~job'[q].fair
  BY <1>1 DEF Launch, Exit, Unsettle, Deletion
<1>3. \A q \in Writer : RemovesFairly(q)' BY <1>2 DEF RemovesFairly
<1>4. ASSUME ~crowded', NEW q \in Writer, At(q, "edit")'
      PROVE  (job[q].copy = disk[NextList(q)])'
  BY <1>1, <1>2, <1>4 DEF GoneInv, At, NextList
<1>5. CASE Launch
  <2>1. ~up /\ up' /\ mem' = disk /\ gone' = gone BY <1>5 DEF Launch
  <2>2. ASSUME ~crowded', NEW p \in gone', NEW l \in File PROVE Removed(l, p)'
    <3>1. Removed(l, p) BY <2>1, <2>2 DEF GoneInv
    <3> QED BY <1>1, <2>1, <3>1 DEF Removed
  <2> QED BY <1>1, <1>3, <1>4, <2>1, <2>2 DEF GoneInv
<1>6. CASE Exit
  <2>1. /\ up /\ ~up' /\ mem' = [l \in File |-> {}]
        /\ gone' = gone \ {console[i][2] : i \in DOMAIN console}
    BY <1>6 DEF Exit
  <2>2. ASSUME ~crowded', NEW p \in gone', NEW l \in File PROVE Removed(l, p)'
    <3>1. Removed(l, p) BY <2>1, <2>2 DEF GoneInv
    <3>2. ~Has(console, <<l, p>>) BY <2>1, <2>2 DEF Has
    <3> QED BY <1>1, <2>1, <3>1, <3>2 DEF Removed
  <2> QED BY <1>1, <1>3, <1>4, <2>1, <2>2 DEF GoneInv
<1> QED BY <1>5, <1>6

\* GoneInv is inductive relative to the types.
LEMMA GoneInductive ==
  ASSUME OwnTyped, GoneInv, [PlayersNext]_allVars
  PROVE  GoneInv'
<1> USE DEF At
<1>1. CASE UNCHANGED allVars
  BY <1>1 DEF allVars, playerVars, GoneInv, Crowd, RemovesFairly, Removed, Has, NextList
<1>2. CASE PlayersNext
  <2>1. ~crowded' => (~crowded /\ ~Crowd') BY <1>2 DEF PlayersNext
  <2>2. job \in [Writer -> Deletion] /\ NoDeletion.at = "idle"
    BY NoDeletionTyped DEF OwnTyped, JobOK
  <2>3. ASSUME NEW r \in Writer, DeleteStep(r) PROVE GoneInv'
    <3>1. CASE \/ \E p \in Player : Find(r, p)
               \/ RemoveFromCache(r) \/ CannotFill(r) \/ CleansUp(r) \/ FileFails(r)
      <4>1. UNCHANGED <<up, disk, mem, console, gone>>
        BY <3>1 DEF Find, RemoveFromCache, CannotFill, CleansUp, FileFails
      <4>2. /\ job'[r].at \in {"idle", "found", "write"}
            /\ \A q \in Writer \ {r} : job'[q] = job[q]
        <5>1. CASE \E p \in Player : Find(r, p)
          BY <2>2, <5>1, NoDeletionTyped DEF Find, Deletion
        <5>2. CASE RemoveFromCache(r)
          BY <2>2, <5>2 DEF RemoveFromCache, Set, Deletion
        <5>3. CASE CannotFill(r) \/ CleansUp(r) \/ FileFails(r)
          BY <2>2, <5>3 DEF CannotFill, CleansUp, FileFails, EndDeletion
        <5> QED BY <3>1, <5>1, <5>2, <5>3
      <4> QED BY <2>1, <4>1, <4>2, GoneByOthers DEF SameOrOff
    <3>2. CASE \/ \E running \in BOOLEAN : LookAtStatus(r, running)
               \/ SendRemoveFails(r) \/ ReadList(r) \/ CheckJoined(r)
      BY <2>1, <3>2, GoneByLook
    <3>3. CASE SendRemove(r) BY <2>1, <3>3, GoneBySend
    <3>4. CASE StoreList(r) BY <2>1, <3>4, GoneByStore
    <3>5. CASE Publishes(r)
      <4>1. \A q \in Writer : SameOrOff(q)
        BY <2>2, <3>5 DEF Publishes, Late, SameOrOff, Deletion
      <4> QED BY <2>1, <3>5, <4>1, GoneByOthers DEF Publishes
    <3>6. CASE Fills(r) \/ CannotPublish(r)
      <4>1. UNCHANGED <<up, disk, mem, console, gone, job>>
        BY <3>6 DEF Fills, CannotPublish
      <4> QED BY <2>1, <4>1, GoneByOthers DEF SameOrOff
    <3> QED BY <2>3, <3>1, <3>2, <3>3, <3>4, <3>5, <3>6 DEF DeleteStep
  <2>4. CASE Obey BY <2>1, <2>4, GoneByObey
  <2>5. CASE ServerStep
    <3>1. CASE Launch \/ Exit BY <2>1, <3>1, GoneByServer
    <3>2. CASE (\E p \in Player : Join(p)) \/ (\E v \in Value : SaveCache(v))
      <4>1. \A q \in Writer : SameOrOff(q)
        BY <2>2, <3>2 DEF Join, SaveCache, Late, SameOrOff, Deletion
      <4>2. UNCHANGED <<up, disk, mem, console, gone>> BY <3>2 DEF Join, SaveCache
      <4> QED BY <2>1, <4>1, <4>2, GoneByOthers
    <3> QED BY <2>5, <3>1, <3>2 DEF ServerStep
  <2>6. CASE UpdateBegins \/ UpdateGoesOn
    <3>1. UNCHANGED <<up, disk, mem, console, gone, job>>
      BY <2>6 DEF UpdateBegins, UpdateGoesOn
    <3> QED BY <2>1, <3>1, GoneByOthers DEF SameOrOff
  <2>7. CASE ApiCrash
    <3>1. \A q \in Writer : job'[q] = NoDeletion BY <2>7 DEF ApiCrash
    <3>2. UNCHANGED <<up, disk, mem, console, gone>> BY <2>7 DEF ApiCrash
    <3> QED BY <2>1, <2>2, <3>1, <3>2, GoneByOthers DEF SameOrOff
  <2> QED BY <1>2, <2>3, <2>4, <2>5, <2>6, <2>7 DEF PlayersNext
<1> QED BY <1>1, <1>2

\* A player whose deletion went undisturbed is on neither list once the
\* console is read, and stays off through restarts, crashes and the deletions
\* of others, for any number of players and requests.
THEOREM RemovedStaysGone == PlayersSpec => []RemovedIsGone
<1>1. ASSUME PlayersInit PROVE OwnTyped /\ GoneInv
  <2>1. NoDeletion \in Deletion /\ JobAt(NoDeletion)
    BY NoDeletionTyped DEF JobAt
  <2>2. OwnTyped
    BY <1>1, <2>1, NoDeletionTyped DEF PlayersInit, OwnTyped, JobOK, JobAt
  <2>3. \A r \in Writer : job[r].at = "idle" BY <1>1, NoDeletionTyped DEF PlayersInit
  <2>4. \A r \in Writer : RemovesFairly(r) /\ ~At(r, "edit")
    BY <2>3 DEF RemovesFairly, At
  <2>5. ~Crowd BY <2>4 DEF Crowd
  <2>6. /\ up => \A l \in File : disk[l] \subseteq mem[l]
        /\ ~up => \A l \in File : mem[l] = {}
    BY <1>1 DEF PlayersInit
  <2> QED BY <1>1, <2>2, <2>4, <2>5, <2>6 DEF PlayersInit, GoneInv
<1>2. OwnTyped /\ [PlayersNext]_allVars => OwnTyped' BY OwnTypedInductive
<1>3. OwnTyped /\ GoneInv /\ [PlayersNext]_allVars => GoneInv' BY GoneInductive
<1>4. GoneInv => RemovedIsGone BY DEF GoneInv, RemovedIsGone, Removed, Has
<1> QED BY <1>1, <1>2, <1>3, <1>4, PTL DEF PlayersSpec

-----------------------------------------------------------------------------
(* What a deletion takes out of usercache.json                              *)

\* A deletion that has not been overtaken still knows the file as it is, is
\* about to write it without its player, and that player has not joined.
LosesOne(r) ==
  /\ At(r, "write") <=> pc[r] # "idle"
  /\ At(r, "write") => buf[r] = job[r].cache \ {job[r].player}
  /\ (~mixed /\ ~At(r, "idle") /\ ~job[r].late) => job[r].cache = file
  /\ (job[r].at \in {"prune", "write"} /\ ~job[r].late) => job[r].player \notin joined

CacheInv == \A r \in Writer : LosesOne(r)

\* A step of one request that leaves the file alone
LEMMA LosesOneByOne ==
  ASSUME CacheInv, NEW r \in Writer, UNCHANGED <<file, joined>>,
         mixed => mixed',
         \A q \in Writer \ {r} : job'[q] = job[q] /\ pc'[q] = pc[q] /\ buf'[q] = buf[q],
         LosesOne(r)'
  PROVE  CacheInv'
<1>1. ASSUME NEW q \in Writer \ {r} PROVE LosesOne(q)'
  <2>1. LosesOne(q) BY DEF CacheInv
  <2> QED BY <2>1 DEF LosesOne, At
<1> QED BY <1>1 DEF CacheInv

\* Steps of a deletion before WriteFileAtomic
LEMMA CacheByRequest ==
  ASSUME OwnTyped, CacheInv, NEW r \in Writer,
         \/ \E p \in Player : Find(r, p)
         \/ \E running \in BOOLEAN : LookAtStatus(r, running)
         \/ SendRemove(r) \/ SendRemoveFails(r)
         \/ ReadList(r) \/ StoreList(r) \/ FileFails(r)
         \/ CheckJoined(r)
  PROVE  CacheInv'
<1> DEFINE j == job[r]
<1> USE DEF At
<1>1. j \in Deletion /\ job \in [Writer -> Deletion] /\ NoDeletion \in Deletion
      /\ NoDeletion.at = "idle" /\ NoDeletion.late = FALSE
  BY NoDeletionTyped DEF OwnTyped, JobOK, NoDeletion
<1>2. UNCHANGED <<vars, joined>>
  BY DEF Find, LookAtStatus, SendRemove, SendRemoveFails, ReadList, StoreList,
         FileFails, CheckJoined
<1>3. LosesOne(r) BY DEF CacheInv
<1>4. \A q \in Writer \ {r} : job'[q] = job[q]
  BY <1>1 DEF Find, LookAtStatus, SendRemove, SendRemoveFails, ReadList, StoreList,
              FileFails, CheckJoined, Skip, EndDeletion
<1>5. CASE \E p \in Player : Find(r, p)
  <2> PICK p \in Player : Find(r, p) BY <1>5
  <2>1. j.at = "idle" /\ job'[r].at = "found" /\ job'[r].cache = file
    BY <1>1 DEF Find, Deletion
  <2>2. LosesOne(r)' BY <1>2, <1>3, <2>1 DEF LosesOne, vars
  <2> QED BY <1>2, <1>4, <2>2, LosesOneByOne DEF vars
<1>6. CASE \/ \E running \in BOOLEAN : LookAtStatus(r, running)
           \/ SendRemove(r) \/ SendRemoveFails(r) \/ ReadList(r) \/ StoreList(r)
  <2>1. /\ j.at \notin {"idle", "prune", "write"}
        /\ job'[r].at \notin {"idle", "prune", "write"}
        /\ job'[r].cache = j.cache /\ job'[r].late = j.late
    <3>1. CASE \E running \in BOOLEAN : LookAtStatus(r, running)
      <4> PICK running \in BOOLEAN : LookAtStatus(r, running) BY <3>1
      <4> QED BY <1>1 DEF LookAtStatus, Deletion
    <3>2. CASE SendRemove(r) \/ SendRemoveFails(r)
      BY <1>1, <3>2 DEF SendRemove, SendRemoveFails, Skip, Deletion
    <3>3. CASE ReadList(r)
      BY <1>1, <3>3 DEF ReadList, Skip, Deletion
    <3>4. CASE StoreList(r)
      BY <1>1, <3>4 DEF StoreList, Skip, Deletion
    <3> QED BY <1>6, <3>1, <3>2, <3>3, <3>4
  <2>2. LosesOne(r)' BY <1>2, <1>3, <2>1 DEF LosesOne, vars
  <2> QED BY <1>2, <1>4, <2>2, LosesOneByOne DEF vars
<1>7. CASE FileFails(r)
  <2>1. j.at \in {"files", "edit", "prune"} /\ job'[r].at = "idle"
    BY <1>1, <1>7 DEF FileFails, EndDeletion
  <2>2. LosesOne(r)' BY <1>2, <1>3, <2>1 DEF LosesOne, vars
  <2> QED BY <1>2, <1>4, <2>2, LosesOneByOne DEF vars
<1>8. CASE CheckJoined(r)
  <2>1. j.at \in {"live", "files"} BY <1>8 DEF CheckJoined
  <2>2. CASE LoggedIn(j.player)
    <3>1. job'[r].at = "idle" BY <1>1, <1>8, <2>2 DEF CheckJoined, EndDeletion
    <3>2. LosesOne(r)' BY <1>2, <1>3, <2>1, <3>1 DEF LosesOne, vars
    <3> QED BY <1>2, <1>4, <3>2, LosesOneByOne DEF vars
  <2>3. CASE ~LoggedIn(j.player)
    <3>1. /\ job'[r].at = "prune" /\ job'[r].cache = j.cache
          /\ job'[r].player = j.player
          /\ job'[r].late = (j.late \/ "level-name" \notin props)
      BY <1>1, <1>8, <2>3 DEF CheckJoined, Deletion
    <3>2. ~job'[r].late => j.player \notin joined BY <2>3, <3>1 DEF LoggedIn
    <3>3. ~job'[r].late => ~j.late BY <3>1
    <3>4. LosesOne(r)' BY <1>2, <1>3, <2>1, <3>1, <3>2, <3>3 DEF LosesOne, vars
    <3> QED BY <1>2, <1>4, <3>4, LosesOneByOne DEF vars
  <2> QED BY <2>2, <2>3
<1> QED BY <1>5, <1>6, <1>7, <1>8

\* The calls of WriteFileAtomic
LEMMA CacheByWrite ==
  ASSUME OwnTyped, TypeOK, LoneUnlessMixed, CacheInv, NEW r \in Writer,
         RemoveFromCache(r) \/ Fills(r) \/ CannotFill(r) \/ CannotPublish(r) \/ CleansUp(r)
  PROVE  CacheInv'
<1> DEFINE j == job[r]
<1> USE DEF At
<1>1. j \in Deletion /\ job \in [Writer -> Deletion] /\ NoDeletion.at = "idle"
      /\ pc \in [Writer -> {"idle", "opened", "filled", "cleaning"}]
      /\ buf \in [Writer -> Content]
  BY NoDeletionTyped DEF OwnTyped, JobOK, TypeOK, Label
<1>2. LosesOne(r) BY DEF CacheInv
<1>3. CASE RemoveFromCache(r)
  <2>1. /\ j.at = "prune" /\ UNCHANGED <<file, joined>>
        /\ mixed => mixed'
        /\ \A q \in Writer \ {r} : job'[q] = job[q] /\ pc'[q] = pc[q] /\ buf'[q] = buf[q]
        /\ pc'[r] = "opened" /\ buf'[r] = j.cache \ {j.player}
    BY <1>1, <1>3 DEF RemoveFromCache, BeginWrite, Open, Set
  <2>2. /\ job'[r].at = "write" /\ job'[r].cache = j.cache
        /\ job'[r].player = j.player /\ job'[r].late = j.late
    BY <1>1, <1>3 DEF RemoveFromCache, Set, Deletion
  <2>3. LosesOne(r)' BY <1>2, <2>1, <2>2 DEF LosesOne
  <2> QED BY <2>1, <2>3, LosesOneByOne
<1>4. CASE Fills(r)
  <2>1. /\ job' = job /\ joined' = joined /\ mixed' = mixed /\ buf' = buf
        /\ pc[r] = "opened" /\ pc' = [pc EXCEPT ![r] = "filled"]
    BY <1>4 DEF Fills, FillTmp
  <2>2. ~mixed => file' = file
    <3>1. ~mixed => fd[r] = "tmp" BY <2>1 DEF LoneUnlessMixed, LoneWriter
    <3> QED BY <1>4, <3>1 DEF Fills, FillTmp, Write
  <2>3. ASSUME NEW q \in Writer PROVE LosesOne(q)'
    <3>1. LosesOne(q) BY DEF CacheInv
    <3>2. pc'[q] # "idle" <=> pc[q] # "idle" BY <1>1, <2>1
    <3> QED BY <2>1, <2>2, <3>1, <3>2 DEF LosesOne
  <2> QED BY <2>3 DEF CacheInv
<1>5. CASE CannotPublish(r)
  <2>1. /\ job' = job /\ joined' = joined /\ mixed' = mixed /\ buf' = buf /\ file' = file
        /\ pc[r] = "filled" /\ pc' = [pc EXCEPT ![r] = "cleaning"]
    BY <1>5 DEF CannotPublish, PublishFails, RenameFails
  <2>2. \A q \in Writer : pc'[q] # "idle" <=> pc[q] # "idle" BY <1>1, <2>1
  <2>3. LosesOne(r)' BY <1>2, <2>1, <2>2 DEF LosesOne
  <2> QED BY <1>1, <2>1, <2>3, LosesOneByOne
<1>6. CASE CleansUp(r)
  <2>1. /\ UNCHANGED <<file, joined>>
        /\ mixed => mixed'
        /\ \A q \in Writer \ {r} : job'[q] = job[q] /\ pc'[q] = pc[q] /\ buf'[q] = buf[q]
        /\ pc'[r] = "idle" /\ job'[r].at = "idle"
    BY <1>1, <1>6 DEF CleansUp, CleanUp, Remove, EndDeletion
  <2>2. LosesOne(r)' BY <2>1 DEF LosesOne
  <2> QED BY <2>1, <2>2, LosesOneByOne
<1>7. CASE CannotFill(r)
  <2>1. /\ joined' = joined /\ mixed' = mixed /\ pc[r] = "opened"
        /\ \A q \in Writer \ {r} : job'[q] = job[q] /\ pc'[q] = pc[q] /\ buf'[q] = buf[q]
        /\ pc'[r] = "idle" /\ job'[r].at = "idle"
    BY <1>1, <1>7 DEF CannotFill, FillTmpFails, EndDeletion
  <2>2. ~mixed => file' = file
    <3>1. ~mixed => fd[r] = "tmp" BY <2>1 DEF LoneUnlessMixed, LoneWriter
    <3> QED BY <1>7, <3>1 DEF CannotFill, FillTmpFails, WriteFails
  <2>3. ASSUME NEW q \in Writer PROVE LosesOne(q)'
    <3>1. LosesOne(q) BY DEF CacheInv
    <3>2. CASE q = r BY <2>1, <3>2 DEF LosesOne
    <3>3. CASE q # r BY <2>1, <2>2, <3>1, <3>3 DEF LosesOne
    <3> QED BY <3>2, <3>3
  <2> QED BY <2>3 DEF CacheInv
<1> QED BY <1>3, <1>4, <1>5, <1>6, <1>7

\* The file or the players change: whom it concerns is late from then on.
LEMMA CacheByServer ==
  ASSUME OwnTyped, TypeOK, CacheInv,
         \/ \E p \in Player : Join(p)
         \/ \E v \in Value : SaveCache(v)
         \/ \E r \in Writer : Publishes(r)
  PROVE  CacheInv'
<1> USE DEF At
<1>1. job \in [Writer -> Deletion] /\ NoDeletion.at = "idle"
      /\ pc \in [Writer -> {"idle", "opened", "filled", "cleaning"}]
      /\ buf \in [Writer -> Content]
  BY NoDeletionTyped DEF OwnTyped, JobOK, TypeOK, Label
<1>2. \A R \in SUBSET Writer, q \in Writer :
        /\ Late(R)[q].at = job[q].at /\ Late(R)[q].cache = job[q].cache
        /\ Late(R)[q].player = job[q].player
        /\ Late(R)[q].late = (job[q].late \/ (q \in R /\ job[q].at # "idle"))
  BY <1>1 DEF Late, Deletion
<1>3. ASSUME NEW p \in Player, Join(p) PROVE CacheInv'
  <2> DEFINE R == {r \in Writer : job[r].player = p /\ job[r].at \in {"prune", "write"}}
  <2>1. UNCHANGED vars /\ joined' = joined \cup {p} /\ job' = Late(R)
    BY <1>3 DEF Join
  <2>2. ASSUME NEW q \in Writer PROVE LosesOne(q)'
    <3>1. LosesOne(q) BY DEF CacheInv
    <3>2. /\ job'[q].at = job[q].at /\ job'[q].cache = job[q].cache
          /\ job'[q].player = job[q].player
          /\ ~job'[q].late => ~job[q].late
          /\ (~job'[q].late /\ job[q].at \in {"prune", "write"}) => job[q].player # p
      <4>1. R \in SUBSET Writer OBVIOUS
      <4>2. job'[q].late = (job[q].late \/ (q \in R /\ job[q].at # "idle"))
        BY <1>2, <2>1, <4>1
      <4>3. (job[q].at \in {"prune", "write"} /\ job[q].player = p) => q \in R
        OBVIOUS
      <4> HIDE DEF R
      <4> QED BY <1>2, <2>1, <4>1, <4>2, <4>3
    <3> QED BY <2>1, <3>1, <3>2 DEF LosesOne, vars
  <2> QED BY <2>2 DEF CacheInv
<1>4. ASSUME NEW v \in Value, SaveCache(v) PROVE CacheInv'
  <2>1. UNCHANGED <<pc, buf, mixed, joined>> /\ job' = Late(Writer)
    BY <1>4 DEF SaveCache, OtherWrite
  <2>2. ASSUME NEW q \in Writer PROVE LosesOne(q)'
    <3>1. LosesOne(q) BY DEF CacheInv
    <3>2. /\ job'[q].at = job[q].at /\ job'[q].cache = job[q].cache
          /\ job'[q].player = job[q].player
          /\ job[q].at # "idle" => job'[q].late
      BY <1>2, <2>1
    <3> QED BY <2>1, <3>1, <3>2 DEF LosesOne
  <2> QED BY <2>2 DEF CacheInv
<1>5. ASSUME NEW r \in Writer, Publishes(r) PROVE CacheInv'
  <2>1. /\ pc' = [pc EXCEPT ![r] = "idle"] /\ buf' = [buf EXCEPT ![r] = Absent]
        /\ UNCHANGED <<mixed, joined>> /\ job' = [Late(Writer) EXCEPT ![r] = NoDeletion]
    BY <1>5 DEF Publishes, Publish
  <2>2. job'[r] = NoDeletion /\ \A q \in Writer \ {r} : job'[q] = Late(Writer)[q]
    BY <2>1 DEF Late
  <2>3. LosesOne(r)' BY <1>1, <2>1, <2>2 DEF LosesOne
  <2>4. ASSUME NEW q \in Writer \ {r} PROVE LosesOne(q)'
    <3>1. LosesOne(q) BY DEF CacheInv
    <3>2. /\ job'[q].at = job[q].at /\ job'[q].cache = job[q].cache
          /\ job'[q].player = job[q].player
          /\ job[q].at # "idle" => job'[q].late
      <4>1. job'[q] = Late(Writer)[q] BY <2>2
      <4>2. job'[q] = IF job[q].at # "idle" THEN [job[q] EXCEPT !.late = TRUE] ELSE job[q]
        BY <4>1 DEF Late
      <4>3. job[q] \in Deletion BY <1>1
      <4> QED BY <4>2, <4>3 DEF Deletion
    <3>3. pc'[q] = pc[q] /\ buf'[q] = buf[q] BY <1>1, <2>1
    <3> QED BY <2>1, <3>1, <3>2, <3>3 DEF LosesOne
  <2> QED BY <2>3, <2>4 DEF CacheInv
<1> QED BY <1>3, <1>4, <1>5

\* CacheInv is inductive relative to the types and LoneUnlessMixed.
LEMMA CacheInductive ==
  ASSUME OwnTyped, TypeOK, LoneUnlessMixed, CacheInv, [PlayersNext]_allVars
  PROVE  CacheInv'
<1>1. ASSUME UNCHANGED <<file, pc, buf, mixed, joined, job>> PROVE CacheInv'
  BY <1>1 DEF CacheInv, LosesOne, At
<1>2. ASSUME NEW r \in Writer, DeleteStep(r) PROVE CacheInv'
  <2>1. CASE RemoveFromCache(r) \/ Fills(r) \/ CannotFill(r) \/ CannotPublish(r)
             \/ CleansUp(r)
    BY <2>1, CacheByWrite
  <2>2. CASE Publishes(r) BY <2>2, CacheByServer
  <2> QED BY <1>2, <2>1, <2>2, CacheByRequest DEF DeleteStep
<1>3. CASE Launch \/ Exit
  <2>1. UNCHANGED <<vars, joined>> /\ job \in [Writer -> Deletion]
    BY <1>3 DEF Launch, Exit, OwnTyped, JobOK
  <2>2. \A q \in Writer : /\ job'[q].at = job[q].at /\ job'[q].cache = job[q].cache
                          /\ job'[q].player = job[q].player /\ job'[q].late = job[q].late
    BY <1>3, <2>1, SMTT(30) DEF Launch, Exit, Unsettle, Deletion
  <2> QED BY <2>1, <2>2 DEF CacheInv, LosesOne, At, vars
<1>4. CASE ApiCrash
  <2>1. \A q \in Writer : job'[q] = NoDeletion /\ pc'[q] = "idle"
    BY <1>4 DEF ApiCrash, Crash
  <2>2. NoDeletion.at = "idle" BY NoDeletionTyped
  <2> QED BY <2>1, <2>2 DEF CacheInv, LosesOne, At
<1>5. CASE Obey \/ UpdateBegins \/ UpdateGoesOn \/ UNCHANGED allVars
  BY <1>1, <1>5 DEF Obey, UpdateBegins, UpdateGoesOn, allVars, playerVars, vars
<1> QED
  BY <1>2, <1>3, <1>4, <1>5, CacheByServer DEF PlayersNext, ServerStep

\* One entry, of a player who has not joined, is all that a deletion takes out
\* of usercache.json, and it brings none back, unless it was overtaken.
THEOREM OneEntryIsLost == PlayersSpec => CacheLosesOne
<1>1. ASSUME PlayersInit PROVE CacheInv
  BY <1>1, NoDeletionTyped DEF PlayersInit, Init, CacheInv, LosesOne, At
<1>2. PlayersInit => OwnTyped
  <2>1. NoDeletion \in Deletion /\ JobAt(NoDeletion)
    BY NoDeletionTyped DEF JobAt
  <2> QED BY <2>1, NoDeletionTyped DEF PlayersInit, OwnTyped, JobOK, JobAt
<1>3. OwnTyped /\ [PlayersNext]_allVars => OwnTyped' BY OwnTypedInductive
<1>4. OwnTyped /\ TypeOK /\ LoneUnlessMixed /\ CacheInv /\ [PlayersNext]_allVars
        => CacheInv'
  BY CacheInductive
<1>5. ASSUME CacheInv, LoneUnlessMixed, NEW r \in Writer, Publishes(r), ~mixed,
             ~job[r].late
      PROVE  file' = file \ {job[r].player} /\ job[r].player \notin joined
  <2>1. pc[r] = "filled" /\ file' = tmp BY <1>5 DEF Publishes, Publish, Rename
  <2>2. tmp = buf[r] BY <1>5, <2>1 DEF LoneUnlessMixed, LoneWriter
  <2> QED BY <1>5, <2>1, <2>2 DEF CacheInv, LosesOne, At
<1>6. CacheInv /\ LoneUnlessMixed =>
        \A r \in Writer : Publishes(r) /\ ~mixed /\ ~job[r].late =>
          /\ file' = file \ {job[r].player}
          /\ job[r].player \notin joined
  BY <1>5
<1> QED
  BY <1>1, <1>2, <1>3, <1>4, <1>6, ImplementsWriteFileAtomic, TypeCorrect,
     WholeWithoutOverlap, PTL
  DEF PlayersSpec, CacheLosesOne
=============================================================================
