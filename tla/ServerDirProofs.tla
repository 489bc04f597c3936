--------------------------- MODULE ServerDirProofs ---------------------------
(***************************************************************************)
(* What the server directory's users can rely on, for any number of        *)
(* requests and servers and any paths.                                     *)
(***************************************************************************)
EXTENDS ServerDir, TLAPS

Record == [pc : Label, id : 0 .. MaxServers, todo : SUBSET Entry,
           file : BOOLEAN, mixed : BOOLEAN, crossed : BOOLEAN]

LEMMA RecordsTyped ==
  /\ Idle \in Record /\ None \in Content
  /\ \A n \in 0 .. MaxServers, s \in {"none", "part", "whole"} : Made(n, s) \in Content
  /\ Made(0, "part") \in Content /\ Made(0, "whole") \in Content
BY ServersAssumption DEF Idle, Record, Label, None, Content, Made

\* A listing that is not done with has a next entry, and world is the last one.
LEMMA NextEntry ==
  ASSUME NEW todo \in SUBSET Entry, todo # {}
  PROVE  First(todo) \in todo /\ (First(todo) = "world" => todo = {"world"})
<1> DEFINE Is(i) == /\ Listing[i] \in todo
                    /\ \A j \in 1 .. i - 1 : Listing[j] \notin todo
<1>1. /\ DOMAIN Listing = 1 .. 4
      /\ Listing[1] = "control" /\ Listing[2] = "eula"
      /\ Listing[3] = "jar" /\ Listing[4] = "world"
  BY DEF Listing
<1> HIDE DEF Listing
<1>2. \E i \in 1 .. 4 : Is(i)
  <2>1. CASE "control" \in todo BY <1>1, <2>1
  <2>2. CASE "control" \notin todo /\ "eula" \in todo
    BY <1>1, <2>2
  <2>3. CASE "control" \notin todo /\ "eula" \notin todo /\ "jar" \in todo
    <3>1. \A j \in 1 .. 2 : j = 1 \/ j = 2 OBVIOUS
    <3>2. Is(3) BY <1>1, <2>3, <3>1
    <3> QED BY <3>2
  <2>4. CASE "control" \notin todo /\ "eula" \notin todo /\ "jar" \notin todo
    <3>1. "world" \in todo BY <2>4 DEF Entry
    <3>2. \A j \in 1 .. 3 : j = 1 \/ j = 2 \/ j = 3 OBVIOUS
    <3>3. Is(4) BY <1>1, <2>4, <3>1, <3>2
    <3> QED BY <3>3
  <2> QED BY <2>1, <2>2, <2>3, <2>4
<1> DEFINE n == CHOOSE i \in DOMAIN Listing : Is(i)
<1>3. n \in 1 .. 4 /\ Is(n) /\ First(todo) = Listing[n]
  BY <1>1, <1>2 DEF First
<1> HIDE DEF n
<1>4. CASE n = 4
  <2>1. Listing[1] \notin todo /\ Listing[2] \notin todo /\ Listing[3] \notin todo
    BY <1>3, <1>4
  <2> QED BY <1>1, <1>3, <1>4, <2>1 DEF Entry
<1>5. CASE n # 4
  <2>1. n = 1 \/ n = 2 \/ n = 3
    BY <1>3, <1>5
  <2> QED BY <1>1, <1>3, <2>1
<1> QED BY <1>4, <1>5

\* What is left of a request when an entry is changed under it
LEMMA DisturbedFacts ==
  ASSUME req \in [Request -> Record], NEW e, NEW u \in BOOLEAN
  PROVE  /\ Disturbed(e, u) \in [Request -> Record]
         /\ \A q \in Request :
              /\ Disturbed(e, u)[q].pc = req[q].pc
              /\ Disturbed(e, u)[q].id = req[q].id
              /\ Disturbed(e, u)[q].todo = req[q].todo
              /\ Disturbed(e, u)[q].mixed = req[q].mixed
              /\ Disturbed(e, u)[q].file <=> req[q].file /\ ~(e = "jar" /\ u)
              /\ Disturbed(e, u)[q].crossed <=>
                   req[q].crossed \/ (q \in Creating /\ e \in {"jar", "eula"})
<1> DEFINE R(q) == [req[q] EXCEPT
                      !.file = @ /\ ~(e = "jar" /\ u),
                      !.crossed = @ \/ (q \in Creating /\ e \in {"jar", "eula"})]
<1>1. Disturbed(e, u) = [q \in Request |-> R(q)]
  BY DEF Disturbed
<1>2. ASSUME NEW q \in Request
      PROVE  /\ R(q) \in Record
             /\ R(q).pc = req[q].pc /\ R(q).id = req[q].id /\ R(q).todo = req[q].todo
             /\ R(q).mixed = req[q].mixed
             /\ R(q).file <=> req[q].file /\ ~(e = "jar" /\ u)
             /\ R(q).crossed <=>
                  req[q].crossed \/ (q \in Creating /\ e \in {"jar", "eula"})
  <2>1. req[q] \in Record
    OBVIOUS
  <2> QED BY <2>1 DEF Record
<1> HIDE DEF R
<1> QED BY <1>1, <1>2

LEMMA RewrittenFacts ==
  ASSUME req \in [Request -> Record], NEW e
  PROVE  /\ Rewritten(e) \in [Request -> Record]
         /\ \A q \in Request :
              /\ Rewritten(e)[q].pc = req[q].pc
              /\ Rewritten(e)[q].id = req[q].id
              /\ Rewritten(e)[q].todo = req[q].todo
              /\ Rewritten(e)[q].file <=> req[q].file
              /\ Rewritten(e)[q].mixed <=> req[q].mixed \/ (e = "jar" /\ req[q].file)
              /\ Rewritten(e)[q].crossed <=>
                   req[q].crossed \/ (q \in Creating /\ e \in {"jar", "eula"})
<1> DEFINE D == Disturbed(e, FALSE)
           R(q) == [D[q] EXCEPT !.mixed = @ \/ (e = "jar" /\ req[q].file)]
<1>1. Rewritten(e) = [q \in Request |-> R(q)]
  BY DEF Rewritten
<1>2. ASSUME NEW q \in Request
      PROVE  /\ D[q] \in Record
             /\ D[q].pc = req[q].pc /\ D[q].id = req[q].id /\ D[q].todo = req[q].todo
             /\ D[q].mixed = req[q].mixed /\ (D[q].file <=> req[q].file)
             /\ D[q].crossed <=>
                  req[q].crossed \/ (q \in Creating /\ e \in {"jar", "eula"})
  BY DisturbedFacts, ZenonT(30)
<1> HIDE DEF D
<1>3. ASSUME NEW q \in Request
      PROVE  /\ R(q) \in Record
             /\ R(q).pc = D[q].pc /\ R(q).id = D[q].id /\ R(q).todo = D[q].todo
             /\ (R(q).file <=> D[q].file) /\ (R(q).crossed <=> D[q].crossed)
             /\ R(q).mixed <=> D[q].mixed \/ (e = "jar" /\ req[q].file)
  BY <1>2 DEF Record
<1> HIDE DEF R
<1> QED BY <1>1, <1>2, <1>3

-----------------------------------------------------------------------------
(* Types *)

\* The steps of one request that only go on, or end
Goes(r) ==
  \/ FetchFails(r) \/ CopyBreaks(r) \/ CopyErrorPage(r) \/ PrepareFails(r) \/ SaveMeta(r)
  \/ LookStopped(r) \/ ListEntries(r) \/ DeleteEnds(r)

Outside ==
  \/ SendStart \/ ReadStart \/ SaveWorld \/ JvmEnds \/ Publish
  \/ ContainerStops \/ ContainerStarts \/ ApiCrash

LEMMA OpenTyped ==
  ASSUME TypeOK, NEW r \in Request, NEW label \in Label, NEW n \in 0 .. MaxServers,
         Open(r, label, n)
  PROVE  /\ entries' \in [Entry -> Content] /\ req' \in [Request -> Record]
         /\ stray' \in BOOLEAN
<1> DEFINE shared == \E q \in Request \ {r} : req[q].file
           mine == [Idle EXCEPT !.pc = label, !.id = n, !.file = TRUE,
                                !.mixed = shared, !.crossed = shared]
<1>1. mine \in Record
  BY DEF Record, Idle
<1>2. Rewritten("jar") \in [Request -> Record]
  BY RewrittenFacts DEF TypeOK, Record
<1>3. req' = [Rewritten("jar") EXCEPT ![r] = mine]
  BY DEF Open
<1> HIDE DEF mine
<1>4. Made(n, "part") \in Content
  BY RecordsTyped
<1> QED BY <1>1, <1>2, <1>3, <1>4, ZenonT(30) DEF Open, TypeOK, Exists

LEMMA RemovedTyped ==
  ASSUME TypeOK, NEW r \in Request, NEW e \in Entry, NEW R \in Record, Removed(r, e, R)
  PROVE  /\ req' \in [Request -> Record]
         /\ wiped' \in BOOLEAN /\ shown' \in BOOLEAN
<1>1. Disturbed(e, entries'[e].state = "none") \in [Request -> Record]
  BY DisturbedFacts DEF TypeOK, Record
<1> QED BY <1>1 DEF Removed, TypeOK

LEMMA NextTypeOK == TypeOK /\ [Next]_vars => TypeOK'
<1> SUFFICES ASSUME TypeOK, [Next]_vars PROVE TypeOK'
  OBVIOUS
<1>0. /\ entries \in [Entry -> Content] /\ req \in [Request -> Record]
      /\ MaxServers \in Nat /\ jvm \in 0 .. MaxServers /\ servers \in 0 .. MaxServers
      /\ sup \in BOOLEAN /\ fifo \in BOOLEAN /\ shown \in BOOLEAN
      /\ wiped \in BOOLEAN /\ stray \in BOOLEAN
  BY ServersAssumption DEF TypeOK, Record
<1>1. ASSUME NEW r \in Request, Goes(r) PROVE TypeOK'
  <2>1. ASSUME NEW R \in Record, req' = [req EXCEPT ![r] = R],
               UNCHANGED <<entries, sup, fifo, jvm, shown, servers, wiped>>,
               stray' \in BOOLEAN
        PROVE TypeOK'
    BY <1>0, <2>1 DEF TypeOK, Record
  <2>2. req[r] \in Record
    BY <1>0
  <2>3. CASE \/ FetchFails(r) \/ CopyBreaks(r) \/ PrepareFails(r)
             \/ SaveMeta(r) \/ DeleteEnds(r)
    BY <1>0, <2>1, <2>3, RecordsTyped
    DEF FetchFails, CopyBreaks, PrepareFails, SaveMeta, DeleteEnds
  <2>4. CASE CopyErrorPage(r)
    <3>1. [req[r] EXCEPT !.pc = "preparing", !.file = FALSE, !.crossed = TRUE] \in Record
      BY <2>2 DEF Record, Label
    <3> QED BY <1>0, <2>1, <2>4, <3>1 DEF CopyErrorPage
  <2>5. CASE LookStopped(r)
    <3>1. [Idle EXCEPT !.pc = "down"] \in Record
      BY RecordsTyped DEF Record, Label
    <3> QED BY <1>0, <2>1, <2>5, <3>1 DEF LookStopped
  <2>6. CASE ListEntries(r)
    <3>1. [req[r] EXCEPT !.pc = "removing", !.todo = {e \in Entry : Exists(e)}] \in Record
      BY <2>2 DEF Record, Label
    <3> QED BY <1>0, <2>1, <2>6, <3>1, RecordsTyped DEF ListEntries
  <2> QED BY <1>1, <2>3, <2>4, <2>5, <2>6 DEF Goes
<1>2. ASSUME NEW r \in Request, CheckAbsent(r) PROVE TypeOK'
  <2>1. servers + 1 \in 0 .. MaxServers
    BY <1>0, <1>2 DEF CheckAbsent
  <2>2. [Idle EXCEPT !.pc = "absent", !.id = servers + 1] \in Record
    BY <2>1, RecordsTyped DEF Record, Label
  <2> QED BY <1>0, <1>2, <2>1, <2>2 DEF CheckAbsent, TypeOK, Record
<1>3. ASSUME NEW r \in Request, OpenJar(r) PROVE TypeOK'
  <2>1. req[r].id \in 0 .. MaxServers /\ "copying" \in Label
    BY <1>0 DEF Record, Label
  <2>2. Open(r, "copying", req[r].id) /\ UNCHANGED servers
    BY <1>3 DEF OpenJar
  <2>3. UNCHANGED <<sup, fifo, jvm, shown, wiped>>
    BY <2>2 DEF Open
  <2> QED BY <1>0, <2>1, <2>2, <2>3, OpenTyped DEF TypeOK, Record
<1>4. ASSUME NEW r \in Request, UploadJar(r) PROVE TypeOK'
  <2>1. servers + 1 \in 0 .. MaxServers /\ "uploading" \in Label
    BY <1>0, <1>4 DEF UploadJar, Label
  <2>2. Open(r, "uploading", servers + 1) /\ servers' = servers + 1
    BY <1>4 DEF UploadJar
  <2>3. UNCHANGED <<sup, fifo, jvm, shown, wiped>>
    BY <2>2 DEF Open
  <2> QED BY <1>0, <2>1, <2>2, <2>3, OpenTyped DEF TypeOK, Record
<1>5. ASSUME NEW r \in Request, CopyEnds(r) PROVE TypeOK'
  <2>1. /\ [req[r] EXCEPT !.pc = "preparing", !.file = FALSE] \in Record
        /\ Made(req[r].id, "whole") \in Content
    BY <1>0, RecordsTyped DEF Record, Label
  <2> QED BY <1>0, <1>5, <2>1, RecordsTyped DEF CopyEnds, TypeOK, Record
<1>6. ASSUME NEW r \in Request, WriteEula(r) PROVE TypeOK'
  <2>1. /\ [req[r] EXCEPT !.pc = "noting"] \in Record
        /\ Made(0, "whole") \in Content
    BY <1>0, RecordsTyped DEF Record, Label
  <2> QED BY <1>0, <1>6, <2>1 DEF WriteEula, TypeOK, Record
<1>7. ASSUME NEW r \in Request, RemoveNext(r) PROVE TypeOK'
  <2> DEFINE e == First(req[r].todo)
  <2>1. e \in Entry
    BY <1>0, <1>7, NextEntry DEF RemoveNext, Record
  <2>2. [req[r] EXCEPT !.todo = @ \ {e}] \in Record
    BY <1>0, <2>1 DEF Record
  <2>3. /\ entries' = [entries EXCEPT ![e] = None] /\ UNCHANGED stray
        /\ Removed(r, e, [req[r] EXCEPT !.todo = @ \ {e}])
    BY <1>7 DEF RemoveNext
  <2> HIDE DEF e
  <2>4. UNCHANGED <<sup, fifo, jvm, servers>>
    BY <2>3 DEF Removed
  <2> QED BY <1>0, <2>1, <2>2, <2>3, <2>4, RemovedTyped, RecordsTyped DEF TypeOK, Record
<1>8. ASSUME NEW r \in Request, RemoveFails(r) PROVE TypeOK'
  <2> DEFINE e == First(req[r].todo)
  <2>1. e \in Entry
    BY <1>0, <1>8, NextEntry DEF RemoveFails, Record
  <2>2. /\ \/ UNCHANGED entries
           \/ entries' = [entries EXCEPT ![e].state = "part"]
        /\ Removed(r, e, Idle) /\ stray' = TRUE
    BY <1>8 DEF RemoveFails
  <2> HIDE DEF e
  <2>3. UNCHANGED <<sup, fifo, jvm, servers>>
    BY <2>2 DEF Removed
  <2>4. entries' \in [Entry -> Content]
    BY <1>0, <2>1, <2>2 DEF Content
  <2> QED BY <1>0, <2>1, <2>2, <2>3, <2>4, RemovedTyped, RecordsTyped DEF TypeOK, Record
<1>9. ASSUME NEW p \in Path, RemoveFile(p) \/ RewriteFile(p) PROVE TypeOK'
  <2>1. PICK e \in Entry : \/ Touch(e, None, Disturbed(e, TRUE))
                          \/ Touch(e, Made(0, "part"), Rewritten(e))
    BY <1>9 DEF RemoveFile, RewriteFile, Target
  <2>2. /\ Disturbed(e, TRUE) \in [Request -> Record]
        /\ Rewritten(e) \in [Request -> Record] /\ Made(0, "part") \in Content
    <3>1. TRUE \in BOOLEAN
      OBVIOUS
    <3> QED BY <1>0, <3>1, DisturbedFacts, RewrittenFacts, RecordsTyped
  <2>3. /\ UNCHANGED <<sup, fifo, jvm, servers, wiped>>
        /\ stray' \in BOOLEAN /\ shown' \in BOOLEAN
    BY <1>0, <2>1 DEF Touch
  <2>4. entries' \in [Entry -> Content] /\ req' \in [Request -> Record]
    BY <1>0, <2>1, <2>2, RecordsTyped DEF Touch
  <2> QED BY <1>0, <2>3, <2>4 DEF TypeOK, Record
<1>10. CASE UploadEula
  <2>1. PICK state \in {"part", "whole"} :
          Touch("eula", Made(0, state), Rewritten("eula"))
    BY <1>10 DEF UploadEula
  <2>2. Rewritten("eula") \in [Request -> Record] /\ Made(0, state) \in Content
    BY <1>0, RewrittenFacts, RecordsTyped
  <2>3. /\ UNCHANGED <<sup, fifo, jvm, servers, wiped>>
        /\ stray' \in BOOLEAN /\ shown' \in BOOLEAN
    BY <1>0, <2>1 DEF Touch
  <2>4. "eula" \in Entry
    BY DEF Entry
  <2>5. entries' \in [Entry -> Content] /\ req' \in [Request -> Record]
    BY <1>0, <2>1, <2>2, <2>4 DEF Touch
  <2> QED BY <1>0, <2>3, <2>5 DEF TypeOK, Record
<1>11. CASE Outside
  <2>1. CASE SendStart \/ JvmEnds \/ Publish \/ ContainerStops
    <3>1. UNCHANGED <<entries, servers, req, wiped, stray>>
      BY <2>1 DEF SendStart, JvmEnds, Publish, ContainerStops
    <3>2. sup' \in BOOLEAN /\ fifo' \in BOOLEAN
      BY <1>0, <2>1 DEF SendStart, JvmEnds, Publish, ContainerStops
    <3>3. shown' \in BOOLEAN
      BY <1>0, <2>1 DEF SendStart, JvmEnds, Publish, ContainerStops
    <3>4. jvm' \in 0 .. MaxServers
      BY <1>0, <2>1 DEF SendStart, JvmEnds, Publish, ContainerStops
    <3> QED BY <1>0, <3>1, <3>2, <3>3, <3>4 DEF TypeOK, Record
  <2>2. CASE ReadStart
    <3>1. entries["jar"].id \in 0 .. MaxServers
      BY <1>0 DEF Content, Entry
    <3> QED BY <1>0, <2>2, <3>1 DEF ReadStart, TypeOK, Record
  <2>3. CASE SaveWorld
    <3>1. entries["world"].id \in 0 .. MaxServers
      BY <1>0 DEF Content, Entry
    <3>2. \A n \in 0 .. MaxServers : Made(n, "whole") \in Content
      BY RecordsTyped
    <3> QED BY <1>0, <2>3, <3>1, <3>2 DEF SaveWorld, TypeOK, Record
  <2>4. CASE ContainerStarts
    <3>1. fifo' \in BOOLEAN
      BY <2>4 DEF ContainerStarts, Exists
    <3>2. entries' \in [Entry -> Content]
      BY <1>0, <2>4, RecordsTyped DEF ContainerStarts
    <3> QED BY <1>0, <2>4, <3>1, <3>2 DEF ContainerStarts, TypeOK, Record
  <2>5. CASE ApiCrash
    BY <1>0, <2>5, RecordsTyped DEF ApiCrash, TypeOK, Record
  <2> QED BY <1>11, <2>1, <2>2, <2>3, <2>4, <2>5 DEF Outside
<1>12. CASE UNCHANGED vars
  BY <1>12 DEF vars, TypeOK
<1> QED BY <1>1, <1>2, <1>3, <1>4, <1>5, <1>6, <1>7, <1>8, <1>9, <1>10, <1>11, <1>12
        DEF Next, Goes, Outside

LEMMA InitTypeOK == Init => TypeOK
<1> SUFFICES ASSUME Init PROVE TypeOK
  OBVIOUS
<1>1. entries \in [Entry -> Content] /\ req \in [Request -> Record]
  BY RecordsTyped DEF Init
<1>2. 0 \in 0 .. MaxServers
  BY ServersAssumption
<1>3. jvm = 0 /\ servers = 0
  BY DEF Init
<1>4. /\ sup \in BOOLEAN /\ fifo \in BOOLEAN /\ shown \in BOOLEAN
      /\ wiped \in BOOLEAN /\ stray \in BOOLEAN
  BY DEF Init
<1> QED BY <1>1, <1>2, <1>3, <1>4 DEF TypeOK, Record

\* Every reachable state of the directory is well typed, for any requests, paths
\* and number of servers.
THEOREM TypeCorrect == Spec => []TypeOK
BY InitTypeOK, NextTypeOK, PTL DEF Spec

-----------------------------------------------------------------------------
(* The control directory *)

\* What the file manager may touch is not the control directory.
LEMMA TargetSpares == \A p \in Path : "control" \notin Target(p)
<1> SUFFICES ASSUME NEW p \in Path, "control" \in Target(p) PROVE FALSE
  OBVIOUS
<1>1. ~Reserved(p) /\ Clean(p) = <<"control">>
  BY DEF Target
<1> QED BY <1>1 DEF Reserved

LEMMA NextControlStays == TypeOK /\ ControlStays /\ [Next]_vars => ControlStays'
<1> SUFFICES ASSUME TypeOK, ControlStays, [Next]_vars PROVE ControlStays'
  OBVIOUS
<1>0. entries \in [Entry -> Content] /\ "control" \in Entry
  BY DEF TypeOK, Entry
<1> DEFINE control == entries["control"].state
<1>1. ASSUME entries'["control"] = entries["control"], UNCHANGED <<sup, wiped>>
      PROVE ControlStays'
  BY <1>1 DEF ControlStays
<1>2. ASSUME NEW r \in Request, Goes(r) \/ CheckAbsent(r) PROVE ControlStays'
  BY <1>1, <1>2 DEF Goes, FetchFails, CopyBreaks, CopyErrorPage, PrepareFails, SaveMeta,
                    LookStopped, ListEntries, DeleteEnds, CheckAbsent
<1>3. ASSUME NEW r \in Request,
             OpenJar(r) \/ UploadJar(r) \/ CopyEnds(r) \/ WriteEula(r)
      PROVE ControlStays'
  BY <1>0, <1>1, <1>3 DEF OpenJar, UploadJar, Open, CopyEnds, WriteEula
<1>4. ASSUME NEW r \in Request, RemoveNext(r) \/ RemoveFails(r) PROVE ControlStays'
  <2> DEFINE e == First(req[r].todo)
  <2>1. PICK R : Removed(r, e, R)
    BY <1>4 DEF RemoveNext, RemoveFails
  <2>2. wiped' = (wiped \/ e = "control") /\ UNCHANGED sup
    BY <2>1 DEF Removed
  <2>3. CASE e = "control"
    BY <2>2, <2>3 DEF ControlStays
  <2>4. CASE e # "control"
    <3>1. entries'["control"] = entries["control"]
      BY <1>0, <1>4, <2>4 DEF RemoveNext, RemoveFails
    <3> QED BY <1>1, <2>2, <2>4, <3>1 DEF TypeOK
  <2> QED BY <2>3, <2>4
<1>5. ASSUME NEW p \in Path, RemoveFile(p) \/ RewriteFile(p) PROVE ControlStays'
  <2>1. PICK e \in Entry \ {"control"} : \E c, R : Touch(e, c, R)
    BY <1>5, TargetSpares DEF RemoveFile, RewriteFile, Target
  <2> QED BY <1>0, <1>1, <2>1 DEF Touch
<1>6. CASE UploadEula
  BY <1>0, <1>1, <1>6 DEF UploadEula, Touch
<1>7. CASE Outside
  <2>1. CASE ContainerStops
    BY <2>1 DEF ContainerStops, ControlStays
  <2>2. CASE ContainerStarts
    BY <1>0, <2>2 DEF ContainerStarts, ControlStays, Made
  <2>3. CASE SaveWorld
    BY <1>0, <1>1, <2>3 DEF SaveWorld
  <2>4. CASE SendStart \/ ReadStart \/ JvmEnds \/ Publish \/ ApiCrash
    BY <1>1, <2>4 DEF SendStart, ReadStart, JvmEnds, Publish, ApiCrash
  <2> QED BY <1>7, <2>1, <2>2, <2>3, <2>4 DEF Outside
<1>8. CASE UNCHANGED vars
  BY <1>1, <1>8 DEF vars
<1> QED BY <1>2, <1>3, <1>4, <1>5, <1>6, <1>7, <1>8 DEF Next, Goes, Outside

\* A running supervisor has its control directory, whatever requests and paths
\* the API gets, unless a whole server is being deleted.
THEOREM ControlIsThere == Spec => []ControlStays
<1>1. Init => ControlStays
  BY DEF Init, ControlStays, Made, Entry
<1> QED BY <1>1, TypeCorrect, NextControlStays, PTL DEF Spec

-----------------------------------------------------------------------------
(* Creations *)

\* Who has the jar at its path open may write to it alone, and it is that
\* request's jar, or knows better.
OpenJars ==
  /\ \A r \in Request : req[r].file => req[r].pc \in {"copying", "uploading"}
  /\ \A r \in Request : req[r].file /\ ~req[r].mixed
                          => entries["jar"] = Made(req[r].id, "part")
  /\ \A q, r \in Request : req[q].file /\ req[r].file /\ q # r => req[r].mixed

\* How far a creation is that nobody has crossed
Progress ==
  \A r \in Request : ~req[r].crossed =>
    /\ req[r].pc = "copying" => req[r].file /\ ~req[r].mixed
    /\ req[r].pc \in {"preparing", "noting"} => entries["jar"] = Made(req[r].id, "whole")
    /\ req[r].pc = "noting" => entries["eula"].state = "whole"

CreationInv == OpenJars /\ Progress

\* A step of others that leaves the jar, the EULA and the copies alone
LEMMA CreationUntouched ==
  ASSUME CreationInv,
         entries'["jar"] = entries["jar"],
         entries["eula"].state = "whole" => entries'["eula"].state = "whole",
         \A r \in Request : \/ req'[r] = req[r]
                            \/ /\ req'[r].pc \notin {"copying", "preparing", "noting"}
                               /\ ~req'[r].file
  PROVE  CreationInv'
BY DEF CreationInv, OpenJars, Progress

\* A step that crosses every creation, and mixes or unlinks every open jar
LEMMA CreationCrossed ==
  ASSUME CreationInv, NEW s \in Request,
         \A r \in Request \ {s} :
           /\ req'[r].pc = req[r].pc
           /\ req'[r].file => req[r].file /\ req'[r].mixed
           /\ r \in Creating => req'[r].crossed,
         req'[s].file => /\ req'[s].pc \in {"copying", "uploading"}
                         /\ ~req'[s].mixed => entries'["jar"] = Made(req'[s].id, "part")
                         /\ req'[s].mixed \/ \A r \in Request \ {s} : ~req'[r].file,
         req'[s].pc \in {"copying", "preparing", "noting"} /\ ~req'[s].crossed
           => req'[s].pc = "copying" /\ req'[s].file /\ ~req'[s].mixed
  PROVE  CreationInv'
BY DEF CreationInv, OpenJars, Progress, Creating, Busy

LEMMA NextCreationInv == TypeOK /\ CreationInv /\ [Next]_vars => CreationInv'
<1> SUFFICES ASSUME TypeOK, CreationInv, [Next]_vars PROVE CreationInv'
  OBVIOUS
<1>0. /\ entries \in [Entry -> Content] /\ req \in [Request -> Record]
      /\ {"control", "eula", "jar", "world"} \subseteq Entry
  BY DEF TypeOK, Record, Entry
<1>1. ASSUME NEW r \in Request,
             \/ FetchFails(r) \/ CopyBreaks(r) \/ PrepareFails(r) \/ SaveMeta(r)
             \/ LookStopped(r) \/ DeleteEnds(r) \/ CheckAbsent(r)
      PROVE CreationInv'
  <2>1. UNCHANGED entries
    BY <1>1 DEF FetchFails, CopyBreaks, PrepareFails, SaveMeta, LookStopped, DeleteEnds,
                CheckAbsent
  <2>2. PICK R \in Record : /\ req' = [req EXCEPT ![r] = R]
                            /\ R.pc \notin {"copying", "preparing", "noting"} /\ ~R.file
    <3>1. /\ Idle \in Record /\ Idle.pc = "idle" /\ ~Idle.file
          /\ [Idle EXCEPT !.pc = "down"] \in Record
          /\ [Idle EXCEPT !.pc = "down"].pc = "down" /\ ~[Idle EXCEPT !.pc = "down"].file
      BY RecordsTyped DEF Idle, Record, Label
    <3>2. CASE CheckAbsent(r)
      <4> DEFINE R == [Idle EXCEPT !.pc = "absent", !.id = servers + 1]
      <4>1. servers + 1 \in 0 .. MaxServers
        BY <3>2, ServersAssumption DEF CheckAbsent, TypeOK
      <4>2. R \in Record /\ R.pc = "absent" /\ ~R.file
        BY <4>1 DEF Idle, Record, Label
      <4> QED BY <3>2, <4>2 DEF CheckAbsent
    <3> QED BY <1>1, <3>1, <3>2 DEF FetchFails, CopyBreaks, PrepareFails, SaveMeta,
                                    LookStopped, DeleteEnds
  <2> QED BY <1>0, <2>1, <2>2, CreationUntouched
<1>2. ASSUME NEW r \in Request, ListEntries(r) PROVE CreationInv'
  <2>1. ~req[r].file
    BY <1>2 DEF ListEntries, CreationInv, OpenJars
  <2>2. /\ UNCHANGED entries /\ \A q \in Request \ {r} : req'[q] = req[q]
        /\ req'[r].pc \in {"removing", "idle"} /\ ~req'[r].file
    BY <1>0, <1>2, <2>1 DEF ListEntries, Idle, Record
  <2> QED BY <1>0, <2>2, CreationUntouched
<1>3. ASSUME NEW r \in Request, CopyErrorPage(r) PROVE CreationInv'
  <2>1. /\ UNCHANGED entries /\ \A q \in Request \ {r} : req'[q] = req[q]
        /\ req'[r].pc = "preparing" /\ ~req'[r].file /\ req'[r].crossed
    BY <1>0, <1>3 DEF CopyErrorPage, Record
  <2> QED BY <2>1 DEF CreationInv, OpenJars, Progress
<1>4. ASSUME NEW r \in Request, NEW label \in {"copying", "uploading"},
             NEW n \in 0 .. MaxServers, req[r].pc \in {"idle", "absent"},
             Open(r, label, n)
      PROVE CreationInv'
  <2> DEFINE shared == \E q \in Request \ {r} : req[q].file
             mine == [Idle EXCEPT !.pc = label, !.id = n, !.file = TRUE,
                                  !.mixed = shared, !.crossed = shared]
  <2>0. shared \in BOOLEAN
    OBVIOUS
  <2> HIDE DEF shared
  <2>1. /\ mine.pc = label /\ mine.id = n /\ mine.file = TRUE
        /\ mine.mixed = shared /\ mine.crossed = shared
    BY DEF Idle
  <2>2. req' = [Rewritten("jar") EXCEPT ![r] = mine] /\ entries'["jar"] = Made(n, "part")
    BY <1>0, <1>4 DEF Open, shared
  <2> HIDE DEF mine
  <2>3. Rewritten("jar") \in [Request -> Record]
    BY <1>0, RewrittenFacts
  <2>4. req'[r] = mine /\ \A q \in Request \ {r} : req'[q] = Rewritten("jar")[q]
    BY <2>2, <2>3
  <2>5. \A q \in Request \ {r} : /\ req'[q].pc = req[q].pc
                                 /\ req'[q].file <=> req[q].file
                                 /\ req[q].file => req'[q].mixed
                                 /\ q \in Creating => req'[q].crossed
    <3>1. \A q \in Request :
            /\ Rewritten("jar")[q].pc = req[q].pc
            /\ Rewritten("jar")[q].file <=> req[q].file
            /\ Rewritten("jar")[q].mixed <=> req[q].mixed \/ req[q].file
            /\ Rewritten("jar")[q].crossed <=> req[q].crossed \/ q \in Creating
      BY <1>0, RewrittenFacts
    <3> QED BY <2>4, <3>1
  <2>6. req'[r].mixed \/ \A q \in Request \ {r} : ~req'[q].file
    BY <2>1, <2>4, <2>5 DEF shared
  <2>7. req'[r].pc \in {"copying", "uploading"} /\ req'[r].file
    BY <2>1, <2>4
  <2>8. entries'["jar"] = Made(req'[r].id, "part") /\ (req'[r].crossed <=> req'[r].mixed)
    BY <2>1, <2>2, <2>4
  <2> QED BY <2>5, <2>6, <2>7, <2>8, CreationCrossed
<1>5. ASSUME NEW r \in Request, CopyEnds(r) PROVE CreationInv'
  <2>1. /\ \A q \in Request \ {r} : req'[q] = req[q]
        /\ ~req'[r].file
        /\ \/ req'[r].pc = "idle"
           \/ /\ req[r].pc = "copying" /\ req'[r].pc = "preparing"
              /\ req'[r].id = req[r].id /\ req'[r].crossed = req[r].crossed
    BY <1>0, <1>5 DEF CopyEnds, Idle, Record
  <2>2. UNCHANGED entries["eula"]
    BY <1>0, <1>5 DEF CopyEnds
  <2>3. CASE req[r].file /\ ~req[r].mixed
    <3>1. entries'["jar"] = Made(req[r].id, "whole")
      BY <1>0, <1>5, <2>3 DEF CopyEnds
    <3>2. entries["jar"] = Made(req[r].id, "part")
      BY <2>3 DEF CreationInv, OpenJars
    <3>3. \A q \in Request \ {r} : ~req[q].file
      BY <2>3 DEF CreationInv, OpenJars
    <3>4. \A q \in Request \ {r} :
            req[q].pc \in {"copying", "preparing", "noting"} => req[q].crossed
      <4>1. entries["jar"].state = "part" /\ \A n : Made(n, "whole").state = "whole"
        BY <3>2 DEF Made
      <4> QED BY <3>3, <4>1 DEF CreationInv, Progress
    <3> QED BY <2>1, <2>2, <3>1, <3>3, <3>4 DEF CreationInv, OpenJars, Progress
  <2>4. CASE ~(req[r].file /\ ~req[r].mixed)
    <3>1. UNCHANGED entries
      BY <1>5, <2>4 DEF CopyEnds
    <3>2. req[r].pc = "copying" => req[r].crossed
      BY <2>4 DEF CreationInv, Progress
    <3> QED BY <2>1, <3>1, <3>2 DEF CreationInv, OpenJars, Progress
  <2> QED BY <2>3, <2>4
<1>6. ASSUME NEW r \in Request, WriteEula(r) PROVE CreationInv'
  <2>1. /\ \A q \in Request \ {r} : req'[q] = req[q]
        /\ req[r].pc = "preparing" /\ req'[r].pc = "noting" /\ req'[r].file = req[r].file
        /\ req'[r].id = req[r].id /\ req'[r].crossed = req[r].crossed
    BY <1>0, <1>6 DEF WriteEula, Record
  <2>2. entries'["jar"] = entries["jar"] /\ entries'["eula"].state = "whole"
    BY <1>0, <1>6 DEF WriteEula, Made
  <2>3. ~req[r].file
    BY <2>1 DEF CreationInv, OpenJars
  <2> QED BY <2>1, <2>2, <2>3 DEF CreationInv, OpenJars, Progress
<1>7. ASSUME NEW r \in Request, RemoveNext(r) \/ RemoveFails(r) PROVE CreationInv'
  <2> DEFINE e == First(req[r].todo)
             gone == entries'[e].state = "none"
  <2>1. PICK R : /\ Removed(r, e, R) /\ ~R.file
                 /\ R.pc \notin {"copying", "preparing", "noting"}
    <3>1. ~req[r].file /\ req[r].pc = "removing"
      BY <1>7 DEF RemoveNext, RemoveFails, CreationInv, OpenJars
    <3>2. ~Idle.file /\ Idle.pc = "idle"
      BY DEF Idle
    <3>3. /\ ~[req[r] EXCEPT !.todo = @ \ {e}].file
          /\ [req[r] EXCEPT !.todo = @ \ {e}].pc = "removing"
      BY <1>0, <3>1 DEF Record
    <3> QED BY <1>7, <3>2, <3>3 DEF RemoveNext, RemoveFails
  <2>2. e \in Entry /\ gone \in BOOLEAN
    BY <1>0, <1>7, NextEntry DEF RemoveNext, RemoveFails, Record
  <2>3. /\ e = "jar" => gone \/ UNCHANGED entries
        /\ e # "jar" => UNCHANGED entries["jar"]
        /\ e \notin {"jar", "eula"} => UNCHANGED entries["eula"]
    BY <1>0, <1>7 DEF RemoveNext, RemoveFails, None
  <2> HIDE DEF e, gone
  <2>4. /\ Disturbed(e, gone) \in [Request -> Record]
        /\ \A q \in Request :
             /\ Disturbed(e, gone)[q].pc = req[q].pc
             /\ Disturbed(e, gone)[q].id = req[q].id
             /\ Disturbed(e, gone)[q].mixed = req[q].mixed
             /\ Disturbed(e, gone)[q].file <=> req[q].file /\ ~(e = "jar" /\ gone)
             /\ Disturbed(e, gone)[q].crossed <=>
                  req[q].crossed \/ (q \in Creating /\ e \in {"jar", "eula"})
    BY <1>0, <2>2, DisturbedFacts
  <2>5. req'[r] = R /\ \A q \in Request \ {r} : req'[q] = Disturbed(e, gone)[q]
    BY <2>1, <2>4 DEF Removed, gone
  <2>6. \A q \in Request \ {r} :
          /\ req'[q].pc = req[q].pc /\ req'[q].id = req[q].id
          /\ req'[q].mixed = req[q].mixed
          /\ req'[q].file <=> req[q].file /\ ~(e = "jar" /\ gone)
          /\ req'[q].crossed <=>
               req[q].crossed \/ (q \in Creating /\ e \in {"jar", "eula"})
    BY <2>4, <2>5
  <2>7. ~req'[r].file /\ req'[r].pc \notin {"copying", "preparing", "noting"}
    BY <2>1, <2>5
  <2>8. CASE e = "jar" /\ gone
    <3>1. \A q \in Request \ {r} : /\ req'[q].pc = req[q].pc /\ ~req'[q].file
                                   /\ q \in Creating => req'[q].crossed
      BY <2>6, <2>8
    <3> QED BY <2>7, <3>1, CreationCrossed
  <2>9. CASE e = "jar" /\ ~gone
    BY <2>3, <2>6, <2>7, <2>9 DEF CreationInv, OpenJars, Progress
  <2>10. CASE e # "jar"
    BY <2>3, <2>6, <2>7, <2>10 DEF CreationInv, OpenJars, Progress, Creating, Busy
  <2> QED BY <2>8, <2>9, <2>10
<1>8. ASSUME NEW p \in Path, RemoveFile(p) PROVE CreationInv'
  <2>1. PICK e \in Entry : Touch(e, None, Disturbed(e, TRUE))
    BY <1>8 DEF RemoveFile, Target
  <2>2. /\ req' = Disturbed(e, TRUE)
        /\ \A e2 \in Entry \ {e} : entries'[e2] = entries[e2]
    BY <1>0, <2>1 DEF Touch
  <2>3. \A q \in Request :
          /\ req'[q].pc = req[q].pc /\ req'[q].id = req[q].id
          /\ req'[q].mixed = req[q].mixed
          /\ req'[q].file <=> req[q].file /\ e # "jar"
          /\ req'[q].crossed <=>
               req[q].crossed \/ (q \in Creating /\ e \in {"jar", "eula"})
    <3>1. PICK u \in BOOLEAN : u = TRUE
      OBVIOUS
    <3>2. req' = Disturbed(e, u)
      BY <2>2, <3>1
    <3>3. \A q \in Request :
            /\ Disturbed(e, u)[q].pc = req[q].pc
            /\ Disturbed(e, u)[q].id = req[q].id
            /\ Disturbed(e, u)[q].mixed = req[q].mixed
            /\ Disturbed(e, u)[q].file <=> req[q].file /\ ~(e = "jar" /\ u)
            /\ Disturbed(e, u)[q].crossed <=>
                 req[q].crossed \/ (q \in Creating /\ e \in {"jar", "eula"})
      BY <1>0, DisturbedFacts
    <3> QED BY <3>1, <3>2, <3>3
  <2>4. CASE e = "jar"
    BY <2>3, <2>4 DEF CreationInv, OpenJars, Progress, Creating, Busy
  <2>5. CASE e # "jar"
    <3>1. UNCHANGED entries["jar"] /\ (e # "eula" => UNCHANGED entries["eula"])
      BY <1>0, <2>2, <2>5
    <3> QED BY <2>3, <2>5, <3>1 DEF CreationInv, OpenJars, Progress, Creating, Busy
  <2> QED BY <2>4, <2>5
<1>9. ASSUME NEW e \in Entry, NEW c, Touch(e, c, Rewritten(e)) PROVE CreationInv'
  <2>1. /\ req' = Rewritten(e)
        /\ \A e2 \in Entry \ {e} : entries'[e2] = entries[e2]
    BY <1>0, <1>9 DEF Touch
  <2>2. \A q \in Request :
          /\ req'[q].pc = req[q].pc /\ req'[q].id = req[q].id
          /\ req'[q].file <=> req[q].file
          /\ req'[q].mixed <=> req[q].mixed \/ (e = "jar" /\ req[q].file)
          /\ req'[q].crossed <=>
               req[q].crossed \/ (q \in Creating /\ e \in {"jar", "eula"})
    BY <1>0, <2>1, RewrittenFacts
  <2> QED BY <1>0, <2>1, <2>2 DEF CreationInv, OpenJars, Progress, Creating, Busy
<1>10. CASE Outside
  <2>1. CASE ApiCrash
    <3>1. \A r \in Request : req'[r].pc = "idle" /\ ~req'[r].file
      BY <2>1 DEF ApiCrash, Idle
    <3> QED BY <2>1, <3>1, CreationUntouched DEF ApiCrash
  <2>2. CASE ContainerStarts \/ SaveWorld
    BY <1>0, <2>2, CreationUntouched DEF ContainerStarts, SaveWorld
  <2>3. CASE SendStart \/ ReadStart \/ JvmEnds \/ Publish \/ ContainerStops
    BY <2>3, CreationUntouched DEF SendStart, ReadStart, JvmEnds, Publish, ContainerStops
  <2> QED BY <1>10, <2>1, <2>2, <2>3 DEF Outside
<1>11. CASE UNCHANGED vars
  BY <1>11, CreationUntouched DEF vars
<1>12. ASSUME NEW r \in Request, OpenJar(r) \/ UploadJar(r) PROVE CreationInv'
  <2>1. req[r].id \in 0 .. MaxServers
    BY <1>0 DEF Record
  <2>2. CASE OpenJar(r)
    BY <1>4, <2>1, <2>2 DEF OpenJar
  <2>3. CASE UploadJar(r)
    <3>1. servers + 1 \in 0 .. MaxServers
      BY <2>3, ServersAssumption DEF UploadJar, TypeOK
    <3> QED BY <1>4, <2>3, <3>1 DEF UploadJar
  <2> QED BY <1>12, <2>2, <2>3
<1>13. ASSUME NEW p \in Path, RewriteFile(p) PROVE CreationInv'
  BY <1>9, <1>13 DEF RewriteFile, Target
<1>14. CASE UploadEula
  <2>1. "eula" \in Entry
    BY DEF Entry
  <2> QED BY <1>9, <1>14, <2>1 DEF UploadEula
<1> QED BY <1>1, <1>2, <1>3, <1>5, <1>6, <1>7, <1>8, <1>10, <1>11, <1>12, <1>13, <1>14
        DEF Next, Outside

\* A creation that nobody crossed and that got a real answer reports success on
\* a whole jar of its own and an accepted EULA, however many requests there are.
THEOREM CreationIsWhole == Spec => []CreatedIsWhole
<1>1. Init => CreationInv
  BY DEF Init, CreationInv, OpenJars, Progress, Idle
<1>2. CreationInv => CreatedIsWhole
  BY DEF CreationInv, Progress, CreatedIsWhole
<1> QED BY <1>1, <1>2, TypeCorrect, NextCreationInv, PTL DEF Spec

-----------------------------------------------------------------------------
(* Worlds *)

\* Until a world may outlive its server: a JVM runs the jar that is there and is
\* not being deleted; a world is that of the jar, or there is a deletion that
\* still has it ahead.
Tidy ==
  /\ jvm # 0 => Exists("jar") /\ entries["jar"].id = jvm /\ Deleting = {}
  /\ Exists("world") => \/ Exists("jar") /\ entries["world"].id = entries["jar"].id
                        \/ Busy({"removing"}) # {}
  /\ \A r \in Busy({"removing"}) : Exists("world") => "world" \in req[r].todo

WorldInv == ~stray => Tidy

\* Steps that leave jar and world alone and start neither a JVM nor a deletion
LEMMA TidyKept ==
  ASSUME WorldInv, stray => stray',
         UNCHANGED <<entries["jar"], entries["world"]>>,
         jvm' \in {jvm, 0},
         \A r \in Request : \/ req'[r].pc = req[r].pc /\ req'[r].todo = req[r].todo
                            \/ /\ req[r].pc # "removing" \/ req[r].todo = {}
                               /\ req'[r].pc \notin {"down", "removing"}
  PROVE  WorldInv'
<1>1. /\ Deleting' \subseteq Deleting /\ Busy({"removing"})' \subseteq Busy({"removing"})
      /\ \A r \in Busy({"removing"})' : req'[r].todo = req[r].todo
      /\ \A r \in Busy({"removing"}) \ Busy({"removing"})' : req[r].todo = {}
  BY DEF Deleting, Busy
<1>2. (Exists("jar")' <=> Exists("jar")) /\ (Exists("world")' <=> Exists("world"))
  BY DEF Exists
<1> QED BY <1>1, <1>2 DEF WorldInv, Tidy

LEMMA NextWorldInv ==
  TypeOK /\ CreationInv /\ WorldInv /\ [Next]_vars => WorldInv'
<1> SUFFICES ASSUME TypeOK, CreationInv, WorldInv, [Next]_vars PROVE WorldInv'
  OBVIOUS
<1>0. /\ entries \in [Entry -> Content] /\ req \in [Request -> Record]
      /\ {"control", "eula", "jar", "world"} \subseteq Entry
  BY DEF TypeOK, Record, Entry
<1>1. ASSUME NEW r \in Request,
             \/ FetchFails(r) \/ CopyBreaks(r) \/ PrepareFails(r) \/ SaveMeta(r)
             \/ DeleteEnds(r) \/ CheckAbsent(r) \/ CopyErrorPage(r)
      PROVE WorldInv'
  <2>1. UNCHANGED <<entries, jvm, stray>>
    BY <1>1 DEF FetchFails, CopyBreaks, PrepareFails, SaveMeta, DeleteEnds, CheckAbsent,
                CopyErrorPage
  <2>2. req[r].pc # "removing" \/ req[r].todo = {}
    BY <1>1 DEF FetchFails, CopyBreaks, PrepareFails, SaveMeta, DeleteEnds, CheckAbsent,
                CopyErrorPage
  <2>3. PICK R : req' = [req EXCEPT ![r] = R] /\ R.pc \notin {"down", "removing"}
    <3>1. /\ Idle.pc = "idle"
          /\ [Idle EXCEPT !.pc = "absent", !.id = servers + 1].pc = "absent"
      BY DEF Idle
    <3>2. [req[r] EXCEPT !.pc = "preparing", !.file = FALSE, !.crossed = TRUE].pc
            = "preparing"
      BY <1>0 DEF Record
    <3>3. CASE CheckAbsent(r)
      BY <3>1, <3>3 DEF CheckAbsent
    <3>4. CASE CopyErrorPage(r)
      BY <3>2, <3>4 DEF CopyErrorPage
    <3> QED BY <1>1, <3>1, <3>3, <3>4 DEF FetchFails, CopyBreaks, PrepareFails, SaveMeta,
                                          DeleteEnds
  <2> QED BY <1>0, <2>1, <2>2, <2>3, TidyKept
<1>2. ASSUME NEW r \in Request, LookStopped(r) PROVE WorldInv'
  <2>1. /\ UNCHANGED <<entries, jvm>> /\ stray' = (stray \/ jvm # 0)
        /\ req[r].pc = "idle" /\ req'[r].pc = "down"
        /\ \A q \in Request \ {r} : req'[q] = req[q]
    BY <1>0, <1>2 DEF LookStopped, Idle
  <2>2. Busy({"removing"})' = Busy({"removing"})
    BY <2>1 DEF Busy
  <2>3. \A q \in Busy({"removing"}) : req'[q] = req[q]
    BY <2>1 DEF Busy
  <2> QED BY <2>1, <2>2, <2>3 DEF WorldInv, Tidy, Exists
<1>3. ASSUME NEW r \in Request, ListEntries(r) PROVE WorldInv'
  <2>1. /\ UNCHANGED <<entries, jvm, stray>> /\ req[r].pc = "down"
        /\ \A q \in Request \ {r} : req'[q] = req[q]
        /\ \/ req'[r].pc = "removing" /\ req'[r].todo = {e \in Entry : Exists(e)}
           \/ req'[r].pc = "idle"
    BY <1>0, <1>3 DEF ListEntries, Idle, Record
  <2>2. Deleting' \subseteq Deleting /\ Busy({"removing"}) \subseteq Busy({"removing"})'
    BY <2>1 DEF Deleting, Busy
  <2>3. \A q \in Busy({"removing"})' :
          \/ q \in Busy({"removing"}) /\ req'[q] = req[q]
          \/ req'[q].todo = {e \in Entry : Exists(e)}
    BY <2>1 DEF Busy
  <2> QED BY <1>0, <2>1, <2>2, <2>3 DEF WorldInv, Tidy, Exists
<1>4. ASSUME NEW r \in Request, NEW label \in {"copying", "uploading"},
             NEW n \in 0 .. MaxServers, req[r].pc \in {"idle", "absent"},
             Open(r, label, n)
      PROVE WorldInv'
  <2>1. /\ stray' = (stray \/ Exists("jar")) /\ UNCHANGED jvm
        /\ UNCHANGED entries["world"]
    BY <1>0, <1>4 DEF Open
  <2>2. /\ req'[r].pc \in {"copying", "uploading"}
        /\ \A q \in Request \ {r} : req'[q].pc = req[q].pc /\ req'[q].todo = req[q].todo
    <3>1. Rewritten("jar") \in [Request -> Record]
      BY <1>0, RewrittenFacts
    <3>2. \A q \in Request : /\ Rewritten("jar")[q].pc = req[q].pc
                             /\ Rewritten("jar")[q].todo = req[q].todo
      BY <1>0, RewrittenFacts
    <3>3. PICK R : req' = [Rewritten("jar") EXCEPT ![r] = R] /\ R.pc = label
      <4> DEFINE shared == \E q \in Request \ {r} : req[q].file
                 mine == [Idle EXCEPT !.pc = label, !.id = n, !.file = TRUE,
                                      !.mixed = shared, !.crossed = shared]
      <4>1. mine.pc = label
        BY DEF Idle
      <4> HIDE DEF shared
      <4>2. req' = [Rewritten("jar") EXCEPT ![r] = mine]
        BY <1>4 DEF Open, shared
      <4> HIDE DEF mine
      <4> QED BY <4>1, <4>2
    <3> QED BY <3>1, <3>2, <3>3
  <2>3. Busy({"removing"})' = Busy({"removing"})
    BY <1>4, <2>2 DEF Busy
  <2>4. \A q \in Busy({"removing"}) : req'[q].todo = req[q].todo
    BY <1>4, <2>2 DEF Busy
  <2>5. CASE stray \/ Exists("jar")
    BY <2>1, <2>5 DEF WorldInv
  <2>6. CASE ~stray /\ ~Exists("jar")
    <3>1. jvm = 0
      BY <2>6 DEF WorldInv, Tidy
    <3>2. Exists("world")' <=> Exists("world")
      BY <2>1 DEF Exists
    <3> QED BY <2>1, <2>3, <2>4, <2>6, <3>1, <3>2 DEF WorldInv, Tidy
  <2> QED BY <2>5, <2>6
<1>5. ASSUME NEW r \in Request, OpenJar(r) \/ UploadJar(r) PROVE WorldInv'
  <2>1. req[r].id \in 0 .. MaxServers
    BY <1>0 DEF Record
  <2>2. CASE OpenJar(r)
    BY <1>4, <2>1, <2>2 DEF OpenJar
  <2>3. CASE UploadJar(r)
    <3>1. servers + 1 \in 0 .. MaxServers
      BY <2>3, ServersAssumption DEF UploadJar, TypeOK
    <3> QED BY <1>4, <2>3, <3>1 DEF UploadJar
  <2> QED BY <1>5, <2>2, <2>3
<1>6. ASSUME NEW r \in Request, CopyEnds(r) PROVE WorldInv'
  <2>1. /\ UNCHANGED <<jvm, stray, entries["world"]>>
        /\ req[r].pc \in {"copying", "uploading"} /\ req'[r].pc \in {"idle", "preparing"}
        /\ \A q \in Request \ {r} : req'[q] = req[q]
    BY <1>0, <1>6 DEF CopyEnds, Idle, Record
  <2>2. \/ UNCHANGED entries["jar"]
        \/ /\ entries["jar"] = Made(req[r].id, "part")
           /\ entries'["jar"] = Made(req[r].id, "whole")
    BY <1>0, <1>6 DEF CopyEnds, CreationInv, OpenJars
  <2>3. /\ entries'["jar"].id = entries["jar"].id
        /\ Exists("jar")' <=> Exists("jar")
    BY <2>2 DEF Made, Exists
  <2>4. /\ Busy({"removing"})' = Busy({"removing"}) /\ Deleting' = Deleting
        /\ \A q \in Busy({"removing"}) : req'[q] = req[q]
    BY <2>1 DEF Busy, Deleting
  <2> QED BY <2>1, <2>3, <2>4 DEF WorldInv, Tidy, Exists
<1>7. ASSUME NEW r \in Request, WriteEula(r) PROVE WorldInv'
  <2>1. /\ UNCHANGED <<jvm, stray, entries["world"], entries["jar"]>>
        /\ \A q \in Request : \/ req[q].pc # "removing" /\ req'[q].pc = "noting"
                              \/ req'[q] = req[q]
    BY <1>0, <1>7 DEF WriteEula, Record
  <2> QED BY <2>1, TidyKept
<1>8. ASSUME NEW r \in Request, RemoveNext(r) PROVE WorldInv'
  <2> DEFINE e == First(req[r].todo)
             R == [req[r] EXCEPT !.todo = @ \ {e}]
  <2>1. /\ e \in Entry /\ req[r].todo \in SUBSET Entry
        /\ e = "world" => req[r].todo = {"world"}
    BY <1>0, <1>8, NextEntry DEF RemoveNext, Record
  <2>2. /\ req[r].pc = "removing" /\ R.pc = "removing" /\ R.todo = req[r].todo \ {e}
        /\ UNCHANGED <<jvm, stray>>
        /\ Removed(r, e, R) /\ entries' = [entries EXCEPT ![e] = None]
    BY <1>0, <1>8 DEF RemoveNext, Removed, Record
  <2> HIDE DEF e, R
  <2>3. entries'[e].state = "none" /\ \A d \in Entry \ {e} : entries'[d] = entries[d]
    BY <1>0, <2>1, <2>2 DEF None
  <2>4. \A q \in Request : /\ req'[q].pc = req[q].pc
                           /\ q # r => req'[q].todo = req[q].todo
                           /\ q = r => req'[q].todo = req[q].todo \ {e}
    <3>1. PICK u \in BOOLEAN : u = (entries'[e].state = "none")
      OBVIOUS
    <3>2. /\ Disturbed(e, u) \in [Request -> Record]
          /\ \A q \in Request : /\ Disturbed(e, u)[q].pc = req[q].pc
                                /\ Disturbed(e, u)[q].todo = req[q].todo
      BY <1>0, DisturbedFacts
    <3>3. req' = [Disturbed(e, u) EXCEPT ![r] = R]
      BY <2>2, <3>1 DEF Removed
    <3> QED BY <2>2, <3>2, <3>3
  <2>5. /\ Busy({"removing"})' = Busy({"removing"}) /\ Deleting' = Deleting
        /\ r \in Busy({"removing"}) /\ r \in Deleting
        /\ \A q \in Busy({"removing"}) : req[q].todo \ {e} \subseteq req'[q].todo
    BY <2>2, <2>4 DEF Busy, Deleting
  <2>6. Exists("world")' => Exists("world") /\ e # "world"
    BY <1>0, <2>3 DEF Exists
  <2> QED BY <2>2, <2>5, <2>6 DEF WorldInv, Tidy
<1>9. ASSUME NEW r \in Request, RemoveFails(r) PROVE WorldInv'
  BY <1>9 DEF RemoveFails, WorldInv
<1>10. ASSUME NEW e \in Entry, NEW c, NEW R, Touch(e, c, R), R \in [Request -> Record],
              \A q \in Request : R[q].pc = req[q].pc /\ R[q].todo = req[q].todo
       PROVE WorldInv'
  <2>1. CASE e \in {"jar", "world"}
    BY <1>10, <2>1 DEF Touch, WorldInv
  <2>2. CASE e \notin {"jar", "world"}
    <3>1. /\ UNCHANGED <<entries["jar"], entries["world"], jvm>>
          /\ req' = R /\ stray' = stray
      BY <1>0, <1>10, <2>2 DEF Touch, TypeOK
    <3> QED BY <1>10, <3>1, TidyKept
  <2> QED BY <2>1, <2>2
<1>11. ASSUME NEW p \in Path, RemoveFile(p) PROVE WorldInv'
  <2>1. PICK e \in Entry : Touch(e, None, Disturbed(e, TRUE))
    BY <1>11 DEF RemoveFile, Target
  <2>2. PICK u \in BOOLEAN : u = TRUE
    OBVIOUS
  <2>3. Touch(e, None, Disturbed(e, u))
    BY <2>1, <2>2
  <2>4. /\ Disturbed(e, u) \in [Request -> Record]
        /\ \A q \in Request : /\ Disturbed(e, u)[q].pc = req[q].pc
                              /\ Disturbed(e, u)[q].todo = req[q].todo
    BY <1>0, DisturbedFacts
  <2> QED BY <1>10, <2>3, <2>4
<1>12. ASSUME NEW e \in Entry, NEW c, Touch(e, c, Rewritten(e)) PROVE WorldInv'
  <2>1. /\ Rewritten(e) \in [Request -> Record]
        /\ \A q \in Request : /\ Rewritten(e)[q].pc = req[q].pc
                              /\ Rewritten(e)[q].todo = req[q].todo
    BY <1>0, RewrittenFacts
  <2> QED BY <1>10, <1>12, <2>1
<1>13. ASSUME NEW p \in Path, RewriteFile(p) PROVE WorldInv'
  BY <1>12, <1>13 DEF RewriteFile, Target
<1>14. CASE UploadEula
  BY <1>0, <1>12, <1>14 DEF UploadEula
<1>15. CASE Outside
  <2>1. CASE SendStart \/ JvmEnds \/ Publish \/ ContainerStops
    BY <2>1, TidyKept DEF SendStart, JvmEnds, Publish, ContainerStops
  <2>2. CASE ContainerStarts
    BY <1>0, <2>2, TidyKept DEF ContainerStarts
  <2>3. CASE ReadStart
    <3>1. UNCHANGED <<entries, req>> /\ stray' = (stray \/ (jvm' # jvm /\ Deleting # {}))
      BY <2>3 DEF ReadStart
    <3>2. jvm' # jvm => Exists("jar") /\ jvm' = entries["jar"].id
      <4>1. jvm' # jvm => entries["jar"].state = "whole" /\ jvm' = entries["jar"].id
        BY <2>3 DEF ReadStart
      <4> QED BY <4>1 DEF Exists
    <3>3. CASE jvm' = jvm
      BY <3>1, <3>3, TidyKept
    <3>4. CASE jvm' # jvm
      BY <3>1, <3>2, <3>4 DEF WorldInv, Tidy, Exists, Busy, Deleting
    <3> QED BY <3>3, <3>4
  <2>4. CASE SaveWorld
    <3>1. /\ UNCHANGED <<jvm, stray, req, entries["jar"]>> /\ jvm # 0
          /\ entries'["world"].id = IF Exists("world") THEN entries["world"].id ELSE jvm
      BY <1>0, <2>4 DEF SaveWorld, Made
    <3>2. CASE stray
      BY <3>1, <3>2 DEF WorldInv
    <3>3. CASE ~stray
      <4>1. /\ Exists("jar") /\ entries["jar"].id = jvm /\ Deleting = {}
            /\ Busy({"removing"}) = {}
        BY <3>1, <3>3 DEF WorldInv, Tidy, Deleting, Busy
      <4>2. Exists("jar")' /\ Deleting' = {} /\ Busy({"removing"})' = {}
        BY <3>1, <4>1 DEF Exists, Deleting, Busy
      <4>3. entries'["world"].id = jvm
        BY <3>1, <3>3, <4>1 DEF WorldInv, Tidy
      <4> QED BY <3>1, <4>1, <4>2, <4>3 DEF WorldInv, Tidy
    <3> QED BY <3>2, <3>3
  <2>5. CASE ApiCrash
    <3>1. /\ UNCHANGED <<jvm, entries>> /\ stray' = (stray \/ Busy({"removing"}) # {})
          /\ \A r \in Request : req'[r].pc = "idle"
      BY <2>5 DEF ApiCrash, Idle
    <3>2. CASE stray'
      BY <3>2 DEF WorldInv
    <3>3. CASE ~stray'
      <4>1. \A r \in Request : req[r].pc # "removing"
        BY <3>1, <3>3 DEF Busy
      <4> QED BY <3>1, <4>1, TidyKept
    <3> QED BY <3>2, <3>3
  <2> QED BY <1>15, <2>1, <2>2, <2>3, <2>4, <2>5 DEF Outside
<1>16. CASE UNCHANGED vars
  BY <1>16, TidyKept DEF vars
<1> QED BY <1>1, <1>2, <1>3, <1>5, <1>6, <1>7, <1>8, <1>9, <1>11, <1>13, <1>14, <1>15,
           <1>16 DEF Next, Outside

\* No server runs on the world of one deleted before it, for any number of
\* requests and servers, as long as no deletion failed or met a running JVM, and
\* nobody changed the jar or the world file by file.
THEOREM WorldIsFresh == Spec => []FreshWorld
<1>1. Init => WorldInv
  BY DEF Init, WorldInv, Tidy, Exists, None, Idle, Busy, Entry
<1>2. WorldInv => FreshWorld
  BY DEF WorldInv, Tidy, FreshWorld, Deleting, Busy
<1>3. Init => CreationInv
  BY DEF Init, CreationInv, OpenJars, Progress, Idle
<1> QED BY <1>1, <1>2, <1>3, TypeCorrect, NextCreationInv, NextWorldInv, PTL DEF Spec
=============================================================================
