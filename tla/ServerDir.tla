------------------------------ MODULE ServerDir ------------------------------
(***************************************************************************)
(* The server directory, which three parties change without a common       *)
(* lock: the API (create, delete and the file manager), the supervisor,    *)
(* whose control directory with its FIFOs lies in it, and the JVM, which   *)
(* makes the world.                                                        *)
(*                                                                         *)
(* Servers are numbered as POST /api/server makes them. An entry of the    *)
(* directory has the number of the server it was made for. What a start    *)
(* request waits for is in ServerStart; here START is a verb in a pipe.    *)
(***************************************************************************)
EXTENDS Naturals, Sequences, SequencesExt

CONSTANTS Request,
          Path,        \* paths the file manager is asked for: sequences of components
          MaxServers   \* bound: servers ever created

ASSUME ServersAssumption == MaxServers \in Nat

VARIABLES
  entries,     \* the entries of ServerDir
  sup,      \* the supervisor's container runs
  fifo,     \* START is in the control FIFO
  jvm,      \* the server whose JVM runs, or 0
  shown,    \* what IsServerRunning reads
  servers,  \* servers created so far
  req,      \* the requests in progress
  wiped,    \* history: since the supervisor booted, a deletion went for its directory
  stray     \* history: something let a world outlive its server, see FreshWorld

vars == <<entries, sup, fifo, jvm, shown, servers, req, wiped, stray>>

Entry == {"control", "eula", "jar", "world"}

\* The order of os.ReadDir: .mcmanager, eula.txt, server.jar, world
Listing == <<"control", "eula", "jar", "world">>

Content == [id : 0 .. MaxServers, state : {"none", "part", "whole"}]
None == [id |-> 0, state |-> "none"]
Made(n, state) == [id |-> n, state |-> state]
Exists(e) == entries[e].state # "none"

Label == {"idle",
          "absent",      \* CreateServerHandler: there is no jar; next: OpenJar
          "copying",     \* next: CopyEnds or CopyBreaks
          "preparing",   \* next: WriteEula
          "noting",      \* next: SaveMeta
          "uploading",   \* UploadFileHandler, the same copy
          "down",        \* DeleteServerHandler: it does not run; next: ListEntries
          "removing"}    \* next: RemoveNext

\* file: the descriptor still is that of the jar at its path; mixed: somebody
\* else wrote into it meanwhile; crossed is history: what this request is
\* making was changed by another, or is an error page.
Idle == [pc |-> "idle", id |-> 0, todo |-> {}, file |-> FALSE, mixed |-> FALSE,
         crossed |-> FALSE]

TypeOK ==
  /\ entries \in [Entry -> Content]
  /\ sup \in BOOLEAN /\ fifo \in BOOLEAN /\ shown \in BOOLEAN
  /\ wiped \in BOOLEAN /\ stray \in BOOLEAN
  /\ jvm \in 0 .. MaxServers
  /\ servers \in 0 .. MaxServers
  /\ req \in [Request -> [pc : Label, id : 0 .. MaxServers, todo : SUBSET Entry,
                          file : BOOLEAN, mixed : BOOLEAN, crossed : BOOLEAN]]

Init ==
  /\ entries = [e \in Entry |-> IF e = "control" THEN Made(0, "whole") ELSE None]
  /\ sup = TRUE /\ fifo = FALSE /\ jvm = 0 /\ shown = FALSE
  /\ servers = 0
  /\ req = [r \in Request |-> Idle]
  /\ wiped = FALSE /\ stray = FALSE

Busy(pcs) == {r \in Request : req[r].pc \in pcs}
Creating == Busy({"copying", "preparing", "noting"})
Deleting == Busy({"down", "removing"})

\* The requests after something happened to entry e: a copy into a jar that
\* is unlinked goes on in a file without a name, and one into a jar that
\* somebody else writes as well leaves a mixture.
Disturbed(e, unlinked) ==
  [q \in Request |->
     [req[q] EXCEPT !.file = @ /\ ~(e = "jar" /\ unlinked),
                    !.crossed = @ \/ (q \in Creating /\ e \in {"jar", "eula"})]]

Rewritten(e) ==
  [q \in Request |->
     [Disturbed(e, FALSE)[q] EXCEPT !.mixed = @ \/ (e = "jar" /\ req[q].file)]]

-----------------------------------------------------------------------------
(* POST /api/server *)

CheckAbsent(r) ==
  /\ req[r].pc = "idle"
  /\ ~Exists("jar")
  /\ servers < MaxServers
  /\ servers' = servers + 1
  /\ req' = [req EXCEPT ![r] = [Idle EXCEPT !.pc = "absent", !.id = servers + 1]]
  /\ UNCHANGED <<entries, sup, fifo, jvm, shown, wiped, stray>>

\* No manifest, no such version, or no answer: nothing has been touched.
FetchFails(r) ==
  /\ req[r].pc = "absent"
  /\ req' = [req EXCEPT ![r] = Idle]
  /\ UNCHANGED <<entries, sup, fifo, jvm, shown, servers, wiped, stray>>

\* os.Create, of a download or of an upload: it truncates the file that is there,
\* though somebody may still be writing to it.
Open(r, label, n) ==
  LET shared == \E q \in Request \ {r} : req[q].file
  IN  /\ entries' = [entries EXCEPT !["jar"] = Made(n, "part")]
      /\ req' = [Rewritten("jar") EXCEPT
                   ![r] = [Idle EXCEPT !.pc = label, !.id = n, !.file = TRUE,
                                       !.mixed = shared, !.crossed = shared]]
      /\ stray' = (stray \/ Exists("jar"))
      /\ UNCHANGED <<sup, fifo, jvm, shown, wiped>>

OpenJar(r) ==
  /\ req[r].pc = "absent"
  /\ Open(r, "copying", req[r].id)
  /\ UNCHANGED servers

\* An uploaded jar is a server of its own.
UploadJar(r) ==
  /\ req[r].pc = "idle"
  /\ servers < MaxServers
  /\ servers' = servers + 1
  /\ Open(r, "uploading", servers + 1)

CopyEnds(r) ==
  /\ req[r].pc \in {"copying", "uploading"}
  /\ entries' = IF req[r].file /\ ~req[r].mixed
             THEN [entries EXCEPT !["jar"] = Made(req[r].id, "whole")] ELSE entries
  /\ req' = [req EXCEPT ![r] = IF @.pc = "uploading" THEN Idle
                               ELSE [@ EXCEPT !.pc = "preparing", !.file = FALSE]]
  /\ UNCHANGED <<sup, fifo, jvm, shown, servers, wiped, stray>>

\* Mutant of CopyBreaks: what io.Copy returns is dropped.
CopyBreaksUnseen(r) ==
  /\ req[r].pc = "copying"
  /\ req' = [req EXCEPT ![r].pc = "preparing", ![r].file = FALSE]
  /\ UNCHANGED <<entries, sup, fifo, jvm, shown, servers, wiped, stray>>

\* The partial jar stays, and is a "server already exists" for the next attempt.
CopyBreaks(r) ==
  /\ req[r].pc \in {"copying", "uploading"}
  /\ req' = [req EXCEPT ![r] = Idle]
  /\ UNCHANGED <<entries, sup, fifo, jvm, shown, servers, wiped, stray>>

\* DownloadFile does not look at the status of the answer: the error page of a
\* version that does not exist is saved like a jar.
CopyErrorPage(r) ==
  /\ req[r].pc = "copying"
  /\ req' = [req EXCEPT ![r].pc = "preparing", ![r].file = FALSE, ![r].crossed = TRUE]
  /\ UNCHANGED <<entries, sup, fifo, jvm, shown, servers, wiped, stray>>

WriteEula(r) ==
  /\ req[r].pc = "preparing"
  /\ entries' = [entries EXCEPT !["eula"] = Made(0, "whole")]
  /\ req' = [req EXCEPT ![r].pc = "noting"]
  /\ UNCHANGED <<sup, fifo, jvm, shown, servers, wiped, stray>>

\* Failing here is an error for the caller, and the server exists all the same.
PrepareFails(r) ==
  /\ req[r].pc = "preparing"
  /\ req' = [req EXCEPT ![r] = Idle]
  /\ UNCHANGED <<entries, sup, fifo, jvm, shown, servers, wiped, stray>>

\* server-meta.json is shown to the user and decides nothing; failing to write
\* it is only logged, and the request succeeds.
SaveMeta(r) ==
  /\ req[r].pc = "noting"
  /\ req' = [req EXCEPT ![r] = Idle]
  /\ UNCHANGED <<entries, sup, fifo, jvm, shown, servers, wiped, stray>>

-----------------------------------------------------------------------------
(* DELETE /api/server *)

LookStopped(r) ==
  /\ req[r].pc = "idle"
  /\ ~shown
  /\ req' = [req EXCEPT ![r] = [Idle EXCEPT !.pc = "down"]]
  /\ stray' = (stray \/ jvm # 0)
  /\ UNCHANGED <<entries, sup, fifo, jvm, shown, servers, wiped>>

\* Mutant of ListEntries: only files are removed, as os.Remove would.
ListFiles(r) ==
  /\ req[r].pc = "down"
  /\ Exists("jar")
  /\ req' = [req EXCEPT ![r].pc = "removing",
                        ![r].todo = {e \in Entry \ {"control", "world"} : Exists(e)}]
  /\ UNCHANGED <<entries, sup, fifo, jvm, shown, servers, wiped, stray>>

ListEntries(r) ==
  /\ req[r].pc = "down"
  /\ IF Exists("jar")
     THEN req' = [req EXCEPT ![r].pc = "removing", ![r].todo = {e \in Entry : Exists(e)}]
     ELSE req' = [req EXCEPT ![r] = Idle]
  /\ UNCHANGED <<entries, sup, fifo, jvm, shown, servers, wiped, stray>>

First(todo) == Listing[CHOOSE i \in DOMAIN Listing :
                         /\ Listing[i] \in todo
                         /\ \A j \in 1 .. i - 1 : Listing[j] \notin todo]

\* os.RemoveAll of e by request r, which goes on if it has worked
Removed(r, e, R) ==
  /\ wiped' = (wiped \/ e = "control")
  /\ shown' = (shown /\ e # "control")   \* the status file is in there
  /\ req' = [Disturbed(e, entries'[e].state = "none") EXCEPT ![r] = R]
  /\ UNCHANGED <<sup, fifo, jvm, servers>>

RemoveNext(r) ==
  /\ req[r].pc = "removing"
  /\ req[r].todo # {}
  /\ LET e == First(req[r].todo)
     IN  /\ entries' = [entries EXCEPT ![e] = None]
         /\ Removed(r, e, [req[r] EXCEPT !.todo = @ \ {e}])
  /\ UNCHANGED stray

\* RemoveAll gives up half-way, and so does DeleteServer.
RemoveFails(r) ==
  /\ req[r].pc = "removing"
  /\ req[r].todo # {}
  /\ LET e == First(req[r].todo)
     IN  /\ \/ UNCHANGED entries
            \/ /\ Exists(e) /\ e \in {"control", "world"}
               /\ entries' = [entries EXCEPT ![e].state = "part"]
         /\ Removed(r, e, Idle)
  /\ stray' = TRUE

DeleteEnds(r) ==
  /\ req[r].pc = "removing"
  /\ req[r].todo = {}
  /\ req' = [req EXCEPT ![r] = Idle]
  /\ UNCHANGED <<entries, sup, fifo, jvm, shown, servers, wiped, stray>>

-----------------------------------------------------------------------------
(* The file manager *)

\* filepath.Clean("/" + p): at the root ".." leads nowhere.
Clean(p) == FoldLeft(LAMBDA q, c : IF c # ".." THEN Append(q, c)
                                   ELSE IF q = <<>> THEN q ELSE Front(q), <<>>, p)

\* Mutant of Reserved: it looks at the path as it was sent.
ReservedAsSent(p) == p # <<>> /\ Head(p) = "control"

\* The control directory and all below it; a name that only begins like it is not.
Reserved(p) == Clean(p) # <<>> /\ Head(Clean(p)) = "control"

\* What the path names, if safePath lets it pass
Target(p) == {e \in Entry : ~Reserved(p) /\ Clean(p) = <<e>> /\ Exists(e)}

Touch(e, content, R) ==
  /\ entries' = [entries EXCEPT ![e] = content]
  /\ req' = R
  /\ stray' = (stray \/ e \in {"jar", "world"})
  /\ shown' = (shown /\ e # "control")
  /\ UNCHANGED <<sup, fifo, jvm, servers, wiped>>

\* DeleteFileHandler: never the root, for no entry is named by an empty path
RemoveFile(p) == \E e \in Target(p) : Touch(e, None, Disturbed(e, TRUE))

\* WriteFileHandler: any content, into a file that exists
RewriteFile(p) == \E e \in Target(p) \ {"control", "world"} :
                    Touch(e, Made(0, "part"), Rewritten(e))

\* UploadFileHandler for any other file: all of it, or a part. (A name that is a
\* directory, as the control directory's, cannot be opened.)
UploadEula ==
  \E state \in {"part", "whole"} : Touch("eula", Made(0, state), Rewritten("eula"))

-----------------------------------------------------------------------------
(* The supervisor and the JVM *)

\* StartServerHandler and writeFifo: without the FIFO, or a reader, an error.
SendStart ==
  /\ Exists("jar") /\ ~shown
  /\ sup /\ entries["control"].state = "whole"
  /\ fifo' = TRUE
  /\ UNCHANGED <<entries, sup, jvm, shown, servers, req, wiped, stray>>

\* A jar that is not whole, or no EULA, and the JVM is gone again at once.
ReadStart ==
  /\ sup /\ fifo
  /\ fifo' = FALSE
  /\ jvm' = IF jvm = 0 /\ \A e \in {"jar", "eula"} : entries[e].state = "whole"
            THEN entries["jar"].id ELSE jvm
  /\ stray' = (stray \/ (jvm' # jvm /\ Deleting # {}))
  /\ UNCHANGED <<entries, sup, shown, servers, req, wiped>>

SaveWorld ==
  /\ jvm # 0
  /\ entries["world"].state # "whole"
  /\ entries' = [entries EXCEPT !["world"] =
                   Made(IF Exists("world") THEN @.id ELSE jvm, "whole")]
  /\ UNCHANGED <<sup, fifo, jvm, shown, servers, req, wiped, stray>>

JvmEnds ==
  /\ jvm # 0
  /\ jvm' = 0
  /\ UNCHANGED <<entries, sup, fifo, shown, servers, req, wiped, stray>>

\* A heartbeat needs the directory it is written to; one that stops is stale.
Publish ==
  /\ shown # (jvm # 0)
  /\ shown \/ (sup /\ Exists("control"))
  /\ shown' = ~shown
  /\ UNCHANGED <<entries, sup, fifo, jvm, servers, req, wiped, stray>>

ContainerStops ==
  /\ sup
  /\ sup' = FALSE /\ fifo' = FALSE /\ jvm' = 0
  /\ UNCHANGED <<entries, shown, servers, req, wiped, stray>>

\* Boot makes the directory and the FIFOs; what it finds on disk may ask for a
\* start.
ContainerStarts ==
  /\ ~sup
  /\ sup' = TRUE
  /\ fifo' \in {FALSE, Exists("control")}
  /\ entries' = [entries EXCEPT !["control"] = Made(0, "whole")]
  /\ shown' = FALSE
  /\ wiped' = FALSE
  /\ UNCHANGED <<jvm, servers, req, stray>>

\* The API's process dies.
ApiCrash ==
  /\ Busy(Label \ {"idle"}) # {}
  /\ req' = [r \in Request |-> Idle]
  /\ stray' = (stray \/ Busy({"removing"}) # {})
  /\ UNCHANGED <<entries, sup, fifo, jvm, shown, servers, wiped>>

Next ==
  \/ \E r \in Request : \/ CheckAbsent(r) \/ FetchFails(r) \/ OpenJar(r) \/ UploadJar(r)
                        \/ CopyEnds(r) \/ CopyBreaks(r) \/ CopyErrorPage(r)
                        \/ WriteEula(r) \/ PrepareFails(r) \/ SaveMeta(r)
                        \/ LookStopped(r) \/ ListEntries(r) \/ RemoveNext(r)
                        \/ RemoveFails(r) \/ DeleteEnds(r)
  \/ \E p \in Path : RemoveFile(p) \/ RewriteFile(p)
  \/ UploadEula
  \/ SendStart \/ ReadStart \/ SaveWorld \/ JvmEnds \/ Publish
  \/ ContainerStops \/ ContainerStarts \/ ApiCrash

Spec == Init /\ [][Next]_vars

-----------------------------------------------------------------------------
\* A creation that is about to report success has left a whole jar of its own
\* version and the accepted EULA, unless another request (a second creation
\* that saw no jar either, an upload, a deletion, the file manager) changed
\* them meanwhile, or the download was answered with an error page.
CreatedIsWhole ==
  \A r \in Request : (req[r].pc = "noting" /\ ~req[r].crossed)
     => entries["jar"] = Made(req[r].id, "whole") /\ entries["eula"].state = "whole"

\* A server never runs on the world of one that was deleted before it, unless
\* the deletion failed or was cut short (world comes last, when the jar is gone
\* and the deletion cannot be repeated), a JVM ran during it, or the jar
\* was replaced without a deletion.
FreshWorld ==
  (jvm # 0 /\ Exists("world")) => (entries["world"].id = jvm \/ stray)

\* A running supervisor has its control directory, so that START reaches it,
\* whatever the file manager is asked for: only DELETE /api/server takes it
\* away, and then for as long as the container lives.
ControlStays == (sup /\ ~wiped) => entries["control"].state = "whole"
=============================================================================
