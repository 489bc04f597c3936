------------------------------- MODULE Players -------------------------------
(***************************************************************************)
(* DeletePlayer: a player is taken off the ops list and the whitelist, by  *)
(* console commands if the Minecraft server runs and in the files if it    *)
(* does not, and out of usercache.json unless they have ever joined.  The  *)
(* handler takes no lock; the server comes, goes and writes meanwhile.     *)
(*                                                                         *)
(* usercache.json is the file of WriteFileAtomic, a value being the set of *)
(* the players it names; for ops.json and whitelist.json a call of         *)
(* WriteFileAtomic is one step.  Kicking changes nothing here.  The world  *)
(* has another name than "world": it is known from server.properties only. *)
(***************************************************************************)
EXTENDS WriteFileAtomic, Properties, Naturals, Sequences

CONSTANTS Player, None,
          Listed,        \* whom ops.json and whitelist.json name at first
          MaxDeletions,  \* bound: calls of DeletePlayer
          MaxEvents      \* bound: what the server, an update of the properties and
                         \* a crash begin in between

ASSUME UserCacheAssumption == Value = SUBSET Player

File == {"ops", "whitelist"}

ASSUME PlayersAssumption ==
  /\ Listed \in [File -> SUBSET Player]
  /\ MaxDeletions \in Nat /\ MaxEvents \in Nat

VARIABLES
  up,       \* the Minecraft server runs
  disk,     \* whom ops.json and whitelist.json name
  mem,      \* whom the running server has on these lists
  console,  \* the console FIFO: removals, each <<list, player>>
  joined,   \* players with a file in playerdata
  job,      \* what each request is doing
  begun,    \* number of deletions so far
  events,   \* number of Launch, Exit, Join, SaveCache, ApiCrash and BeginUpdate
  gone,     \* history: players removed from both lists while nothing interfered
  crowded   \* history: a list was edited in its file while others were deleting
            \* players or commands were on their way

playerVars == <<up, disk, mem, console, joined, job, begun, events, gone, crowded>>
allVars == <<vars, propsVars, playerVars>>

Step == {"idle",
         "found",   \* next: LookAtStatus
         "live",    \* next: SendRemove for each list, then CheckJoined
         "files",   \* next: ReadList for each list, then CheckJoined
         "edit",    \* next: StoreList
         "prune",   \* next: RemoveFromCache
         "write"}   \* in WriteFileAtomic

\* cache, copy: usercache.json and the list as read. fair is history: nothing
\* has interfered with the removal from the lists. late is history: the player
\* has joined, usercache.json has changed or server.properties could not be
\* read, when it was too late to notice.
NoDeletion == [at |-> "idle", player |-> None, cache |-> {}, todo |-> <<>>,
               copy |-> {}, fair |-> TRUE, late |-> FALSE]

Deletion ==
  [at : Step, player : Player \cup {None}, cache : SUBSET Player, todo : Seq(File),
   copy : SUBSET Player, fair : BOOLEAN, late : BOOLEAN]

\* What a request is doing makes sense.
JobAt(d) ==
  /\ d \in Deletion
  /\ d.at # "idle" => d.player \in Player
  /\ d.at = "edit" => d.todo # <<>>

JobOK == job \in [Writer -> Deletion] /\ \A r \in Writer : JobAt(job[r])

OwnTypeOK ==
  /\ JobOK
  /\ up \in BOOLEAN
  /\ disk \in [File -> SUBSET Player] /\ mem \in [File -> SUBSET Player]
  /\ console \in Seq(File \X Player)
  /\ joined \subseteq Player /\ gone \subseteq Player
  /\ begun \in 0 .. MaxDeletions /\ events \in 0 .. MaxEvents
  /\ crowded \in BOOLEAN

PlayersTypeOK == TypeOK /\ PropsTypeOK /\ OwnTypeOK

\* SaveCache leads from here to every other usercache.json.
PlayersInit ==
  /\ Init /\ PropsInit
  /\ file = Player
  /\ up \in BOOLEAN
  /\ disk = Listed
  /\ mem = [l \in File |-> IF up THEN Listed[l] ELSE {}]
  /\ console = <<>>
  /\ joined \in SUBSET Player
  /\ job = [r \in Writer |-> NoDeletion]
  /\ begun = 0 /\ events = 0
  /\ gone = {} /\ crowded = FALSE

At(r, at) == job[r].at = at
Set(r, field, x) == [job EXCEPT ![r][field] = x]
EndDeletion(r) == job' = [job EXCEPT ![r] = NoDeletion]

-----------------------------------------------------------------------------
(* The Minecraft server and its console *)

\* Whatever is under way is no longer done the way it should be.
Unsettle ==
  job' = [r \in Writer |-> IF job[r].at \in {"live", "files", "edit"}
                           THEN [job[r] EXCEPT !.fair = FALSE] ELSE job[r]]

Launch ==
  /\ ~up /\ up' = TRUE
  /\ mem' = disk
  /\ Unsettle
  /\ UNCHANGED <<vars, propsVars, disk, console, joined, gone, begun>>

Exit ==
  /\ up /\ up' = FALSE
  /\ Unsettle
  /\ mem' = [l \in File |-> {}]
  /\ gone' = gone \ {console[i][2] : i \in DOMAIN console}
  /\ UNCHANGED <<vars, propsVars, disk, console, joined, begun>>

\* A server that runs writes the list it changes; forwardConsole drops the
\* command if there is none.
Obey ==
  /\ console # <<>>
  /\ console' = Tail(console)
  /\ LET l == Head(console)[1]  p == Head(console)[2]
     IN IF up /\ p \in mem[l]
        THEN /\ mem' = [mem EXCEPT ![l] = @ \ {p}]
             /\ disk' = [disk EXCEPT ![l] = mem'[l]]
        ELSE UNCHANGED <<mem, disk>>
  /\ UNCHANGED <<vars, propsVars, up, joined, job, gone, begun>>

Late(R) == [r \in Writer |-> IF r \in R /\ ~At(r, "idle")
                             THEN [job[r] EXCEPT !.late = TRUE] ELSE job[r]]

Join(p) ==
  /\ up /\ p \notin joined
  /\ joined' = joined \cup {p}
  /\ job' = Late({r \in Writer : job[r].player = p /\ job[r].at \in {"prune", "write"}})
  /\ UNCHANGED <<vars, propsVars, up, disk, mem, console, gone, begun>>

\* The server writes usercache.json from its memory.
SaveCache(v) ==
  /\ up
  /\ v # file
  /\ OtherWrite(v)
  /\ job' = Late(Writer)
  /\ UNCHANGED <<propsVars, up, disk, mem, console, joined, gone, begun>>

-----------------------------------------------------------------------------
(* DeletePlayer *)

Find(r, p) ==
  /\ At(r, "idle")
  /\ file \in Value /\ p \in file
  /\ begun < MaxDeletions /\ begun' = begun + 1
  /\ job' = [job EXCEPT ![r] = [NoDeletion EXCEPT !.at = "found", !.player = p,
                                                  !.cache = file]]
  /\ UNCHANGED <<vars, propsVars, up, disk, mem, console, joined, gone>>

\* Mutant of LookAtStatus: the lists are always edited in their files.
LookAtNothing(r, running) ==
  /\ At(r, "found")
  /\ job' = [job EXCEPT ![r].at = "files", ![r].todo = <<"ops", "whitelist">>,
                        ![r].fair = (running = up)]
  /\ UNCHANGED <<vars, propsVars, up, disk, mem, console, joined, gone, begun>>

\* IsServerRunning: the status file may be out of date.
LookAtStatus(r, running) ==
  /\ At(r, "found")
  /\ job' = [job EXCEPT ![r].at = IF running THEN "live" ELSE "files",
                        ![r].todo = <<"ops", "whitelist">>,
                        ![r].fair = (running = up)]
  /\ UNCHANGED <<vars, propsVars, up, disk, mem, console, joined, gone, begun>>

NextList(r) == Head(job[r].todo)
Skip(r) == [job EXCEPT ![r].todo = Tail(@)]

\* "deop" and "whitelist remove"
SendRemove(r) ==
  /\ At(r, "live") /\ job[r].todo # <<>>
  /\ console' = Append(console, <<NextList(r), job[r].player>>)
  /\ job' = Skip(r)
  /\ UNCHANGED <<vars, propsVars, up, disk, mem, joined, gone, begun>>

\* SendCommand looks at the status again; a failure is logged only.
SendRemoveFails(r) ==
  /\ At(r, "live") /\ job[r].todo # <<>>
  /\ job' = [Skip(r) EXCEPT ![r].fair = FALSE]
  /\ UNCHANGED <<vars, propsVars, up, disk, mem, console, joined, gone, begun>>

\* removeFromOps, removeFromWhitelist: nothing is written if there is nothing
\* to remove.
ReadList(r) ==
  /\ At(r, "files") /\ job[r].todo # <<>>
  /\ job' = IF job[r].player \in disk[NextList(r)]
            THEN [job EXCEPT ![r].at = "edit", ![r].copy = disk[NextList(r)]]
            ELSE Skip(r)
  /\ UNCHANGED <<vars, propsVars, up, disk, mem, console, joined, gone, begun>>

StoreList(r) ==
  /\ At(r, "edit")
  /\ disk' = [disk EXCEPT ![NextList(r)] = job[r].copy \ {job[r].player}]
  /\ job' = [Skip(r) EXCEPT ![r].at = "files", ![r].copy = {}]
  /\ UNCHANGED <<vars, propsVars, up, mem, console, joined, gone, begun>>

\* A file that cannot be read, or opened for writing, ends the call.
FileFails(r) ==
  /\ job[r].at \in {"files", "edit", "prune"}
  /\ EndDeletion(r)
  /\ UNCHANGED <<vars, propsVars, up, disk, mem, console, joined, gone, begun>>

\* hasPlayerLoggedIn: without a level-name it looks into the wrong world.
LoggedIn(p) == "level-name" \in props /\ p \in joined

\* Mutant of CheckJoined: the player counts as one who never joined.
CheckNobody(r) ==
  /\ At(r, "live") \/ At(r, "files")
  /\ job[r].todo = <<>>
  /\ gone' = IF job[r].fair THEN gone \cup {job[r].player} ELSE gone
  /\ job' = [job EXCEPT ![r].at = "prune", ![r].fair = TRUE]
  /\ UNCHANGED <<vars, propsVars, up, disk, mem, console, joined, begun>>

CheckJoined(r) ==
  /\ At(r, "live") \/ At(r, "files")
  /\ job[r].todo = <<>>
  /\ gone' = IF job[r].fair THEN gone \cup {job[r].player} ELSE gone
  /\ IF LoggedIn(job[r].player)
     THEN EndDeletion(r)
     ELSE job' = [job EXCEPT ![r].at = "prune", ![r].fair = TRUE,
                             ![r].late = @ \/ "level-name" \notin props]
  /\ UNCHANGED <<vars, propsVars, up, disk, mem, console, joined, begun>>

RemoveFromCache(r) ==
  /\ At(r, "prune")
  /\ BeginWrite(r, job[r].cache \ {job[r].player})
  /\ job' = Set(r, "at", "write")
  /\ UNCHANGED <<propsVars, up, disk, mem, console, joined, gone, begun>>

\* The rest of WriteFileAtomic
Fills(r) ==
  /\ FillTmp(r)
  /\ UNCHANGED <<propsVars, up, disk, mem, console, joined, job, gone, begun>>

CannotFill(r) ==
  /\ FillTmpFails(r)
  /\ EndDeletion(r)
  /\ UNCHANGED <<propsVars, up, disk, mem, console, joined, gone, begun>>

Publishes(r) ==
  /\ Publish(r)
  /\ job' = [Late(Writer) EXCEPT ![r] = NoDeletion]
  /\ UNCHANGED <<propsVars, up, disk, mem, console, joined, gone, begun>>

CannotPublish(r) ==
  /\ PublishFails(r)
  /\ UNCHANGED <<propsVars, up, disk, mem, console, joined, job, gone, begun>>

CleansUp(r) ==
  /\ CleanUp(r)
  /\ EndDeletion(r)
  /\ UNCHANGED <<propsVars, up, disk, mem, console, joined, gone, begun>>

UpdateBegins ==
  /\ \E u \in Updater, keys \in SUBSET Key : BeginUpdate(u, keys)
  /\ UNCHANGED <<vars, up, disk, mem, console, joined, job, gone, begun>>

UpdateGoesOn ==
  /\ \E u \in Updater : Truncate(u) \/ TruncateFails(u) \/ Fill(u) \/ FillFails(u)
  /\ UNCHANGED <<vars, up, disk, mem, console, joined, job, gone, begun>>

\* The API process dies; what is in the FIFO stays.
ApiCrash ==
  /\ Crash /\ PropsCrash
  /\ job' = [r \in Writer |-> NoDeletion]
  /\ UNCHANGED <<up, disk, mem, console, joined, gone, begun>>

DeleteStep(r) ==
  \/ \E p \in Player : Find(r, p)
  \/ \E running \in BOOLEAN : LookAtStatus(r, running)
  \/ SendRemove(r) \/ SendRemoveFails(r)
  \/ ReadList(r) \/ StoreList(r) \/ FileFails(r)
  \/ CheckJoined(r) \/ RemoveFromCache(r)
  \/ Fills(r) \/ CannotFill(r) \/ Publishes(r) \/ CannotPublish(r) \/ CleansUp(r)

\* Somebody edits a list by hand while it may be changing.
Crowd ==
  \E r \in Writer : /\ At(r, "edit")
                    /\ console # <<>> \/ \E q \in Writer \ {r} : ~At(q, "idle")

ServerStep ==
  \/ Launch \/ Exit
  \/ \E p \in Player : Join(p)
  \/ \E v \in Value : SaveCache(v)

\* An event is counted; an update of the properties when it begins.
PlayersNext ==
  /\ \/ /\ \/ \E r \in Writer : DeleteStep(r)
           \/ Obey
           \/ UpdateGoesOn
        /\ UNCHANGED events
     \/ /\ events < MaxEvents /\ events' = events + 1
        /\ ServerStep \/ UpdateBegins \/ ApiCrash
  /\ crowded' = (crowded \/ Crowd')

PlayersSpec == PlayersInit /\ [][PlayersNext]_allVars

-----------------------------------------------------------------------------
\* A player whose deletion got past the lists is on neither of them, once the
\* commands are carried out: neither in the files nor in the memory of the
\* server, whatever deletions of others, crashes and restarts follow. It holds
\* if the server neither started nor stopped between the look at the status
\* and the end, and no list was edited while something else was changing it.
RemovedIsGone ==
  ~crowded => \A p \in gone, l \in File :
    (\A i \in DOMAIN console : console[i] # <<l, p>>) => p \notin disk[l] \cup mem[l]

\* The comment over DeletePlayer: the entry is "only removed if the player has
\* never actually joined". A deletion takes one entry out of usercache.json, of
\* a player who has not joined, and brings none back; unless since its look the
\* player has joined or the file has changed, or it could not read level-name.
CacheLosesOne ==
  [][\A r \in Writer :
       Publishes(r) /\ ~mixed /\ ~job[r].late =>
         /\ file' = file \ {job[r].player}
         /\ job[r].player \notin joined]_allVars
=============================================================================
