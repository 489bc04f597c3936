----------------------------- MODULE PlayerList -----------------------------
(***************************************************************************)
(* services/minecraft.go, GetOnlinePlayers: who is online is learnt by     *)
(* sending "list" to the server's console and reading the reply from the   *)
(* log, behind a cache of ten seconds.                                     *)
(*                                                                         *)
(* A list is the roster it was made of: the players, and how many times    *)
(* the roster had changed by then. Time is left to chance: the cache may   *)
(* expire, and a request that waits may give up, at any moment; a status   *)
(* file that is out of date may let a command through or refuse it.        *)
(***************************************************************************)
EXTENDS Naturals, Sequences

CONSTANTS Request, McName, None,
          MaxChanges,   \* bound: changes of the roster
          MaxAsked      \* bound: "list" commands sent

VARIABLES
  up,       \* the Minecraft server runs
  roster,   \* who is online
  console,  \* commands in the console FIFO: <<"list">>, or McLink's <<"tell", ...>>
  unread,   \* replies in the log that the tailer has not broadcast yet
  ring,     \* the latest reply in the hub's replay buffer, or None
  cache,    \* onlinePlayersCache, None when expired
  req,      \* what each request goroutine is doing
  asked,    \* number of "list" commands sent so far
  newest,   \* history: of the lists returned, the latest roster
  crossed   \* history: two fetches have been in progress at once

server == <<up, roster>>
wires == <<console, unread, ring>>
history == <<newest, crossed>>
allButReq == <<server, wires, cache, asked, history>>
listVars == <<allButReq, req>>

List == [changes : 0 .. MaxChanges, who : SUBSET McName]

Label == {"idle",
          "subscribed",  \* fetchOnlinePlayers, next: SendList
          "waiting",     \* fetchOnlinePlayers, next: TakeReply, GiveUp
          "fetched",     \* GetOnlinePlayers, next: Store
          "answered",    \* GetOnlinePlayers has returned list
          "issued",      \* StartMcLinkHandler, next: McLink's SendCode
          "matched",     \* VerifyMcLinkHandler, next: McLink's SaveLink
          "saved"}       \* VerifyMcLinkHandler, next: McLink's DropCode

\* floor is history: the oldest roster that the fetch may return, see Subscribe.
Idle == [pc |-> "idle", queue |-> <<>>, list |-> None, floor |-> 0]

Nobody == [changes |-> 0, who |-> {}]

ListInit ==
  /\ up = FALSE
  /\ roster = Nobody
  /\ console = <<>> /\ unread = <<>> /\ ring = None
  /\ cache = None
  /\ req = [r \in Request |-> Idle]
  /\ asked = 0
  /\ newest = 0 /\ crossed = FALSE

Goto(r, pc) == req' = [req EXCEPT ![r].pc = pc]
Done(r) == req' = [req EXCEPT ![r] = Idle]

-----------------------------------------------------------------------------
(* The Minecraft server, its console and its log *)

Becomes(who) ==
  /\ roster.changes < MaxChanges
  /\ roster' = [changes |-> roster.changes + 1, who |-> who]

Launch ==
  /\ ~up /\ up' = TRUE
  /\ UNCHANGED <<roster, wires, cache, req, asked, history>>

Exit ==
  /\ up /\ up' = FALSE
  /\ IF roster.who = {} THEN UNCHANGED roster ELSE Becomes({})
  /\ UNCHANGED <<wires, cache, req, asked, history>>

Join(n) ==
  /\ up /\ n \notin roster.who
  /\ Becomes(roster.who \cup {n})
  /\ UNCHANGED <<up, wires, cache, req, asked, history>>

Leave(n) ==
  /\ n \in roster.who
  /\ Becomes(roster.who \ {n})
  /\ UNCHANGED <<up, wires, cache, req, asked, history>>

\* forwardConsole drops a command when there is no server to take it.
ReadConsole == console # <<>> /\ console' = Tail(console)

Obey ==
  /\ ReadConsole
  /\ Head(console)[1] = "list"
  /\ unread' = IF up THEN Append(unread, roster) ELSE unread
  /\ UNCHANGED <<server, ring, cache, req, asked, history>>

Subscribed(r) == req[r].pc \in {"subscribed", "waiting"}

\* Broadcast: to the replay buffer and to every subscriber's channel
TailLine ==
  /\ unread # <<>>
  /\ unread' = Tail(unread)
  /\ ring' = Head(unread)
  /\ req' = [r \in Request |-> IF Subscribed(r)
                               THEN [req[r] EXCEPT !.queue = Append(@, Head(unread))]
                               ELSE req[r]]
  /\ UNCHANGED <<server, console, cache, asked, history>>

-----------------------------------------------------------------------------
(* GetOnlinePlayers and fetchOnlinePlayers *)

Expire ==
  /\ cache # None /\ cache' = None
  /\ UNCHANGED <<server, wires, req, asked, history>>

Later(m, n) == IF m > n THEN m ELSE n

GetCached(r) ==
  /\ req[r].pc = "idle"
  /\ cache # None
  /\ req' = [req EXCEPT ![r] = [Idle EXCEPT !.pc = "answered", !.list = cache]]
  /\ newest' = Later(newest, cache.changes)
  /\ UNCHANGED <<server, wires, cache, asked, crossed>>

Fetching == {r \in Request : req[r].pc \in {"subscribed", "waiting", "fetched"}}

Quiet == unread = <<>> /\ \A i \in DOMAIN console : console[i] # <<"list">>

Floor == IF Quiet THEN roster.changes ELSE newest

BeginFetch(r, queue) ==
  /\ req[r].pc = "idle"
  /\ cache = None
  /\ req' = [req EXCEPT ![r] = [Idle EXCEPT !.pc = "subscribed", !.queue = queue,
                                            !.floor = Floor]]
  /\ crossed' = (crossed \/ Fetching # {})
  /\ UNCHANGED <<server, wires, cache, asked, newest>>

\* Mutant of Subscribe: the replay is not drained.
SubscribeOnly(r) == BeginFetch(r, IF ring = None THEN <<>> ELSE <<ring>>)

\* Subscribe, and drain the replay. Lines broadcast from now on stay.
Subscribe(r) == BeginFetch(r, <<>>)

SendList(r) ==
  /\ req[r].pc = "subscribed"
  /\ asked < MaxAsked
  /\ asked' = asked + 1
  /\ console' = Append(console, <<"list">>)
  /\ Goto(r, "waiting")
  /\ UNCHANGED <<server, unread, ring, cache, history>>

\* The status says that the server is down, or the FIFO cannot be opened.
SendListFails(r) ==
  /\ req[r].pc = "subscribed"
  /\ Done(r)
  /\ UNCHANGED allButReq

\* The first reply will do, whoever has asked for it.
TakeReply(r) ==
  /\ req[r].pc = "waiting"
  /\ req[r].queue # <<>>
  /\ req' = [req EXCEPT ![r].pc = "fetched", ![r].queue = <<>>,
                        ![r].list = Head(req[r].queue)]
  /\ UNCHANGED allButReq

GiveUp(r) ==
  /\ req[r].pc = "waiting"
  /\ req[r].queue = <<>>
  /\ Done(r)
  /\ UNCHANGED allButReq

Store(r) ==
  /\ req[r].pc = "fetched"
  /\ cache' = req[r].list
  /\ newest' = Later(newest, req[r].list.changes)
  /\ Goto(r, "answered")
  /\ UNCHANGED <<server, wires, asked, crossed>>

\* ListPlayers takes the list and returns.
UseList(r) ==
  /\ req[r].pc = "answered"
  /\ Done(r)
  /\ UNCHANGED allButReq

ListNext ==
  \/ Launch \/ Exit \/ Obey \/ TailLine \/ Expire
  \/ \E n \in McName : Join(n) \/ Leave(n)
  \/ \E r \in Request : \/ GetCached(r)
                        \/ Subscribe(r) \/ SendList(r) \/ SendListFails(r)
                        \/ TakeReply(r) \/ GiveUp(r) \/ Store(r)
                        \/ UseList(r)

-----------------------------------------------------------------------------
\* The list never goes back in time. A fetch that begins with no reply under way
\* returns a roster of after its beginning; any other, which may take the reply
\* to a fetch that gave up, returns none older than what anybody had been told
\* by then. What the cache returns is no older than what anybody has been told,
\* provided no two fetches crossed: the slower one may leave the older list
\* behind.
ListNeverGoesBack ==
  [][\A r \in Request :
       /\ Store(r) => req[r].list.changes >= req[r].floor
       /\ GetCached(r) /\ ~crossed => cache.changes >= newest]_listVars
=============================================================================
