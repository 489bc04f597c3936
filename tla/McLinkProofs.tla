---------------------------- MODULE McLinkProofs ----------------------------
(***************************************************************************)
(* Theorems about McLink: a link is always one whose code was shown to the *)
(* player it names; a code makes one link at most unless two requests      *)
(* verify it at once; and the list of the players online, by which names   *)
(* are checked, never goes back in time; for any number of users, requests *)
(* and codes.                                                              *)
(***************************************************************************)
EXTENDS McLink, SequenceTheorems, TLAPS

USE NoneAssumption, BoundAssumption

-----------------------------------------------------------------------------
(* Types *)

Fetch == [pc : Label, queue : Seq(List), list : List \cup {None}, floor : 0 .. MaxChanges]

\* A request that has a list has one that was read from the log.
ListKnown == \A r \in Request : req[r].pc \in {"fetched", "answered"} => req[r].list \in List

LEMMA ListRecord ==
  ASSUME NEW l \in List
  PROVE  l.changes \in 0 .. MaxChanges /\ l.who \subseteq McName
  BY DEF List

LEMMA BecomesTyped ==
  ASSUME roster \in List, NEW who, who \subseteq McName, Becomes(who)
  PROVE  roster' \in List
  BY DEF Becomes, List

LEMMA IdleTyped == Idle \in Fetch /\ Idle.pc = "idle"
  BY DEF Idle, Fetch, Label

\* The requests stay well typed when one of them goes on in a way that makes
\* sense.
ReqOK == req \in [Request -> Fetch] /\ ListKnown

LEMMA ReqSet ==
  ASSUME ReqOK, NEW r \in Request, NEW f \in Fetch,
         f.pc \in {"fetched", "answered"} => f.list \in List,
         req' = [req EXCEPT ![r] = f]
  PROVE  ReqOK'
  BY DEF ReqOK, ListKnown

LEMMA ReqDone ==
  ASSUME ReqOK, NEW r \in Request, Done(r)
  PROVE  ReqOK'
  BY IdleTyped, ReqSet DEF Done

LEMMA ReqGoto ==
  ASSUME ReqOK, NEW r \in Request, NEW pc \in Label, Goto(r, pc),
         pc \in {"fetched", "answered"} => req[r].list \in List
  PROVE  ReqOK'
<1> DEFINE f == [req[r] EXCEPT !.pc = pc]
<1>1. f \in Fetch /\ f.pc = pc /\ f.list = req[r].list BY DEF ReqOK, Fetch
<1>2. req' = [req EXCEPT ![r] = f] BY DEF Goto
<1> HIDE DEF f
<1> QED BY <1>1, <1>2, ReqSet

\* What ListNext leaves alone, and what is still to be shown of it
ListTypeOK ==
  /\ up \in BOOLEAN /\ roster \in List
  /\ console \in Seq(Command)
  /\ unread \in Seq(List) /\ ring \in List \cup {None}
  /\ cache \in List \cup {None}
  /\ ReqOK
  /\ asked \in 0 .. MaxAsked
  /\ newest \in 0 .. MaxChanges /\ crossed \in BOOLEAN

LEMMA ServerTyped ==
  ASSUME ListTypeOK,
         \/ Launch \/ Exit \/ Obey \/ TailLine \/ Expire
         \/ \E n \in McName : Join(n) \/ Leave(n)
  PROVE  ListTypeOK'
<1> USE DEF ListTypeOK, server, wires, history
<1>1. CASE Launch BY <1>1 DEF Launch, ReqOK, ListKnown
<1>2. CASE Exit
  <2>1. roster' \in List BY <1>2, BecomesTyped DEF Exit
  <2> QED BY <1>2, <2>1 DEF Exit, ReqOK, ListKnown
<1>3. CASE Obey
  <2>1. console' \in Seq(Command) BY <1>3 DEF Obey, ReadConsole
  <2>2. unread' \in Seq(List) BY <1>3 DEF Obey
  <2> QED BY <1>3, <2>1, <2>2 DEF Obey, ReqOK, ListKnown
<1>4. CASE TailLine
  <2>1. Head(unread) \in List /\ Tail(unread) \in Seq(List) BY <1>4 DEF TailLine
  <2>2. ASSUME NEW r \in Request
        PROVE  /\ req'[r] \in Fetch
               /\ req'[r].pc = req[r].pc /\ req'[r].list = req[r].list
    <3>1. req[r] \in Fetch BY DEF ReqOK
    <3>2. Append(req[r].queue, Head(unread)) \in Seq(List) BY <2>1, <3>1 DEF Fetch
    <3>3. [req[r] EXCEPT !.queue = Append(@, Head(unread))] \in Fetch
      BY <3>1, <3>2 DEF Fetch
    <3>4. req'[r] = IF Subscribed(r) THEN [req[r] EXCEPT !.queue = Append(@, Head(unread))]
                                     ELSE req[r]
      BY <1>4 DEF TailLine
    <3> QED BY <3>1, <3>3, <3>4 DEF Fetch
  <2>3. req' \in [Request -> Fetch] BY <1>4, <2>2 DEF TailLine
  <2>4. ReqOK' BY <2>2, <2>3 DEF ReqOK, ListKnown
  <2> QED BY <1>4, <2>1, <2>4 DEF TailLine
<1>5. CASE Expire BY <1>5 DEF Expire, ReqOK, ListKnown
<1>6. ASSUME NEW n \in McName, Join(n) \/ Leave(n) PROVE ListTypeOK'
  <2>1. roster.who \subseteq McName BY ListRecord
  <2>2. roster' \in List BY <1>6, <2>1, BecomesTyped DEF Join, Leave
  <2> QED BY <1>6, <2>2 DEF Join, Leave, ReqOK, ListKnown
<1> QED BY <1>1, <1>2, <1>3, <1>4, <1>5, <1>6

LEMMA LaterTyped ==
  ASSUME NEW m \in 0 .. MaxChanges, NEW n \in 0 .. MaxChanges
  PROVE  Later(m, n) \in 0 .. MaxChanges
  BY DEF Later

LEMMA FetchTyped ==
  ASSUME ListTypeOK, NEW r \in Request,
         \/ GetCached(r) \/ Subscribe(r) \/ SendList(r) \/ SendListFails(r)
         \/ TakeReply(r) \/ GiveUp(r) \/ Store(r) \/ UseList(r)
  PROVE  ListTypeOK'
<1> USE DEF ListTypeOK, server, wires, history, allButReq
<1>1. CASE GetCached(r)
  <2> DEFINE f == [Idle EXCEPT !.pc = "answered", !.list = cache]
  <2>1. cache \in List BY <1>1 DEF GetCached
  <2>2. f \in Fetch /\ f.list \in List BY <2>1, IdleTyped DEF Fetch, Idle, Label
  <2>3. ReqOK' BY <1>1, <2>2, ReqSet DEF GetCached
  <2>4. newest' \in 0 .. MaxChanges BY <1>1, <2>1, ListRecord, LaterTyped DEF GetCached
  <2> QED BY <1>1, <2>3, <2>4 DEF GetCached
<1>2. CASE Subscribe(r)
  <2> DEFINE f == [Idle EXCEPT !.pc = "subscribed", !.queue = <<>>, !.floor = Floor]
  <2>1. Floor \in 0 .. MaxChanges BY ListRecord DEF Floor
  <2>2. f \in Fetch /\ f.pc = "subscribed" BY <2>1, IdleTyped DEF Fetch, Idle, Label
  <2>3. req' = [req EXCEPT ![r] = f] BY <1>2 DEF Subscribe, BeginFetch
  <2> HIDE DEF f
  <2>4. ReqOK' BY <2>2, <2>3, ReqSet
  <2> QED BY <1>2, <2>4 DEF Subscribe, BeginFetch
<1>3. CASE SendList(r)
  <2>1. ReqOK' BY <1>3, ReqGoto DEF SendList, Label
  <2>2. console' \in Seq(Command) BY <1>3 DEF SendList, Command
  <2> QED BY <1>3, <2>1, <2>2 DEF SendList
<1>4. CASE SendListFails(r) \/ GiveUp(r) \/ UseList(r)
  BY <1>4, ReqDone DEF SendListFails, GiveUp, UseList
<1>5. CASE TakeReply(r)
  <2> DEFINE f == [req[r] EXCEPT !.pc = "fetched", !.queue = <<>>, !.list = Head(req[r].queue)]
  <2>1. req[r] \in Fetch BY DEF ReqOK
  <2>2. Head(req[r].queue) \in List BY <1>5, <2>1 DEF TakeReply, Fetch
  <2>3. /\ req' \in [Request -> Fetch]
        /\ req'[r] = f /\ \A q \in Request \ {r} : req'[q] = req[q]
    <3>1. <<>> \in Seq(List) /\ "fetched" \in Label BY DEF Label
    <3>2. f \in Fetch BY <2>1, <2>2, <3>1 DEF Fetch
    <3>3. req' = [req EXCEPT ![r] = f] BY <1>5 DEF TakeReply
    <3> QED BY <3>2, <3>3 DEF ReqOK
  <2>4. f.list \in List BY <2>1, <2>2 DEF Fetch
  <2> HIDE DEF f
  <2>5. ReqOK' BY <2>3, <2>4 DEF ReqOK, ListKnown
  <2> QED BY <1>5, <2>5 DEF TakeReply
<1>6. CASE Store(r)
  <2>1. req[r].list \in List BY <1>6 DEF Store, ReqOK, ListKnown
  <2>2. ReqOK' BY <1>6, <2>1, ReqGoto DEF Store, Label
  <2>3. newest' \in 0 .. MaxChanges BY <1>6, <2>1, ListRecord, LaterTyped DEF Store
  <2> QED BY <1>6, <2>1, <2>2, <2>3 DEF Store
<1> QED BY <1>1, <1>2, <1>3, <1>4, <1>5, <1>6

LinkTypeOK ==
  /\ codes \in [User -> Row \cup {NoRow}]
  /\ links \in [User -> McName \cup {None}]
  /\ job \in [Request -> [user : User \cup {None}, name : McName \cup {None},
                          code : Code \cup {None}]]
  /\ shown \subseteq McName \X Code
  /\ issued \in [Code -> [user : User, name : McName] \cup {None}]
  /\ uses \in [Code -> 0 .. 2]
  /\ raced \subseteq Code

\* A request that holds a code knows whose it is.
JobKnown ==
  \A r \in Request : req[r].pc \in {"issued", "matched", "saved"} =>
    job[r].user \in User /\ job[r].name \in McName /\ job[r].code \in Code

LEMMA JobSet ==
  ASSUME LinkTypeOK, NEW r \in Request, NEW u \in User, NEW n \in McName, NEW c \in Code,
         job' = [job EXCEPT ![r] = [user |-> u, name |-> n, code |-> c]]
  PROVE  /\ job' \in [Request -> [user : User \cup {None}, name : McName \cup {None},
                                  code : Code \cup {None}]]
         /\ job'[r] = [user |-> u, name |-> n, code |-> c]
         /\ \A q \in Request \ {r} : job'[q] = job[q]
  BY DEF LinkTypeOK

LEMMA JobEnds ==
  ASSUME ReqOK, LinkTypeOK, NEW r \in Request, EndJob(r)
  PROVE  /\ ReqOK'
         /\ job' \in [Request -> [user : User \cup {None}, name : McName \cup {None},
                                  code : Code \cup {None}]]
         /\ req'[r].pc = "idle"
         /\ \A q \in Request \ {r} : req'[q] = req[q] /\ job'[q] = job[q]
<1>1. Done(r) BY DEF EndJob
<1>2. ReqOK' BY <1>1, ReqDone
<1>3. req'[r].pc = "idle" /\ \A q \in Request \ {r} : req'[q] = req[q]
  BY <1>1, IdleTyped DEF Done, ReqOK
<1>4. job' = [job EXCEPT ![r] = NoJob] BY DEF EndJob
<1>5. NoJob \in [user : User \cup {None}, name : McName \cup {None}, code : Code \cup {None}]
  BY DEF NoJob
<1> QED BY <1>2, <1>3, <1>4, <1>5 DEF LinkTypeOK

\* A request is at pc, the others are where they were.
LEMMA GotoOnly ==
  ASSUME ReqOK, NEW r \in Request, NEW pc \in Label, Goto(r, pc)
  PROVE  req'[r].pc = pc /\ \A q \in Request \ {r} : req'[q] = req[q]
<1>1. req[r] \in Fetch BY DEF ReqOK
<1>2. req' = [req EXCEPT ![r] = [req[r] EXCEPT !.pc = pc]] BY DEF Goto
<1>3. [req[r] EXCEPT !.pc = pc].pc = pc BY <1>1 DEF Fetch
<1> QED BY <1>2, <1>3 DEF ReqOK

TypeInv == ListTypeOK /\ LinkTypeOK /\ JobKnown

\* The requests of the player list are at none of the steps of a link.
KeepsStep(r) ==
  req[r].pc \in {"issued", "matched", "saved"} \/ req'[r].pc \in {"issued", "matched", "saved"} =>
    req'[r].pc = req[r].pc

LEMMA FetchKeepsJobs ==
  ASSUME TypeInv, ListNext \/ UNCHANGED req, UNCHANGED <<job>>
  PROVE  \A r \in Request : KeepsStep(r)
<1> USE DEF TypeInv, ListTypeOK, ReqOK, KeepsStep
<1>1. CASE UNCHANGED req BY <1>1
<1>2. CASE Launch \/ Exit \/ Obey \/ Expire \/ \E n \in McName : Join(n) \/ Leave(n)
  BY <1>2 DEF Launch, Exit, Obey, Expire, Join, Leave
<1>3. CASE TailLine
  <2>1. ASSUME NEW r \in Request PROVE req'[r].pc = req[r].pc
    <3>1. req[r] \in Fetch BY DEF ReqOK
    <3>2. req'[r] = IF Subscribed(r) THEN [req[r] EXCEPT !.queue = Append(@, Head(unread))]
                                     ELSE req[r]
      BY <1>3 DEF TailLine
    <3> QED BY <3>1, <3>2 DEF Fetch
  <2> QED BY <2>1
<1>4. ASSUME NEW q \in Request,
             \/ GetCached(q) \/ Subscribe(q) \/ SendList(q) \/ SendListFails(q)
             \/ TakeReply(q) \/ GiveUp(q) \/ Store(q) \/ UseList(q)
      PROVE  \A r \in Request : KeepsStep(r)
  <2>1. \A r \in Request \ {q} : req'[r] = req[r]
    BY <1>4 DEF GetCached, Subscribe, BeginFetch, SendList, SendListFails, TakeReply,
         GiveUp, Store, UseList, Goto, Done
  <2>2. req'[q].pc \notin {"issued", "matched", "saved"}
    <3>1. CASE GetCached(q) BY <3>1 DEF GetCached, Idle
    <3>2. CASE Subscribe(q) BY <3>2 DEF Subscribe, BeginFetch, Idle
    <3>3. CASE SendList(q) BY <3>3, GotoOnly DEF SendList, Label
    <3>4. CASE SendListFails(q) \/ GiveUp(q) \/ UseList(q)
      BY <3>4, IdleTyped DEF SendListFails, GiveUp, UseList, Done
    <3>5. CASE TakeReply(q)
      <4>1. req[q] \in Fetch OBVIOUS
      <4>2. req'[q] = [req[q] EXCEPT !.pc = "fetched", !.queue = <<>>,
                                     !.list = Head(req[q].queue)]
        BY <3>5 DEF TakeReply
      <4> QED BY <4>1, <4>2 DEF Fetch
    <3>6. CASE Store(q) BY <3>6, GotoOnly DEF Store, Label
    <3> QED BY <1>4, <3>1, <3>2, <3>3, <3>4, <3>5, <3>6
  <2>3. req[q].pc \notin {"issued", "matched", "saved"}
    BY <1>4 DEF GetCached, Subscribe, BeginFetch, SendList, SendListFails, TakeReply,
         GiveUp, Store, UseList
  <2> QED BY <2>1, <2>2, <2>3
<1> QED BY <1>1, <1>2, <1>3, <1>4 DEF ListNext

LEMMA TypeStep ==
  ASSUME TypeInv, [Next]_vars
  PROVE  TypeInv'
<1> USE DEF TypeInv
<1>1. CASE ListNext /\ UNCHANGED linkVars
  <2>1. ListTypeOK' BY <1>1, ServerTyped, FetchTyped DEF ListNext
  <2>2. LinkTypeOK' /\ JobKnown'
    BY <1>1, FetchKeepsJobs DEF linkVars, LinkTypeOK, JobKnown, KeepsStep
  <2> QED BY <2>1, <2>2
<1> USE DEF ListTypeOK, LinkTypeOK, server, wires, history, allButReq, listVars
<1>2. ASSUME NEW r \in Request, NEW u \in User, NEW n \in McName, NEW c \in Code,
             IssueCode(r, u, n, c)
      PROVE TypeInv'
  <2>1. ReqOK' BY <1>2, ReqGoto DEF IssueCode, Label
  <2>2. req'[r].pc = "issued" /\ \A q \in Request \ {r} : req'[q] = req[q]
    BY <1>2, GotoOnly DEF IssueCode, Label
  <2>3. /\ job' \in [Request -> [user : User \cup {None}, name : McName \cup {None},
                                 code : Code \cup {None}]]
        /\ job'[r] = [user |-> u, name |-> n, code |-> c]
        /\ \A q \in Request \ {r} : job'[q] = job[q]
    BY <1>2, JobSet DEF IssueCode
  <2>4. JobKnown' BY <2>2, <2>3, SMTT(30) DEF JobKnown
  <2> QED BY <1>2, <2>1, <2>3, <2>4 DEF IssueCode, Row
<1>3. ASSUME NEW r \in Request, SendCode(r) PROVE TypeInv'
  <2>1. job[r].name \in McName /\ job[r].code \in Code BY <1>3 DEF SendCode, JobKnown
  <2>2. console' \in Seq(Command) BY <1>3, <2>1 DEF SendCode, Command
  <2>3. JobKnown' BY <1>3, JobEnds DEF SendCode, JobKnown
  <2> QED BY <1>3, <2>2, <2>3, JobEnds DEF SendCode
<1>4. ASSUME NEW r \in Request, SendCodeFails(r) \/ SaveLinkFails(r) PROVE TypeInv'
  <2>1. EndJob(r) BY <1>4 DEF SendCodeFails, SaveLinkFails
  <2>2. JobKnown' BY <2>1, JobEnds DEF JobKnown
  <2> QED BY <1>4, <2>1, <2>2, JobEnds DEF SendCodeFails, SaveLinkFails
<1>5. CASE Tell
  <2>1. Head(console) \in Command /\ console' \in Seq(Command)
    BY <1>5 DEF Tell, ReadConsole
  <2>2. Head(console) \in {"tell"} \X McName \X Code BY <1>5, <2>1 DEF Tell, Command
  <2>3. shown' \subseteq McName \X Code BY <1>5, <2>2 DEF Tell
  <2> QED BY <1>5, <2>1, <2>3 DEF Tell, ReqOK, ListKnown, JobKnown
<1>6. ASSUME NEW r \in Request, NEW u \in User, NEW c \in Code, BeginVerify(r, u, c)
      PROVE TypeInv'
  <2>1. ReqOK' BY <1>6, ReqGoto DEF BeginVerify, Label
  <2>2. req'[r].pc = "matched" /\ \A q \in Request \ {r} : req'[q] = req[q]
    BY <1>6, GotoOnly DEF BeginVerify, Label
  <2>3. codes[u].name \in McName BY <1>6 DEF BeginVerify, Row, NoRow
  <2>4. /\ job' \in [Request -> [user : User \cup {None}, name : McName \cup {None},
                                 code : Code \cup {None}]]
        /\ job'[r] = [user |-> u, name |-> codes[u].name, code |-> c]
        /\ \A q \in Request \ {r} : job'[q] = job[q]
    BY <1>6, <2>3, JobSet DEF BeginVerify
  <2>5. job'[r].user \in User /\ job'[r].name \in McName /\ job'[r].code \in Code
    BY <2>3, <2>4
  <2>6. JobKnown' BY <2>2, <2>4, <2>5 DEF JobKnown
  <2>7. raced' \subseteq Code BY <1>6 DEF BeginVerify
  <2> QED BY <1>6, <2>1, <2>4, <2>6, <2>7 DEF BeginVerify
<1>7. ASSUME NEW r \in Request, SaveLink(r) PROVE TypeInv'
  <2>1. ReqOK' BY <1>7, ReqGoto DEF SaveLink, Label
  <2>2. req'[r].pc = "saved" /\ \A q \in Request \ {r} : req'[q] = req[q]
    BY <1>7, GotoOnly DEF SaveLink, Label
  <2>3. JobKnown' BY <1>7, <2>2 DEF SaveLink, JobKnown
  <2>4. links' \in [User -> McName \cup {None}] /\ uses' \in [Code -> 0 .. 2]
    BY <1>7 DEF SaveLink, JobKnown
  <2> QED BY <1>7, <2>1, <2>3, <2>4 DEF SaveLink
<1>8. ASSUME NEW r \in Request, DropCode(r) PROVE TypeInv'
  <2>1. JobKnown' BY <1>8, JobEnds DEF DropCode, JobKnown
  <2> QED BY <1>8, <2>1, JobEnds DEF DropCode
<1>9. ASSUME NEW r \in Request, DropCodeFails(r) PROVE TypeInv'
  <2>1. JobKnown' BY <1>9, JobEnds DEF DropCodeFails, JobKnown
  <2>2. raced' \subseteq Code BY <1>9 DEF DropCodeFails, JobKnown
  <2> QED BY <1>9, <2>1, <2>2, JobEnds DEF DropCodeFails
<1>10. ASSUME NEW u \in User, ExpireCode(u) \/ Unlink(u) PROVE TypeInv'
  BY <1>10 DEF ExpireCode, Unlink, ReqOK, ListKnown, JobKnown
<1>11. CASE UNCHANGED vars BY <1>11 DEF vars, linkVars, ReqOK, ListKnown, JobKnown
<1> QED BY <1>1, <1>2, <1>3, <1>4, <1>5, <1>6, <1>7, <1>8, <1>9, <1>10, <1>11 DEF Next

LEMMA TypeInit == Init => TypeInv
<1> SUFFICES ASSUME Init PROVE TypeInv
  OBVIOUS
<1> USE DEF Init, ListInit, TypeInv
<1>1. Nobody \in List BY DEF Nobody, List
<1>2. ReqOK BY IdleTyped DEF ReqOK, ListKnown
<1>3. ListTypeOK
  <2>1. <<>> \in Seq(Command) /\ <<>> \in Seq(List) OBVIOUS
  <2>2. 0 \in 0 .. MaxAsked /\ 0 \in 0 .. MaxChanges OBVIOUS
  <2> QED BY <1>1, <1>2, <2>1, <2>2 DEF ListTypeOK
<1>4. LinkTypeOK BY DEF LinkTypeOK, NoJob
<1>5. JobKnown BY IdleTyped DEF JobKnown
<1> QED BY <1>3, <1>4, <1>5

\* Every reachable state of the player list and the links is well typed.
THEOREM TypeCorrect == Spec => []TypeOK
<1>1. TypeInv => TypeOK
  BY DEF TypeInv, ListTypeOK, LinkTypeOK, TypeOK, ReqOK, Fetch
<1> QED BY TypeInit, TypeStep, <1>1, PTL DEF Spec
-----------------------------------------------------------------------------
(* Links *)

For(c, n) == issued[c] # None /\ issued[c].name = n
Made(c, u, n) == issued[c] = [user |-> u, name |-> n]

\* Rows, requests, commands on their way and what the game has shown agree with
\* whom a code was made for; a request that verifies one has seen it shown.
RowsAgree == \A u \in User : codes[u] # NoRow => Made(codes[u].code, u, codes[u].name)
JobsAgree ==
  \A r \in Request : req[r].pc \in {"issued", "matched", "saved"} =>
    Made(job[r].code, job[r].user, job[r].name)
JobsShown ==
  \A r \in Request : req[r].pc \in {"matched", "saved"} => <<job[r].name, job[r].code>> \in shown
ConsoleAgrees ==
  \A i \in 1 .. Len(console) : console[i][1] = "tell" => For(console[i][3], console[i][2])
ShownAgrees == \A n \in McName, c \in Code : <<n, c>> \in shown => For(c, n)

LinkInv ==
  /\ RowsAgree /\ JobsAgree /\ JobsShown /\ ConsoleAgrees /\ ShownAgrees /\ LinkIsProven

LEMMA Commands ==
  ASSUME TypeInv, NEW i \in 1 .. Len(console), console[i][1] = "tell"
  PROVE  console[i] \in {"tell"} \X McName \X Code
<1>1. console[i] \in Command BY DEF TypeInv, ListTypeOK
<1> QED BY <1>1 DEF Command

\* A code that is new belongs to nobody: all that was said of the others stays.
LEMMA NewCode ==
  ASSUME TypeInv, LinkInv, NEW r \in Request, NEW u \in User, NEW n \in McName,
         NEW c \in Code, IssueCode(r, u, n, c)
  PROVE  LinkInv'
<1> USE DEF TypeInv, ListTypeOK, LinkTypeOK, allButReq, wires
<1>1. \A d \in Code : issued[d] # None => issued'[d] = issued[d]
  BY DEF IssueCode
<1>2. Made(c, u, n)' BY DEF IssueCode, Made
<1>3. codes'[u] = [name |-> n, code |-> c] /\ \A v \in User \ {u} : codes'[v] = codes[v]
  BY DEF IssueCode
<1>4. job'[r] = [user |-> u, name |-> n, code |-> c] /\ \A q \in Request \ {r} : job'[q] = job[q]
  BY DEF IssueCode
<1>5. req'[r].pc = "issued" /\ \A q \in Request \ {r} : req'[q] = req[q]
  BY GotoOnly DEF IssueCode, Label
<1>6. \A d \in Code, v \in User, m \in McName : Made(d, v, m) => Made(d, v, m)'
  BY <1>1 DEF Made
<1>7. \A d \in Code, m \in McName : For(d, m) => For(d, m)'
  BY <1>1 DEF For
<1>8. UNCHANGED <<console, shown, links>> BY DEF IssueCode
<1>9. RowsAgree'
  <2>1. ASSUME NEW v \in User \ {u}, codes[v] # NoRow
        PROVE  codes[v].code \in Code /\ codes[v].name \in McName
    BY <2>1 DEF Row
  <2> QED BY <1>2, <1>3, <1>6, <2>1 DEF LinkInv, RowsAgree
<1>10. JobsAgree'
  <2>1. Made(job[r].code, job[r].user, job[r].name)' BY <1>2, <1>4 DEF Made
  <2>2. ASSUME NEW q \in Request \ {r}, req'[q].pc \in {"issued", "matched", "saved"}
        PROVE  Made(job[q].code, job[q].user, job[q].name)'
    <3>1. req[q].pc \in {"issued", "matched", "saved"} BY <1>5, <2>2
    <3>2. Made(job[q].code, job[q].user, job[q].name) BY <3>1 DEF LinkInv, JobsAgree
    <3>3. job[q].code \in Code /\ job[q].user \in User /\ job[q].name \in McName
      BY <3>1 DEF JobKnown
    <3>4. issued[job[q].code] # None BY <3>2, <3>3, NoneAssumption DEF Made
    <3>5. issued'[job[q].code] = issued[job[q].code] BY <1>1, <3>3, <3>4
    <3>6. job'[q] = job[q] BY <1>4
    <3> QED BY <3>2, <3>5, <3>6 DEF Made
  <2> QED BY <2>1, <2>2 DEF JobsAgree
<1>11. JobsShown' BY <1>4, <1>5, <1>8 DEF LinkInv, JobsShown
<1>12. ConsoleAgrees'
  <2>1. ASSUME NEW i \in 1 .. Len(console), console[i][1] = "tell"
        PROVE  console[i][2] \in McName /\ console[i][3] \in Code
    BY <2>1, Commands
  <2> QED BY <1>7, <1>8, <2>1 DEF LinkInv, ConsoleAgrees
<1>13. ShownAgrees' BY <1>7, <1>8 DEF LinkInv, ShownAgrees
<1>14. LinkIsProven'
  <2>1. ASSUME NEW v \in User, links[v] # None,
               NEW d \in Code, issued[d] = [user |-> v, name |-> links[v]]
        PROVE  issued'[d] = [user |-> v, name |-> links[v]]
    <3>1. links[v] \in McName BY <2>1
    <3> QED BY <1>1, <2>1, <3>1
  <2> QED BY <1>8, <2>1 DEF LinkInv, LinkIsProven
<1> QED BY <1>9, <1>10, <1>11, <1>12, <1>13, <1>14 DEF LinkInv

\* A request that ends keeps all of it, also if it drops a row.
LEMMA EndKeeps ==
  ASSUME TypeInv, LinkInv, NEW r \in Request, EndJob(r), UNCHANGED <<issued, shown, links>>,
         UNCHANGED codes \/ codes' = [codes EXCEPT ![job[r].user] = NoRow]
  PROVE  RowsAgree' /\ JobsAgree' /\ JobsShown' /\ ShownAgrees' /\ LinkIsProven'
<1> USE DEF TypeInv, ListTypeOK
<1>1. \A q \in Request : req'[q].pc # "idle" => req'[q] = req[q] /\ job'[q] = job[q]
  BY JobEnds
<1>2. \A u \in User : codes'[u] # NoRow => codes'[u] = codes[u]
  BY DEF LinkTypeOK
<1>3. RowsAgree' BY <1>2 DEF LinkInv, RowsAgree, Made
<1>4. JobsAgree' /\ JobsShown' BY <1>1 DEF LinkInv, JobsAgree, JobsShown, Made
<1>5. ShownAgrees' /\ LinkIsProven' BY DEF LinkInv, ShownAgrees, LinkIsProven, For
<1> QED BY <1>3, <1>4, <1>5

LEMMA TellKeeps ==
  ASSUME TypeInv, LinkInv, Tell
  PROVE  LinkInv'
<1> USE DEF TypeInv, ListTypeOK
<1>1. Len(console) > 0 /\ Head(console) = console[1] BY DEF Tell, ReadConsole
<1>2. console[1] \in {"tell"} \X McName \X Code BY <1>1, Commands DEF Tell
<1>3. For(console[1][3], console[1][2])
  BY <1>1 DEF Tell, LinkInv, ConsoleAgrees
<1>4. shown \subseteq shown' /\ shown' \subseteq shown \cup {<<console[1][2], console[1][3]>>}
  BY <1>1 DEF Tell
<1>5. ConsoleAgrees'
  <2>1. Len(console') = Len(console) - 1 /\ \A i \in 1 .. Len(console') : console'[i] = console[i + 1]
    BY <1>1 DEF Tell, ReadConsole
  <2>2. UNCHANGED issued BY DEF Tell
  <2> QED BY <2>1, <2>2 DEF LinkInv, ConsoleAgrees, For
<1>6. ShownAgrees' BY <1>2, <1>3, <1>4 DEF LinkInv, ShownAgrees, For, Tell
<1>7. RowsAgree' /\ JobsAgree' BY DEF LinkInv, RowsAgree, JobsAgree, Made, Tell
<1>8. JobsShown' BY <1>4 DEF LinkInv, JobsShown, Tell
<1>9. LinkIsProven' BY <1>4 DEF LinkInv, LinkIsProven, Tell
<1> QED BY <1>5, <1>6, <1>7, <1>8, <1>9 DEF LinkInv

\* The requests of the player list send no code and take "list" commands only.
LEMMA ListKeeps ==
  ASSUME TypeInv, LinkInv, ListNext, UNCHANGED linkVars
  PROVE  LinkInv'
<1> USE DEF TypeInv, ListTypeOK, linkVars
<1>1. \/ UNCHANGED console
      \/ Obey
      \/ console' = Append(console, <<"list">>)
  BY DEF ListNext, Launch, Exit, TailLine, Expire, Join, Leave, GetCached, Subscribe,
         BeginFetch, SendList, SendListFails, TakeReply, GiveUp, Store, UseList,
         wires, allButReq
<1>2. ConsoleAgrees'
  <2>1. CASE UNCHANGED console BY <2>1 DEF LinkInv, ConsoleAgrees, For
  <2>2. CASE Obey
    <3>1. Len(console') = Len(console) - 1 /\ \A i \in 1 .. Len(console') : console'[i] = console[i + 1]
      BY <2>2 DEF Obey, ReadConsole
    <3> QED BY <3>1 DEF LinkInv, ConsoleAgrees, For
  <2>3. CASE console' = Append(console, <<"list">>)
    <3>1. /\ Len(console') = Len(console) + 1
          /\ \A i \in 1 .. Len(console) : console'[i] = console[i]
          /\ console'[Len(console) + 1] = <<"list">>
      BY <2>3, AppendProperties DEF Command
    <3>2. <<"list">>[1] # "tell" OBVIOUS
    <3> QED BY <3>1, <3>2, SMTT(30) DEF LinkInv, ConsoleAgrees, For
  <2> QED BY <1>1, <2>1, <2>2, <2>3
<1>3. JobsAgree' /\ JobsShown'
  BY FetchKeepsJobs DEF LinkInv, JobsAgree, JobsShown, Made, KeepsStep
<1> QED BY <1>2, <1>3 DEF LinkInv, RowsAgree, ShownAgrees, LinkIsProven, Made, For

LEMMA LinkStep ==
  ASSUME TypeInv, LinkInv, [Next]_vars
  PROVE  LinkInv'
<1> USE DEF TypeInv, ListTypeOK, LinkTypeOK, wires, allButReq, listVars
<1>1. ASSUME NEW r \in Request, SendCode(r) PROVE LinkInv'
  <2>1. RowsAgree' /\ JobsAgree' /\ JobsShown' /\ ShownAgrees' /\ LinkIsProven'
    BY <1>1, EndKeeps DEF SendCode
  <2>2. job[r].name \in McName /\ job[r].code \in Code BY <1>1 DEF SendCode, JobKnown
  <2> DEFINE new == <<"tell", job[r].name, job[r].code>>
  <2>3. new \in Command BY <2>2 DEF Command
  <2>4. /\ Len(console') = Len(console) + 1
        /\ \A i \in 1 .. Len(console) : console'[i] = console[i]
        /\ console'[Len(console) + 1] = new
    BY <1>1, <2>3, AppendProperties DEF SendCode
  <2>5. For(new[3], new[2])
    <3>1. Made(job[r].code, job[r].user, job[r].name)
      BY <1>1 DEF SendCode, LinkInv, JobsAgree
    <3>2. job[r].user \in User BY <1>1 DEF SendCode, JobKnown
    <3> QED BY <2>2, <3>1, <3>2 DEF Made, For
  <2>6. UNCHANGED issued BY <1>1 DEF SendCode
  <2> HIDE DEF new
  <2>7. ConsoleAgrees' BY <2>4, <2>5, <2>6, SMTT(30) DEF LinkInv, ConsoleAgrees, For
  <2> QED BY <2>1, <2>7 DEF LinkInv
<1>2. ASSUME NEW r \in Request,
             SendCodeFails(r) \/ SaveLinkFails(r) \/ DropCode(r) \/ DropCodeFails(r)
      PROVE LinkInv'
  <2>1. RowsAgree' /\ JobsAgree' /\ JobsShown' /\ ShownAgrees' /\ LinkIsProven'
    BY <1>2, EndKeeps DEF SendCodeFails, SaveLinkFails, DropCode, DropCodeFails
  <2>2. ConsoleAgrees'
    BY <1>2 DEF SendCodeFails, SaveLinkFails, DropCode, DropCodeFails, LinkInv,
         ConsoleAgrees, For
  <2> QED BY <2>1, <2>2 DEF LinkInv
<1>3. ASSUME NEW r \in Request, NEW u \in User, NEW c \in Code, BeginVerify(r, u, c)
      PROVE LinkInv'
  <2>1. req'[r].pc = "matched" /\ \A q \in Request \ {r} : req'[q] = req[q]
    BY <1>3, GotoOnly DEF BeginVerify, Label
  <2>2. codes[u] # NoRow /\ codes[u].code = c /\ codes[u].name \in McName
    BY <1>3 DEF BeginVerify, Row, NoRow
  <2>3. /\ job'[r] = [user |-> u, name |-> codes[u].name, code |-> c]
        /\ \A q \in Request \ {r} : job'[q] = job[q]
    BY <1>3 DEF BeginVerify
  <2>4. Made(c, u, codes[u].name) BY <2>2 DEF LinkInv, RowsAgree
  <2>5. <<codes[u].name, c>> \in shown
    <3>1. PICK n \in McName : <<n, c>> \in shown BY <1>3 DEF BeginVerify
    <3>2. issued[c].name = n BY <3>1 DEF LinkInv, ShownAgrees, For
    <3>3. issued[c] = [user |-> u, name |-> codes[u].name] BY <2>4 DEF Made
    <3>4. codes[u].name = n BY <3>2, <3>3
    <3> QED BY <3>1, <3>4
  <2>6. UNCHANGED <<codes, issued, shown, links, console>> BY <1>3 DEF BeginVerify
  <2>7. ASSUME NEW q \in Request \ {r}, req'[q].pc \in {"issued", "matched", "saved"}
        PROVE  /\ Made(job[q].code, job[q].user, job[q].name)'
               /\ req'[q].pc # "issued" => (<<job[q].name, job[q].code>> \in shown)'
    BY <2>1, <2>3, <2>6, <2>7 DEF LinkInv, JobsAgree, JobsShown, Made
  <2>8. /\ Made(job[r].code, job[r].user, job[r].name)'
        /\ (<<job[r].name, job[r].code>> \in shown)'
    BY <2>3, <2>4, <2>5, <2>6 DEF Made
  <2>9. JobsAgree' BY <2>7, <2>8 DEF JobsAgree
  <2>10. JobsShown' BY <2>7, <2>8 DEF JobsShown
  <2> QED BY <2>6, <2>9, <2>10
       DEF LinkInv, RowsAgree, ConsoleAgrees, ShownAgrees, LinkIsProven, Made, For
<1>4. ASSUME NEW r \in Request, SaveLink(r) PROVE LinkInv'
  <2>1. req'[r].pc = "saved" /\ \A q \in Request \ {r} : req'[q] = req[q]
    BY <1>4, GotoOnly DEF SaveLink, Label
  <2>2. UNCHANGED <<codes, issued, shown, job, console>> BY <1>4 DEF SaveLink
  <2>3. /\ job[r].user \in User /\ job[r].code \in Code
        /\ Made(job[r].code, job[r].user, job[r].name)
        /\ <<job[r].name, job[r].code>> \in shown
    BY <1>4 DEF SaveLink, JobKnown, LinkInv, JobsAgree, JobsShown
  <2>4. /\ links'[job[r].user] = job[r].name
        /\ \A u \in User \ {job[r].user} : links'[u] = links[u]
    BY <1>4, <2>3 DEF SaveLink
  <2>5. LinkIsProven' BY <2>2, <2>3, <2>4 DEF LinkInv, LinkIsProven, Made
  <2>6. JobsAgree' /\ JobsShown'
    BY <1>4, <2>1, <2>2 DEF SaveLink, LinkInv, JobsAgree, JobsShown, Made
  <2> QED BY <2>2, <2>5, <2>6 DEF LinkInv, RowsAgree, ConsoleAgrees, ShownAgrees, Made, For
<1>5. ASSUME NEW u \in User, ExpireCode(u) \/ Unlink(u) PROVE LinkInv'
  <2>1. UNCHANGED <<req, job, issued, shown, console>> BY <1>5 DEF ExpireCode, Unlink
  <2>2. \A v \in User : /\ codes'[v] # NoRow => codes'[v] = codes[v]
                        /\ links'[v] # None => links'[v] = links[v]
    BY <1>5 DEF ExpireCode, Unlink
  <2>3. RowsAgree' BY <2>1, <2>2 DEF LinkInv, RowsAgree, Made
  <2>4. LinkIsProven' BY <2>1, <2>2 DEF LinkInv, LinkIsProven
  <2> QED BY <2>1, <2>3, <2>4
       DEF LinkInv, JobsAgree, JobsShown, ConsoleAgrees, ShownAgrees, Made, For
<1>6. CASE UNCHANGED vars
  BY <1>6 DEF vars, linkVars, LinkInv, RowsAgree, JobsAgree, JobsShown, ConsoleAgrees,
       ShownAgrees, LinkIsProven, Made, For
<1> QED BY <1>1, <1>2, <1>3, <1>4, <1>5, <1>6, NewCode, TellKeeps, ListKeeps DEF Next

LEMMA LinkInit == Init => LinkInv
<1> SUFFICES ASSUME Init PROVE LinkInv
  OBVIOUS
<1>1. RowsAgree /\ LinkIsProven BY DEF Init, RowsAgree, LinkIsProven
<1>2. JobsAgree /\ JobsShown BY IdleTyped DEF Init, ListInit, JobsAgree, JobsShown
<1>3. ConsoleAgrees /\ ShownAgrees BY DEF Init, ListInit, ConsoleAgrees, ShownAgrees
<1> QED BY <1>1, <1>2, <1>3 DEF LinkInv

\* A link names a player to whom a code made for this very account and name
\* has been shown in the game, however requests, lists and the console overlap.
THEOREM LinksAreProven == Spec => []LinkIsProven
<1>1. TypeInv /\ LinkInv /\ [Next]_vars => TypeInv' /\ LinkInv' BY TypeStep, LinkStep
<1>2. LinkInv => LinkIsProven BY DEF LinkInv
<1> QED BY TypeInit, LinkInit, <1>1, <1>2, PTL DEF Spec
-----------------------------------------------------------------------------
(* One-time codes *)

Holds(r, c) == r \in Verifying(c)
Gone(c) == \A u \in User : codes[u].code # c

\* A code nobody raced for is verified by one request at most. Once it has made
\* a link, its row is gone, unless the request that made the link is about to
\* delete it.
CodeInv(c) ==
  /\ \A q, r \in Request : Holds(q, c) /\ Holds(r, c) => q = r
  /\ uses[c] <= 1
  /\ \A r \in Request : Holds(r, c) /\ req[r].pc = "matched" => uses[c] = 0
  /\ uses[c] > 0 => Gone(c) \/ \E r \in Request : Holds(r, c) /\ req[r].pc = "saved"

\* A code that has made a link has been issued.
UsedIssued == \A c \in Code : uses[c] > 0 => issued[c] # None

OnceInv == UsedIssued /\ \A c \in Code : c \notin raced => CodeInv(c)

LEMMA Holding ==
  ASSUME NEW r \in Request, NEW c
  PROVE  Holds(r, c) <=> req[r].pc \in {"matched", "saved"} /\ job[r].code = c
  BY DEF Holds, Verifying

LEMMA RowsGo ==
  ASSUME NEW c \in Code, \A u \in User : codes'[u] = codes[u] \/ codes'[u] = NoRow
  PROVE  Gone(c) => Gone(c)'
<1>1. NoRow.code # c BY DEF NoRow
<1> QED BY <1>1 DEF Gone

LEMMA HoldingPrime ==
  ASSUME NEW r \in Request, NEW c
  PROVE  Holds(r, c)' <=> req'[r].pc \in {"matched", "saved"} /\ job'[r].code = c
  BY DEF Holds, Verifying

\* What a code is used for stays when nobody takes it up, saves a link with it or
\* lets go of it having done so, and no row gets it.
LEMMA CodeStays ==
  ASSUME NEW c \in Code, CodeInv(c), uses'[c] = uses[c],
         \A r \in Request : /\ Holds(r, c)' => Holds(r, c) /\ req'[r].pc = req[r].pc
                            /\ Holds(r, c) /\ req[r].pc = "saved" =>
                                 (Holds(r, c)' /\ req'[r].pc = "saved") \/ Gone(c)',
         Gone(c) => Gone(c)'
  PROVE  CodeInv(c)'
<1>1. \A q, r \in Request : Holds(q, c)' /\ Holds(r, c)' => q = r BY DEF CodeInv
<1>2. uses'[c] <= 1 BY DEF CodeInv
<1>3. \A r \in Request : Holds(r, c)' /\ req'[r].pc = "matched" => uses'[c] = 0
  BY DEF CodeInv
<1>4. uses'[c] > 0 => Gone(c)' \/ \E r \in Request : Holds(r, c)' /\ req'[r].pc = "saved"
  BY DEF CodeInv
<1> QED BY <1>1, <1>2, <1>3, <1>4 DEF CodeInv

LEMMA OnceStep ==
  ASSUME TypeInv, LinkInv, OnceInv, [Next]_vars
  PROVE  OnceInv'
<1> USE DEF TypeInv, ListTypeOK, LinkTypeOK, wires, allButReq, listVars
<1>1. CASE ListNext /\ UNCHANGED linkVars
  <2>1. UNCHANGED <<codes, job, issued, uses, raced>> BY <1>1 DEF linkVars
  <2>2. \A r \in Request : KeepsStep(r) BY <1>1, <2>1, FetchKeepsJobs
  <2>3. ASSUME NEW c \in Code, c \notin raced PROVE CodeInv(c)'
    <3>1. \A r \in Request : Holds(r, c)' <=> Holds(r, c)
      BY <2>1, <2>2, Holding, HoldingPrime DEF KeepsStep
    <3>2. \A r \in Request : Holds(r, c) => req'[r].pc = req[r].pc
      BY <2>2, Holding DEF KeepsStep
    <3> QED BY <2>1, <2>3, <3>1, <3>2, CodeStays DEF OnceInv, Gone
  <2> QED BY <2>1, <2>3 DEF OnceInv, UsedIssued
<1>2. ASSUME NEW r \in Request, NEW u \in User, NEW n \in McName, NEW d \in Code,
             IssueCode(r, u, n, d)
      PROVE OnceInv'
  <2>1. req[r].pc = "answered" /\ issued[d] = None /\ UNCHANGED <<uses, raced>>
    BY <1>2 DEF IssueCode
  <2>2. req'[r].pc = "issued" /\ \A q \in Request \ {r} : req'[q] = req[q]
    BY <1>2, GotoOnly DEF IssueCode, Label
  <2>3. \A q \in Request \ {r} : job'[q] = job[q] BY <1>2 DEF IssueCode
  <2>4. \A v \in User : codes'[v].code = IF v = u THEN d ELSE codes[v].code
    BY <1>2 DEF IssueCode
  <2>5. UsedIssued'
    BY <1>2, <2>1 DEF IssueCode, OnceInv, UsedIssued
  <2>6. uses'[d] = 0 BY <2>1 DEF OnceInv, UsedIssued
  <2>7. ASSUME NEW c \in Code, c \notin raced PROVE CodeInv(c)'
    <3>1. \A q \in Request : /\ Holds(q, c)' <=> Holds(q, c)
                             /\ Holds(q, c) => req'[q].pc = req[q].pc
      BY <2>1, <2>2, <2>3, Holding, HoldingPrime, SMTT(30)
    <3>2. CASE c # d
      <4>1. Gone(c) => Gone(c)' BY <2>4, <3>2 DEF Gone
      <4> QED BY <2>1, <2>7, <3>1, <4>1, CodeStays DEF OnceInv
    <3>3. CASE c = d BY <2>1, <2>6, <2>7, <3>1, <3>3 DEF OnceInv, CodeInv
    <3> QED BY <3>2, <3>3
  <2> QED BY <2>1, <2>5, <2>7 DEF OnceInv
<1>3. ASSUME NEW r \in Request, SendCode(r) \/ SendCodeFails(r) \/ SaveLinkFails(r)
      PROVE OnceInv'
  <2>1. EndJob(r) /\ req[r].pc # "saved" /\ UNCHANGED <<codes, issued, uses, raced>>
    BY <1>3 DEF SendCode, SendCodeFails, SaveLinkFails
  <2>2. \A q \in Request : req'[q].pc # "idle" => req'[q] = req[q] /\ job'[q] = job[q]
    BY <2>1, JobEnds
  <2>3. \A q \in Request : q # r => req'[q] = req[q] /\ job'[q] = job[q]
    BY <2>1 DEF EndJob, Done, ReqOK
  <2>4. ASSUME NEW c \in Code, c \notin raced PROVE CodeInv(c)'
    <3>1. \A q \in Request : Holds(q, c)' => Holds(q, c) /\ req'[q].pc = req[q].pc
      BY <2>2, Holding, HoldingPrime
    <3>2. \A q \in Request : Holds(q, c) /\ req[q].pc = "saved" =>
                               Holds(q, c)' /\ req'[q].pc = "saved"
      <4> SUFFICES ASSUME NEW q \in Request, Holds(q, c), req[q].pc = "saved"
                   PROVE  Holds(q, c)' /\ req'[q].pc = "saved"
        OBVIOUS
      <4>1. q # r BY <2>1
      <4>2. req'[q] = req[q] /\ job'[q] = job[q] BY <2>3, <4>1
      <4> QED BY <4>2, Holding, HoldingPrime
    <3> QED BY <2>1, <2>4, <3>1, <3>2, CodeStays DEF OnceInv, Gone
  <2> QED BY <2>1, <2>4 DEF OnceInv, UsedIssued
<1>4. CASE Tell
  BY <1>4 DEF Tell, OnceInv, UsedIssued, CodeInv, Gone, Holds, Verifying
<1>5. ASSUME NEW r \in Request, NEW u \in User, NEW d \in Code, BeginVerify(r, u, d)
      PROVE OnceInv'
  <2>1. req[r].pc = "idle" /\ codes[u].code = d /\ UNCHANGED <<codes, issued, uses>>
    BY <1>5 DEF BeginVerify
  <2>2. req'[r].pc = "matched" /\ \A q \in Request \ {r} : req'[q] = req[q]
    BY <1>5, GotoOnly DEF BeginVerify, Label
  <2>3. job'[r].code = d /\ \A q \in Request \ {r} : job'[q] = job[q]
    BY <1>5 DEF BeginVerify
  <2>4. raced \subseteq raced' /\ (d \notin raced' => Verifying(d) = {})
    BY <1>5 DEF BeginVerify
  <2>5. ASSUME NEW c \in Code, c \notin raced' PROVE CodeInv(c)'
    <3>1. \A q \in Request \ {r} : /\ Holds(q, c)' <=> Holds(q, c)
                                   /\ req'[q].pc = req[q].pc
      BY <2>2, <2>3, Holding, HoldingPrime
    <3>2. ~Holds(r, c) BY <2>1, Holding
    <3>3. Holds(r, c)' <=> c = d BY <2>2, <2>3, HoldingPrime
    <3>4. CodeInv(c) BY <2>4, <2>5 DEF OnceInv
    <3>5. CASE c # d
      <4>1. \A q \in Request : /\ Holds(q, c)' => Holds(q, c) /\ req'[q].pc = req[q].pc
                               /\ Holds(q, c) => Holds(q, c)' /\ req'[q].pc = req[q].pc
        BY <3>1, <3>2, <3>3, <3>5
      <4> QED BY <2>1, <3>4, <4>1, CodeStays DEF Gone
    <3>6. CASE c = d
      <4>1. \A q \in Request : ~Holds(q, d) BY <2>4, <2>5, <3>6 DEF Holds
      <4>2. ~Gone(d) BY <2>1 DEF Gone
      <4>3. uses[d] = 0 BY <3>4, <3>6, <4>1, <4>2 DEF CodeInv
      <4>4. \A q \in Request : Holds(q, d)' => q = r BY <3>1, <3>6, <4>1
      <4> QED BY <2>1, <3>6, <4>3, <4>4 DEF CodeInv
    <3> QED BY <3>5, <3>6
  <2>6. UsedIssued' BY <2>1 DEF OnceInv, UsedIssued
  <2> QED BY <2>5, <2>6 DEF OnceInv
<1>6. ASSUME NEW r \in Request, SaveLink(r) PROVE OnceInv'
  <2>0. PICK d \in Code : d = job[r].code BY <1>6 DEF SaveLink, JobKnown
  <2>1. req[r].pc = "matched" /\ UNCHANGED <<codes, job, issued, raced>>
    BY <1>6 DEF SaveLink
  <2>2. req'[r].pc = "saved" /\ \A q \in Request \ {r} : req'[q] = req[q]
    BY <1>6, GotoOnly DEF SaveLink, Label
  <2>3. uses'[d] = (IF uses[d] = 0 THEN 1 ELSE 2) /\ \A c \in Code \ {d} : uses'[c] = uses[c]
    BY <1>6, <2>0 DEF SaveLink
  <2>4. issued[d] # None
    <3>1. Made(d, job[r].user, job[r].name) BY <2>0, <2>1 DEF LinkInv, JobsAgree
    <3>2. job[r].user \in User /\ job[r].name \in McName BY <2>1 DEF JobKnown
    <3> QED BY <3>1, <3>2 DEF Made
  <2>5. UsedIssued' BY <2>1, <2>3, <2>4 DEF OnceInv, UsedIssued
  <2>6. Holds(r, d) BY <2>0, <2>1, Holding
  <2>7. ASSUME NEW c \in Code, c \notin raced PROVE CodeInv(c)'
    <3>1. \A q \in Request : Holds(q, c)' <=> Holds(q, c)
      BY <2>1, <2>2, Holding, HoldingPrime
    <3>2. CodeInv(c) BY <2>7 DEF OnceInv
    <3>3. CASE c # d
      <4>1. ~Holds(r, c) BY <2>0, <3>3, Holding
      <4>2. \A q \in Request : Holds(q, c) => req'[q].pc = req[q].pc BY <2>2, <4>1
      <4> QED BY <2>1, <2>3, <3>1, <3>2, <3>3, <4>2, CodeStays DEF Gone
    <3>4. CASE c = d
      <4>1. uses[d] = 0 BY <2>1, <2>6, <3>2, <3>4 DEF CodeInv
      <4>2. uses'[d] = 1 BY <2>3, <4>1
      <4>3. \A q \in Request : Holds(q, d)' => q = r BY <2>6, <3>1, <3>2, <3>4 DEF CodeInv
      <4>4. Holds(r, d)' BY <2>6, <3>1, <3>4
      <4> QED BY <2>2, <3>4, <4>2, <4>3, <4>4 DEF CodeInv
    <3> QED BY <3>3, <3>4
  <2> QED BY <2>1, <2>5, <2>7 DEF OnceInv
<1>7. ASSUME NEW r \in Request, DropCode(r) \/ DropCodeFails(r) PROVE OnceInv'
  <2>0. PICK d \in Code : d = job[r].code
    BY <1>7 DEF DropCode, DropCodeFails, JobKnown
  <2>1. /\ req[r].pc = "saved" /\ EndJob(r) /\ UNCHANGED <<issued, uses>>
        /\ raced \subseteq raced'
    BY <1>7 DEF DropCode, DropCodeFails
  <2>2. \A q \in Request : req'[q].pc # "idle" => req'[q] = req[q] /\ job'[q] = job[q]
    BY <2>1, JobEnds
  <2>3. \A q \in Request : q # r => req'[q] = req[q] /\ job'[q] = job[q]
    BY <2>1 DEF EndJob, Done, ReqOK
  <2>4. d \notin raced' => DropCode(r)
    BY <1>7, <2>0 DEF DropCodeFails
  <2>5. DropCode(r) => Gone(d)'
    <3> SUFFICES ASSUME DropCode(r), NEW u \in User PROVE codes'[u].code # d
      BY DEF Gone
    <3>1. Made(d, job[r].user, job[r].name) BY <2>0, <2>1 DEF LinkInv, JobsAgree
    <3>2. job[r].user \in User BY <2>1 DEF JobKnown
    <3>3. codes' = [codes EXCEPT ![job[r].user] = NoRow] BY DEF DropCode
    <3>4. CASE u = job[r].user BY <3>2, <3>3, <3>4 DEF NoRow
    <3>5. CASE u # job[r].user
      <4> SUFFICES ASSUME codes'[u].code = d PROVE FALSE
        OBVIOUS
      <4>1. codes'[u] = codes[u] BY <3>3, <3>5
      <4>2. codes[u] # NoRow BY <3>2, <4>1 DEF NoRow
      <4>3. Made(d, u, codes[u].name) BY <4>1, <4>2 DEF LinkInv, RowsAgree
      <4>4. issued[d].user = u /\ issued[d].user = job[r].user BY <3>1, <4>3 DEF Made
      <4> QED BY <3>5, <4>4
    <3> QED BY <3>4, <3>5
  <2>6. \A u \in User : codes'[u] = codes[u] \/ codes'[u] = NoRow
    BY <1>7 DEF DropCode, DropCodeFails
  <2>8. ASSUME NEW c \in Code, c \notin raced' PROVE CodeInv(c)'
    <3>1. \A q \in Request : Holds(q, c)' => Holds(q, c) /\ req'[q].pc = req[q].pc
      BY <2>2, Holding, HoldingPrime, ZenonT(30)
    <3>2. \A q \in Request : Holds(q, c) /\ req[q].pc = "saved" =>
                               (Holds(q, c)' /\ req'[q].pc = "saved") \/ Gone(c)'
      <4> SUFFICES ASSUME NEW q \in Request, Holds(q, c), req[q].pc = "saved"
                   PROVE  (Holds(q, c)' /\ req'[q].pc = "saved") \/ Gone(c)'
        OBVIOUS
      <4>1. CASE q = r
        <5>1. c = d BY <2>0, <4>1, Holding
        <5> QED BY <2>4, <2>5, <2>8, <5>1
      <4>2. CASE q # r BY <2>3, <4>2, Holding, HoldingPrime
      <4> QED BY <4>1, <4>2
    <3>3. Gone(c) => Gone(c)' BY <2>6, RowsGo
    <3> QED BY <2>1, <2>8, <3>1, <3>2, <3>3, CodeStays DEF OnceInv
  <2> QED BY <2>1, <2>8 DEF OnceInv, UsedIssued
<1>8. ASSUME NEW u \in User, ExpireCode(u) \/ Unlink(u) PROVE OnceInv'
  <2>1. UNCHANGED <<req, job, issued, uses, raced>> BY <1>8 DEF ExpireCode, Unlink
  <2>2. \A v \in User : codes'[v] = codes[v] \/ codes'[v] = NoRow
    BY <1>8 DEF ExpireCode, Unlink
  <2>3. ASSUME NEW c \in Code, c \notin raced PROVE CodeInv(c)'
    <3>1. Gone(c) => Gone(c)' BY <2>2, RowsGo
    <3>2. \A r \in Request : Holds(r, c)' <=> Holds(r, c) BY <2>1, Holding, HoldingPrime
    <3> QED BY <2>1, <2>3, <3>1, <3>2, CodeStays DEF OnceInv
  <2> QED BY <2>1, <2>3 DEF OnceInv, UsedIssued
<1>9. CASE UNCHANGED vars
  BY <1>9 DEF vars, linkVars, OnceInv, UsedIssued, CodeInv, Gone, Holds, Verifying
<1> QED BY <1>1, <1>2, <1>3, <1>4, <1>5, <1>6, <1>7, <1>8, <1>9 DEF Next

LEMMA OnceInit == Init => OnceInv
<1> SUFFICES ASSUME Init PROVE OnceInv
  OBVIOUS
<1>1. \A c \in Code : uses[c] = 0 BY DEF Init
<1>2. \A r \in Request : req[r].pc = "idle" BY IdleTyped DEF Init, ListInit
<1>3. \A r \in Request, c \in Code : ~Holds(r, c) BY <1>2, Holding
<1> QED BY <1>1, <1>3 DEF OnceInv, UsedIssued, CodeInv

\* A code makes one link at most, however requests overlap, unless two of them
\* verify it at once or its row could not be deleted.
THEOREM CodesAreOneTime == Spec => []CodeOnceUnlessRaced
<1>1. TypeInv /\ LinkInv /\ OnceInv /\ [Next]_vars => TypeInv' /\ LinkInv' /\ OnceInv'
  BY TypeStep, LinkStep, OnceStep
<1>2. OnceInv => CodeOnceUnlessRaced BY DEF OnceInv, CodeInv, CodeOnceUnlessRaced
<1> QED BY TypeInit, LinkInit, OnceInit, <1>1, <1>2, PTL DEF Spec

-----------------------------------------------------------------------------
(* The list of the players online                                           *)

From(s, n) == \A i \in DOMAIN s : s[i].changes >= n
UpTo(s, n) == \A i \in DOMAIN s : s[i].changes <= n
InOrder(s) == \A i, j \in DOMAIN s : i < j => s[i].changes <= s[j].changes

LEMMA ReplyAppended ==
  ASSUME NEW s \in Seq(List), NEW l \in List
  PROVE  /\ \A n \in Nat : (From(s, n) /\ l.changes >= n) => From(Append(s, l), n)
         /\ \A n \in Nat : (UpTo(s, n) /\ l.changes <= n) => UpTo(Append(s, l), n)
         /\ (InOrder(s) /\ UpTo(s, l.changes)) => InOrder(Append(s, l))
<1> DEFINE t == Append(s, l)
<1>1. /\ DOMAIN s = 1 .. Len(s) /\ DOMAIN t = 1 .. Len(s) + 1 /\ Len(s) \in Nat
      /\ t[Len(s) + 1] = l /\ \A i \in 1 .. Len(s) : t[i] = s[i]
  OBVIOUS
<1> HIDE DEF t
<1>2. \A i \in DOMAIN t : (i \in DOMAIN s /\ t[i] = s[i]) \/ (i = Len(s) + 1 /\ t[i] = l)
  BY <1>1
<1>3. \A n \in Nat : (From(s, n) /\ l.changes >= n) => From(t, n) BY <1>2 DEF From
<1>4. \A n \in Nat : (UpTo(s, n) /\ l.changes <= n) => UpTo(t, n) BY <1>2 DEF UpTo
<1>5. ASSUME InOrder(s), UpTo(s, l.changes) PROVE InOrder(t)
  <2>1. ASSUME NEW i \in DOMAIN t, NEW k \in DOMAIN t, i < k
        PROVE  t[i].changes <= t[k].changes
    <3>1. i \in DOMAIN s /\ t[i] = s[i] BY <1>1, <1>2, <2>1
    <3>2. CASE k \in DOMAIN s /\ t[k] = s[k] BY <1>5, <2>1, <3>1, <3>2 DEF InOrder
    <3>3. CASE t[k] = l BY <1>5, <3>1, <3>3 DEF UpTo
    <3> QED BY <1>2, <3>2, <3>3
  <2> QED BY <2>1 DEF InOrder
<1> QED BY <1>3, <1>4, <1>5 DEF t

LEMMA ReplyTaken ==
  ASSUME NEW s \in Seq(List), s # <<>>
  PROVE  /\ Head(s) \in List /\ Tail(s) \in Seq(List)
         /\ \A n \in Nat : From(s, n) => (From(Tail(s), n) /\ Head(s).changes >= n)
         /\ \A n \in Nat : UpTo(s, n) => (UpTo(Tail(s), n) /\ Head(s).changes <= n)
         /\ InOrder(s) => (InOrder(Tail(s)) /\ From(Tail(s), Head(s).changes))
<1> DEFINE t == Tail(s)
<1>1. /\ DOMAIN s = 1 .. Len(s) /\ DOMAIN t = 1 .. Len(s) - 1 /\ Len(s) \in Nat /\ Len(s) > 0
      /\ \A i \in 1 .. Len(s) - 1 : t[i] = s[i + 1]
      /\ Head(s) = s[1] /\ Head(s) \in List /\ t \in Seq(List)
  OBVIOUS
<1> HIDE DEF t
<1>2. /\ 1 \in DOMAIN s
      /\ \A i \in DOMAIN t : i + 1 \in DOMAIN s /\ t[i] = s[i + 1] /\ i \in Nat /\ i > 0
  BY <1>1
<1>3. \A n \in Nat : From(s, n) => (From(t, n) /\ Head(s).changes >= n)
  BY <1>1, <1>2 DEF From
<1>4. \A n \in Nat : UpTo(s, n) => (UpTo(t, n) /\ Head(s).changes <= n)
  BY <1>1, <1>2 DEF UpTo
<1>5. ASSUME InOrder(s) PROVE InOrder(t) /\ From(t, Head(s).changes)
  <2>1. ASSUME NEW i \in DOMAIN t PROVE t[i].changes >= Head(s).changes
    <3>1. s[1].changes <= s[i + 1].changes BY <1>2, <1>5 DEF InOrder
    <3>2. s[1] \in List /\ s[i + 1] \in List BY <1>1, <1>2
    <3>3. s[1].changes \in Nat /\ s[i + 1].changes \in Nat BY <3>2, ListRecord
    <3> QED BY <1>1, <1>2, <3>1, <3>3
  <2>2. ASSUME NEW i \in DOMAIN t, NEW k \in DOMAIN t, i < k
        PROVE  t[i].changes <= t[k].changes
    <3>1. i + 1 \in DOMAIN s /\ k + 1 \in DOMAIN s /\ i + 1 < k + 1 BY <1>2, <2>2
    <3> QED BY <1>2, <1>5, <3>1 DEF InOrder
  <2> QED BY <2>1, <2>2 DEF InOrder, From
<1> QED BY <1>1, <1>3, <1>4, <1>5 DEF t

\* What a fetch may still come back with is no older than its floor, and no
\* newer than what is on its way.
KnowsFloor(r) ==
  req[r].pc \in {"subscribed", "waiting", "fetched"} =>
    /\ req[r].floor <= roster.changes
    /\ From(unread, req[r].floor) /\ From(req[r].queue, req[r].floor)
    /\ \A i \in DOMAIN req[r].queue : /\ req[r].queue[i].changes <= roster.changes
                                      /\ From(unread, req[r].queue[i].changes)
    /\ req[r].pc = "fetched" =>
         /\ req[r].list.changes >= req[r].floor /\ req[r].list.changes <= roster.changes
         /\ From(unread, req[r].list.changes)

\* Replies come in the order of the rosters, and nobody has been told of a
\* roster later than one that is still on its way.
RepliesInOrder ==
  /\ InOrder(unread) /\ UpTo(unread, roster.changes)
  /\ newest <= roster.changes /\ From(unread, newest)
  /\ cache # None => cache.changes <= newest
  /\ \A r \in Request : KnowsFloor(r)

\* Until two fetches cross, a fetch is the only one, there is no cache, and the
\* fetch will not return less than anybody has been told; what is in the cache
\* is what was told last.
OneFetches ==
  ~crossed =>
    /\ \A r, q \in Fetching : r = q
    /\ \A r \in Fetching : cache = None /\ newest <= req[r].floor
    /\ cache # None => cache.changes >= newest

ListInv == RepliesInOrder /\ OneFetches

\* The type facts the steps need
LEMMA ListNumbers ==
  ASSUME TypeInv
  PROVE  /\ roster \in List /\ roster.changes \in Nat /\ newest \in Nat
         /\ unread \in Seq(List)
         /\ cache # None => (cache \in List /\ cache.changes \in Nat)
         /\ req \in [Request -> Fetch]
         /\ \A r \in Request : /\ req[r] \in Fetch /\ req[r].floor \in Nat
                               /\ req[r].queue \in Seq(List)
                               /\ req[r].pc = "fetched" =>
                                    (req[r].list \in List /\ req[r].list.changes \in Nat)
<1>1. /\ roster \in List /\ newest \in 0 .. MaxChanges /\ unread \in Seq(List)
      /\ cache \in List \cup {None} /\ req \in [Request -> Fetch] /\ ListKnown
  BY DEF TypeInv, ListTypeOK, ReqOK
<1>2. \A l \in List : l.changes \in Nat BY ListRecord
<1>3. ASSUME NEW r \in Request
      PROVE  /\ req[r] \in Fetch /\ req[r].floor \in Nat /\ req[r].queue \in Seq(List)
             /\ req[r].pc = "fetched" => (req[r].list \in List /\ req[r].list.changes \in Nat)
  BY <1>1, <1>2 DEF Fetch, ListKnown
<1> QED BY <1>1, <1>2, <1>3

\* Steps in which requests only leave, or do nothing that concerns the list
LEMMA ListByOthers ==
  ASSUME ListInv, UNCHANGED <<roster, unread, cache, newest, crossed>>,
         \A q \in Request : req'[q] = req[q]
                            \/ req'[q].pc \notin {"subscribed", "waiting", "fetched"}
  PROVE  ListInv'
<1>1. ASSUME NEW q \in Request PROVE KnowsFloor(q)'
  <2>1. KnowsFloor(q) BY DEF ListInv, RepliesInOrder
  <2> QED BY <2>1 DEF KnowsFloor
<1>2. RepliesInOrder' BY <1>1 DEF ListInv, RepliesInOrder
<1>3. \A q \in Fetching' : q \in Fetching /\ req'[q] = req[q] BY DEF Fetching
<1>4. OneFetches' BY <1>3 DEF ListInv, OneFetches
<1> QED BY <1>2, <1>4 DEF ListInv

\* The step of one request, with what it does to cache and history
LEMMA ListByOne ==
  ASSUME ListInv, NEW r \in Request, UNCHANGED <<roster, unread>>,
         \A q \in Request \ {r} : req'[q] = req[q],
         newest' <= roster.changes, From(unread, newest'),
         cache' # None => cache'.changes <= newest',
         KnowsFloor(r)', OneFetches'
  PROVE  ListInv'
<1>1. ASSUME NEW q \in Request \ {r} PROVE KnowsFloor(q)'
  <2>1. KnowsFloor(q) BY DEF ListInv, RepliesInOrder
  <2> QED BY <2>1 DEF KnowsFloor
<1>2. RepliesInOrder' BY <1>1 DEF ListInv, RepliesInOrder
<1> QED BY <1>2 DEF ListInv

\* Players come and go, the cache expires.
LEMMA ListByRoster ==
  ASSUME TypeInv, TypeInv', ListInv,
         \/ Launch \/ Exit \/ Expire
         \/ \E n \in McName : Join(n) \/ Leave(n)
  PROVE  ListInv'
<1>1. roster.changes \in Nat /\ roster'.changes \in Nat /\ newest \in Nat
      /\ unread \in Seq(List)
  <2>1. roster' \in List BY DEF TypeInv, ListTypeOK
  <2> QED BY <2>1, ListNumbers, ListRecord
<1>2. /\ roster'.changes >= roster.changes
      /\ UNCHANGED <<unread, req, newest, crossed>> /\ (cache' = cache \/ cache' = None)
  <2>1. UNCHANGED <<unread, req, newest, crossed>> /\ (cache' = cache \/ cache' = None)
    BY DEF Launch, Exit, Expire, Join, Leave, server, wires, history
  <2>2. \A who : Becomes(who) => roster'.changes = roster.changes + 1
    BY DEF Becomes
  <2>3. roster' = roster \/ \E who : Becomes(who)
    <3>1. CASE Launch BY <3>1 DEF Launch
    <3>2. CASE Expire BY <3>2 DEF Expire, server
    <3>3. CASE Exit
      <4>1. CASE roster.who = {} BY <3>3, <4>1 DEF Exit
      <4>2. CASE roster.who # {} BY <3>3, <4>2 DEF Exit
      <4> QED BY <4>1, <4>2
    <3>4. ASSUME NEW n \in McName, Join(n) \/ Leave(n) PROVE \E who : Becomes(who)
      BY <3>4 DEF Join, Leave
    <3> QED BY <3>1, <3>2, <3>3, <3>4
  <2> QED BY <1>1, <2>1, <2>2, <2>3
<1>3. UpTo(unread, roster'.changes)
  <2>1. ASSUME NEW i \in DOMAIN unread PROVE unread[i].changes <= roster'.changes
    <3>1. unread[i].changes <= roster.changes BY DEF ListInv, RepliesInOrder, UpTo
    <3>2. unread[i] \in List BY <1>1
    <3>3. unread[i].changes \in Nat BY <3>2, ListRecord
    <3> QED BY <1>1, <1>2, <3>1, <3>3
  <2> QED BY <2>1 DEF UpTo
<1>4. ASSUME NEW q \in Request PROVE KnowsFloor(q)'
  <2>1. KnowsFloor(q) BY DEF ListInv, RepliesInOrder
  <2>2. /\ req[q].floor \in Nat /\ req[q].queue \in Seq(List)
        /\ req[q].pc = "fetched" => req[q].list.changes \in Nat
    BY ListNumbers
  <2>3. \A i \in DOMAIN req[q].queue : req[q].queue[i].changes \in Nat
    <3>1. ASSUME NEW i \in DOMAIN req[q].queue PROVE req[q].queue[i] \in List
      BY <2>2
    <3> QED BY <3>1, ListRecord
  <2> QED BY <1>1, <1>2, <2>1, <2>2, <2>3 DEF KnowsFloor
<1>5. RepliesInOrder' BY <1>1, <1>2, <1>3, <1>4 DEF ListInv, RepliesInOrder
<1>6. Fetching' = Fetching BY <1>2 DEF Fetching
<1>7. OneFetches' BY <1>2, <1>6 DEF ListInv, OneFetches
<1> QED BY <1>5, <1>7 DEF ListInv

\* The server answers: with a roster no older than any before.
LEMMA ListByObey ==
  ASSUME TypeInv, ListInv, Obey
  PROVE  ListInv'
<1>1. CASE ~up
  <2>1. UNCHANGED <<roster, unread, cache, newest, crossed, req>>
    BY <1>1 DEF Obey, server, history
  <2> QED BY <2>1, ListByOthers
<1>2. CASE up
  <2>1. unread' = Append(unread, roster) /\ UNCHANGED <<roster, cache, newest, crossed, req>>
    BY <1>2 DEF Obey, server, history
  <2>2. /\ roster \in List /\ unread \in Seq(List) /\ roster.changes \in Nat /\ newest \in Nat
        /\ \A q \in Request : /\ req[q].floor \in Nat /\ req[q].queue \in Seq(List)
                              /\ req[q].pc = "fetched" => req[q].list.changes \in Nat
    BY ListNumbers
  <2>3. /\ \A n \in Nat : (From(unread, n) /\ n <= roster.changes) => From(unread', n)
        /\ InOrder(unread') /\ UpTo(unread', roster.changes)
    BY <2>1, <2>2, ReplyAppended DEF ListInv, RepliesInOrder
  <2>4. ASSUME NEW q \in Request PROVE KnowsFloor(q)'
    <3>1. KnowsFloor(q) BY DEF ListInv, RepliesInOrder
    <3>2. \A i \in DOMAIN req[q].queue : req[q].queue[i].changes \in Nat
      <4>1. ASSUME NEW i \in DOMAIN req[q].queue PROVE req[q].queue[i] \in List
        BY <2>2
      <4> QED BY <4>1, ListRecord
    <3> QED BY <2>1, <2>2, <2>3, <3>1, <3>2 DEF KnowsFloor
  <2>5. RepliesInOrder' BY <2>1, <2>2, <2>3, <2>4 DEF ListInv, RepliesInOrder
  <2>6. Fetching' = Fetching BY <2>1 DEF Fetching
  <2>7. OneFetches' BY <2>1, <2>6 DEF ListInv, OneFetches
  <2> QED BY <2>5, <2>7 DEF ListInv
<1> QED BY <1>1, <1>2

\* A reply is broadcast: it becomes the last in every queue.
LEMMA ListByTail ==
  ASSUME TypeInv, ListInv, TailLine
  PROVE  ListInv'
<1> DEFINE h == Head(unread)
<1>1. /\ unread # <<>> /\ unread' = Tail(unread)
      /\ UNCHANGED <<roster, cache, newest, crossed>>
      /\ req' = [r \in Request |-> IF Subscribed(r)
                                   THEN [req[r] EXCEPT !.queue = Append(@, h)]
                                   ELSE req[r]]
  BY DEF TailLine, server, history
<1>2. /\ unread \in Seq(List) /\ roster.changes \in Nat /\ newest \in Nat
      /\ req \in [Request -> Fetch]
      /\ \A q \in Request : /\ req[q] \in Fetch
                            /\ req[q].floor \in Nat /\ req[q].queue \in Seq(List)
                            /\ req[q].pc = "fetched" => req[q].list.changes \in Nat
  BY ListNumbers
<1>3. /\ h \in List
      /\ \A n \in Nat : From(unread, n) => (From(unread', n) /\ h.changes >= n)
      /\ h.changes <= roster.changes /\ UpTo(unread', roster.changes)
      /\ InOrder(unread') /\ From(unread', h.changes)
  BY <1>1, <1>2, ReplyTaken DEF ListInv, RepliesInOrder
<1>4. ASSUME NEW q \in Request
      PROVE  /\ req'[q].pc = req[q].pc /\ req'[q].floor = req[q].floor
             /\ req'[q].list = req[q].list
             /\ req'[q].queue = req[q].queue
                \/ (Subscribed(q) /\ req'[q].queue = Append(req[q].queue, h))
  BY <1>1, <1>2 DEF Fetch
<1>5. ASSUME NEW q \in Request PROVE KnowsFloor(q)'
  <2>1. KnowsFloor(q) BY DEF ListInv, RepliesInOrder
  <2> DEFINE s == req[q].queue  t == req'[q].queue
  <2>2. s \in Seq(List) /\ req[q].floor \in Nat BY <1>2
  <2>3. t = s \/ t = Append(s, h) BY <1>4
  <2>4. \A i \in DOMAIN t : (i \in DOMAIN s /\ t[i] = s[i]) \/ t[i] = h
    <3>1. CASE t = s BY <3>1
    <3>2. CASE t = Append(s, h) BY <1>3, <2>2, <3>2
    <3> QED BY <2>3, <3>1, <3>2
  <2>5. \A i \in DOMAIN s : s[i].changes \in Nat
    <3>1. ASSUME NEW i \in DOMAIN s PROVE s[i] \in List BY <2>2
    <3> QED BY <3>1, ListRecord
  <2> HIDE DEF s, t
  <2> SUFFICES ASSUME req[q].pc \in {"subscribed", "waiting", "fetched"}
               PROVE  /\ req[q].floor <= roster.changes
                      /\ From(unread', req[q].floor) /\ From(t, req[q].floor)
                      /\ \A i \in DOMAIN t : /\ t[i].changes <= roster.changes
                                             /\ From(unread', t[i].changes)
                      /\ req[q].pc = "fetched" =>
                           /\ req[q].list.changes >= req[q].floor
                           /\ req[q].list.changes <= roster.changes
                           /\ From(unread', req[q].list.changes)
    BY <1>1, <1>4 DEF KnowsFloor, From, t
  <2>6. /\ req[q].floor <= roster.changes
        /\ From(unread, req[q].floor) /\ From(s, req[q].floor)
        /\ \A i \in DOMAIN s : s[i].changes <= roster.changes /\ From(unread, s[i].changes)
        /\ req[q].pc = "fetched" =>
             /\ req[q].list.changes >= req[q].floor /\ req[q].list.changes <= roster.changes
             /\ From(unread, req[q].list.changes)
    BY <2>1 DEF KnowsFloor, s
  <2>7. From(unread', req[q].floor) /\ h.changes >= req[q].floor BY <1>3, <2>2, <2>6
  <2>8. From(t, req[q].floor) BY <2>4, <2>6, <2>7 DEF From
  <2>9. ASSUME NEW i \in DOMAIN t
        PROVE  t[i].changes <= roster.changes /\ From(unread', t[i].changes)
    <3>1. CASE i \in DOMAIN s /\ t[i] = s[i] BY <1>3, <2>5, <2>6, <3>1
    <3>2. CASE t[i] = h BY <1>3, <3>2
    <3> QED BY <2>4, <3>1, <3>2
  <2> QED BY <1>2, <1>3, <2>6, <2>7, <2>8, <2>9
<1>6. RepliesInOrder' BY <1>1, <1>2, <1>3, <1>5 DEF ListInv, RepliesInOrder
<1>7. Fetching' = Fetching BY <1>4 DEF Fetching
<1>8. OneFetches'
  <2>1. \A q \in Fetching : req'[q].floor = req[q].floor BY <1>4 DEF Fetching
  <2> QED BY <1>1, <1>7, <2>1 DEF ListInv, OneFetches
<1> QED BY <1>6, <1>8 DEF ListInv

\* A request asks the cache.
LEMMA ListByCached ==
  ASSUME TypeInv, ListInv, NEW r \in Request, GetCached(r)
  PROVE  ListInv'
<1>1. /\ req[r].pc = "idle" /\ cache # None
      /\ UNCHANGED <<roster, unread, cache, crossed>>
      /\ newest' = Later(newest, cache.changes)
      /\ req' = [req EXCEPT ![r] = [Idle EXCEPT !.pc = "answered", !.list = cache]]
  BY DEF GetCached, server, wires
<1>2. newest \in Nat /\ cache.changes \in Nat /\ req \in [Request -> Fetch]
  BY <1>1, ListNumbers
<1>3. cache.changes <= newest BY <1>1 DEF ListInv, RepliesInOrder
<1>4. newest' = newest BY <1>1, <1>2, <1>3 DEF Later
<1>5. req'[r].pc = "answered" /\ \A q \in Request \ {r} : req'[q] = req[q]
  BY <1>1, <1>2 DEF Idle
<1> QED BY <1>1, <1>4, <1>5, ListByOthers

\* A fetch begins: with nothing on its way, or with what is on its way no older
\* than what has been told.
LEMMA ListBySubscribe ==
  ASSUME TypeInv, ListInv, NEW r \in Request, Subscribe(r)
  PROVE  ListInv'
<1>1. /\ cache = None /\ UNCHANGED <<roster, unread, cache, newest>>
      /\ crossed' = (crossed \/ Fetching # {})
      /\ req' = [req EXCEPT ![r] = [Idle EXCEPT !.pc = "subscribed", !.queue = <<>>,
                                                !.floor = Floor]]
  BY DEF Subscribe, BeginFetch, server, wires
<1>2. newest \in Nat /\ roster.changes \in Nat /\ req \in [Request -> Fetch] /\ crossed \in BOOLEAN
  BY ListNumbers DEF TypeInv, ListTypeOK
<1>3. /\ req'[r].pc = "subscribed" /\ req'[r].queue = <<>> /\ req'[r].floor = Floor
      /\ \A q \in Request \ {r} : req'[q] = req[q]
  BY <1>1, <1>2 DEF Idle
<1>4. Floor <= roster.changes /\ From(unread, Floor) /\ newest <= Floor
  <2>1. newest <= roster.changes /\ From(unread, newest) BY DEF ListInv, RepliesInOrder
  <2>2. CASE Quiet
    <3>1. unread = <<>> /\ Floor = roster.changes BY <2>2 DEF Quiet, Floor
    <3> QED BY <1>2, <2>1, <3>1 DEF From
  <2>3. CASE ~Quiet
    <3>1. Floor = newest BY <2>3 DEF Floor
    <3> QED BY <1>2, <2>1, <3>1
  <2> QED BY <2>2, <2>3
<1>5. KnowsFloor(r)'
  <2>1. From(<<>>, Floor) BY DEF From
  <2> HIDE DEF Floor
  <2> QED BY <1>1, <1>3, <1>4, <2>1 DEF KnowsFloor, From
<1>6. OneFetches'
  <2> SUFFICES ASSUME ~crossed'
               PROVE  /\ \A p, q \in Fetching' : p = q
                      /\ \A q \in Fetching' : cache' = None /\ newest' <= req'[q].floor
                      /\ cache' = None
    BY DEF OneFetches
  <2>1. Fetching = {} BY <1>1
  <2>2. Fetching' \subseteq {r}
    <3>1. ASSUME NEW q \in Fetching', q # r PROVE FALSE
      <4>1. q \in Fetching BY <1>3, <3>1 DEF Fetching
      <4> QED BY <2>1, <4>1
    <3> QED BY <3>1
  <2> QED BY <1>1, <1>3, <1>4, <2>2
<1>7. newest' <= roster.changes /\ From(unread, newest') BY <1>1 DEF ListInv, RepliesInOrder
<1> QED BY <1>1, <1>3, <1>5, <1>6, <1>7, ListByOne

\* The command is sent, and a reply taken.
LEMMA ListByReply ==
  ASSUME TypeInv, ListInv, NEW r \in Request, SendList(r) \/ TakeReply(r)
  PROVE  ListInv'
<1>1. UNCHANGED <<roster, unread, cache, newest, crossed>>
  BY DEF SendList, TakeReply, allButReq, server, wires, history
<1>2. req \in [Request -> Fetch] /\ req[r] \in Fetch /\ req[r].queue \in Seq(List)
  BY ListNumbers
<1>3. KnowsFloor(r) /\ req[r].pc \in {"subscribed", "waiting"}
  BY DEF ListInv, RepliesInOrder, SendList, TakeReply
<1>4. /\ req'[r].pc \in {"waiting", "fetched"} /\ req'[r].floor = req[r].floor
      /\ \A q \in Request \ {r} : req'[q] = req[q]
      /\ \/ /\ req'[r].pc = "waiting" /\ req'[r].queue = req[r].queue
         \/ /\ req'[r].queue = <<>> /\ req[r].queue # <<>>
            /\ req'[r].list = Head(req[r].queue)
  <2>1. CASE SendList(r)
    <3>1. req' = [req EXCEPT ![r].pc = "waiting"] BY <2>1 DEF SendList, Goto
    <3> QED BY <1>2, <3>1 DEF Fetch
  <2>2. CASE TakeReply(r)
    <3>1. /\ req[r].queue # <<>>
          /\ req' = [req EXCEPT ![r].pc = "fetched", ![r].queue = <<>>,
                                ![r].list = Head(req[r].queue)]
      BY <2>2 DEF TakeReply
    <3> QED BY <1>2, <3>1 DEF Fetch
  <2> QED BY <2>1, <2>2
<1>5. KnowsFloor(r)'
  <2> DEFINE s == req[r].queue
  <2>1. /\ req[r].floor <= roster.changes
        /\ From(unread, req[r].floor) /\ From(s, req[r].floor)
        /\ \A i \in DOMAIN s : s[i].changes <= roster.changes /\ From(unread, s[i].changes)
    BY <1>3 DEF KnowsFloor
  <2>2. CASE req'[r].pc = "waiting" /\ req'[r].queue = s
    BY <1>1, <1>4, <2>1, <2>2 DEF KnowsFloor, From
  <2>3. CASE req'[r].queue = <<>> /\ s # <<>> /\ req'[r].list = Head(s)
    <3>1. 1 \in DOMAIN s /\ Head(s) = s[1] BY <1>2, <2>3
    <3>2. /\ Head(s).changes >= req[r].floor /\ Head(s).changes <= roster.changes
          /\ From(unread, Head(s).changes)
      BY <2>1, <3>1 DEF From
    <3>3. From(<<>>, req[r].floor) BY DEF From
    <3> HIDE DEF s
    <3> QED BY <1>1, <1>4, <2>1, <2>3, <3>2, <3>3 DEF KnowsFloor, From
  <2> QED BY <1>4, <2>2, <2>3
<1>6. Fetching' = Fetching BY <1>3, <1>4 DEF Fetching
<1>7. OneFetches'
  <2>1. \A q \in Request : req'[q].floor = req[q].floor BY <1>4
  <2> QED BY <1>1, <1>6, <2>1 DEF ListInv, OneFetches, Fetching
<1>8. /\ newest' <= roster.changes /\ From(unread, newest')
      /\ cache' # None => cache'.changes <= newest'
  BY <1>1 DEF ListInv, RepliesInOrder
<1> QED BY <1>1, <1>4, <1>5, <1>7, <1>8, ListByOne

\* The list goes into the cache.
LEMMA ListByStore ==
  ASSUME TypeInv, ListInv, NEW r \in Request, Store(r)
  PROVE  ListInv'
<1> DEFINE n == req[r].list.changes
<1>1. /\ req[r].pc = "fetched" /\ cache' = req[r].list
      /\ UNCHANGED <<roster, unread, crossed>>
      /\ newest' = Later(newest, n)
      /\ req' = [req EXCEPT ![r].pc = "answered"]
  BY DEF Store, Goto, server, wires
<1>2. /\ newest \in Nat /\ roster.changes \in Nat /\ n \in Nat
      /\ req \in [Request -> Fetch] /\ req[r].floor \in Nat
  BY <1>1, ListNumbers
<1>3. /\ n >= req[r].floor /\ n <= roster.changes /\ From(unread, n)
      /\ newest <= roster.changes /\ From(unread, newest)
  BY <1>1 DEF ListInv, RepliesInOrder, KnowsFloor
<1>4. req'[r].pc = "answered" /\ \A q \in Request \ {r} : req'[q] = req[q]
  BY <1>1, <1>2 DEF Fetch
<1>5. newest' \in {newest, n} /\ n <= newest' BY <1>1, <1>2 DEF Later
<1>6. newest' <= roster.changes /\ From(unread, newest') BY <1>3, <1>5
<1>7. KnowsFloor(r)' BY <1>4 DEF KnowsFloor
<1>8. OneFetches'
  <2> SUFFICES ASSUME ~crossed'
               PROVE  /\ \A p, q \in Fetching' : p = q
                      /\ \A q \in Fetching' : cache' = None /\ newest' <= req'[q].floor
                      /\ cache'.changes >= newest'
    BY DEF OneFetches
  <2>1. r \in Fetching BY <1>1 DEF Fetching
  <2>2. (\A q \in Fetching : q = r) /\ newest <= req[r].floor
    BY <1>1, <2>1 DEF ListInv, OneFetches
  <2>3. Fetching' = {}
    <3>1. ASSUME NEW q \in Fetching' PROVE FALSE
      <4>1. q # r BY <1>4, <3>1 DEF Fetching
      <4>2. q \in Fetching BY <1>4, <3>1, <4>1 DEF Fetching
      <4> QED BY <2>2, <4>1, <4>2
    <3> QED BY <3>1
  <2>4. newest' = n BY <1>1, <1>2, <1>3, <2>2 DEF Later
  <2> QED BY <1>1, <1>2, <2>3, <2>4
<1>9. cache'.changes <= newest' BY <1>1, <1>5
<1> QED BY <1>1, <1>4, <1>6, <1>7, <1>8, <1>9, ListByOne

\* What a request of McLink does, or one that gives up
LEMMA ListByLink ==
  ASSUME TypeInv, ListInv, NEW r \in Request,
         \/ SendListFails(r) \/ GiveUp(r) \/ UseList(r)
         \/ \E u \in User, n \in McName, c \in Code : IssueCode(r, u, n, c)
         \/ SendCode(r) \/ SendCodeFails(r)
         \/ \E u \in User, c \in Code : BeginVerify(r, u, c)
         \/ SaveLink(r) \/ SaveLinkFails(r)
         \/ DropCode(r) \/ DropCodeFails(r)
  PROVE  ListInv'
<1>1. UNCHANGED <<roster, unread, cache, newest, crossed>>
  BY DEF SendListFails, GiveUp, UseList, IssueCode, SendCode, SendCodeFails,
         BeginVerify, SaveLink, SaveLinkFails, DropCode, DropCodeFails,
         allButReq, server, wires, history
<1>2. ReqOK /\ req \in [Request -> Fetch] BY ListNumbers DEF TypeInv, ListTypeOK
<1>3. CASE Done(r)
  <2>1. req' = [req EXCEPT ![r] = Idle] BY <1>3 DEF Done
  <2>2. req'[r].pc = "idle" /\ \A q \in Request \ {r} : req'[q] = req[q]
    BY <1>2, <2>1, IdleTyped
  <2> QED BY <1>1, <2>2, ListByOthers
<1>4. ASSUME NEW pc \in {"issued", "matched", "saved"}, Goto(r, pc) PROVE ListInv'
  <2>1. req'[r].pc = pc /\ \A q \in Request \ {r} : req'[q] = req[q]
    BY <1>2, <1>4, GotoOnly DEF Label
  <2> QED BY <1>1, <1>4, <2>1, ListByOthers
<1>5. \/ Done(r) \/ Goto(r, "issued") \/ Goto(r, "matched") \/ Goto(r, "saved")
  BY DEF SendListFails, GiveUp, UseList, IssueCode, SendCode, SendCodeFails,
         BeginVerify, SaveLink, SaveLinkFails, DropCode, DropCodeFails, EndJob
<1> QED BY <1>3, <1>4, <1>5

\* ListInv is inductive relative to the types.
LEMMA ListStep ==
  ASSUME TypeInv, TypeInv', ListInv, [Next]_vars
  PROVE  ListInv'
<1>1. CASE ListNext
  BY <1>1, ListByRoster, ListByObey, ListByTail, ListByCached, ListBySubscribe,
     ListByReply, ListByStore, ListByLink
  DEF ListNext
<1>2. CASE Tell \/ (\E u \in User : ExpireCode(u) \/ Unlink(u)) \/ UNCHANGED vars
  <2>1. UNCHANGED <<roster, unread, cache, newest, crossed, req>>
    BY <1>2 DEF Tell, ExpireCode, Unlink, vars, listVars, allButReq, server, wires, history
  <2> QED BY <2>1, ListByOthers
<1>3. ASSUME NEW r \in Request,
             \/ \E u \in User, n \in McName, c \in Code : IssueCode(r, u, n, c)
             \/ SendCode(r) \/ SendCodeFails(r)
             \/ \E u \in User, c \in Code : BeginVerify(r, u, c)
             \/ SaveLink(r) \/ SaveLinkFails(r)
             \/ DropCode(r) \/ DropCodeFails(r)
      PROVE  ListInv'
  BY <1>3, ListByLink
<1> QED BY <1>1, <1>2, <1>3 DEF Next

\* The list of the players online never goes back in time, for any number of
\* requests that fetch it, give up, or take one another's reply; out of the
\* cache, until two fetches have crossed.
THEOREM ListOnlyAdvances == Spec => ListNeverGoesBack
<1>1. ASSUME Init PROVE ListInv
  <2>1. /\ unread = <<>> /\ roster.changes = 0 /\ newest = 0 /\ cache = None
        /\ \A q \in Request : req[q].pc = "idle"
    BY <1>1, IdleTyped DEF Init, ListInit, Nobody
  <2>2. \A n : From(<<>>, n) /\ UpTo(<<>>, n) /\ InOrder(<<>>) BY DEF From, UpTo, InOrder
  <2>3. \A q \in Request : KnowsFloor(q) BY <2>1 DEF KnowsFloor
  <2>4. Fetching = {} BY <2>1 DEF Fetching
  <2> QED BY <2>1, <2>2, <2>3, <2>4 DEF ListInv, RepliesInOrder, OneFetches
<1>2. TypeInv /\ TypeInv' /\ ListInv /\ [Next]_vars => ListInv' BY ListStep
<1>3. ASSUME ListInv, NEW r \in Request
      PROVE  /\ Store(r) => req[r].list.changes >= req[r].floor
             /\ GetCached(r) /\ ~crossed => cache.changes >= newest
  BY <1>3 DEF ListInv, RepliesInOrder, KnowsFloor, OneFetches, Store, GetCached
<1>4. ListInv => \A r \in Request :
                   /\ Store(r) => req[r].list.changes >= req[r].floor
                   /\ GetCached(r) /\ ~crossed => cache.changes >= newest
  BY <1>3
<1> QED BY <1>1, <1>2, <1>4, TypeInit, TypeStep, PTL DEF Spec, ListNeverGoesBack
=============================================================================
