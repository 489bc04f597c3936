------------------------------- MODULE McLink -------------------------------
(***************************************************************************)
(* handlers/mclink.go: an account is linked to a Minecraft name by a code  *)
(* that is shown to that player in the game and typed in on the website.   *)
(* Who is online comes from PlayerList, the code goes out by the console.  *)
(*                                                                         *)
(* A statement is atomic, a handler is not.  Codes are not guessed: one    *)
(* that is typed in has been shown in the game.                            *)
(***************************************************************************)
EXTENDS PlayerList

CONSTANTS User, Code

ASSUME NoneAssumption ==
  None \notin User \cup McName \cup Code \cup List \cup [user : User, name : McName]
ASSUME BoundAssumption == MaxChanges \in Nat /\ MaxAsked \in Nat

VARIABLES
  codes,   \* mc_link_codes: the row of each user, or NoRow
  links,   \* minecraft_links.mc_username of each user, or None
  job,     \* what each request knows of the link it is making
  shown,   \* codes shown in the game, each with the player who saw it
  issued,  \* history: the user and the name each code was made for
  uses,    \* history: links saved with each code, 2 for more than one
  raced    \* history: codes that two requests verified at once, or whose row
           \* could not be deleted

linkVars == <<codes, links, job, shown, issued, uses, raced>>
vars == <<listVars, linkVars>>

\* A row that has expired is as good as none.
Row == [name : McName, code : Code]
NoRow == [name |-> None, code |-> None]

NoJob == [user |-> None, name |-> None, code |-> None]

Command == {<<"list">>} \cup ({"tell"} \X McName \X Code)

TypeOK ==
  /\ up \in BOOLEAN /\ roster \in List
  /\ console \in Seq(Command)
  /\ unread \in Seq(List) /\ ring \in List \cup {None}
  /\ cache \in List \cup {None}
  /\ req \in [Request -> [pc : Label, queue : Seq(List), list : List \cup {None},
                          floor : 0 .. MaxChanges]]
  /\ asked \in 0 .. MaxAsked
  /\ newest \in 0 .. MaxChanges /\ crossed \in BOOLEAN
  /\ codes \in [User -> Row \cup {NoRow}]
  /\ links \in [User -> McName \cup {None}]
  /\ job \in [Request -> [user : User \cup {None}, name : McName \cup {None},
                          code : Code \cup {None}]]
  /\ shown \subseteq McName \X Code
  /\ issued \in [Code -> [user : User, name : McName] \cup {None}]
  /\ uses \in [Code -> 0 .. 2]
  /\ raced \subseteq Code

Init ==
  /\ ListInit
  /\ codes = [u \in User |-> NoRow]
  /\ links = [u \in User |-> None]
  /\ job = [r \in Request |-> NoJob]
  /\ shown = {}
  /\ issued = [c \in Code |-> None]
  /\ uses = [c \in Code |-> 0]
  /\ raced = {}

EndJob(r) == Done(r) /\ job' = [job EXCEPT ![r] = NoJob]

-----------------------------------------------------------------------------
\* The upsert replaces an earlier code of the user, used or not.
IssueCode(r, u, n, c) ==
  /\ req[r].pc = "answered"
  /\ n \in req[r].list.who
  /\ issued[c] = None
  /\ codes' = [codes EXCEPT ![u] = [name |-> n, code |-> c]]
  /\ job' = [job EXCEPT ![r] = [user |-> u, name |-> n, code |-> c]]
  /\ issued' = [issued EXCEPT ![c] = [user |-> u, name |-> n]]
  /\ Goto(r, "issued")
  /\ UNCHANGED <<allButReq, links, shown, uses, raced>>

SendCode(r) ==
  /\ req[r].pc = "issued"
  /\ console' = Append(console, <<"tell", job[r].name, job[r].code>>)
  /\ EndJob(r)
  /\ UNCHANGED <<server, unread, ring, cache, asked, history,
                 codes, links, shown, issued, uses, raced>>

\* The row stays.
SendCodeFails(r) ==
  /\ req[r].pc = "issued"
  /\ EndJob(r)
  /\ UNCHANGED <<allButReq, codes, links, shown, issued, uses, raced>>

\* tellraw reaches nobody but the player it names, if online.
Tell ==
  /\ ReadConsole
  /\ Head(console)[1] = "tell"
  /\ LET n == Head(console)[2]  c == Head(console)[3]
     IN shown' = IF up /\ n \in roster.who THEN shown \cup {<<n, c>>} ELSE shown
  /\ UNCHANGED <<server, unread, ring, cache, req, asked, history,
                 codes, links, job, issued, uses, raced>>

\* Ten minutes pass.
ExpireCode(u) ==
  /\ codes[u] # NoRow
  /\ codes' = [codes EXCEPT ![u] = NoRow]
  /\ UNCHANGED <<listVars, links, job, shown, issued, uses, raced>>

Verifying(c) == {r \in Request : req[r].pc \in {"matched", "saved"} /\ job[r].code = c}

\* One SELECT reads the code together with the name it is for.
BeginVerify(r, u, c) ==
  /\ req[r].pc = "idle"
  /\ codes[u].code = c
  /\ \E n \in McName : <<n, c>> \in shown
  /\ job' = [job EXCEPT ![r] = [user |-> u, name |-> codes[u].name, code |-> c]]
  /\ Goto(r, "matched")
  /\ raced' = raced \cup {d \in {c} : Verifying(d) # {}}
  /\ UNCHANGED <<allButReq, codes, links, shown, issued, uses>>

\* Mutant of SaveLink: the link is saved for the name in the row by now.
SaveLinkReread(r) ==
  /\ req[r].pc = "matched"
  /\ links' = [links EXCEPT ![job[r].user] = codes[job[r].user].name]
  /\ uses' = [uses EXCEPT ![job[r].code] = IF @ = 0 THEN 1 ELSE 2]
  /\ Goto(r, "saved")
  /\ UNCHANGED <<allButReq, codes, job, shown, issued, raced>>

SaveLink(r) ==
  /\ req[r].pc = "matched"
  /\ links' = [links EXCEPT ![job[r].user] = job[r].name]
  /\ uses' = [uses EXCEPT ![job[r].code] = IF @ = 0 THEN 1 ELSE 2]
  /\ Goto(r, "saved")
  /\ UNCHANGED <<allButReq, codes, job, shown, issued, raced>>

SaveLinkFails(r) ==
  /\ req[r].pc = "matched"
  /\ EndJob(r)
  /\ UNCHANGED <<allButReq, codes, links, shown, issued, uses, raced>>

\* Mutant of DropCode: the code stays good until it expires.
DropCodeNever(r) ==
  /\ req[r].pc = "saved"
  /\ EndJob(r)
  /\ UNCHANGED <<allButReq, codes, links, shown, issued, uses, raced>>

\* DELETE ... WHERE user_id = ?, whatever code the row holds by now
DropCode(r) ==
  /\ req[r].pc = "saved"
  /\ codes' = [codes EXCEPT ![job[r].user] = NoRow]
  /\ EndJob(r)
  /\ UNCHANGED <<allButReq, links, shown, issued, uses, raced>>

\* Its error is ignored; or the process ends before.
DropCodeFails(r) ==
  /\ req[r].pc = "saved"
  /\ EndJob(r)
  /\ raced' = raced \cup {job[r].code}
  /\ UNCHANGED <<allButReq, codes, links, shown, issued, uses>>

Unlink(u) ==
  /\ links[u] # None
  /\ links' = [links EXCEPT ![u] = None]
  /\ UNCHANGED <<listVars, codes, job, shown, issued, uses, raced>>

Next ==
  \/ ListNext /\ UNCHANGED linkVars
  \/ \E r \in Request :
       \/ \E u \in User, n \in McName, c \in Code : IssueCode(r, u, n, c)
       \/ SendCode(r) \/ SendCodeFails(r)
       \/ \E u \in User, c \in Code : BeginVerify(r, u, c)
       \/ SaveLink(r) \/ SaveLinkFails(r)
       \/ DropCode(r) \/ DropCodeFails(r)
  \/ Tell
  \/ \E u \in User : ExpireCode(u) \/ Unlink(u)

Spec == Init /\ [][Next]_vars

-----------------------------------------------------------------------------
\* mclink.go:62: an account "can only be linked to a Minecraft account someone
\* can actually play as": a code made for this user and that name was shown to
\* the player of that name, also when the user starts anew with another name
\* while a code is being verified.
LinkIsProven ==
  \A u \in User : links[u] # None =>
    \E c \in Code : issued[c] = [user |-> u, name |-> links[u]] /\ <<links[u], c>> \in shown

\* mclink.go:62: the code is "one-time". It makes one link, unless two requests
\* verify it at once or the row outlives the link.
CodeOnceUnlessRaced == \A c \in Code : c \notin raced => uses[c] <= 1
=============================================================================
