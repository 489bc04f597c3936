------------------------------ MODULE Accounts ------------------------------
(***************************************************************************)
(* services/users.go and services/auth.go: registration by invitation,     *)
(* password change, and password reset by mailed token.  Each request is   *)
(* a goroutine; between its statements it hashes a password with bcrypt,   *)
(* which takes a good part of a second, and other requests run.  SQLite    *)
(* makes one statement, or one transaction, atomic.                        *)
(***************************************************************************)
EXTENDS Naturals

CONSTANTS Request,   \* request goroutines
          Name,      \* usernames; accounts are never deleted
          Token,     \* invitation tokens
          Key,       \* reset tokens
          Password,
          None       \* no account, no password, no token

ASSUME NoneAssumption == None \notin Password \cup Name \cup Token \cup Key

VARIABLES
  invitations,  \* state of each row of the invitations table
  users,        \* password_hash of each account, None when there is none
  resets,       \* state and owner of each row of reset_password
  req,          \* what each request goroutine is doing
  created,      \* history: accounts created with each invitation
  raced,        \* history: invitations two requests held at once, or whose
                \* request failed between creating the account and marking
  applied,      \* history: times each reset token set a password
  newest        \* history: the last reset token issued for each account

tables == <<invitations, users, resets>>
history == <<created, raced, applied, newest>>
vars == <<tables, req, history>>

Idle == [pc |-> "idle", name |-> None, token |-> None, key |-> None,
         old |-> None, new |-> None]

Label == {"idle",
          "validated",  \* Register, next: InsertUser
          "inserted",   \* Register, next: MarkUsed
          "resetting",  \* ResetPassword, next: CommitReset, RejectReset
          "changing"}   \* ChangePassword, next: CommitChange

RowState == {"absent", "live", "used", "expired"}

TypeOK ==
  /\ invitations \in [Token -> RowState]
  /\ users \in [Name -> Password \cup {None}]
  /\ resets \in [Key -> [state : RowState, user : Name \cup {None}]]
  /\ req \in [Request -> [pc : Label, name : Name \cup {None},
                          token : Token \cup {None}, key : Key \cup {None},
                          old : Password \cup {None}, new : Password \cup {None}]]
  /\ created \in [Token -> Nat]
  /\ raced \subseteq Token
  /\ applied \in [Key -> Nat]
  /\ newest \in [Name -> Key \cup {None}]

Init ==
  /\ invitations = [t \in Token |-> "absent"]
  /\ users = [n \in Name |-> None]
  /\ resets = [k \in Key |-> [state |-> "absent", user |-> None]]
  /\ req = [r \in Request |-> Idle]
  /\ created = [t \in Token |-> 0]
  /\ raced = {}
  /\ applied = [k \in Key |-> 0]
  /\ newest = [n \in Name |-> None]

Done(r) == req' = [req EXCEPT ![r] = Idle]

-----------------------------------------------------------------------------
(* Invitations and registration *)

CreateInvitation(t) ==
  /\ invitations[t] = "absent"
  /\ invitations' = [invitations EXCEPT ![t] = "live"]
  /\ UNCHANGED <<users, resets, req, history>>

\* 24 hours pass
ExpireInvitation(t) ==
  /\ invitations[t] = "live"
  /\ invitations' = [invitations EXCEPT ![t] = "expired"]
  /\ UNCHANGED <<users, resets, req, history>>

\* Mutant of BeginRegister: a used invitation is still accepted.
BeginRegisterUnchecked(r, n, t, p) ==
  /\ req[r].pc = "idle"
  /\ invitations[t] \in {"live", "used"}
  /\ req' = [req EXCEPT ![r] = [Idle EXCEPT !.pc = "validated", !.name = n,
                                            !.token = t, !.new = p]]
  /\ raced' = raced \cup {u \in {t} : \E q \in Request \ {r} : req[q].token = u}
  /\ UNCHANGED <<tables, created, applied, newest>>

\* ValidateInvitation, then bcrypt
BeginRegister(r, n, t, p) ==
  /\ req[r].pc = "idle"
  /\ invitations[t] = "live"
  /\ req' = [req EXCEPT ![r] = [Idle EXCEPT !.pc = "validated", !.name = n,
                                            !.token = t, !.new = p]]
  /\ raced' = raced \cup {u \in {t} : \E q \in Request \ {r} : req[q].token = u}
  /\ UNCHANGED <<tables, created, applied, newest>>

InsertUser(r) ==
  /\ req[r].pc = "validated"
  /\ users[req[r].name] = None
  /\ users' = [users EXCEPT ![req[r].name] = req[r].new]
  /\ req' = [req EXCEPT ![r].pc = "inserted"]
  /\ created' = [created EXCEPT ![req[r].token] = @ + 1]
  /\ UNCHANGED <<invitations, resets, raced, applied, newest>>

\* The UNIQUE constraint on the username
NameTaken(r) ==
  /\ req[r].pc = "validated"
  /\ users[req[r].name] # None
  /\ Done(r)
  /\ UNCHANGED <<tables, history>>

\* UPDATE invitations ... WHERE token = ?, whatever the row says by now
MarkUsed(r) ==
  /\ req[r].pc = "inserted"
  /\ invitations' = [invitations EXCEPT ![req[r].token] = "used"]
  /\ Done(r)
  /\ UNCHANGED <<users, resets, history>>

-----------------------------------------------------------------------------
(* Password reset and change *)

\* One transaction: retire the account's unused tokens and insert a new one.
Retired(n) ==
  [k \in Key |-> IF resets[k].user = n /\ resets[k].state \in {"live", "expired"}
                 THEN [resets[k] EXCEPT !.state = "used"] ELSE resets[k]]

\* Mutant of ForgotPassword: earlier tokens stay good.
ForgotPasswordKeeping(n, k) ==
  /\ users[n] # None
  /\ resets[k].state = "absent"
  /\ resets' = [resets EXCEPT ![k] = [state |-> "live", user |-> n]]
  /\ newest' = [newest EXCEPT ![n] = k]
  /\ UNCHANGED <<invitations, users, req, created, raced, applied>>

ForgotPassword(n, k) ==
  /\ users[n] # None
  /\ resets[k].state = "absent"
  /\ resets' = [Retired(n) EXCEPT ![k] = [state |-> "live", user |-> n]]
  /\ newest' = [newest EXCEPT ![n] = k]
  /\ UNCHANGED <<invitations, users, req, created, raced, applied>>

\* 15 minutes pass
ExpireReset(k) ==
  /\ resets[k].state = "live"
  /\ resets' = [resets EXCEPT ![k].state = "expired"]
  /\ UNCHANGED <<invitations, users, req, history>>

\* The lookup outside the transaction, then bcrypt
BeginReset(r, k, p) ==
  /\ req[r].pc = "idle"
  /\ resets[k].state = "live"
  /\ req' = [req EXCEPT ![r] = [Idle EXCEPT !.pc = "resetting", !.key = k,
                                            !.name = resets[k].user, !.new = p]]
  /\ UNCHANGED <<tables, history>>

\* Mutant of CommitReset: the transaction trusts the lookup before bcrypt.
CommitResetBlindly(r) ==
  /\ req[r].pc = "resetting"
  /\ users' = [users EXCEPT ![req[r].name] = req[r].new]
  /\ resets' = Retired(req[r].name)
  /\ applied' = [applied EXCEPT ![req[r].key] = @ + 1]
  /\ Done(r)
  /\ UNCHANGED <<invitations, created, raced, newest>>

\* The transaction: its first UPDATE must still find the token live.
CommitReset(r) ==
  /\ req[r].pc = "resetting"
  /\ resets[req[r].key].state = "live"
  /\ users' = [users EXCEPT ![req[r].name] = req[r].new]
  /\ resets' = Retired(req[r].name)
  /\ applied' = [applied EXCEPT ![req[r].key] = @ + 1]
  /\ Done(r)
  /\ UNCHANGED <<invitations, created, raced, newest>>

RejectReset(r) ==
  /\ req[r].pc = "resetting"
  /\ resets[req[r].key].state # "live"
  /\ Done(r)
  /\ UNCHANGED <<tables, history>>

\* The current password is compared with the hash read here ...
BeginChange(r, n, p) ==
  /\ req[r].pc = "idle"
  /\ users[n] # None
  /\ req' = [req EXCEPT ![r] = [Idle EXCEPT !.pc = "changing", !.name = n,
                                            !.old = users[n], !.new = p]]
  /\ UNCHANGED <<tables, history>>

\* ... and the new hash is written whatever the row holds by now.
CommitChange(r) ==
  /\ req[r].pc = "changing"
  /\ users' = [users EXCEPT ![req[r].name] = req[r].new]
  /\ Done(r)
  /\ UNCHANGED <<invitations, resets, history>>

\* A statement or transaction fails (SQLITE_BUSY, disk full, client gone), or
\* the process dies: the statements already done stay done.
Fail(r) ==
  /\ req[r].pc # "idle"
  /\ raced' = raced \cup {t \in {req[r].token} : req[r].pc = "inserted"}
  /\ Done(r)
  /\ UNCHANGED <<tables, created, applied, newest>>

Next ==
  \/ \E t \in Token : CreateInvitation(t) \/ ExpireInvitation(t)
  \/ \E n \in Name, k \in Key : ForgotPassword(n, k)
  \/ \E k \in Key : ExpireReset(k)
  \/ \E r \in Request :
       \/ \E n \in Name, t \in Token, p \in Password : BeginRegister(r, n, t, p)
       \/ InsertUser(r) \/ NameTaken(r) \/ MarkUsed(r)
       \/ \E k \in Key, p \in Password : BeginReset(r, k, p)
       \/ CommitReset(r) \/ RejectReset(r)
       \/ \E n \in Name, p \in Password : BeginChange(r, n, p)
       \/ CommitChange(r)
       \/ Fail(r)

Spec == Init /\ [][Next]_vars

-----------------------------------------------------------------------------
\* Of the reset tokens of an account only the last one mailed can be live.
OnlyNewestLive ==
  \A k \in Key : resets[k].state = "live" => newest[resets[k].user] = k

\* A reset token sets a password at most once, however many requests carry it.
ResetOnce == \A k \in Key : applied[k] <= 1

\* A reset token that has set a password is spent.
AppliedIsUsed == \A k \in Key : applied[k] > 0 => resets[k].state = "used"

\* A password set by a reset comes from the token mailed last, also when a
\* newer token was mailed while the request was hashing.
ResetByNewest ==
  [][\A r \in Request : CommitReset(r) => newest[req[r].name] = req[r].key]_vars

\* INVITATION_AUTH.md:69: invitations "are single-use".  They are when requests
\* use one after another and none fails once it has created the account; then
\* an invitation makes one account.
InvitationOnceUnlessRaced ==
  \A t \in Token : t \notin raced => created[t] <= 1
=============================================================================
