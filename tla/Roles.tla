-------------------------------- MODULE Roles --------------------------------
(***************************************************************************)
(* Role assignment: handlers/roles.go over services/permissions.go, and    *)
(* the boot-time assignments of services/seed.go.  Of the permissions only *)
(* admin.manage_roles is kept, the one that guards these handlers; a role  *)
(* grants it (Owner, Admin) or does not (Viewer stands for the others).    *)
(* Every handler reads in one statement and writes in a later one.         *)
(***************************************************************************)
EXTENDS Naturals, Sequences

CONSTANTS User, Change

Unset == "none"   \* no row, nobody

Role == {"Owner", "Admin", "Viewer"}
Managing == {"Owner", "Admin"}      \* roles whose defaults hold the permission
Override == {"default", "granted", "denied"}

VARIABLES
  accounts,   \* users in order of registration
  role,       \* user_roles.role_id, Unset without a row
  override,   \* user_roles.overrides for admin.manage_roles
  changes,        \* what each request goroutine is doing
  overlapped,      \* history: two requests were in progress at once
  managed,    \* history: somebody has held the permission
  decidedFor  \* history: the role an override was decided for

rolesVars == <<accounts, role, override, changes, overlapped, managed, decidedFor>>

NoChange == [pc |-> "idle", caller |-> Unset, target |-> Unset, role |-> Unset,
         override |-> "default", saw |-> Unset]

ChangeLabel == {"idle",
          "setRole",    \* admitted, next: SetUserRole
          "override",   \* admitted, next: LookAtTarget
          "decided"}    \* next: SetUserOverrides

RolesTypeOK ==
  /\ accounts \in Seq(User)
  /\ role \in [User -> Role \cup {Unset}]
  /\ override \in [User -> Override]
  /\ changes \in [Change -> [pc : ChangeLabel, caller : User \cup {Unset},
                          target : User \cup {Unset}, role : Role \cup {Unset},
                          override : Override, saw : Role \cup {Unset}]]
  /\ overlapped \in BOOLEAN /\ managed \in BOOLEAN
  /\ decidedFor \in [User -> Role \cup {Unset}]

RolesInit ==
  /\ accounts = <<>>
  /\ role = [u \in User |-> Unset]
  /\ override = [u \in User |-> "default"]
  /\ changes = [r \in Change |-> NoChange]
  /\ overlapped = FALSE
  /\ managed = FALSE
  /\ decidedFor = [u \in User |-> Unset]

Registered == {accounts[i] : i \in 1 .. Len(accounts)}

\* EffectivePermissions and HasPermission: overrides on top of the role's
\* defaults, and nothing without a role.
Grants(ro, ov) == ro # Unset /\ (ov = "granted" \/ (ov = "default" /\ ro \in Managing))
Manages(u) == Grants(role[u], override[u])

Busy == {r \in Change : changes[r].pc # "idle"}

EndChange(r) == changes' = [changes EXCEPT ![r] = NoChange]

-----------------------------------------------------------------------------
Register(u) ==
  /\ u \notin Registered
  /\ accounts' = Append(accounts, u)
  /\ UNCHANGED <<role, override, changes, overlapped, managed, decidedFor>>

\* ApplyPermissionsSeed: each listed account that has no role yet gets one.
Seeded(seed) ==
  [u \in User |-> IF u \in Registered /\ role[u] = Unset THEN seed[u] ELSE role[u]]

\* EnsureBootstrapOwner: the first account, if still nobody has a role.
Bootstrapped(roles) ==
  IF accounts # <<>> /\ \A u \in User : roles[u] = Unset
  THEN [roles EXCEPT ![Head(accounts)] = "Owner"] ELSE roles

\* The API process starts again, with whatever the seed file says by now; the
\* requests of the old process are gone.
Boot(seed) ==
  /\ role' = Bootstrapped(Seeded(seed))
  /\ changes' = [r \in Change |-> NoChange]
  /\ managed' = (managed \/ \E u \in User : Grants(role'[u], override[u]))
  /\ UNCHANGED <<accounts, override, overlapped, decidedFor>>

-----------------------------------------------------------------------------
\* Mutant of AdmitSetRole: the caller may take any role.
AdmitAnySetRole(r, caller, target, ro) ==
  /\ changes[r].pc = "idle"
  /\ Manages(caller)
  /\ target \in Registered
  /\ ro # "Owner"
  /\ changes' = [changes EXCEPT ![r] =
                   [NoChange EXCEPT !.pc = "setRole", !.caller = caller,
                                    !.target = target, !.role = ro]]
  /\ overlapped' = (overlapped \/ Busy # {})
  /\ UNCHANGED <<accounts, role, override, managed, decidedFor>>

\* RequirePermission, then the checks that look only at the request: Owner is
\* never assigned, nobody gives up their own permission.
AdmitSetRole(r, caller, target, ro) ==
  /\ changes[r].pc = "idle"
  /\ Manages(caller)
  /\ target \in Registered
  /\ ro # "Owner"
  /\ caller = target => ro \in Managing
  /\ changes' = [changes EXCEPT ![r] =
                   [NoChange EXCEPT !.pc = "setRole", !.caller = caller,
                                    !.target = target, !.role = ro]]
  /\ overlapped' = (overlapped \/ Busy # {})
  /\ UNCHANGED <<accounts, role, override, managed, decidedFor>>

\* Mutant of SetUserRole: the upsert keeps the overrides.
SetUserRoleOnly(r) ==
  /\ changes[r].pc = "setRole"
  /\ role' = [role EXCEPT ![changes[r].target] = changes[r].role]
  /\ EndChange(r)
  /\ UNCHANGED <<accounts, override, overlapped, managed, decidedFor>>

\* The upsert replaces the role and clears the overrides.
SetUserRole(r) ==
  /\ changes[r].pc = "setRole"
  /\ role' = [role EXCEPT ![changes[r].target] = changes[r].role]
  /\ override' = [override EXCEPT ![changes[r].target] = "default"]
  /\ decidedFor' = [decidedFor EXCEPT ![changes[r].target] = Unset]
  /\ EndChange(r)
  /\ UNCHANGED <<accounts, overlapped, managed>>

AdmitOverride(r, caller, target, ov) ==
  /\ changes[r].pc = "idle"
  /\ Manages(caller)
  /\ target \in Registered
  /\ changes' = [changes EXCEPT ![r] =
                   [NoChange EXCEPT !.pc = "override", !.caller = caller,
                                    !.target = target, !.override = ov]]
  /\ overlapped' = (overlapped \/ Busy # {})
  /\ UNCHANGED <<accounts, role, override, managed, decidedFor>>

\* The target's present role decides: Owner is refused, and so is a caller
\* who would be left without the permission.
Refused(r) ==
  LET q == changes[r] IN
  \/ role[q.target] = "Owner"
  \/ q.caller = q.target /\ role[q.target] # Unset /\ ~Grants(role[q.target], q.override)

LookAtTarget(r) ==
  /\ changes[r].pc = "override"
  /\ IF Refused(r)
     THEN EndChange(r)
     ELSE changes' = [changes EXCEPT ![r].pc = "decided",
                                     ![r].saw = role[changes[r].target]]
  /\ UNCHANGED <<accounts, role, override, overlapped, managed, decidedFor>>

\* UPDATE user_roles: no row, no effect; else whatever role the row has now.
SetUserOverrides(r) ==
  /\ changes[r].pc = "decided"
  /\ LET u == changes[r].target IN
     IF role[u] = Unset
     THEN UNCHANGED <<override, decidedFor>>
     ELSE /\ override' = [override EXCEPT ![u] = changes[r].override]
          /\ decidedFor' = [decidedFor EXCEPT ![u] = changes[r].saw]
  /\ EndChange(r)
  /\ UNCHANGED <<accounts, role, overlapped, managed>>

RolesNext ==
  \/ \E u \in User : Register(u)
  \/ \E seed \in [User -> Role \cup {Unset}] : Boot(seed)
  \/ \E r \in Change :
       \/ \E c, t \in User, ro \in Role : AdmitSetRole(r, c, t, ro)
       \/ SetUserRole(r)
       \/ \E c, t \in User, ov \in Override : AdmitOverride(r, c, t, ov)
       \/ LookAtTarget(r)
       \/ SetUserOverrides(r)

RolesSpec == RolesInit /\ [][RolesNext]_rolesVars

-----------------------------------------------------------------------------
\* The lockout guards work: as long as requests follow one another, whoever
\* is changed, somebody can still manage roles.
ManagerRemains == (managed /\ ~overlapped) => \E u \in User : Manages(u)

\* Even by an override decided while the account had another role
OwnerUnedited == \A u \in User : role[u] = "Owner" => override[u] = "default"

\* An override in force was decided for the role it modifies.
OverrideFitsRole ==
  \A u \in User : override[u] # "default" => decidedFor[u] = role[u]

\* permissions.go:131: "carrying a stale override forward could silently grant
\* or deny something the admin didn't intend".  An Owner's permissions are never
\* edited, and as long as requests follow one another no override outlives the
\* role it was meant for.
OverridesFit == OwnerUnedited /\ (~overlapped => OverrideFitsRole)

\* roles.go:13: Owner "can never be assigned or edited through the API", which
\* "keeps the server's original owner from ever being ... reassignable".
OwnerKeepsRole ==
  [][\A u \in User : role[u] = "Owner" => role'[u] = "Owner"]_rolesVars
=============================================================================
