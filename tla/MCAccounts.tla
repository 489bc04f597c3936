----------------------------- MODULE MCAccounts -----------------------------
(* What concerns users, for TLC: accounts, their roles and their pictures,   *)
(* and the limiter in front of their requests.  They share no state that     *)
(* matters; part says which is explored, and the others stand still.         *)
EXTENDS Accounts, Roles, RateLimiter, Avatars, TLC

VARIABLE part

\* Changes of two accounts do not meet: requests in progress have one target.
OneTarget ==
  \A r, s \in Change : Unset \in {changes[r].target, changes[s].target}
                       \/ changes[r].target = changes[s].target

InitAll ==
  /\ part \in {"accounts", "roles", "limiter", "avatars"}
  /\ Init /\ RolesInit /\ LimiterInit /\ AvatarInit

NextAll ==
  /\ UNCHANGED part
  /\ \/ part = "accounts" /\ Next /\ UNCHANGED <<rolesVars, limiterVars, avatarVars>>
     \/ part = "roles" /\ RolesNext /\ OneTarget' /\ UNCHANGED <<vars, limiterVars, avatarVars>>
     \/ part = "limiter" /\ LimiterNext /\ UNCHANGED <<vars, rolesVars, avatarVars>>
     \/ part = "avatars" /\ AvatarNext /\ UNCHANGED <<vars, rolesVars, limiterVars>>

SpecAll == InitAll /\ [][NextAll]_<<part, vars, rolesVars, limiterVars, avatarVars>>

UserSymmetry == Permutations(Change) \cup Permutations(User) \cup Permutations(Address)
=============================================================================
