------------------------------- MODULE MCRoles -------------------------------
(* Roles for TLC: two accounts that can change each other and themselves.   *)
EXTENDS Roles
=============================================================================
