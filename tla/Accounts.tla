------------------------------ MODULE Accounts ------------------------------
(* auth/accounts.go: users, roles and sessions.  Every method is one critical  *)
(* section of am.mutex, so every operator here is atomic; who calls them in    *)
(* which order is up to the composing module.  A user stands for its name and  *)
(* its random ID.  A wrong password changes nothing and is left out.           *)
EXTENDS Integers

CONSTANTS User, Session,
  NoUser, NoSession,
  SessionTTL      \* how long a session lasts: 24 hours

VARIABLES
  users,     \* am.users and am.usersByID: the same records under two keys
  sessions,  \* am.sessions
  issued     \* the session IDs that generateID has drawn

vars == <<users, sessions, issued>>

Common == {"read", "write", "view_dashboard"}

rolePerms ==
  [user |-> Common, validator |-> Common,
   merchant |-> Common \cup {"manage_merchant"},
   admin |-> Common \cup {"delete", "manage_users", "manage_tokens",
                          "system_config", "manage_merchant"}]
Role == DOMAIN rolePerms
UserRecord ==
  [role : Role, permissions : SUBSET UNION {rolePerms[r] : r \in Role}, active : BOOLEAN]

Known(u) == users[u] # NoUser

Init ==
  /\ users = [u \in User |-> NoUser]
  /\ sessions = [s \in Session |-> NoSession]
  /\ issued = {}

(* A role the table does not know, or none, becomes that of a plain user.      *)
CreateUser(u, role) ==
  LET r == IF role \in Role THEN role ELSE "user" IN
  /\ ~Known(u)
  /\ users' = [users EXCEPT ![u] =
                 [role |-> r, permissions |-> rolePerms[r], active |-> TRUE]]
  /\ UNCHANGED <<sessions, issued>>

Authenticate(u, s, now) ==
  /\ Known(u) /\ users[u].active
  /\ s \notin issued
  /\ sessions' = [sessions EXCEPT ![s] = [user |-> u, expires |-> now + SessionTTL]]
  /\ issued' = issued \cup {s}
  /\ UNCHANGED users

ValidateSession(s, now) ==
  /\ sessions[s] # NoSession
  /\ now <= sessions[s].expires
  /\ users[sessions[s].user].active

HasPermission(u, permission) ==
  Known(u) /\ users[u].active /\ permission \in users[u].permissions

\* Mutant: a new role makes the account active.
UpdateRoleAfresh(u, role) ==
  /\ Known(u) /\ role \in Role
  /\ users' = [users EXCEPT ![u] =
                 [role |-> role, permissions |-> rolePerms[role], active |-> TRUE]]
  /\ UNCHANGED <<sessions, issued>>

UpdateUserRole(u, role) ==
  /\ Known(u) /\ role \in Role
  /\ users' = [users EXCEPT ![u] = [role |-> role, permissions |-> rolePerms[role],
                                    active |-> users[u].active]]
  /\ UNCHANGED <<sessions, issued>>

DeactivateUser(u) ==
  /\ Known(u)
  /\ users' = [users EXCEPT ![u].active = FALSE]
  /\ UNCHANGED <<sessions, issued>>

Logout(s) ==
  /\ sessions[s] # NoSession
  /\ sessions' = [sessions EXCEPT ![s] = NoSession]
  /\ UNCHANGED <<users, issued>>
=============================================================================
