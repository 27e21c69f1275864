-------------------------------- MODULE Node --------------------------------
(* api/btnnode.go: the HTTP server, whose handlers run concurrently, over the  *)
(* accounts and the BTN-PAY invoices.  Handlers that make one call of a        *)
(* component are one action; the administrators' handlers validate the         *)
(* session, test the permission and act, in three critical sections.  Handlers *)
(* that only read, and those that answer constants, change nothing.  The       *)
(* network handlers make the user calls of BtngNetwork; the registry of        *)
(* add-ons is private and always empty, so the add-on handlers only fail.      *)
EXTENDS Integers, Sequences

CONSTANTS
  User, Session, Invoice, Request, NoUser, NoSession, NoInvoice,
  Roles,                  \* the roles that requests name
  TTLs,                   \* the TTLs that requests name
  SessionTTL, DefaultTTL,
  MaxClock, MaxStarts     \* bounds: ticks of the clock, calls of Start

VARIABLES
  users, sessions, issued, invoices, getters, shown,
  now,        \* the clock
  IsRunning,  \* the flag of the node
  servers,    \* the goroutines that Start has spawned, in order
  req,        \* the administrators' requests under way
  overtaken   \* history: those whose sender was demoted, deactivated or logged
              \* out, or whose session expired, since the session was validated

accounts == INSTANCE Accounts
payments == INSTANCE Invoices WITH Getter <- Request

ASSUME NodeAssumption ==
  /\ NoUser \notin accounts!UserRecord
  /\ NoInvoice \notin payments!InvoiceRecord
  /\ TTLs \subseteq Int /\ SessionTTL \in Int /\ DefaultTTL \in Int

auth == <<users, sessions, issued>>
pay == <<invoices, getters, shown>>
node == <<IsRunning, servers>>
vars == <<auth, pay, node, now, req, overtaken>>

Idle == [at |-> "idle"]
Busy(r) == req[r] # Idle

Init ==
  /\ accounts!Init /\ payments!Init
  /\ now = 0
  /\ IsRunning = FALSE /\ servers = <<>>
  /\ req = [r \in Request |-> Idle]
  /\ overtaken = {}

(* Start writes the endpoint map under the mutex; the goroutine of an earlier  *)
(* Start that still ranges over the map does so without it.  Go may stop the   *)
(* program for that, which ends the behaviour, or it may go well.              *)
Start ==
  /\ ~IsRunning
  /\ Len(servers) < MaxStarts
  /\ IsRunning' = TRUE
  /\ \/ servers' = Append(servers, "mounting")
     \/ /\ \E i \in DOMAIN servers : servers[i] = "mounting"
        /\ servers' = Append(servers, "fatal")
  /\ UNCHANGED <<auth, pay, now, req, overtaken>>

Alive == \A i \in DOMAIN servers : servers[i] # "fatal"
Listening == \E i \in DOMAIN servers : servers[i] = "listening"

(* One of them gets the port and serves for ever; the error of the others is   *)
(* dropped.                                                                    *)
Listen(i) ==
  /\ servers[i] = "mounting"
  /\ servers' = [servers EXCEPT ![i] = IF Listening THEN "refused" ELSE "listening"]
  /\ UNCHANGED <<auth, pay, now, IsRunning, req, overtaken>>

Stop ==
  /\ IsRunning
  /\ IsRunning' = FALSE
  /\ UNCHANGED <<auth, pay, now, servers, req, overtaken>>

(* What a request needs, and the requests under way that lose some of it.      *)
LoggedIn(r) == accounts!ValidateSession(req[r].session, now)
Manager(r) == accounts!HasPermission(req[r].user, "manage_users")
Overtakes ==
  overtaken' = {r \in Request :
    /\ Busy(r)'
    /\ \/ r \in overtaken
       \/ LoggedIn(r) /\ ~LoggedIn(r)'
       \/ Manager(r) /\ ~Manager(r)'}

OnAccounts == UNCHANGED <<pay, now, node>>
OnPayments == UNCHANGED <<auth, now, node, req, overtaken>>

handleRegister(u, role) ==
  accounts!CreateUser(u, role) /\ UNCHANGED <<req, overtaken>> /\ OnAccounts

handleLogin(u, s) ==
  accounts!Authenticate(u, s, now) /\ UNCHANGED <<req, overtaken>> /\ OnAccounts

handleLogout(s) ==
  accounts!Logout(s) /\ UNCHANGED req /\ OnAccounts /\ Overtakes

(* An administrator's handler: the session becomes a user ...                  *)
Validate(r, s) ==
  /\ ~Busy(r) /\ getters[r] = payments!Out
  /\ accounts!ValidateSession(s, now)
  /\ req' = [req EXCEPT ![r] =
               [at |-> "permission", session |-> s, user |-> sessions[s].user]]
  /\ UNCHANGED <<auth, overtaken>> /\ OnAccounts

\* Mutant: the permission is not tested.
PermitAnyone(r) ==
  /\ req[r].at = "permission"
  /\ req' = [req EXCEPT ![r].at = "act"]
  /\ UNCHANGED auth /\ OnAccounts /\ Overtakes

(* ... whose permission is tested ...                                          *)
Permit(r) ==
  /\ req[r].at = "permission"
  /\ req' = [req EXCEPT ![r] =
               IF accounts!HasPermission(req[r].user, "manage_users")
               THEN [req[r] EXCEPT !.at = "act"] ELSE Idle]
  /\ UNCHANGED auth /\ OnAccounts /\ Overtakes

(* ... before the handler acts on the account that the body names, or refuses  *)
(* a body that it cannot read or that names no account or role; handleListUsers*)
(* only reads.                                                                 *)
Acts(r) ==
  /\ req[r].at = "act"
  /\ req' = [req EXCEPT ![r] = Idle]
  /\ OnAccounts

handleUpdateUserRole(r, u, role) ==
  Acts(r) /\ accounts!UpdateUserRole(u, role) /\ Overtakes

handleDeactivateUser(r, u) ==
  Acts(r) /\ accounts!DeactivateUser(u) /\ Overtakes

RefuseOrList(r) == Acts(r) /\ UNCHANGED auth /\ Overtakes

CreateInvoiceHandler(i, ttl) == payments!CreateInvoice(i, ttl, now) /\ OnPayments

GetInvoiceHandler(r, i) ==
  ~Busy(r) /\ payments!GetInvoice(r, i) /\ OnPayments

PayInvoiceHandler(i) == payments!MarkPaid(i) /\ OnPayments

Tick ==
  /\ now < MaxClock
  /\ now' = now + 1
  /\ UNCHANGED <<auth, pay, node, req>>
  /\ Overtakes

Manage(r) ==
  \/ \E s \in Session : Validate(r, s)
  \/ Permit(r) \/ RefuseOrList(r)
  \/ \E u \in User :
       handleDeactivateUser(r, u) \/ \E role \in Roles : handleUpdateUserRole(r, u, role)

Serve ==
  \/ \E u \in User, role \in Roles : handleRegister(u, role)
  \/ \E u \in User, s \in Session : handleLogin(u, s)
  \/ \E s \in Session : handleLogout(s)
  \/ \E r \in Request : Manage(r) \/ (payments!Read(r, now) /\ OnPayments)
  \/ \E i \in Invoice :
       \/ PayInvoiceHandler(i)
       \/ \E ttl \in TTLs : CreateInvoiceHandler(i, ttl)
       \/ \E r \in Request : GetInvoiceHandler(r, i)

Next ==
  /\ Alive
  /\ \/ Start \/ Stop \/ \E i \in DOMAIN servers : Listen(i)
     \/ (Listening /\ Serve)
     \/ Tick

Spec == Init /\ [][Next]_vars
-----------------------------------------------------------------------------
(* Who changes an account may: an administrator's request is carried out for   *)
(* somebody without the permission, or without a valid session, only if it was *)
(* overtaken, which is to say that the loss came while the request was between *)
(* its checks and its act (388-409, 431-451).                                  *)
ActsAreAuthorised ==
  \A r \in Request : Busy(r) /\ req[r].at = "act" => (LoggedIn(r) /\ Manager(r)) \/ r \in overtaken

(* A session that is over stays over: no role change, login, or restart of the *)
(* server revives one that was logged out, has expired, or whose user was      *)
(* deactivated.                                                                *)
SessionsDoNotRevive ==
  [][\A s \in issued :
       ~accounts!ValidateSession(s, now) => ~accounts!ValidateSession(s, now)']_vars

AnswersStay == payments!AnswersStay
=============================================================================
