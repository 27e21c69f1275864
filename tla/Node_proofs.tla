---------------------------- MODULE Node_proofs -----------------------------
(***************************************************************************)
(* The node with any number of users, sessions, requests and invoices.     *)
(***************************************************************************)
EXTENDS Node, TLAPS

USE NodeAssumption

-----------------------------------------------------------------------------
(* Accounts and sessions.                                                  *)

\* A session was issued to somebody who has an account.
AuthOK ==
    /\ now \in Nat
    /\ users \in [User -> {NoUser} \cup accounts!UserRecord]
    /\ DOMAIN sessions = Session /\ issued \subseteq Session
    /\ \A s \in Session : sessions[s] # NoSession =>
         /\ s \in issued
         /\ sessions[s] \in [user : User, expires : Int]
         /\ users[sessions[s].user] # NoUser

Valid(s) == accounts!ValidateSession(s, now)

LEMMA AuthIdle == AuthOK /\ UNCHANGED <<now, auth>> => AuthOK'
BY DEF AuthOK, auth

LEMMA AuthInit == Init => AuthOK
BY DEF Init, accounts!Init, AuthOK

LEMMA PermissionsOfRoles ==
    ASSUME NEW r \in accounts!Role
    PROVE  accounts!rolePerms[r] \in SUBSET UNION {accounts!rolePerms[q] : q \in accounts!Role}
OBVIOUS

\* What every step does to the accounts.
Registers(u) == users[u] = NoUser /\ users' \in [User -> {NoUser} \cup accounts!UserRecord]
                /\ users'[u] # NoUser /\ \A v \in User \ {u} : users'[v] = users[v]

LEMMA CreateUserRegisters ==
    ASSUME AuthOK, NEW u \in User, NEW role, accounts!CreateUser(u, role)
    PROVE  Registers(u) /\ UNCHANGED <<sessions, issued>>
<1> DEFINE r == IF role \in accounts!Role THEN role ELSE "user"
           x == [role |-> r, permissions |-> accounts!rolePerms[r], active |-> TRUE]
<1>1. "user" \in accounts!Role
  BY DEF accounts!Role, accounts!rolePerms
<1>2. x \in accounts!UserRecord
  BY <1>1, PermissionsOfRoles DEF accounts!UserRecord
<1>3. /\ users[u] = NoUser /\ users' = [users EXCEPT ![u] = x]
      /\ UNCHANGED <<sessions, issued>>
  BY DEF accounts!CreateUser, accounts!Known
<1> HIDE DEF x
<1> QED  BY <1>2, <1>3 DEF AuthOK, Registers

\* An account that is known gets another record, and stays inactive.
LEMMA AccountChanges ==
    ASSUME AuthOK, NEW u \in User,
           \/ accounts!DeactivateUser(u)
           \/ \E role \in Roles : accounts!UpdateUserRole(u, role)
    PROVE  /\ users[u] # NoUser /\ users'[u] \in accounts!UserRecord
           /\ users' = [users EXCEPT ![u] = users'[u]]
           /\ users'[u].active => users[u].active
           /\ UNCHANGED <<sessions, issued>>
<1>1. users[u] # NoUser /\ users[u] \in accounts!UserRecord
  BY DEF AuthOK, accounts!DeactivateUser, accounts!UpdateUserRole, accounts!Known
<1>2. CASE accounts!DeactivateUser(u)
  <2> DEFINE x == [users[u] EXCEPT !.active = FALSE]
  <2>1. x \in accounts!UserRecord /\ ~x.active
    BY <1>1 DEF accounts!UserRecord
  <2>2. users' = [users EXCEPT ![u] = x] /\ UNCHANGED <<sessions, issued>>
    BY <1>2 DEF accounts!DeactivateUser
  <2> HIDE DEF x
  <2> QED  BY <1>1, <2>1, <2>2 DEF AuthOK
<1>3. ASSUME NEW role \in Roles, accounts!UpdateUserRole(u, role)
      PROVE  /\ users'[u] \in accounts!UserRecord
             /\ users' = [users EXCEPT ![u] = users'[u]]
             /\ users'[u].active => users[u].active
             /\ UNCHANGED <<sessions, issued>>
  <2> DEFINE x == [role |-> role, permissions |-> accounts!rolePerms[role],
                   active |-> users[u].active]
  <2>1. role \in accounts!Role /\ users' = [users EXCEPT ![u] = x]
        /\ UNCHANGED <<sessions, issued>>
    BY <1>3 DEF accounts!UpdateUserRole
  <2>2. x \in accounts!UserRecord /\ x.active = users[u].active
    BY <1>1, <2>1, PermissionsOfRoles DEF accounts!UserRecord
  <2> HIDE DEF x
  <2> QED  BY <2>1, <2>2 DEF AuthOK
<1> QED  BY <1>1, <1>2, <1>3

\* What a step can do to accounts and sessions.
AuthStep ==
    \/ UNCHANGED auth /\ now' \in {now, now + 1}
    \/ /\ UNCHANGED now
       /\ \/ \E u \in User, role \in Roles : accounts!CreateUser(u, role)
          \/ \E u \in User, s \in Session : accounts!Authenticate(u, s, now)
          \/ \E s \in Session : accounts!Logout(s)
          \/ \E u \in User : \/ accounts!DeactivateUser(u)
                             \/ \E role \in Roles : accounts!UpdateUserRole(u, role)

LEMMA NextIsAuthStep == [Next]_vars => AuthStep
<1>1. UNCHANGED vars => AuthStep
  BY DEF vars, AuthStep
<1>2. ASSUME NEW r \in Request, Manage(r) PROVE AuthStep
  BY <1>2 DEF Manage, Validate, Permit, RefuseOrList, Acts, handleDeactivateUser,
    handleUpdateUserRole, OnAccounts, AuthStep
<1>3. Serve => AuthStep
  <2>1. ASSUME NEW u \in User, NEW role \in Roles, handleRegister(u, role) PROVE AuthStep
    BY <2>1 DEF handleRegister, OnAccounts, AuthStep
  <2>2. ASSUME NEW u \in User, NEW s \in Session, handleLogin(u, s) PROVE AuthStep
    BY <2>2 DEF handleLogin, OnAccounts, AuthStep
  <2>3. ASSUME NEW s \in Session, handleLogout(s) PROVE AuthStep
    BY <2>3 DEF handleLogout, OnAccounts, AuthStep
  <2>4. OnPayments => AuthStep
    BY DEF OnPayments, AuthStep
  <2> QED
    BY <1>2, <2>1, <2>2, <2>3, <2>4
    DEF Serve, PayInvoiceHandler, CreateInvoiceHandler, GetInvoiceHandler
<1>4. Start \/ Stop \/ (\E i \in DOMAIN servers : Listen(i)) \/ Tick => AuthStep
  BY DEF Start, Stop, Listen, Tick, AuthStep
<1> QED  BY <1>1, <1>3, <1>4 DEF Next

\* Accounts are kept, and who had no valid session does not get one back.
LEMMA AuthKeeps ==
    ASSUME AuthOK, AuthStep
    PROVE  /\ AuthOK'
           /\ \A s \in issued : ~Valid(s) => ~Valid(s)'
<1>1. CASE UNCHANGED auth /\ now' \in {now, now + 1}
  <2>1. AuthOK'
    BY <1>1 DEF auth, AuthOK
  <2>2. ASSUME NEW s \in issued, Valid(s)' PROVE Valid(s)
    <3>1. /\ sessions[s] # NoSession /\ now' <= sessions[s].expires
          /\ users[sessions[s].user].active
      BY <1>1, <2>2 DEF Valid, accounts!ValidateSession, auth
    <3>2. sessions[s].expires \in Int /\ now \in Nat
      BY <3>1 DEF AuthOK
    <3> QED  BY <1>1, <3>1, <3>2 DEF Valid, accounts!ValidateSession
  <2> QED  BY <2>1, <2>2
<1>2. ASSUME NEW u \in User, NEW role \in Roles, accounts!CreateUser(u, role),
             UNCHANGED now
      PROVE  AuthOK' /\ \A s \in issued : ~Valid(s) => ~Valid(s)'
  <2>1. Registers(u) /\ UNCHANGED <<sessions, issued>>
    BY <1>2, CreateUserRegisters
  <2>2. \A s \in Session : sessions[s] # NoSession =>
          users'[sessions[s].user] = users[sessions[s].user]
    BY <2>1 DEF AuthOK, Registers
  <2> QED  BY <1>2, <2>1, <2>2 DEF AuthOK, Registers, Valid, accounts!ValidateSession
<1>3. ASSUME NEW u \in User, NEW s \in Session, accounts!Authenticate(u, s, now),
             UNCHANGED now
      PROVE  AuthOK' /\ \A q \in issued : ~Valid(q) => ~Valid(q)'
  <2> DEFINE x == [user |-> u, expires |-> now + SessionTTL]
  <2>1. /\ users[u] # NoUser /\ s \notin issued /\ issued' = issued \cup {s}
        /\ sessions' = [sessions EXCEPT ![s] = x] /\ UNCHANGED users
    BY <1>3 DEF accounts!Authenticate, accounts!Known
  <2>2. x \in [user : User, expires : Int] /\ x.user = u
    BY DEF AuthOK
  <2> HIDE DEF x
  <2>3. sessions'[s] = x /\ \A q \in Session \ {s} : sessions'[q] = sessions[q]
    BY <2>1 DEF AuthOK
  <2> QED  BY <1>3, <2>1, <2>2, <2>3 DEF AuthOK, Valid, accounts!ValidateSession
<1>4. ASSUME NEW s \in Session, accounts!Logout(s), UNCHANGED now
      PROVE  AuthOK' /\ \A q \in issued : ~Valid(q) => ~Valid(q)'
  <2>1. /\ sessions' = [sessions EXCEPT ![s] = NoSession]
        /\ UNCHANGED <<users, issued>>
    BY <1>4 DEF accounts!Logout
  <2>2. sessions'[s] = NoSession /\ \A q \in Session \ {s} : sessions'[q] = sessions[q]
    BY <2>1 DEF AuthOK
  <2> QED  BY <1>4, <2>1, <2>2 DEF AuthOK, Valid, accounts!ValidateSession
<1>5. ASSUME NEW u \in User, UNCHANGED now,
             \/ accounts!DeactivateUser(u)
             \/ \E role \in Roles : accounts!UpdateUserRole(u, role)
      PROVE  AuthOK' /\ \A s \in issued : ~Valid(s) => ~Valid(s)'
  <2>1. /\ users[u] # NoUser /\ users'[u] \in accounts!UserRecord
        /\ users' = [users EXCEPT ![u] = users'[u]]
        /\ users'[u].active => users[u].active
        /\ UNCHANGED <<sessions, issued>>
    BY <1>5, AccountChanges
  <2>2. /\ users' \in [User -> {NoUser} \cup accounts!UserRecord]
        /\ \A v \in User \ {u} : users'[v] = users[v]
    BY <2>1 DEF AuthOK
  <2>3. \A v \in User : users[v] # NoUser => users'[v] # NoUser
    BY <2>1, <2>2
  <2>4. AuthOK'
    BY <1>5, <2>1, <2>2, <2>3 DEF AuthOK
  <2>5. \A v \in User : users'[v].active => users[v].active
    BY <2>1, <2>2
  <2>6. \A s \in issued : Valid(s)' => Valid(s)
    BY <1>5, <2>1, <2>5 DEF AuthOK, Valid, accounts!ValidateSession
  <2> QED  BY <2>4, <2>6
<1> QED  BY <1>1, <1>2, <1>3, <1>4, <1>5 DEF AuthStep

-----------------------------------------------------------------------------
(* The administrators' requests.                                           *)

Pending == [at : {"permission", "act"}, session : Session, user : User]

\* A request under way has a valid session, or lost it on the way.
Sound(r) ==
    Busy(r) =>
      /\ req[r].session \in issued
      /\ LoggedIn(r) \/ r \in overtaken
      /\ req[r].at = "act" => (LoggedIn(r) /\ Manager(r)) \/ r \in overtaken

RequestsOK ==
    /\ req \in [Request -> {Idle} \cup Pending]
    /\ \A r \in Request : Sound(r)

LEMMA RequestsInit == Init => RequestsOK
BY DEF Init, RequestsOK, Sound, Busy

\* A request keeps what it has while nothing takes it away.
LEMMA UndisturbedKeep ==
    ASSUME RequestsOK, UNCHANGED <<req, overtaken>>, issued \subseteq issued',
           \A r \in Request : Busy(r) =>
             (LoggedIn(r) => LoggedIn(r)') /\ (Manager(r) => Manager(r)')
    PROVE  RequestsOK'
BY DEF RequestsOK, Sound, Busy

\* A request that loses something is marked.
LEMMA OvertakesMarks ==
    ASSUME Overtakes, NEW r \in Request, Sound(r), req'[r] = req[r],
           issued \subseteq issued'
    PROVE  Sound(r)'
BY DEF Overtakes, Sound, Busy

LEMMA OvertakenKeep ==
    ASSUME RequestsOK, UNCHANGED req, Overtakes, issued \subseteq issued'
    PROVE  RequestsOK'
<1>1. \A r \in Request : Sound(r)'
  BY OvertakesMarks DEF RequestsOK
<1> QED  BY <1>1 DEF RequestsOK

LEMMA RegisterKeepsRequests ==
    ASSUME AuthOK, RequestsOK, NEW u \in User, NEW role \in Roles, handleRegister(u, role)
    PROVE  RequestsOK'
<1>1. Registers(u) /\ UNCHANGED <<sessions, issued, now, req, overtaken>>
  BY CreateUserRegisters DEF handleRegister, OnAccounts
<1>2. ASSUME NEW r \in Request, Busy(r)
      PROVE  (LoggedIn(r) => LoggedIn(r)') /\ (Manager(r) => Manager(r)')
  <2>1. req[r] \in Pending
    BY <1>2 DEF RequestsOK, Busy
  <2>2. LoggedIn(r) => LoggedIn(r)'
    BY <1>1, <2>1 DEF LoggedIn, accounts!ValidateSession, AuthOK, Registers, Pending
  <2>3. Manager(r) => Manager(r)'
    BY <1>1, <2>1 DEF Manager, accounts!HasPermission, accounts!Known, Registers, Pending
  <2> QED  BY <2>2, <2>3
<1> QED  BY <1>1, <1>2, UndisturbedKeep

LEMMA LoginKeepsRequests ==
    ASSUME AuthOK, RequestsOK, NEW u \in User, NEW s \in Session, handleLogin(u, s)
    PROVE  RequestsOK'
<1>1. /\ s \notin issued /\ UNCHANGED <<users, now, req, overtaken>>
      /\ \A q \in Session \ {s} : sessions'[q] = sessions[q]
      /\ issued' = issued \cup {s}
  BY DEF handleLogin, accounts!Authenticate, OnAccounts, AuthOK
<1>2. ASSUME NEW r \in Request, Busy(r)
      PROVE  (LoggedIn(r) => LoggedIn(r)') /\ (Manager(r) => Manager(r)')
  <2>1. req[r] \in Pending /\ req[r].session \in issued
    BY <1>2 DEF RequestsOK, Busy, Sound
  <2>2. LoggedIn(r) => LoggedIn(r)'
    BY <1>1, <2>1 DEF LoggedIn, accounts!ValidateSession, Pending
  <2>3. Manager(r) => Manager(r)'
    BY <1>1 DEF Manager, accounts!HasPermission, accounts!Known
  <2> QED  BY <2>2, <2>3
<1> QED  BY <1>1, <1>2, UndisturbedKeep

\* The session that a request names is valid at that moment.
LEMMA ValidateKeeps ==
    ASSUME AuthOK, RequestsOK, NEW r \in Request, NEW s \in Session, Validate(r, s)
    PROVE  RequestsOK'
<1> DEFINE x == [at |-> "permission", session |-> s, user |-> sessions[s].user]
<1>1. /\ Valid(s) /\ req' = [req EXCEPT ![r] = x]
      /\ UNCHANGED <<users, sessions, issued, overtaken, now>>
  BY DEF Validate, OnAccounts, auth, Valid
<1>2. s \in issued /\ x \in Pending /\ x.session = s /\ x.at = "permission"
  BY <1>1 DEF AuthOK, Valid, accounts!ValidateSession, Pending
<1> HIDE DEF x
<1>3. req'[r] = x /\ \A q \in Request \ {r} : req'[q] = req[q]
  BY <1>1 DEF RequestsOK
<1>4. Sound(r)'
  BY <1>1, <1>2, <1>3 DEF Sound, LoggedIn, Valid, accounts!ValidateSession
<1>5. ASSUME NEW q \in Request \ {r} PROVE Sound(q)'
  BY <1>1, <1>3 DEF RequestsOK, Sound, Busy, LoggedIn, Manager, accounts!ValidateSession,
    accounts!HasPermission, accounts!Known
<1> QED  BY <1>1, <1>2, <1>4, <1>5 DEF RequestsOK

\* Only a sender with the permission goes on.
LEMMA PermitKeeps ==
    ASSUME RequestsOK, NEW r \in Request, Permit(r)
    PROVE  RequestsOK'
<1> DEFINE x == [req[r] EXCEPT !.at = "act"]
<1>1. /\ req[r].at = "permission" /\ Overtakes
      /\ req' = [req EXCEPT ![r] = IF Manager(r) THEN x ELSE Idle]
      /\ UNCHANGED <<users, sessions, issued, now>>
  BY DEF Permit, OnAccounts, auth, Manager
<1>2. req[r] \in Pending /\ Busy(r)
  BY <1>1 DEF RequestsOK, Idle, Busy
<1>3. x \in Pending /\ x.session = req[r].session /\ x.user = req[r].user /\ x # Idle
  BY <1>2 DEF Pending, Idle
<1> HIDE DEF x
<1>4. /\ req'[r] = (IF Manager(r) THEN x ELSE Idle)
      /\ \A q \in Request \ {r} : req'[q] = req[q]
      /\ req' \in [Request -> {Idle} \cup Pending]
  BY <1>1, <1>3 DEF RequestsOK
<1>5. Sound(r)'
  <2>1. CASE ~Manager(r)
    BY <1>4, <2>1 DEF Sound, Busy
  <2>2. CASE Manager(r)
    <3>1. Manager(r)' /\ (LoggedIn(r) => LoggedIn(r)')
      BY <1>1, <1>3, <1>4, <2>2 DEF Manager, LoggedIn, accounts!ValidateSession,
        accounts!HasPermission, accounts!Known
    <3>2. r \in overtaken => r \in overtaken'
      BY <1>1, <1>3, <1>4, <2>2 DEF Overtakes, Busy
    <3> QED  BY <1>1, <1>2, <1>3, <1>4, <2>2, <3>1, <3>2 DEF RequestsOK, Sound
  <2> QED  BY <2>1, <2>2
<1>6. ASSUME NEW q \in Request \ {r} PROVE Sound(q)'
  BY <1>1, <1>4, OvertakesMarks DEF RequestsOK
<1> QED  BY <1>4, <1>5, <1>6 DEF RequestsOK

\* A request that acts is done.
LEMMA ActsKeep ==
    ASSUME RequestsOK, NEW r \in Request, Acts(r), Overtakes, issued \subseteq issued'
    PROVE  RequestsOK'
<1>1. req' = [req EXCEPT ![r] = Idle]
  BY DEF Acts
<1>2. req'[r] = Idle /\ \A q \in Request \ {r} : req'[q] = req[q]
  BY <1>1 DEF RequestsOK
<1>3. Sound(r)'
  BY <1>2 DEF Sound, Busy
<1>4. ASSUME NEW q \in Request \ {r} PROVE Sound(q)'
  BY <1>2, OvertakesMarks DEF RequestsOK
<1> QED  BY <1>1, <1>3, <1>4 DEF RequestsOK

LEMMA RequestsKeep ==
    ASSUME AuthOK, RequestsOK, [Next]_vars
    PROVE  RequestsOK'
<1>1. CASE UNCHANGED <<auth, now, req, overtaken>>
  <2>1. \A r \in Request : (LoggedIn(r) => LoggedIn(r)') /\ (Manager(r) => Manager(r)')
    BY <1>1 DEF auth, LoggedIn, Manager, accounts!ValidateSession,
      accounts!HasPermission, accounts!Known
  <2> QED  BY <1>1, <2>1, UndisturbedKeep DEF auth
<1>2. ASSUME NEW r \in Request, Manage(r) PROVE RequestsOK'
  <2>1. CASE RefuseOrList(r)
    BY <2>1, ActsKeep DEF RefuseOrList, auth
  <2>2. ASSUME NEW u \in User,
               handleDeactivateUser(r, u) \/ \E role \in Roles : handleUpdateUserRole(r, u, role)
        PROVE  RequestsOK'
    <3>1. Acts(r) /\ Overtakes /\ UNCHANGED issued
      BY <2>2 DEF handleDeactivateUser, handleUpdateUserRole, accounts!DeactivateUser,
        accounts!UpdateUserRole
    <3> QED  BY <3>1, ActsKeep
  <2> QED  BY <1>2, <2>1, <2>2, ValidateKeeps, PermitKeeps DEF Manage
<1>3. ASSUME NEW s \in Session, handleLogout(s) PROVE RequestsOK'
  <2>1. UNCHANGED <<req, issued>> /\ Overtakes
    BY <1>3 DEF handleLogout, accounts!Logout
  <2> QED  BY <2>1, OvertakenKeep
<1>4. CASE Tick
  <2>1. UNCHANGED <<req, issued>> /\ Overtakes
    BY <1>4 DEF Tick, auth
  <2> QED  BY <2>1, OvertakenKeep
<1>5. Serve => RequestsOK'
  BY <1>1, <1>2, <1>3, RegisterKeepsRequests, LoginKeepsRequests
  DEF Serve, PayInvoiceHandler, CreateInvoiceHandler, GetInvoiceHandler, OnPayments
<1>6. CASE Start \/ Stop \/ (\E i \in DOMAIN servers : Listen(i)) \/ UNCHANGED vars
  BY <1>1, <1>6 DEF Start, Stop, Listen, vars
<1> QED  BY <1>4, <1>5, <1>6 DEF Next

-----------------------------------------------------------------------------
(* Invoices.                                                               *)

Getting == [at : {"locked", "expiring", "encoding"}, id : Invoice]
Exists(i) == invoices[i] # NoInvoice
Status(i) == invoices[i].status

\* Whoever is about to write "expired" keeps payments out until then.
PayOK ==
    /\ invoices \in [Invoice -> {NoInvoice} \cup payments!InvoiceRecord]
    /\ getters \in [Request -> {payments!Out} \cup Getting]
    /\ DOMAIN shown = Invoice
    /\ \A g \in Request : getters[g] # payments!Out =>
         /\ Exists(getters[g].id)
         /\ getters[g].at = "expiring" => Status(getters[g].id) # "paid"
    /\ \A i \in Invoice : \A s \in shown[i] : Exists(i) /\ Status(i) = s /\ s # "pending"

LEMMA PayIdle == PayOK /\ UNCHANGED pay => PayOK'
BY DEF PayOK, pay, Exists, Status

LEMMA PayInit == Init => PayOK
BY DEF Init, payments!Init, PayOK

\* One invoice gets another status, which no answer contradicts.
LEMMA StatusChanges ==
    ASSUME PayOK, NEW i \in Invoice, Exists(i), NEW st \in {"paid", "expired"},
           invoices' = [invoices EXCEPT ![i].status = st],
           \A s \in shown[i] : s = st
    PROVE  /\ invoices' \in [Invoice -> {NoInvoice} \cup payments!InvoiceRecord]
           /\ Exists(i)' /\ Status(i)' = st
           /\ \A j \in Invoice \ {i} : invoices'[j] = invoices[j]
           /\ \A j \in Invoice : Exists(j) => Exists(j)'
           /\ \A j \in Invoice : \A s \in shown[j] : Exists(j)' /\ Status(j)' = s /\ s # "pending"
<1> DEFINE x == [invoices[i] EXCEPT !.status = st]
<1>1. invoices[i] \in payments!InvoiceRecord
  BY DEF PayOK, Exists
<1>2. x \in payments!InvoiceRecord /\ x.status = st
  BY <1>1 DEF payments!InvoiceRecord
<1>3. invoices' = [invoices EXCEPT ![i] = x]
  OBVIOUS
<1> HIDE DEF x
<1>4. invoices'[i] = x /\ \A j \in Invoice \ {i} : invoices'[j] = invoices[j]
  BY <1>3 DEF PayOK
<1>5. invoices' \in [Invoice -> {NoInvoice} \cup payments!InvoiceRecord]
  BY <1>2, <1>3 DEF PayOK
<1>6. Exists(i)' /\ Status(i)' = st
  BY <1>2, <1>4 DEF Exists, Status
<1>7. \A j \in Invoice : Exists(j) => Exists(j)'
  BY <1>4, <1>6 DEF Exists
<1>8. \A j \in Invoice : \A s \in shown[j] : Exists(j)' /\ Status(j)' = s /\ s # "pending"
  BY <1>4, <1>6 DEF PayOK, Exists, Status
<1> QED  BY <1>4, <1>5, <1>6, <1>7, <1>8

LEMMA CreateInvoiceKeeps ==
    ASSUME PayOK, now \in Nat, NEW i \in Invoice, NEW ttl \in TTLs,
           payments!CreateInvoice(i, ttl, now)
    PROVE  PayOK'
<1> DEFINE x == [status |-> "pending",
                 expires |-> now + (IF ttl = 0 THEN DefaultTTL ELSE ttl)]
<1>1. /\ ~Exists(i) /\ invoices' = [invoices EXCEPT ![i] = x]
      /\ UNCHANGED <<getters, shown>>
  BY DEF payments!CreateInvoice, Exists
<1>2. x \in payments!InvoiceRecord
  BY DEF payments!InvoiceRecord
<1> HIDE DEF x
<1>3. /\ invoices' \in [Invoice -> {NoInvoice} \cup payments!InvoiceRecord]
      /\ \A j \in Invoice \ {i} : invoices'[j] = invoices[j]
  BY <1>1, <1>2 DEF PayOK
<1>4. \A g \in Request : getters[g] # payments!Out => getters[g].id \in Invoice \ {i}
  BY <1>1 DEF PayOK, Getting
<1> QED  BY <1>1, <1>3, <1>4 DEF PayOK, Exists, Status

\* A reader moves on, which changes no invoice.
LEMMA ReaderMoves ==
    ASSUME PayOK, NEW g \in Request, NEW to \in {payments!Out} \cup Getting,
           getters' = [getters EXCEPT ![g] = to], UNCHANGED <<invoices, shown>>,
           to # payments!Out =>
             Exists(to.id) /\ (to.at = "expiring" => Status(to.id) # "paid")
    PROVE  PayOK'
BY DEF PayOK, Exists, Status

LEMMA GetInvoiceKeeps ==
    ASSUME PayOK, NEW g \in Request, NEW i \in Invoice, payments!GetInvoice(g, i)
    PROVE  PayOK'
<1> DEFINE to == [at |-> "locked", id |-> i]
<1>1. /\ getters' = [getters EXCEPT ![g] = to] /\ Exists(i)
      /\ UNCHANGED <<invoices, shown>>
  BY DEF payments!GetInvoice, Exists
<1>2. to \in Getting /\ to.id = i /\ to.at = "locked"
  BY DEF Getting
<1> HIDE DEF to
<1> QED  BY <1>1, <1>2, ReaderMoves

LEMMA GettingIs ==
    ASSUME PayOK, NEW g \in Request, getters[g].at # "out"
    PROVE  getters[g] \in Getting /\ getters[g] # payments!Out
BY DEF PayOK, payments!Out

LEMMA DecideKeeps ==
    ASSUME PayOK, NEW g \in Request, payments!Decide(g, now)
    PROVE  PayOK'
<1> DEFINE i == getters[g].id
           at == IF now > invoices[i].expires /\ invoices[i].status = "pending"
                 THEN "expiring" ELSE "encoding"
           to == [getters[g] EXCEPT !.at = at]
<1>1. /\ getters' = [getters EXCEPT ![g] = to] /\ getters[g].at = "locked"
      /\ UNCHANGED <<invoices, shown>>
  BY DEF payments!Decide, payments!Moves
<1>2. getters[g] \in Getting /\ Exists(i)
  BY <1>1, GettingIs DEF PayOK
<1>3. to \in Getting /\ to.id = i /\ (to.at = "expiring" => Status(i) # "paid")
  BY <1>2 DEF Getting, Status
<1> HIDE DEF to, i
<1> QED  BY <1>1, <1>2, <1>3, ReaderMoves

LEMMA ExpireKeeps ==
    ASSUME PayOK, NEW g \in Request, payments!Expire(g)
    PROVE  PayOK'
<1> DEFINE to == [getters[g] EXCEPT !.at = "encoding"]
<1>1. /\ getters' = [getters EXCEPT ![g] = to] /\ getters[g].at = "expiring"
      /\ invoices' = [invoices EXCEPT ![getters[g].id].status = "expired"]
      /\ UNCHANGED shown
  BY DEF payments!Expire, payments!Moves
<1>2. PICK i \in Invoice : i = getters[g].id
  BY <1>1, GettingIs DEF Getting
<1>3. getters[g] \in Getting /\ Exists(i) /\ Status(i) # "paid"
  BY <1>1, <1>2, GettingIs DEF PayOK
<1>4. to \in Getting /\ to.id = i /\ to.at = "encoding"
  BY <1>2, <1>3 DEF Getting
<1>5. \A s \in shown[i] : s = "expired"
  BY <1>3 DEF PayOK, Exists, Status, payments!InvoiceRecord
<1> HIDE DEF to
<1>6. invoices' = [invoices EXCEPT ![i].status = "expired"]
  BY <1>1, <1>2
<1>7. /\ invoices' \in [Invoice -> {NoInvoice} \cup payments!InvoiceRecord]
      /\ Exists(i)' /\ Status(i)' = "expired"
      /\ \A j \in Invoice \ {i} : invoices'[j] = invoices[j]
      /\ \A j \in Invoice : Exists(j) => Exists(j)'
      /\ \A j \in Invoice : \A s \in shown[j] : Exists(j)' /\ Status(j)' = s /\ s # "pending"
  BY <1>3, <1>5, <1>6, StatusChanges
<1>8. /\ getters' \in [Request -> {payments!Out} \cup Getting]
      /\ getters'[g] = to /\ \A h \in Request \ {g} : getters'[h] = getters[h]
  BY <1>1, <1>4 DEF PayOK
<1>9. ASSUME NEW h \in Request, getters'[h] # payments!Out
      PROVE  /\ invoices'[getters'[h].id] # NoInvoice
             /\ getters'[h].at = "expiring" => invoices'[getters'[h].id].status # "paid"
  <2>1. CASE h = g
    BY <1>4, <1>7, <1>8, <2>1 DEF Exists, Status
  <2>2. CASE h # g
    <3>1. /\ getters'[h] = getters[h] /\ getters[h] \in Getting
          /\ getters[h].id \in Invoice /\ Exists(getters[h].id)
          /\ getters[h].at = "expiring" => Status(getters[h].id) # "paid"
      BY <1>8, <1>9, <2>2 DEF PayOK, Getting
    <3>2. /\ invoices[getters[h].id] # NoInvoice
          /\ getters[h].at = "expiring" => invoices[getters[h].id].status # "paid"
      BY <3>1 DEF Exists, Status
    <3> QED  BY <1>7, <3>1, <3>2 DEF Exists, Status
  <2> QED  BY <2>1, <2>2
<1> QED  BY <1>1, <1>7, <1>8, <1>9 DEF PayOK, Exists, Status

LEMMA EncodeKeeps ==
    ASSUME PayOK, NEW g \in Request, payments!Encode(g)
    PROVE  PayOK'
<1> DEFINE i == getters[g].id
<1>1. /\ getters' = [getters EXCEPT ![g] = payments!Out] /\ getters[g].at = "encoding"
      /\ shown' = [shown EXCEPT ![i] = @ \cup ({Status(i)} \ {"pending"})]
      /\ UNCHANGED invoices
  BY DEF payments!Encode, Status
<1>2. Exists(i) /\ i \in Invoice
  BY <1>1, GettingIs DEF PayOK, Getting
<1> HIDE DEF i
<1>3. \A j \in Invoice : \A s \in shown'[j] : Exists(j) /\ Status(j) = s /\ s # "pending"
  BY <1>1, <1>2 DEF PayOK
<1> QED  BY <1>1, <1>3 DEF PayOK, Exists, Status

LEMMA MarkPaidKeeps ==
    ASSUME PayOK, NEW i \in Invoice, payments!MarkPaid(i)
    PROVE  PayOK'
<1>1. /\ ~payments!ReadLocked /\ Exists(i) /\ Status(i) = "pending"
      /\ invoices' = [invoices EXCEPT ![i].status = "paid"]
      /\ shown' = [shown EXCEPT ![i] = @ \cup {"paid"}]
      /\ UNCHANGED getters
  BY DEF payments!MarkPaid, payments!Pending, Exists, Status
<1>2. shown[i] = {}
  BY <1>1 DEF PayOK
<1>3. /\ invoices' \in [Invoice -> {NoInvoice} \cup payments!InvoiceRecord]
      /\ Exists(i)' /\ Status(i)' = "paid"
      /\ \A j \in Invoice \ {i} : invoices'[j] = invoices[j]
      /\ \A j \in Invoice : Exists(j) => Exists(j)'
      /\ \A j \in Invoice : \A s \in shown[j] : Exists(j)' /\ Status(j)' = s /\ s # "pending"
  BY <1>1, <1>2, StatusChanges
<1>4. \A g \in Request : getters[g].at # "expiring"
  BY <1>1 DEF payments!ReadLocked
<1>5. \A g \in Request : getters[g] # payments!Out => getters[g].id \in Invoice
  BY DEF PayOK, Getting
<1>6. \A j \in Invoice : \A s \in shown'[j] : Exists(j)' /\ Status(j)' = s /\ s # "pending"
  BY <1>1, <1>3 DEF PayOK
<1> QED  BY <1>1, <1>3, <1>4, <1>5, <1>6 DEF PayOK, Exists, Status

LEMMA PayKeep ==
    ASSUME AuthOK, PayOK, [Next]_vars
    PROVE  PayOK'
<1>1. CASE UNCHANGED pay
  BY <1>1, PayIdle
<1>2. ASSUME NEW i \in Invoice,
             \/ PayInvoiceHandler(i)
             \/ \E ttl \in TTLs : CreateInvoiceHandler(i, ttl)
             \/ \E r \in Request : GetInvoiceHandler(r, i)
      PROVE  PayOK'
  BY <1>2, CreateInvoiceKeeps, GetInvoiceKeeps, MarkPaidKeeps
  DEF PayInvoiceHandler, CreateInvoiceHandler, GetInvoiceHandler, AuthOK
<1>3. ASSUME NEW r \in Request, payments!Read(r, now) PROVE PayOK'
  BY <1>3, DecideKeeps, ExpireKeeps, EncodeKeeps DEF payments!Read
<1>4. ASSUME NEW r \in Request, Manage(r) PROVE UNCHANGED pay
  BY <1>4 DEF Manage, Validate, Permit, RefuseOrList, Acts, handleDeactivateUser,
    handleUpdateUserRole, OnAccounts
<1>5. Serve => PayOK'
  BY <1>1, <1>2, <1>3, <1>4 DEF Serve, handleRegister, handleLogin, handleLogout, OnAccounts
<1>6. Start \/ Stop \/ (\E i \in DOMAIN servers : Listen(i)) \/ Tick \/ UNCHANGED vars
        => UNCHANGED pay
  BY DEF Start, Stop, Listen, Tick, vars
<1> QED  BY <1>1, <1>5, <1>6 DEF Next

-----------------------------------------------------------------------------
(* The node.                                                               *)

NodeOK == AuthOK /\ RequestsOK /\ PayOK

(* The inductive invariant of the node, through restarts and ticks.        *)
THEOREM NodeInvariant == Spec => []NodeOK
<1>1. Init => NodeOK
  BY AuthInit, RequestsInit, PayInit DEF NodeOK
<1>2. NodeOK /\ [Next]_vars => NodeOK'
  BY NextIsAuthStep, AuthKeeps, RequestsKeep, PayKeep DEF NodeOK
<1> QED  BY <1>1, <1>2, PTL DEF Spec

(* An account is changed for an administrator only, or for a request that  *)
(* was overtaken between its checks and its act (btnnode.go, 376-458).     *)
THEOREM AuthorisedActs == Spec => []ActsAreAuthorised
<1>1. NodeOK => ActsAreAuthorised
  BY DEF NodeOK, RequestsOK, Sound, ActsAreAuthorised
<1> QED  BY <1>1, NodeInvariant, PTL

(* No later call, restart or tick makes a session valid again that was     *)
(* logged out, has expired, or whose user was deactivated (accounts.go).   *)
THEOREM EndedSessionsStay == Spec => SessionsDoNotRevive
<1>1. NodeOK /\ [Next]_vars =>
        [\A s \in issued : ~accounts!ValidateSession(s, now) =>
                           ~accounts!ValidateSession(s, now)']_vars
  BY NextIsAuthStep, AuthKeeps DEF NodeOK, Valid
<1> QED  BY <1>1, NodeInvariant, PTL DEF Spec, SessionsDoNotRevive

(* What an answer said of an invoice, paid or expired, stays true, for any *)
(* number of readers under the read lock (btnpay.go, GetInvoice).          *)
THEOREM FatesStay == Spec => []AnswersStay
<1>1. NodeOK => AnswersStay
  BY DEF NodeOK, PayOK, Status, AnswersStay, payments!AnswersStay
<1> QED  BY <1>1, NodeInvariant, PTL

=============================================================================
