---------------------------- MODULE WalletLocks ----------------------------
(***************************************************************************)
(* The methods of wallet/ that call another locking method of the same     *)
(* object, with the ones they run next to: the operations Dashboard, the   *)
(* Security settings and the TransactionHistory, each behind one           *)
(* sync.RWMutex.  A method is the sequence of steps it takes; a method it  *)
(* calls is a part of that sequence, as it stands.  Some methods hand out  *)
(* live maps and pointers, which their callers read later, with no lock:   *)
(* such a read is a call of its own, of anybody and at any time.           *)
(*                                                                         *)
(* Abstractions.  Of the data only a component's status, the update queue  *)
(* and the number of alerts are kept: a step that uses other fields is     *)
(* named by what it does to them, "reads" or "writes".  No code under src/ *)
(* raises an ErrorCount, so a health check finds every component healthy.  *)
(***************************************************************************)
EXTENDS Naturals, Sequences, SequencesExt

CONSTANTS
    Thread, NoThread,
    Component,       \* the keys of Dashboard.components
    Name,            \* what callers give for one, known or not
    MaxAlerts,       \* the dashboard keeps the last alerts, up to so many
    MaxQueue         \* bound: updates scheduled before a caller schedules no more

ASSUME WalletAssumption ==
    /\ NoThread \notin Thread
    /\ Component \subseteq Name
    /\ MaxAlerts \in Nat \ {0}
    /\ MaxQueue \in Nat

Object == {"dashboard", "security", "history"}

VARIABLES
    mutex,           \* the lock of each object
    todo,            \* the steps each thread has left of the method it called
    Status,          \* Dashboard.components
    updateQueue,
    alerts           \* how many

vars == <<mutex, todo, Status, updateQueue, alerts>>
dataVars == <<Status, updateQueue, alerts>>

Locks == INSTANCE RWMutex

-----------------------------------------------------------------------------
\* Steps.
Step(name, object) == [does |-> name, object |-> object, on |-> ""]
StepOn(name, object, component) == [does |-> name, object |-> object, on |-> component]

\* Lock has two steps: it keeps new readers out, and it waits for the old ones.
Locked(object, body) ==
    <<Step("lock", object), Step("drain", object)>> \o body \o <<Step("unlock", object)>>
Reading(object, body) ==
    <<Step("rlock", object)>> \o body \o <<Step("runlock", object)>>

\* Mutant: the alert is added without the lock, for callers that hold it.
AddAlertUnlocked == <<Step("alert", "dashboard")>>

\* Mutant: an early return before the lock is given back.
AddAlertKeepsLock ==
    <<Step("lock", "dashboard"), Step("drain", "dashboard"), Step("alert", "dashboard")>>

AddAlert == Locked("dashboard", <<Step("alert", "dashboard")>>)

ScheduleUpdate(c) ==
    Locked("dashboard", <<StepOn("enqueue", "dashboard", c)>> \o AddAlert)

\* Mutant: the lock is given back for the alert.
ExecuteUpdateInTwoSections(c) ==
    Locked("dashboard", <<StepOn("maintain", "dashboard", c), StepOn("dequeue", "dashboard", c)>>)
    \o AddAlert
    \o Locked("dashboard", <<StepOn("restore", "dashboard", c)>>)

ExecuteUpdate(c) ==
    Locked("dashboard",
           <<StepOn("maintain", "dashboard", c), StepOn("dequeue", "dashboard", c)>>
           \o AddAlert \o <<StepOn("restore", "dashboard", c)>>)

HealthCheck == Locked("dashboard", <<Step("check", "dashboard")>>)
UpdateMetrics == Locked("dashboard", <<Step("writes", "dashboard")>>)

GetSystemStatus == Reading("dashboard", <<Step("reads", "dashboard")>>)

\* GetMetrics, GetAlerts and GetUpdateQueue do the same.
GetAlerts == Reading("dashboard", <<Step("reads", "dashboard")>>)

GetDashboardSummary ==
    Reading("dashboard", GetSystemStatus \o <<Step("reads", "dashboard")>>)

Encrypt == Reading("security", <<Step("reads", "security")>>)
CreateBackup == Locked("security", Encrypt \o <<Step("writes", "security")>>)
EnableTwoFactor == Locked("security", <<Step("writes", "security")>>)

GetUserTransactions == Reading("history", <<Step("reads", "history")>>)
FilterTransactions == Reading("history", GetUserTransactions)
AddTransaction == Locked("history", <<Step("writes", "history")>>)

\* What a caller does with the components, networks, metrics and slices that
\* HealthCheck, CheckNetworkConnections and the Get methods of the dashboard
\* returned, and with the transactions of the history's.
ReadHandedOut(object) == <<Step("peeks", object)>>

Flat == {AddAlert, HealthCheck, UpdateMetrics, GetSystemStatus, GetAlerts,
         Encrypt, EnableTwoFactor, GetUserTransactions, AddTransaction}
Nested == {GetDashboardSummary, CreateBackup, FilterTransactions}
          \cup {ExecuteUpdate(c) : c \in Name}
Schedules == {ScheduleUpdate(c) : c \in Name}
HandedOut == {ReadHandedOut("dashboard"), ReadHandedOut("history")}
Method == Flat \cup Nested \cup Schedules \cup HandedOut

-----------------------------------------------------------------------------
Init ==
    /\ mutex = [o \in Object |-> Locks!Unlocked]
    /\ todo = [t \in Thread |-> <<>>]
    /\ Status = [c \in Component |-> "healthy"]
    /\ updateQueue = <<>>
    /\ alerts = 0

Idle(t) == todo[t] = <<>>

Call(t) ==
    /\ Idle(t)
    /\ \E m \in Method :
          /\ m \in Schedules => Len(updateQueue) < MaxQueue
          /\ todo' = [todo EXCEPT ![t] = m]
    /\ UNCHANGED <<mutex, dataVars>>

\* A thread in RLock that was not let in yet takes no step.
Waits(t) == \E o \in Object : t \in mutex[o].waiting

\* The thread is at a step of this kind, and goes past it.
At(t, name) == ~Idle(t) /\ ~Waits(t) /\ todo[t][1].does = name
Object1(t) == todo[t][1].object
Continue(t) == todo' = [todo EXCEPT ![t] = Tail(@)]

-----------------------------------------------------------------------------
(* The steps that are the lock's.                                          *)

RLock(t) ==
    /\ At(t, "rlock")
    /\ mutex' = [mutex EXCEPT ![Object1(t)] = Locks!RLock(@, t)]
    /\ Continue(t)
    /\ UNCHANGED dataVars

RUnlock(t) ==
    /\ At(t, "runlock")
    /\ mutex' = [mutex EXCEPT ![Object1(t)] = Locks!RUnlock(@, t)]
    /\ Continue(t)
    /\ UNCHANGED dataVars

Lock(t) ==
    /\ At(t, "lock")
    /\ Locks!CanLock(mutex[Object1(t)])
    /\ mutex' = [mutex EXCEPT ![Object1(t)] = Locks!Lock(@, t)]
    /\ Continue(t)
    /\ UNCHANGED dataVars

Drain(t) ==
    /\ At(t, "drain")
    /\ Locks!HoldsWrite(mutex[Object1(t)], t)
    /\ Continue(t)
    /\ UNCHANGED <<mutex, dataVars>>

Unlock(t) ==
    /\ At(t, "unlock")
    /\ mutex' = [mutex EXCEPT ![Object1(t)] = Locks!Unlock(@)]
    /\ Continue(t)
    /\ UNCHANGED dataVars

-----------------------------------------------------------------------------
(* The steps on the data.                                                  *)

Writing == {"writes", "alert", "enqueue", "dequeue", "maintain", "restore", "check"}

StatusAfter(step, c) ==
    CASE step.does = "maintain" /\ step.on = c -> "maintenance"
      [] step.does = "restore" /\ step.on = c -> "healthy"
      [] step.does = "check" -> "healthy"
      [] OTHER -> Status[c]

QueueAfter(step) ==
    CASE step.does = "enqueue" -> Append(updateQueue, step.on)
      [] step.does = "dequeue" -> RemoveFirst(updateQueue, step.on)
      [] OTHER -> updateQueue

AlertsAfter(step) ==
    IF step.does = "alert" /\ alerts < MaxAlerts THEN alerts + 1 ELSE alerts

Access(t) ==
    /\ ~Idle(t) /\ ~Waits(t) /\ todo[t][1].does \in Writing \cup {"reads", "peeks"}
    /\ Status' = [c \in Component |-> StatusAfter(todo[t][1], c)]
    /\ updateQueue' = QueueAfter(todo[t][1])
    /\ alerts' = AlertsAfter(todo[t][1])
    /\ Continue(t)
    /\ UNCHANGED mutex

Go(t) ==
    \/ RLock(t) \/ RUnlock(t) \/ Lock(t) \/ Drain(t) \/ Unlock(t)
    \/ Access(t)

Next == \E t \in Thread : Call(t) \/ Go(t)

\* A goroutine that can run does; of those that want a mutex nobody is passed
\* over for ever (sync.Mutex hands it to the one that has waited too long).
Fairness == \A t \in Thread : WF_vars(Go(t)) /\ SF_vars(Lock(t))

Spec == Init /\ [][Next]_vars /\ Fairness

-----------------------------------------------------------------------------
TypeOK ==
    /\ mutex \in [Object -> Locks!Mutex]
    /\ \A t \in Thread : \E m \in Method \cup {<<>>} : IsSuffix(todo[t], m)
    /\ Status \in [Component -> {"healthy", "maintenance"}]
    /\ updateQueue \in Seq(Name)
    /\ alerts \in 0..MaxAlerts

\* Two threads meet on the data of an object, one of them writing, only where
\* the other reads what was handed out to it: methods never do, with the locks
\* they take themselves and those their callers hold for them.
RaceFree ==
    \A t, u \in Thread : \A w \in Writing, x \in Writing \cup {"reads", "peeks"} :
        t # u /\ At(t, w) /\ At(u, x) /\ Object1(t) = Object1(u) => x = "peeks"

\* An update of c has begun (300) and is not over (316).
HasLeft(t, step) == \E i \in DOMAIN todo[t] : todo[t][i] = step
Updating(t, c) ==
    /\ HasLeft(t, StepOn("restore", "dashboard", c))
    /\ ~HasLeft(t, StepOn("maintain", "dashboard", c))

\* A component shows that it is in maintenance as long as an update of it has
\* begun and is not over, whatever the other methods write meanwhile: so finds
\* it whoever reads the live components.  The methods that read them under the
\* lock find no update half done (300-317).
MaintenanceShown ==
    /\ \A c \in Component : Status[c] = "maintenance" <=> \E t \in Thread : Updating(t, c)
    /\ \A t \in Thread : At(t, "reads") /\ Object1(t) = "dashboard" =>
          \A c \in Component : Status[c] = "healthy"

\* The thread waits for a lock that it holds itself.
Holds(t, o) == mutex[o].readers[t] > 0 \/ mutex[o].writer = t
WaitsForItself(t, o) ==
    /\ Holds(t, o)
    /\ t \in mutex[o].waiting \/ (At(t, "lock") /\ Object1(t) = o)

\* A call that does not return is on an object where some method waits for the
\* lock that the method around it holds: nothing else makes a call hang.
OnlyNestedCallsBlock ==
    \A t \in Thread :
        ~Idle(t) ~> \/ Idle(t)
                    \/ \E u \in Thread : ~Idle(t) /\ WaitsForItself(u, Object1(t))

=============================================================================
