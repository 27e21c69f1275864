------------------------------- MODULE Addons -------------------------------
(* addons/registry.go and the two modules of the package, lending_module.go    *)
(* and staking_module.go.  The registry keeps its own record of each module's  *)
(* status; the module keeps the one that Execute asks.  Execute holds the      *)
(* registry's read lock over its test and the call of the module, so that      *)
(* other Executes come in between and Enable, Disable and Unregister do not.   *)
(* Offers and loans are kept under an ID that is the second of their creation. *)
EXTENDS Integers

CONSTANTS
  Lending, Staking,      \* the modules of the package, which never fail
  Plugin,                \* modules of others, whose methods can fail
  Caller,                \* goroutines in Execute
  Default, Custom,       \* IDs of staking pools: a default one, another one
  None,
  MaxSecond, MaxRecords  \* bounds: seconds of the clock, offers and loans

VARIABLES
  second,    \* time.Now() in the format that IDs have
  info,      \* the registry's records: None where nothing is registered
  status,    \* the modules' own status
  calls,     \* what an Execute that has passed its test is about to call
  offers, loans, \* the lending module's maps, by ID
  pools,     \* the staking module's map
  records,   \* history: how many offers and loans were made
  unstopped  \* history: modules that were removed although Stop failed

registry == <<info, status, unstopped>>
vars == <<second, registry, calls, offers, loans, pools, records>>

Module == {Lending, Staking} \cup Plugin
Second == 0 .. MaxSecond

Init ==
  /\ second = 0
  /\ info = [m \in Module |-> None]
  /\ status = [m \in Module |-> "disabled"]
  /\ calls = [c \in Caller |-> None]
  /\ offers = [t \in Second |-> None] /\ loans = [t \in Second |-> None]
  /\ pools = [p \in {Default, Custom} |-> None]
  /\ records = 0 /\ unstopped = {}

Registered(m) == info[m] # None
ReadLocked == \E c \in Caller : calls[c] # None
\* Mutant: a change does not wait for the Executes under way.
ChangesAnyTime(m) == Registered(m)

Changes(m) == Registered(m) /\ ~ReadLocked

Records(m, s) == info' = [info EXCEPT ![m] = s]
Becomes(m, s) == status' = [status EXCEPT ![m] = s]

Register(m) ==
  /\ ~Registered(m) /\ ~ReadLocked
  /\ Records(m, "disabled")
  /\ UNCHANGED <<second, status, unstopped, calls, offers, loans, pools, records>>

(* An error of Stop is dropped, and the module with it.                        *)
Unregister(m) ==
  /\ Changes(m)
  /\ Records(m, None)
  /\ \/ Becomes(m, "disabled") /\ unstopped' = unstopped \ {m}
     \/ /\ m \in Plugin /\ status[m] = "enabled"
        /\ unstopped' = unstopped \cup {m}
        /\ UNCHANGED status
  /\ UNCHANGED <<second, calls, offers, loans, pools, records>>

(* The staking module makes its default pools anew whenever it is initialized. *)
Initialize(m) ==
  pools' = IF m = Staking THEN [pools EXCEPT ![Default] = "default"] ELSE pools

Enable(m) ==
  /\ Changes(m)
  /\ Records(m, "enabled")
  /\ Becomes(m, "enabled")
  /\ unstopped' = unstopped \ {m}
  /\ Initialize(m)
  /\ UNCHANGED <<second, calls, offers, loans, records>>

Disable(m) ==
  /\ Changes(m)
  /\ Records(m, "disabled")
  /\ Becomes(m, "disabled")
  /\ unstopped' = unstopped \ {m}
  /\ UNCHANGED <<second, calls, offers, loans, pools, records>>

(* Initialize, Start or Stop fails: only the registry's record says so.        *)
ModuleFails(m) ==
  /\ Changes(m) /\ m \in Plugin
  /\ Records(m, "error")
  /\ UNCHANGED <<second, status, unstopped, calls, offers, loans, pools, records>>

(* Execute: the test, and the call of the module's own Execute.                *)
Execute(c, m, action) ==
  /\ calls[c] = None
  /\ Registered(m) /\ status[m] = "enabled"
  /\ calls' = [calls EXCEPT ![c] = [module |-> m, action |-> action]]
  /\ UNCHANGED <<second, registry, offers, loans, pools, records>>

Calls(c, m, action) ==
  /\ calls[c] = [module |-> m, action |-> action]
  /\ calls' = [calls EXCEPT ![c] = None]
  /\ UNCHANGED <<second, registry>>

\* Mutant: IDs of a coarser resolution.
generateMinuteID == 0

generateLoanID == second
NewRecord == records < MaxRecords /\ records' = records + 1

createOffer(c) ==
  /\ Calls(c, Lending, "create_offer") /\ NewRecord
  /\ offers' = [offers EXCEPT ![generateLoanID] = [serial |-> records, status |-> "available"]]
  /\ UNCHANGED <<loans, pools>>

\* Mutant: an offer that was lent stays available.
LeaveAvailable(t) == offers' = offers

Fill(t) == offers' = [offers EXCEPT ![t].status = "filled"]

createLoan(c, t) ==
  /\ Calls(c, Lending, "create_loan") /\ NewRecord
  /\ offers[t] # None /\ offers[t].status = "available"
  /\ loans' = [loans EXCEPT ![generateLoanID] = [offer |-> offers[t].serial, status |-> "active"]]
  /\ Fill(t)
  /\ UNCHANGED pools

repayLoan(c, t) ==
  /\ Calls(c, Lending, "repay_loan")
  /\ loans[t] # None /\ loans[t].status = "active"
  /\ loans' = [loans EXCEPT ![t].status = "repaid"]
  /\ UNCHANGED <<offers, pools, records>>

createPool(c, p) ==
  /\ Calls(c, Staking, "create_pool")
  /\ pools' = [pools EXCEPT ![p] = "custom"]
  /\ UNCHANGED <<offers, loans, records>>

(* Any call can also be refused, or be one that only reads.                    *)
Returns(c) ==
  /\ calls[c] # None
  /\ calls' = [calls EXCEPT ![c] = None]
  /\ UNCHANGED <<second, registry, offers, loans, pools, records>>

Tick ==
  /\ second < MaxSecond
  /\ second' = second + 1
  /\ UNCHANGED <<registry, calls, offers, loans, pools, records>>

Next ==
  \/ Tick
  \/ \E m \in Module :
       \/ Register(m) \/ Unregister(m) \/ Enable(m) \/ Disable(m) \/ ModuleFails(m)
  \/ \E c \in Caller :
       \/ \E a \in {"create_offer", "create_loan", "repay_loan"} : Execute(c, Lending, a)
       \/ Execute(c, Staking, "create_pool")
       \/ createOffer(c)
       \/ \E t \in Second : createLoan(c, t) \/ repayLoan(c, t)
       \/ \E p \in {Default, Custom} : createPool(c, p)
       \/ Returns(c)
-----------------------------------------------------------------------------
(* The two records of a module's status tell the same story, over failing      *)
(* methods and modules that leave and come back: what the registry lists as    *)
(* enabled can be executed, and what it lists as disabled cannot, except a     *)
(* module that was removed although its Stop failed, and registered again      *)
(* (127).  A call that passed Execute's test finds the module enabled when it    *)
(* gets there: no Disable or Unregister comes in between.  An enabled staking  *)
(* module has its default pool.                                                *)
RecordAgrees ==
  /\ \A m \in Module :
       /\ info[m] = "enabled" => status[m] = "enabled"
       /\ info[m] = "disabled" /\ status[m] = "enabled" => m \in unstopped
  /\ \A c \in Caller : calls[c] # None =>
       Registered(calls[c].module) /\ status[calls[c].module] = "enabled"
  /\ status[Staking] = "enabled" => pools[Default] # None

(* No offer is lent twice, with any number of concurrent borrowers.            *)
OneLoanPerOffer ==
  \A t, u \in Second :
    loans[t] # None /\ loans[u] # None /\ loans[t].offer = loans[u].offer => t = u

(* An offer or a loan only moves on: a filled one is not available again and a *)
(* repaid one is not active again.  The one way to lose a record is to a       *)
(* record that is made in the same second, under the same ID (265).            *)
RecordsMoveOn ==
  [][\A t \in Second \ {second} :
       /\ offers'[t] # offers[t] =>
            offers[t] # None /\ offers[t].status = "available"
            /\ offers'[t] = [offers[t] EXCEPT !.status = "filled"]
       /\ loans'[t] # loans[t] =>
            loans[t] # None /\ loans[t].status = "active"
            /\ loans'[t] = [loans[t] EXCEPT !.status = "repaid"]]_vars

Actions == {"create_offer", "create_loan", "repay_loan", "create_pool"}

TypeOK ==
  /\ second \in Second /\ records \in Nat
  /\ info \in [Module -> {None, "enabled", "disabled", "error"}]
  /\ status \in [Module -> {"enabled", "disabled"}]
  /\ calls \in [Caller -> {None} \cup [module : Module, action : Actions]]
  /\ offers \in [Second -> {None} \cup [serial : Nat, status : {"available", "filled"}]]
  /\ loans \in [Second -> {None} \cup [offer : Nat, status : {"active", "repaid"}]]
  /\ pools \in [{Default, Custom} -> {None, "default", "custom"}]

(* The inductive invariant: offers differ, and one that is available is in no  *)
(* loan.                                                                       *)
AddonsOK ==
  /\ TypeOK /\ RecordAgrees /\ OneLoanPerOffer
  /\ \A m \in Module : ~Registered(m) /\ status[m] = "enabled" => m \in unstopped
  /\ \A t \in Second : offers[t] # None =>
       /\ offers[t].serial < records
       /\ \A u \in Second :
            /\ offers[u] # None /\ offers[u].serial = offers[t].serial => u = t
            /\ loans[u] # None /\ offers[t].status = "available" =>
                 loans[u].offer # offers[t].serial
  /\ \A t \in Second : loans[t] # None => loans[t].offer < records
=============================================================================
