------------------------------ MODULE Invoices ------------------------------
(* Payment requests that expire when somebody looks at them:                   *)
(* payments/btnpay.go, and the same protocol in wallet/merchant.go.  A reader  *)
(* that finds a pending request past its time writes "expired" while it holds  *)
(* only the read lock, and hands out a pointer that is encoded into the answer *)
(* after the unlock.  IDs are readings of the nanosecond clock, taken to be    *)
(* distinct.                                                                   *)
EXTENDS Integers

CONSTANTS Invoice, Getter, NoInvoice,
  DefaultTTL       \* what a TTL of zero stands for: 15 minutes

VARIABLES
  invoices,  \* bp.invoices
  getters,   \* GetInvoice calls: where they are and the invoice they are about
  shown      \* history: the fates, paid or expired, that answers showed

vars == <<invoices, getters, shown>>

InvoiceRecord == [status : {"pending", "paid", "expired"}, expires : Int]
Out == [at |-> "out"]

Init ==
  /\ invoices = [i \in Invoice |-> NoInvoice]
  /\ getters = [g \in Getter |-> Out]
  /\ shown = [i \in Invoice |-> {}]

\* Mutant: writers do not wait for readers.
NeverLocked == FALSE

ReadLocked == \E g \in Getter : getters[g].at \in {"locked", "expiring"}

Moves(g, at) == getters' = [getters EXCEPT ![g].at = at]

CreateInvoice(i, ttl, now) ==
  /\ ~ReadLocked
  /\ invoices[i] = NoInvoice
  /\ invoices' = [invoices EXCEPT ![i] =
                    [status |-> "pending",
                     expires |-> now + (IF ttl = 0 THEN DefaultTTL ELSE ttl)]]
  /\ UNCHANGED <<getters, shown>>

(* GetInvoice: take the read lock and find the invoice ...                     *)
GetInvoice(g, i) ==
  /\ getters[g] = Out
  /\ invoices[i] # NoInvoice
  /\ getters' = [getters EXCEPT ![g] = [at |-> "locked", id |-> i]]
  /\ UNCHANGED <<invoices, shown>>

(* ... compare the clock and the status ...                                    *)
Decide(g, now) ==
  /\ getters[g].at = "locked"
  /\ LET inv == invoices[getters[g].id] IN
       Moves(g, IF now > inv.expires /\ inv.status = "pending"
                THEN "expiring" ELSE "encoding")
  /\ UNCHANGED <<invoices, shown>>

(* ... write the status ...                                                    *)
Expire(g) ==
  /\ getters[g].at = "expiring"
  /\ invoices' = [invoices EXCEPT ![getters[g].id].status = "expired"]
  /\ Moves(g, "encoding")
  /\ UNCHANGED shown

(* ... and, without the lock, encode what the pointer now shows.               *)
Encode(g) ==
  /\ getters[g].at = "encoding"
  /\ LET i == getters[g].id IN
       shown' = [shown EXCEPT ![i] = @ \cup ({invoices[i].status} \ {"pending"})]
  /\ getters' = [getters EXCEPT ![g] = Out]
  /\ UNCHANGED invoices

\* Mutant: a paid invoice can be paid again.
NotExpired(i) == invoices[i] # NoInvoice /\ invoices[i].status # "expired"

Pending(i) == invoices[i] # NoInvoice /\ invoices[i].status = "pending"

(* The answer to the payer says "paid".                                        *)
MarkPaid(i) ==
  /\ ~ReadLocked
  /\ Pending(i)
  /\ invoices' = [invoices EXCEPT ![i].status = "paid"]
  /\ shown' = [shown EXCEPT ![i] = @ \cup {"paid"}]
  /\ UNCHANGED getters

Read(g, now) == Decide(g, now) \/ Expire(g) \/ Encode(g)
-----------------------------------------------------------------------------
(* A customer who was told that the invoice is paid, or that it has expired,   *)
(* was told its fate: a payment that arrives after the time is up is taken as  *)
(* long as nobody has been told, and a reader that is about to write "expired" *)
(* never overwrites a payment.                                                 *)
AnswersStay ==
  \A i \in Invoice : \A s \in shown[i] : invoices[i].status = s
=============================================================================
