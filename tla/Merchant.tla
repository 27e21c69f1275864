------------------------------ MODULE Merchant ------------------------------
(* wallet/merchant.go: merchants, payment requests that expire like BTN-PAY's  *)
(* invoices, and mobile payments, which complete at once.  A method that needs *)
(* the merchant looks it up in a critical section of its own; merchants are    *)
(* never removed.  The methods a merchant accepts are not tested by anything,  *)
(* and left out.                                                               *)
EXTENDS Integers, Sequences, Functions

CONSTANTS Merchants, Request, Getter, None, Amounts,
  MaxClock, MaxMobile   \* bounds: ticks, mobile payments

VARIABLES
  now,
  TotalReceived,   \* of each merchant, None before its registration
  paymentRequests, getters, shown,  \* as in Invoices; "paid" is "completed"
  bill,            \* whom a payment request is for, and its amount
  mobilePayments   \* those of each merchant, in order

expiry == <<paymentRequests, getters, shown>>
vars == <<now, TotalReceived, expiry, bill, mobilePayments>>

Requests == INSTANCE Invoices WITH
  Invoice <- Request, invoices <- paymentRequests, NoInvoice <- None, DefaultTTL <- 0

Init ==
  /\ Requests!Init
  /\ now = 0
  /\ TotalReceived = [m \in Merchants |-> None]
  /\ bill = [q \in Request |-> None]
  /\ mobilePayments = [m \in Merchants |-> <<>>]

RegisterMerchant(m) ==
  /\ TotalReceived[m] = None /\ ~Requests!ReadLocked
  /\ TotalReceived' = [TotalReceived EXCEPT ![m] = 0]
  /\ UNCHANGED <<now, expiry, bill, mobilePayments>>

CreatePaymentRequest(q, m, amount) ==
  /\ TotalReceived[m] # None
  /\ Requests!CreateInvoice(q, 0, now)
  /\ bill' = [bill EXCEPT ![q] = [merchant |-> m, amount |-> amount]]
  /\ UNCHANGED <<now, TotalReceived, mobilePayments>>

GetPaymentRequest(g, q) ==
  /\ Requests!GetInvoice(g, q) \/ Requests!Read(g, now)
  /\ UNCHANGED <<now, TotalReceived, bill, mobilePayments>>

CompletePaymentRequest(q) ==
  /\ Requests!MarkPaid(q)
  /\ TotalReceived' = [TotalReceived EXCEPT ![bill[q].merchant] = @ + bill[q].amount]
  /\ UNCHANGED <<now, bill, mobilePayments>>

ProcessMobileMoneyPayment(m, amount) ==
  /\ TotalReceived[m] # None /\ ~Requests!ReadLocked
  /\ Len(mobilePayments[m]) < MaxMobile
  /\ mobilePayments' = [mobilePayments EXCEPT ![m] = Append(@, amount)]
  /\ TotalReceived' = [TotalReceived EXCEPT ![m] = @ + amount]
  /\ UNCHANGED <<now, expiry, bill>>

Tick ==
  /\ now < MaxClock
  /\ now' = now + 1
  /\ UNCHANGED <<TotalReceived, expiry, bill, mobilePayments>>

Next ==
  \/ Tick
  \/ \E m \in Merchants :
       \/ RegisterMerchant(m)
       \/ \E a \in Amounts :
            \/ ProcessMobileMoneyPayment(m, a)
            \/ \E q \in Request : CreatePaymentRequest(q, m, a)
  \/ \E q \in Request :
       CompletePaymentRequest(q) \/ \E g \in Getter : GetPaymentRequest(g, q)
-----------------------------------------------------------------------------
Completed(m) ==
  {q \in Request : bill[q] # None /\ bill[q].merchant = m /\ paymentRequests[q].status = "paid"}

(* A merchant's total is the sum of its completed requests and of its mobile   *)
(* payments: no request is completed twice, or both completed and expired,     *)
(* whoever reads and completes it at the same time.                            *)
TotalsAgree ==
  \A m \in Merchants : TotalReceived[m] # None =>
    TotalReceived[m] =
      SumFunction([q \in Completed(m) |-> bill[q].amount]) + SumFunction(mobilePayments[m])
=============================================================================
