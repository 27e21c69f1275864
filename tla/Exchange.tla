------------------------------ MODULE Exchange ------------------------------
(* wallet/exchange.go: rates for pairs of assets, and orders that are priced   *)
(* by one reading of a rate and recorded with another.  A rate is the power of *)
(* two that it multiplies by, so that the reverse rate, 1.0 / rate (112), is   *)
(* its negative.  Left out: the rate 0, which nothing refuses and whose        *)
(* reverse is +Inf; rounding of 1.0 / rate for others than powers of two; and  *)
(* the pair of an asset with itself, whose rate would be its own reverse.      *)
EXTENDS Integers

CONSTANTS Asset, Rates, User, None,
  MaxSets        \* bound on calls of SetExchangeRate

VARIABLES
  rates,     \* ex.rates: every ordered pair's rate, or None
  sets,      \* how often a rate was set
  order,     \* each user's latest order, in the making or in ex.orders
  inForce    \* history: the rates that held for its pair while it was made

vars == <<rates, sets, order, inForce>>

Pair == {p \in Asset \X Asset : p[1] # p[2]}
Reverse(p) == <<p[2], p[1]>>

(* Assets outside the table of default rates (72-91): no rate until one is set. *)
Init ==
  /\ rates = [p \in Pair |-> None]
  /\ sets = 0
  /\ order = [u \in User |-> None]
  /\ inForce = [u \in User |-> {}]

Made(u) == order[u] # None /\ order[u].at \notin {"priced", "read"}
Making(u) == order[u] # None /\ ~Made(u)

SetExchangeRate(p, rate) ==
  /\ sets < MaxSets
  /\ sets' = sets + 1
  /\ rates' = [rates EXCEPT ![p] = rate, ![Reverse(p)] = 0 - rate]
  /\ inForce' = [u \in User |->
       IF Making(u) THEN inForce[u] \cup {rates'[order[u].pair]} ELSE inForce[u]]
  /\ UNCHANGED order

\* Mutant: the rate of the other direction.
GetReverseRate(p) == rates[Reverse(p)]

GetExchangeRate(p) == rates[p]

(* CreateExchangeOrder: the amounts come from the rate that CalculateExchange  *)
(* reads; no rate, no order ...                                                *)
CalculateExchange(u, p) ==
  /\ ~Making(u)
  /\ GetExchangeRate(p) # None
  /\ order' = [order EXCEPT ![u] =
                 [at |-> "priced", pair |-> p, toAmount |-> GetExchangeRate(p), rate |-> None]]
  /\ inForce' = [inForce EXCEPT ![u] = {GetExchangeRate(p)}]
  /\ UNCHANGED <<rates, sets>>

(* ... the rate that the order shows is read again ...                         *)
ReadRateAgain(u) ==
  /\ Making(u) /\ order[u].at = "priced"
  /\ order' = [order EXCEPT ![u].rate = GetExchangeRate(order[u].pair), ![u].at = "read"]
  /\ UNCHANGED <<rates, sets, inForce>>

(* ... and the order is stored.                                                *)
CreateExchangeOrder(u) ==
  /\ Making(u) /\ order[u].at = "read"
  /\ order' = [order EXCEPT ![u].at = "pending"]
  /\ UNCHANGED <<rates, sets, inForce>>

(* Any status, at any time.                                                    *)
UpdateOrderStatus(u, status) ==
  /\ Made(u)
  /\ order' = [order EXCEPT ![u].at = status]
  /\ UNCHANGED <<rates, sets, inForce>>

Next ==
  \/ \E p \in Pair, r \in Rates : SetExchangeRate(p, r)
  \/ \E u \in User :
       \/ ReadRateAgain(u) \/ CreateExchangeOrder(u)
       \/ \E p \in Pair : CalculateExchange(u, p)
       \/ \E s \in {"pending", "completed"} : UpdateOrderStatus(u, s)
-----------------------------------------------------------------------------
(* An order's amounts and the rate it shows are both rates that held while it  *)
(* was made; where they differ, the rate was set anew between the two readings *)
(* (134, 158).  There and back again is worth nothing: each pair's rate is the *)
(* inverse of the other's.                                                     *)
OrdersPricedInForce ==
  /\ \A u \in User : order[u] # None =>
       {order[u].toAmount, order[u].rate} \ {None} \subseteq inForce[u]
  /\ \A p \in Pair : rates[p] # None => rates[Reverse(p)] = 0 - rates[p]

(* The inductive invariant: a rate that holds now is among those that held     *)
(* while the order is being made.                                              *)
ExchangeOK ==
  /\ rates \in [Pair -> Int \cup {None}]
  /\ \A u \in User : order[u] # None =>
       order[u] \in [at : {"priced", "read", "pending", "completed"}, pair : Pair,
                     toAmount : Int \cup {None}, rate : Int \cup {None}]
  /\ DOMAIN order = User /\ DOMAIN inForce = User
  /\ OrdersPricedInForce
  /\ \A u \in User : Making(u) => rates[order[u].pair] \in inForce[u]
=============================================================================
