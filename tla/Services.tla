------------------------------ MODULE Services ------------------------------
(* The services that keep their state to themselves, side by side.  They share *)
(* nothing but the clock, so a behaviour exercises one of them, which "part"   *)
(* names; what is reachable is the sum of their states, not the product.       *)
EXTENDS Integers, Sequences

CONSTANTS
  None, Address, MaxSecond,
  Lending, Staking, Plugin, Caller, Default, Custom, MaxRecords,
  Threshold, MaxUnblocks, Channel, Capacity, MaxAlerts,
  Asset, Rates, User, MaxSets,
  Card, Amounts, dailyLimit, MaxToppedUp,
  Merchants, Request, Getter, MaxClock, MaxMobile,
  Thread, NoThread, Component, Name, MaxShown, MaxQueue

ASSUME ServicesAssumption ==
  /\ None \notin Int \cup {"enabled", "disabled", "error", "default", "custom"}
  /\ None \notin Address \cup Channel
  /\ MaxSecond \in Nat
  /\ Threshold \in Nat \ {0}
  /\ Rates \subseteq Int
  /\ None \notin [Status : {"active", "blocked"}, Balance : Nat, DailySpent : Nat]
  /\ None \notin [merchant : Merchants, amount : Nat]
  /\ None \notin [status : {"pending", "paid", "expired"}, expires : Int]
  /\ dailyLimit \in Nat /\ Amounts \subseteq Nat

ASSUME LocksAssumption ==
  /\ NoThread \notin Thread
  /\ Component \subseteq Name
  /\ MaxShown \in Nat \ {0}
  /\ MaxQueue \in Nat

VARIABLES
  part, second,
  info, status, calls, offers, loans, pools, records, unstopped,
  suspiciousActivities, blockedAddresses, unblocks,
  alerts, subscribers, buffer, received, closed, owner, asked,
  rates, sets, order, inForce,
  cards, toppedUp, spent, today,
  now, TotalReceived, paymentRequests, getters, shown, bill, mobilePayments,
  mutex, todo, Status, updateQueue, shownAlerts

AddonsPart == INSTANCE Addons
FraudPart == INSTANCE FraudDetector
AlertsPart == INSTANCE AlertSystem
ExchangePart == INSTANCE Exchange
CardsPart == INSTANCE Cards
MerchantPart == INSTANCE Merchant
LocksPart == INSTANCE WalletLocks WITH alerts <- shownAlerts, MaxAlerts <- MaxShown

addons == <<info, status, calls, offers, loans, pools, records, unstopped>>
fraud == <<suspiciousActivities, blockedAddresses, unblocks>>
alert == <<alerts, subscribers, buffer, received, closed, owner, asked>>
exchange == <<rates, sets, order, inForce>>
card == <<cards, toppedUp, spent, today>>
merchant == <<now, TotalReceived, paymentRequests, getters, shown, bill, mobilePayments>>
locks == <<mutex, todo, Status, updateQueue, shownAlerts>>
vars == <<part, second, addons, fraud, alert, exchange, card, merchant, locks>>

Parts == {"addons", "fraud", "alerts", "exchange", "cards", "merchant", "locks"}

Init ==
  /\ part \in Parts
  /\ AddonsPart!Init /\ FraudPart!Init /\ AlertsPart!Init /\ ExchangePart!Init
  /\ CardsPart!Init /\ MerchantPart!Init /\ LocksPart!Init

Next ==
  /\ part' = part
  /\ \/ /\ part = "addons" /\ AddonsPart!Next
        /\ UNCHANGED <<fraud, alert, exchange, card, merchant, locks>>
     \/ /\ part = "fraud" /\ FraudPart!Next
        /\ UNCHANGED <<second, addons, alert, exchange, card, merchant, locks>>
     \/ /\ part = "alerts" /\ AlertsPart!Next
        /\ UNCHANGED <<addons, fraud, exchange, card, merchant, locks>>
     \/ /\ part = "exchange" /\ ExchangePart!Next
        /\ UNCHANGED <<second, addons, fraud, alert, card, merchant, locks>>
     \/ /\ part = "cards" /\ CardsPart!Next
        /\ UNCHANGED <<second, addons, fraud, alert, exchange, merchant, locks>>
     \/ /\ part = "merchant" /\ MerchantPart!Next
        /\ UNCHANGED <<second, addons, fraud, alert, exchange, card, locks>>
     \/ /\ part = "locks" /\ LocksPart!Next
        /\ UNCHANGED <<second, addons, fraud, alert, exchange, card, merchant>>

Spec == Init /\ [][Next]_vars

RecordAgrees == AddonsPart!RecordAgrees
OneLoanPerOffer == AddonsPart!OneLoanPerOffer
RecordsMoveOn == AddonsPart!RecordsMoveOn
StrikesBounded == FraudPart!StrikesBounded
SubscribersServed == AlertsPart!SubscribersServed
OnlyTwinsLinger == AlertsPart!OnlyTwinsLinger
OrdersPricedInForce == ExchangePart!OrdersPricedInForce
CardsBalance == CardsPart!CardsBalance
TotalsAgree == MerchantPart!TotalsAgree
RaceFree == LocksPart!RaceFree
MaintenanceShown == LocksPart!MaintenanceShown
=============================================================================
