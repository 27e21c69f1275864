--------------------------- MODULE FraudDetector ----------------------------
(* The FraudDetector of wallet/security.go: large transactions are counted per *)
(* sender, and a sender with Threshold of them is blocked.  Unblocking leaves  *)
(* the count where it is.                                                      *)
EXTENDS Integers

CONSTANTS Address,
  Threshold,      \* alertThreshold: 3
  MaxUnblocks     \* bound on calls of UnblockAddress per address

VARIABLES
  suspiciousActivities,  \* how many are logged for each address
  blockedAddresses,
  unblocks               \* history: how often each address was unblocked

vars == <<suspiciousActivities, blockedAddresses, unblocks>>

Init ==
  /\ suspiciousActivities = [a \in Address |-> 0]
  /\ blockedAddresses = {}
  /\ unblocks = [a \in Address |-> 0]

logSuspiciousActivity(a) ==
  /\ suspiciousActivities' = [suspiciousActivities EXCEPT ![a] = @ + 1]
  /\ blockedAddresses' = IF suspiciousActivities'[a] >= Threshold
                         THEN blockedAddresses \cup {a} ELSE blockedAddresses

\* Mutant: only the receiver is looked up.
ReceiverClear(from, to) == to \notin blockedAddresses

Clear(from, to) == {from, to} \cap blockedAddresses = {}

(* CheckTransaction for a large amount; nothing else it does changes anything. *)
CheckTransaction(from, to) ==
  /\ Clear(from, to)
  /\ logSuspiciousActivity(from)
  /\ UNCHANGED unblocks

BlockAddress(a) ==
  /\ blockedAddresses' = blockedAddresses \cup {a}
  /\ UNCHANGED <<suspiciousActivities, unblocks>>

UnblockAddress(a) ==
  /\ unblocks[a] < MaxUnblocks
  /\ blockedAddresses' = blockedAddresses \ {a}
  /\ unblocks' = [unblocks EXCEPT ![a] = @ + 1]
  /\ UNCHANGED suspiciousActivities

Next ==
  \E a \in Address :
    \/ BlockAddress(a) \/ UnblockAddress(a)
    \/ \E to \in Address : CheckTransaction(a, to)

Spec == Init /\ [][Next]_vars
-----------------------------------------------------------------------------
(* An address gets Threshold large transactions, and after that only one for   *)
(* every time somebody unblocks it; so the answer "high frequency" (257), for  *)
(* more than five, is only ever given to an address that was unblocked four    *)
(* times: the sixth comes after the third and blocks it again.                 *)
StrikesBounded ==
  \A a \in Address :
    /\ suspiciousActivities[a] <= Threshold + unblocks[a]
    /\ suspiciousActivities[a] = Threshold + unblocks[a] => a \in blockedAddresses

FraudOK ==
  /\ suspiciousActivities \in [Address -> Nat] /\ unblocks \in [Address -> Nat]
  /\ StrikesBounded
=============================================================================
