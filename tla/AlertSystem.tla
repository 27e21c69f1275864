---------------------------- MODULE AlertSystem -----------------------------
(* The AlertSystem of wallet/security.go: a list of alerts, and for each       *)
(* address at most one channel that alerts are offered to.  Subscribing again  *)
(* puts a new channel in the place of the old one, which is neither closed nor *)
(* written any more.  The ID of an alert is the second it was sent in.         *)
EXTENDS Integers, Sequences

CONSTANTS Address, Channel, None,
  Capacity,              \* of a channel: 100
  MaxSecond, MaxAlerts   \* bounds

VARIABLES
  second,       \* time.Now() in the format that IDs have
  alerts,       \* the address, the second and the state of every alert
  subscribers,  \* the channel of each address, or None
  buffer,       \* the alerts in a channel, by their position in the list
  received,     \* what the owner of a channel has taken from it
  closed,       \* the channels that were closed
  owner,        \* history: whom a channel was made for, or None
  asked         \* history: the IDs that ResolveAlert found an alert for

channels == <<subscribers, buffer, received, closed, owner>>
vars == <<second, alerts, channels, asked>>

Init ==
  /\ second = 0
  /\ alerts = <<>>
  /\ subscribers = [a \in Address |-> None]
  /\ buffer = [c \in Channel |-> <<>>]
  /\ received = [c \in Channel |-> <<>>]
  /\ closed = {}
  /\ owner = [c \in Channel |-> None]
  /\ asked = {}

generateAlertID == second

(* The alert is offered to the subscriber, and skipped when its channel is     *)
(* full.  A send on a closed channel would panic: nothing here would follow.   *)
SendAlert(a) ==
  /\ Len(alerts) < MaxAlerts
  /\ alerts' = Append(alerts, [address |-> a, id |-> generateAlertID, resolved |-> FALSE])
  /\ LET c == subscribers[a] IN
       buffer' = IF c # None /\ Len(buffer[c]) < Capacity
                 THEN [buffer EXCEPT ![c] = Append(@, Len(alerts'))] ELSE buffer
  /\ UNCHANGED <<second, subscribers, received, closed, owner, asked>>

Subscribe(a, c) ==
  /\ owner[c] = None
  /\ owner' = [owner EXCEPT ![c] = a]
  /\ subscribers' = [subscribers EXCEPT ![a] = c]
  /\ UNCHANGED <<second, alerts, buffer, received, closed, asked>>

\* Mutant: the closed channel stays in the map.
CloseOnly(a) ==
  /\ subscribers[a] # None
  /\ closed' = closed \cup {subscribers[a]}
  /\ UNCHANGED <<second, alerts, subscribers, buffer, received, owner, asked>>

Unsubscribe(a) ==
  /\ subscribers[a] # None
  /\ closed' = closed \cup {subscribers[a]}
  /\ subscribers' = [subscribers EXCEPT ![a] = None]
  /\ UNCHANGED <<second, alerts, buffer, received, owner, asked>>

(* The owner of the channel takes an alert, also from a closed channel.        *)
Receive(c) ==
  /\ buffer[c] # <<>>
  /\ received' = [received EXCEPT ![c] = Append(@, Head(buffer[c]))]
  /\ buffer' = [buffer EXCEPT ![c] = Tail(@)]
  /\ UNCHANGED <<second, alerts, subscribers, closed, owner, asked>>

\* Mutant: the last alert with the ID is marked.
LastOf(found) == CHOOSE i \in found : \A j \in found : j <= i

FirstOf(found) == CHOOSE i \in found : \A j \in found : i <= j

(* The first alert that has the ID is marked, whether it was before or not.    *)
ResolveAlert(id) ==
  LET found == {i \in DOMAIN alerts : alerts[i].id = id} IN
  /\ found # {}
  /\ alerts' = [alerts EXCEPT ![FirstOf(found)].resolved = TRUE]
  /\ asked' = asked \cup {id}
  /\ UNCHANGED <<second, channels>>

Tick ==
  /\ second < MaxSecond
  /\ second' = second + 1
  /\ UNCHANGED <<alerts, channels, asked>>

Next ==
  \/ Tick
  \/ \E a \in Address :
       SendAlert(a) \/ Unsubscribe(a) \/ \E c \in Channel : Subscribe(a, c)
  \/ \E c \in Channel : Receive(c)
  \/ \E id \in 0 .. MaxSecond : ResolveAlert(id)
-----------------------------------------------------------------------------
(* A channel that alerts are sent to is open, and nobody else's, so that no    *)
(* send panics, over subscribing again and unsubscribing; and a subscriber     *)
(* gets alerts of its own address, each at most once and in the order they     *)
(* were sent, however often its channel was full in between.                   *)
SubscribersServed ==
  /\ \A a \in Address : subscribers[a] # None =>
       subscribers[a] \notin closed /\ owner[subscribers[a]] = a
  /\ \A c \in Channel :
       LET got == received[c] \o buffer[c] IN
       /\ \A i \in DOMAIN got : alerts[got[i]].address = owner[c]
       /\ \A i, j \in DOMAIN got : i < j => got[i] < got[j]

(* An alert whose ID was given to ResolveAlert is resolved, unless an earlier  *)
(* one was sent in the same second and so has the same ID (411).               *)
OnlyTwinsLinger ==
  \A i \in DOMAIN alerts : alerts[i].id \in asked /\ ~alerts[i].resolved =>
    \E j \in 1 .. i - 1 : alerts[j].id = alerts[i].id /\ alerts[j].resolved
=============================================================================
