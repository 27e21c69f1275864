------------------------------- MODULE Cards --------------------------------
(* wallet/cards.go: each method is one critical section.  Every transaction    *)
(* takes its amount from the balance and counts towards the daily limit,       *)
(* whatever its type; amounts are positive, as those of all callers are.       *)
EXTENDS Integers

CONSTANTS Card, None, Amounts,
  dailyLimit,
  MaxToppedUp   \* bound: what a card is topped up by in all

VARIABLES
  cards,     \* cm.cards
  toppedUp,  \* history: what each card was topped up by
  spent,     \* history: the sum of its transactions
  today      \* history: the sum of its transactions since the last reset

vars == <<cards, toppedUp, spent, today>>

Init ==
  /\ cards = [c \in Card |-> None]
  /\ toppedUp = [c \in Card |-> 0]
  /\ spent = [c \in Card |-> 0] /\ today = [c \in Card |-> 0]

CreateCard(c) ==
  /\ cards[c] = None
  /\ cards' = [cards EXCEPT ![c] = [Status |-> "active", Balance |-> 0, DailySpent |-> 0]]
  /\ UNCHANGED <<toppedUp, spent, today>>

Active(c) == cards[c] # None /\ cards[c].Status = "active"

TopUpCard(c, amount) ==
  /\ Active(c)
  /\ toppedUp[c] + amount <= MaxToppedUp
  /\ cards' = [cards EXCEPT ![c].Balance = @ + amount]
  /\ toppedUp' = [toppedUp EXCEPT ![c] = @ + amount]
  /\ UNCHANGED <<spent, today>>

\* Mutant: the limit is compared with what was spent before.
CoversBefore(c, amount) == cards[c].DailySpent <= dailyLimit /\ cards[c].Balance >= amount

Covers(c, amount) == cards[c].DailySpent + amount <= dailyLimit /\ cards[c].Balance >= amount

ProcessCardTransaction(c, amount) ==
  /\ Active(c) /\ Covers(c, amount)
  /\ cards' = [cards EXCEPT ![c] =
                  [cards[c] EXCEPT !.Balance = @ - amount, !.DailySpent = @ + amount]]
  /\ spent' = [spent EXCEPT ![c] = @ + amount]
  /\ today' = [today EXCEPT ![c] = @ + amount]
  /\ UNCHANGED toppedUp

UpdateCardStatus(c, status) ==
  /\ cards[c] # None
  /\ cards' = [cards EXCEPT ![c].Status = status]
  /\ UNCHANGED <<toppedUp, spent, today>>

(* All cards, whatever their status.                                           *)
ResetDailySpent ==
  /\ cards' = [c \in Card |->
       IF cards[c] = None THEN None ELSE [cards[c] EXCEPT !.DailySpent = 0]]
  /\ today' = [c \in Card |-> 0]
  /\ UNCHANGED <<toppedUp, spent>>

Next ==
  \/ ResetDailySpent
  \/ \E c \in Card :
       \/ CreateCard(c)
       \/ \E a \in Amounts : TopUpCard(c, a) \/ ProcessCardTransaction(c, a)
       \/ \E s \in {"active", "blocked"} : UpdateCardStatus(c, s)
-----------------------------------------------------------------------------
(* The books of every card balance: what is on it is what was paid in less the *)
(* transactions, never less than nothing, and between two resets no more than  *)
(* the daily limit is spent, over blocking, unblocking and resets in any order.*)
CardsBalance ==
  \A c \in Card : cards[c] # None =>
    /\ cards[c].Balance = toppedUp[c] - spent[c] /\ cards[c].Balance >= 0
    /\ today[c] <= dailyLimit

(* The inductive invariant: what counts towards the limit is today's sum, and  *)
(* an account without a card is empty.                                         *)
CardsOK ==
  /\ cards \in [Card -> {None} \cup
                 [Status : {"active", "blocked"}, Balance : Nat, DailySpent : Nat]]
  /\ {toppedUp, spent, today} \subseteq [Card -> Nat]
  /\ CardsBalance
  /\ \A c \in Card :
       IF cards[c] = None THEN toppedUp[c] = 0 /\ spent[c] = 0 /\ today[c] = 0
                          ELSE today[c] = cards[c].DailySpent
=============================================================================
