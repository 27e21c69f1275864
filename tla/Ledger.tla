------------------------------- MODULE Ledger -------------------------------
(***************************************************************************)
(* What a BTNG ledger promises: tokens are minted to a wallet, melted from *)
(* one that has them and moved between two wallets, one operation at a     *)
(* time, and the supply record follows every mint and melt to within Slack *)
(* (0: it is kept exactly).                                                *)
(***************************************************************************)
EXTENDS Integers

CONSTANTS Wallet, Amounts, Slack

VARIABLES balance, supply

Init ==
    /\ balance = [w \in Wallet |-> 0]
    /\ supply = 0

Near(x) == (x - Slack) .. (x + Slack)

Mint(w, a) ==
    /\ balance' = [balance EXCEPT ![w] = @ + a]
    /\ supply' \in Near(supply + a)

Melt(w, a) ==
    /\ balance[w] >= a
    /\ balance' = [balance EXCEPT ![w] = @ - a]
    /\ supply' \in Near(supply - a)

Transfer(w, v, a) ==
    /\ w # v
    /\ balance[w] >= a
    /\ balance' = [balance EXCEPT ![w] = @ - a, ![v] = @ + a]
    /\ supply' = supply

Next ==
    \E a \in Amounts :
        \/ \E w \in Wallet : Mint(w, a) \/ Melt(w, a)
        \/ \E w, v \in Wallet : Transfer(w, v, a)

Spec == Init /\ [][Next]_<<balance, supply>>

=============================================================================
