---------------------------- MODULE StakingPool ----------------------------
(***************************************************************************)
(* goldcoin/staking.go: one staking pool with stakes that are created,     *)
(* increased, claimed from and unstaked while time passes.  Every method   *)
(* is one critical section of sp.mutex, in which it also reads the clock.  *)
(*                                                                         *)
(* Abstractions.  Amounts are natural numbers and time is counted in       *)
(* ticks; the unit of rewards is what the annual rate gives one coin in    *)
(* one tick, so that a reward is amount times time, without the rounding   *)
(* of floating point.  The clock does not go back.                         *)
(***************************************************************************)
EXTENDS Integers, FiniteSets, Functions

CONSTANTS
    Address,        \* staking addresses, "" not among them
    Amounts,        \* amounts asked for
    MinStake,
    LockPeriod,     \* in ticks
    MaxTime,        \* bound: the last tick
    MaxDeposit      \* bound: what one address pays in, in all

ASSUME PoolAssumption ==
    /\ Amounts \subseteq Nat \ {0}
    /\ MinStake \in Nat \ {0}
    /\ LockPeriod \in Nat
    /\ MaxTime \in Nat
    /\ MaxDeposit \in Nat

VARIABLES
    now,             \* the clock
    Stakes,          \* the keys of the map
    Amount, StartTime, UnlockTime, RewardsClaimed, IsActive,   \* its records
    TotalStaked,
    deposited,       \* history: coins each address has put in
    returned,        \* history: coins it got back
    paid,            \* history: rewards paid to it
    accrued,         \* history: what its coins earned tick by tick
    retroactive      \* history: what coins added later are shown as having earned
                     \* before they were added

recordVars == <<Stakes, StartTime, UnlockTime, IsActive>>
vars == <<now, Stakes, Amount, StartTime, UnlockTime, RewardsClaimed, IsActive,
          TotalStaked, deposited, returned, paid, accrued, retroactive>>
historyVars == <<deposited, returned, paid, accrued, retroactive>>

TypeOK ==
    /\ now \in Nat
    /\ Stakes \subseteq Address
    /\ Amount \in [Address -> Nat]
    /\ StartTime \in [Address -> Nat]
    /\ UnlockTime \in [Address -> Nat]
    /\ RewardsClaimed \in [Address -> Nat]
    /\ IsActive \in [Address -> BOOLEAN]
    /\ TotalStaked \in Int
    /\ deposited \in [Address -> Nat]
    /\ returned \in [Address -> Nat]
    /\ paid \in [Address -> Nat]
    /\ accrued \in [Address -> Nat]
    /\ retroactive \in [Address -> Nat]
    /\ \A a \in Address : StartTime[a] <= now

Init ==
    /\ now = 0
    /\ Stakes = {}
    /\ Amount = [a \in Address |-> 0]
    /\ StartTime = [a \in Address |-> 0]
    /\ UnlockTime = [a \in Address |-> 0]
    /\ RewardsClaimed = [a \in Address |-> 0]
    /\ IsActive = [a \in Address |-> FALSE]
    /\ TotalStaked = 0
    /\ deposited = [a \in Address |-> 0]
    /\ returned = [a \in Address |-> 0]
    /\ paid = [a \in Address |-> 0]
    /\ accrued = [a \in Address |-> 0]
    /\ retroactive = [a \in Address |-> 0]

-----------------------------------------------------------------------------
\* Mutant: one tick too many.
RewardsOneMore(a) == Amount[a] * (now + 1 - StartTime[a])

\* What the amount would have earned since the stake was created.
Rewards(a) == Amount[a] * (now - StartTime[a])

\* Mutant: earlier claims are forgotten.
UnclaimedAll(a) == Rewards(a)

Unclaimed(a) == Rewards(a) - RewardsClaimed[a]

Tick ==
    /\ now < MaxTime
    /\ now' = now + 1
    /\ accrued' = [a \in Address |->
                     IF IsActive[a] THEN accrued[a] + Amount[a] ELSE accrued[a]]
    /\ UNCHANGED <<recordVars, Amount, RewardsClaimed, TotalStaked, deposited,
                   returned, paid, retroactive>>

CreateStake(a, amount) ==
    /\ deposited[a] + amount <= MaxDeposit
    /\ amount >= MinStake
    /\ a \notin Stakes
    /\ Stakes' = Stakes \cup {a}
    /\ Amount' = [Amount EXCEPT ![a] = amount]
    /\ StartTime' = [StartTime EXCEPT ![a] = now]
    /\ UnlockTime' = [UnlockTime EXCEPT ![a] = now + LockPeriod]
    /\ RewardsClaimed' = [RewardsClaimed EXCEPT ![a] = 0]
    /\ IsActive' = [IsActive EXCEPT ![a] = TRUE]
    /\ TotalStaked' = TotalStaked + amount
    /\ deposited' = [deposited EXCEPT ![a] = @ + amount]
    /\ UNCHANGED <<now, returned, paid, accrued, retroactive>>

ClaimRewards(a) ==
    /\ a \in Stakes /\ IsActive[a]
    /\ Unclaimed(a) > 0
    /\ RewardsClaimed' = [RewardsClaimed EXCEPT ![a] = @ + Unclaimed(a)]
    /\ paid' = [paid EXCEPT ![a] = @ + Unclaimed(a)]
    /\ UNCHANGED <<now, recordVars, Amount, TotalStaked, deposited, returned, accrued,
                   retroactive>>

\* The record stays in the map, inactive.
Unstake(a) ==
    /\ a \in Stakes /\ IsActive[a]
    /\ now >= UnlockTime[a]
    /\ IsActive' = [IsActive EXCEPT ![a] = FALSE]
    /\ TotalStaked' = TotalStaked - Amount[a]
    /\ returned' = [returned EXCEPT ![a] = @ + Amount[a]]
    /\ paid' = [paid EXCEPT ![a] = @ + Unclaimed(a)]
    /\ UNCHANGED <<now, Stakes, Amount, StartTime, UnlockTime, RewardsClaimed,
                   deposited, accrued, retroactive>>

\* Mutant: a stake that was returned is increased.
IncreaseInactive(a, amount) ==
    /\ deposited[a] + amount <= MaxDeposit
    /\ a \in Stakes
    /\ Amount' = [Amount EXCEPT ![a] = @ + amount]
    /\ TotalStaked' = TotalStaked + amount
    /\ deposited' = [deposited EXCEPT ![a] = @ + amount]
    /\ retroactive' = [retroactive EXCEPT ![a] = @ + amount * (now - StartTime[a])]
    /\ UNCHANGED <<now, recordVars, RewardsClaimed, returned, paid, accrued>>

IncreaseStake(a, amount) ==
    /\ deposited[a] + amount <= MaxDeposit
    /\ a \in Stakes /\ IsActive[a]
    /\ Amount' = [Amount EXCEPT ![a] = @ + amount]
    /\ TotalStaked' = TotalStaked + amount
    /\ deposited' = [deposited EXCEPT ![a] = @ + amount]
    /\ retroactive' = [retroactive EXCEPT ![a] = @ + amount * (now - StartTime[a])]
    /\ UNCHANGED <<now, recordVars, RewardsClaimed, returned, paid, accrued>>

Next ==
    \/ Tick
    \/ \E a \in Address :
          \/ ClaimRewards(a) \/ Unstake(a)
          \/ \E amount \in Amounts : CreateStake(a, amount) \/ IncreaseStake(a, amount)

Spec == Init /\ [][Next]_vars

-----------------------------------------------------------------------------
Active == {a \in Stakes : IsActive[a]}

\* The pool's total is the sum of its active stakes (68, 158, 217).
TotalIsSum == TotalStaked = FoldFunctionOnSet(+, 0, Amount, Active)

\* Every coin paid in is either in the active stake or was returned once.
PrincipalConserved ==
    \A a \in Address :
        deposited[a] = returned[a] + (IF a \in Active THEN Amount[a] ELSE 0)

\* The pool's books balance: its total, and every address's coins (68, 88, 158,
\* 217).
StakesConserved == TotalIsSum /\ PrincipalConserved

\* What was claimed never exceeds what the stake shows as earned: however
\* claims and increases follow each other, no claim is negative and Unstake
\* never takes anything back (118, 152).
ClaimsCovered ==
    \A a \in Active :
        /\ paid[a] = RewardsClaimed[a]
        /\ RewardsClaimed[a] <= Rewards(a)

\* What a stake shows, and what it has been paid when it leaves, is exactly
\* what its coins earned tick by tick and, for coins added by IncreaseStake,
\* what they would have earned since the stake was created (88, 149, 216).
EarnedExactly ==
    \A a \in Stakes :
        accrued[a] + retroactive[a] = (IF IsActive[a] THEN Rewards(a) ELSE paid[a])

\* Claiming early or late makes no difference in all: a stake that leaves has
\* been paid its amount times its time.
ClaimsDoNotChangeTheSum ==
    [][\A a \in Active : a \notin Active' => paid'[a] = Rewards(a)]_vars

\* The inductive invariant behind them.
PoolOK ==
    /\ PrincipalConserved
    /\ ClaimsCovered
    /\ EarnedExactly
    /\ \A a \in Address \ Stakes :
          ~IsActive[a] /\ paid[a] = 0 /\ accrued[a] = 0 /\ retroactive[a] = 0

=============================================================================
