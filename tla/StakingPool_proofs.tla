------------------------ MODULE StakingPool_proofs ------------------------
(***************************************************************************)
(* The staking pool's types and the inductive invariant behind its         *)
(* payments, for every set of addresses and every value of the bounds.     *)
(***************************************************************************)
EXTENDS StakingPool, Sums

USE PoolAssumption

\* A stake earns what it earned before and its amount for the new tick.
LEMMA OneTickMore == ASSUME NEW x \in Nat, NEW n \in Nat, NEW s \in Nat
                     PROVE  x * (n + 1 - s) = x * (n - s) + x
<1>1. n + 1 - s = (n - s) + 1  OBVIOUS
<1> DEFINE d == n - s
<1>2. d \in Int  OBVIOUS
<1>3. x * (d + 1) = x * d + x  BY <1>2, SMT
<1> QED  BY <1>1, <1>3

\* Added coins are shown as if they had been there from the start.
LEMMA AddedCoins == ASSUME NEW x \in Nat, NEW y \in Nat, NEW n \in Nat, NEW s \in Nat
                    PROVE  (x + y) * (n - s) = x * (n - s) + y * (n - s)
<1> DEFINE d == n - s
<1>1. d \in Int  OBVIOUS
<1>2. (x + y) * d = x * d + y * d  BY <1>1, SMT
<1> QED  BY <1>2

\* Time that has passed makes rewards that are natural numbers.
LEMMA RewardIsNat == ASSUME NEW x \in Nat, NEW n \in Nat, NEW s \in Nat, s <= n
                     PROVE  x * (n - s) \in Nat
<1> DEFINE d == n - s
<1>1. d \in Nat  OBVIOUS
<1>2. x * d \in Nat  BY <1>1, SMT
<1> QED  BY <1>2

-----------------------------------------------------------------------------
\* What a type-correct active stake shows is a natural number.
LEMMA RewardsType == ASSUME TypeOK, NEW a \in Address
                     PROVE  Rewards(a) \in Nat
<1>1. Amount[a] \in Nat /\ now \in Nat /\ StartTime[a] \in Nat /\ StartTime[a] <= now
  BY DEF TypeOK
<1> QED  BY <1>1, RewardIsNat DEF Rewards

\* The new pool meets the invariant.
LEMMA InitOK == Init => TypeOK /\ PoolOK
<1> SUFFICES ASSUME Init PROVE TypeOK /\ PoolOK  OBVIOUS
<1>1. TypeOK  BY DEF Init, TypeOK
<1>2. PoolOK
  BY DEF Init, PoolOK, PrincipalConserved, ClaimsCovered, EarnedExactly, Active
<1> QED  BY <1>1, <1>2

\* Time passes: every active stake earns its amount, and shows as much more.
LEMMA TickOK == TypeOK /\ PoolOK /\ Tick => TypeOK' /\ PoolOK'
<1> SUFFICES ASSUME TypeOK, PoolOK, Tick PROVE TypeOK' /\ PoolOK'  OBVIOUS
<1>1. TypeOK'
  <2>1. now' \in Nat /\ \A a \in Address : StartTime'[a] <= now'
    BY DEF TypeOK, Tick, recordVars
  <2>2. accrued' \in [Address -> Nat]  BY DEF TypeOK, Tick
  <2> QED  BY <2>1, <2>2 DEF TypeOK, Tick, recordVars
<1>2. \A a \in Address : Rewards(a)' = Rewards(a) + Amount[a]
  <2> SUFFICES ASSUME NEW a \in Address PROVE Rewards(a)' = Rewards(a) + Amount[a]
    OBVIOUS
  <2>1. Amount[a] \in Nat /\ now \in Nat /\ StartTime[a] \in Nat  BY DEF TypeOK
  <2>2. now' = now + 1 /\ Amount' = Amount /\ StartTime' = StartTime
    BY DEF Tick, recordVars
  <2>3. Rewards(a)' = Amount[a] * (now' - StartTime[a])
    BY <2>2, Zenon DEF Rewards
  <2>4. Amount[a] * (now' - StartTime[a]) = Amount[a] * (now - StartTime[a]) + Amount[a]
    BY <2>1, <2>2, OneTickMore
  <2> QED  BY <2>3, <2>4, Zenon DEF Rewards
<1>3. \A a \in Address : Rewards(a) \in Nat  BY RewardsType
<1>4. PrincipalConserved'
  BY DEF PoolOK, PrincipalConserved, Active, Tick, recordVars
<1>5. ClaimsCovered'
  <2> SUFFICES ASSUME NEW a \in Active'
               PROVE  paid'[a] = RewardsClaimed'[a] /\ RewardsClaimed'[a] <= Rewards(a)'
    BY DEF ClaimsCovered
  <2>1. a \in Active /\ a \in Address
    BY DEF Active, Tick, recordVars, TypeOK
  <2>2. paid[a] = RewardsClaimed[a] /\ RewardsClaimed[a] <= Rewards(a)
    BY <2>1 DEF PoolOK, ClaimsCovered
  <2>3. RewardsClaimed[a] \in Nat /\ Amount[a] \in Nat  BY <2>1 DEF TypeOK
  <2>4. paid' = paid /\ RewardsClaimed' = RewardsClaimed  BY DEF Tick
  <2> QED  BY <1>2, <1>3, <2>1, <2>2, <2>3, <2>4
<1>6. EarnedExactly'
  <2> SUFFICES ASSUME NEW a \in Stakes'
               PROVE  accrued'[a] + retroactive'[a]
                        = IF IsActive'[a] THEN Rewards(a)' ELSE paid'[a]
    BY DEF EarnedExactly
  <2>1. a \in Stakes /\ a \in Address /\ IsActive' = IsActive
    BY DEF Tick, recordVars, TypeOK
  <2>2. accrued[a] + retroactive[a] = IF IsActive[a] THEN Rewards(a) ELSE paid[a]
    BY <2>1 DEF PoolOK, EarnedExactly
  <2>3. accrued'[a] = IF IsActive[a] THEN accrued[a] + Amount[a] ELSE accrued[a]
    BY <2>1 DEF Tick
  <2>4. retroactive' = retroactive /\ paid' = paid  BY DEF Tick
  <2>5. accrued[a] \in Nat /\ retroactive[a] \in Nat /\ Amount[a] \in Nat
    BY <2>1 DEF TypeOK
  <2> QED  BY <1>2, <1>3, <2>1, <2>2, <2>3, <2>4, <2>5
<1>7. \A a \in Address \ Stakes' :
         ~IsActive'[a] /\ paid'[a] = 0 /\ accrued'[a] = 0 /\ retroactive'[a] = 0
  BY DEF PoolOK, Tick, recordVars
<1> QED  BY <1>1, <1>4, <1>5, <1>6, <1>7 DEF PoolOK

\* A new stake starts with nothing earned, added or claimed.
LEMMA CreateStakeOK ==
    ASSUME TypeOK, PoolOK, NEW a \in Address, NEW amount \in Amounts,
           CreateStake(a, amount)
    PROVE  TypeOK' /\ PoolOK'
<1>1. amount \in Nat  OBVIOUS
<1>2. a \notin Stakes /\ ~IsActive[a] /\ paid[a] = 0 /\ accrued[a] = 0 /\ retroactive[a] = 0
  BY DEF CreateStake, PoolOK
<1>3. TypeOK'
  BY <1>1 DEF TypeOK, CreateStake
<1>4. Active' = Active \cup {a}
  BY DEF Active, CreateStake, TypeOK
<1>5. \A b \in Address : b # a => Rewards(b)' = Rewards(b) /\ Amount'[b] = Amount[b]
  BY DEF Rewards, CreateStake, TypeOK
<1>6. Rewards(a)' = 0
  <2>1. Amount'[a] = amount /\ StartTime'[a] = now /\ now' = now
    BY DEF CreateStake, TypeOK
  <2>2. now - now = 0 /\ amount * 0 = 0  BY <1>1 DEF TypeOK
  <2> QED  BY <2>1, <2>2 DEF Rewards
<1>7. PrincipalConserved'
  <2> SUFFICES ASSUME NEW b \in Address
               PROVE  deposited'[b] = returned'[b] + (IF b \in Active' THEN Amount'[b] ELSE 0)
    BY DEF PrincipalConserved
  <2>1. deposited[b] = returned[b] + (IF b \in Active THEN Amount[b] ELSE 0)
    BY DEF PoolOK, PrincipalConserved
  <2>2. CASE b = a
    <3>1. a \notin Active  BY <1>2 DEF Active
    <3>2. deposited'[a] = deposited[a] + amount /\ Amount'[a] = amount /\ returned' = returned
      BY DEF CreateStake, TypeOK
    <3>3. returned[a] \in Nat /\ deposited[a] \in Nat  BY DEF TypeOK
    <3> QED  BY <1>1, <1>4, <2>1, <2>2, <3>1, <3>2, <3>3
  <2>3. CASE b # a
    BY <1>4, <1>5, <2>1, <2>3 DEF CreateStake, TypeOK
  <2> QED  BY <2>2, <2>3
<1>8. ClaimsCovered'
  <2> SUFFICES ASSUME NEW b \in Active'
               PROVE  paid'[b] = RewardsClaimed'[b] /\ RewardsClaimed'[b] <= Rewards(b)'
    BY DEF ClaimsCovered
  <2>1. CASE b = a
    BY <1>2, <1>6, <2>1 DEF CreateStake, TypeOK
  <2>2. CASE b # a
    <3>1. b \in Active /\ b \in Address  BY <1>4, <2>2 DEF Active, TypeOK
    <3> QED  BY <1>5, <2>2, <3>1 DEF CreateStake, TypeOK, PoolOK, ClaimsCovered
  <2> QED  BY <2>1, <2>2
<1>9. EarnedExactly'
  <2> SUFFICES ASSUME NEW b \in Stakes'
               PROVE  accrued'[b] + retroactive'[b]
                        = IF IsActive'[b] THEN Rewards(b)' ELSE paid'[b]
    BY DEF EarnedExactly
  <2>1. CASE b = a
    BY <1>2, <1>6, <2>1 DEF CreateStake, TypeOK
  <2>2. CASE b # a
    <3>1. b \in Stakes /\ b \in Address  BY <2>2 DEF CreateStake, TypeOK
    <3> QED  BY <1>5, <2>2, <3>1 DEF CreateStake, TypeOK, PoolOK, EarnedExactly
  <2> QED  BY <2>1, <2>2
<1>10. \A b \in Address \ Stakes' :
         ~IsActive'[b] /\ paid'[b] = 0 /\ accrued'[b] = 0 /\ retroactive'[b] = 0
  BY DEF PoolOK, CreateStake, TypeOK
<1> QED  BY <1>3, <1>7, <1>8, <1>9, <1>10 DEF PoolOK

\* A claim pays what is unclaimed and records it.
LEMMA ClaimRewardsOK ==
    ASSUME TypeOK, PoolOK, NEW a \in Address, ClaimRewards(a)
    PROVE  TypeOK' /\ PoolOK'
<1>1. Rewards(a) \in Nat /\ RewardsClaimed[a] \in Nat /\ paid[a] \in Nat
  BY RewardsType DEF TypeOK
<1>2. a \in Active /\ Unclaimed(a) > 0  BY DEF ClaimRewards, Active
<1>3. paid[a] = RewardsClaimed[a]  BY <1>2 DEF PoolOK, ClaimsCovered
<1>3a. RewardsClaimed[a] + Unclaimed(a) = Rewards(a)  BY <1>1 DEF Unclaimed
<1>4. RewardsClaimed' = [RewardsClaimed EXCEPT ![a] = Rewards(a)]
  BY <1>3a, Zenon DEF ClaimRewards
<1>5. paid' = [paid EXCEPT ![a] = Rewards(a)]
  BY <1>3a, <1>3, Zenon DEF ClaimRewards
<1>6. TypeOK'
  BY <1>1, <1>4, <1>5 DEF TypeOK, ClaimRewards, recordVars
<1>7. Active' = Active /\ \A b \in Address : Rewards(b)' = Rewards(b)
  BY DEF Active, Rewards, ClaimRewards, recordVars
<1>8. PrincipalConserved'
  BY <1>7 DEF PoolOK, PrincipalConserved, ClaimRewards
<1>9. ClaimsCovered'
  <2> SUFFICES ASSUME NEW b \in Active
               PROVE  paid'[b] = RewardsClaimed'[b] /\ RewardsClaimed'[b] <= Rewards(b)'
    BY <1>7 DEF ClaimsCovered
  <2>1. b \in Address  BY DEF Active, TypeOK
  <2>2. paid[b] = RewardsClaimed[b] /\ RewardsClaimed[b] <= Rewards(b)
    BY DEF PoolOK, ClaimsCovered
  <2> QED  BY <1>1, <1>4, <1>5, <1>7, <2>1, <2>2 DEF TypeOK
<1>10. EarnedExactly'
  <2> SUFFICES ASSUME NEW b \in Stakes
               PROVE  accrued'[b] + retroactive'[b]
                        = IF IsActive'[b] THEN Rewards(b)' ELSE paid'[b]
    BY DEF EarnedExactly, ClaimRewards, recordVars
  <2>1. b \in Address  BY DEF TypeOK
  <2>2. accrued[b] + retroactive[b] = IF IsActive[b] THEN Rewards(b) ELSE paid[b]
    BY DEF PoolOK, EarnedExactly
  <2>3. ~IsActive[b] => b # a  BY DEF ClaimRewards
  <2>4. IsActive' = IsActive /\ accrued' = accrued /\ retroactive' = retroactive
    BY DEF ClaimRewards, recordVars
  <2> QED  BY <1>5, <1>7, <2>1, <2>2, <2>3, <2>4 DEF TypeOK
<1>11. \A b \in Address \ Stakes' :
         ~IsActive'[b] /\ paid'[b] = 0 /\ accrued'[b] = 0 /\ retroactive'[b] = 0
  BY <1>5 DEF PoolOK, ClaimRewards, recordVars, TypeOK
<1> QED  BY <1>6, <1>8, <1>9, <1>10, <1>11 DEF PoolOK

\* A stake that leaves has been paid what it showed.
LEMMA UnstakePays ==
    ASSUME TypeOK, PoolOK, NEW a \in Address, Unstake(a)
    PROVE  a \in Active /\ paid' = [paid EXCEPT ![a] = Rewards(a)]
<1>1. Rewards(a) \in Nat /\ RewardsClaimed[a] \in Nat /\ paid[a] \in Nat
  BY RewardsType DEF TypeOK
<1>2. a \in Active  BY DEF Unstake, Active
<1>3. paid[a] = RewardsClaimed[a]  BY <1>2 DEF PoolOK, ClaimsCovered
<1>4. RewardsClaimed[a] + Unclaimed(a) = Rewards(a)  BY <1>1 DEF Unclaimed
<1> QED  BY <1>2, <1>3, <1>4, Zenon DEF Unstake

\* The stake leaves the active ones, and its amount goes back to its owner.
LEMMA UnstakeOK ==
    ASSUME TypeOK, PoolOK, NEW a \in Address, Unstake(a)
    PROVE  TypeOK' /\ PoolOK'
<1>1. Rewards(a) \in Nat  BY RewardsType
<1>2. a \in Active /\ paid' = [paid EXCEPT ![a] = Rewards(a)]  BY UnstakePays
<1>3. TypeOK'
  BY <1>1, <1>2 DEF TypeOK, Unstake
<1>4. Active' = Active \ {a}
  BY DEF Active, Unstake, TypeOK
<1>5. \A b \in Address : Rewards(b)' = Rewards(b)
  BY DEF Rewards, Unstake
<1>6. PrincipalConserved'
  <2> SUFFICES ASSUME NEW b \in Address
               PROVE  deposited'[b] = returned'[b] + (IF b \in Active' THEN Amount'[b] ELSE 0)
    BY DEF PrincipalConserved
  <2>1. deposited[b] = returned[b] + (IF b \in Active THEN Amount[b] ELSE 0)
    BY DEF PoolOK, PrincipalConserved
  <2>2. deposited' = deposited /\ Amount' = Amount
        /\ returned' = [returned EXCEPT ![a] = @ + Amount[a]]
    BY DEF Unstake
  <2>3. returned \in [Address -> Nat] /\ Amount[b] \in Nat  BY DEF TypeOK
  <2> QED  BY <1>2, <1>4, <2>1, <2>2, <2>3
<1>7. ClaimsCovered'
  <2> SUFFICES ASSUME NEW b \in Active, b # a
               PROVE  paid'[b] = RewardsClaimed'[b] /\ RewardsClaimed'[b] <= Rewards(b)'
    BY <1>4 DEF ClaimsCovered
  <2>1. b \in Address  BY DEF Active, TypeOK
  <2> QED  BY <1>2, <1>5, <2>1 DEF Unstake, TypeOK, PoolOK, ClaimsCovered
<1>8. EarnedExactly'
  <2> SUFFICES ASSUME NEW b \in Stakes
               PROVE  accrued'[b] + retroactive'[b]
                        = IF IsActive'[b] THEN Rewards(b)' ELSE paid'[b]
    BY DEF EarnedExactly, Unstake
  <2>1. b \in Address  BY DEF TypeOK
  <2>2. accrued[b] + retroactive[b] = IF IsActive[b] THEN Rewards(b) ELSE paid[b]
    BY DEF PoolOK, EarnedExactly
  <2>3. IsActive' = [IsActive EXCEPT ![a] = FALSE] /\ accrued' = accrued
        /\ retroactive' = retroactive
    BY DEF Unstake
  <2>4. IsActive[a]  BY DEF Unstake
  <2> QED  BY <1>2, <1>5, <2>1, <2>2, <2>3, <2>4 DEF TypeOK
<1>9. \A b \in Address \ Stakes' :
         ~IsActive'[b] /\ paid'[b] = 0 /\ accrued'[b] = 0 /\ retroactive'[b] = 0
  BY <1>2 DEF PoolOK, Unstake, TypeOK
<1> QED  BY <1>3, <1>6, <1>7, <1>8, <1>9 DEF PoolOK

\* What the stake shows grows by what the added coins would have earned.
LEMMA IncreaseStakeOK ==
    ASSUME TypeOK, PoolOK, NEW a \in Address, NEW amount \in Amounts,
           IncreaseStake(a, amount)
    PROVE  TypeOK' /\ PoolOK'
<1> DEFINE extra == amount * (now - StartTime[a])
<1>1. amount \in Nat  OBVIOUS
<1>2. now \in Nat /\ StartTime[a] \in Nat /\ StartTime[a] <= now /\ Amount[a] \in Nat
  BY DEF TypeOK
<1>3. extra \in Nat  BY <1>1, <1>2, RewardIsNat
<1>4. retroactive' = [retroactive EXCEPT ![a] = @ + extra]
  BY DEF IncreaseStake
<1>5. Amount' = [Amount EXCEPT ![a] = @ + amount]
  BY DEF IncreaseStake
<1>6. TypeOK'
  <2>1. retroactive' \in [Address -> Nat]
    <3> HIDE DEF extra
    <3> QED  BY <1>3, <1>4 DEF TypeOK
  <2> QED  BY <1>1, <2>1 DEF TypeOK, IncreaseStake, recordVars
<1>7. Active' = Active /\ a \in Active
  BY DEF Active, IncreaseStake, recordVars
<1>8. Rewards(a)' = Rewards(a) + extra
  <2>1. Amount'[a] = Amount[a] + amount  BY <1>5 DEF TypeOK
  <2>2. now' = now /\ StartTime' = StartTime  BY DEF IncreaseStake, recordVars
  <2>3. Rewards(a)' = (Amount[a] + amount) * (now - StartTime[a])
    BY <2>1, <2>2, Zenon DEF Rewards
  <2> QED  BY <1>1, <1>2, <2>3, AddedCoins DEF Rewards
<1>9. \A b \in Address : b # a => Rewards(b)' = Rewards(b) /\ Amount'[b] = Amount[b]
  BY <1>5 DEF Rewards, IncreaseStake, recordVars, TypeOK
<1>10. \A b \in Address : Rewards(b) \in Nat  BY RewardsType
<1> HIDE DEF extra
<1>11. PrincipalConserved'
  <2> SUFFICES ASSUME NEW b \in Address
               PROVE  deposited'[b] = returned'[b] + (IF b \in Active' THEN Amount'[b] ELSE 0)
    BY DEF PrincipalConserved
  <2>1. deposited[b] = returned[b] + (IF b \in Active THEN Amount[b] ELSE 0)
    BY DEF PoolOK, PrincipalConserved
  <2>2. deposited' = [deposited EXCEPT ![a] = @ + amount] /\ returned' = returned
    BY DEF IncreaseStake
  <2>3. /\ deposited \in [Address -> Nat] /\ returned[b] \in Nat
        /\ Amount \in [Address -> Nat]
    BY DEF TypeOK
  <2> QED  BY <1>1, <1>5, <1>7, <2>1, <2>2, <2>3
<1>12. ClaimsCovered'
  <2> SUFFICES ASSUME NEW b \in Active
               PROVE  paid'[b] = RewardsClaimed'[b] /\ RewardsClaimed'[b] <= Rewards(b)'
    BY <1>7 DEF ClaimsCovered
  <2>1. b \in Address  BY DEF Active, TypeOK
  <2>2. paid[b] = RewardsClaimed[b] /\ RewardsClaimed[b] <= Rewards(b)
    BY DEF PoolOK, ClaimsCovered
  <2>3. paid' = paid /\ RewardsClaimed' = RewardsClaimed  BY DEF IncreaseStake
  <2>4. RewardsClaimed[b] \in Nat  BY <2>1 DEF TypeOK
  <2> QED  BY <1>3, <1>8, <1>9, <1>10, <2>1, <2>2, <2>3, <2>4
<1>13. EarnedExactly'
  <2> SUFFICES ASSUME NEW b \in Stakes
               PROVE  accrued'[b] + retroactive'[b]
                        = IF IsActive'[b] THEN Rewards(b)' ELSE paid'[b]
    BY DEF EarnedExactly, IncreaseStake, recordVars
  <2>1. b \in Address  BY DEF TypeOK
  <2>2. accrued[b] + retroactive[b] = IF IsActive[b] THEN Rewards(b) ELSE paid[b]
    BY DEF PoolOK, EarnedExactly
  <2>3. IsActive' = IsActive /\ accrued' = accrued /\ paid' = paid /\ IsActive[a]
    BY DEF IncreaseStake, recordVars
  <2>4. accrued[b] \in Nat /\ retroactive \in [Address -> Nat]  BY <2>1 DEF TypeOK
  <2> QED  BY <1>3, <1>4, <1>8, <1>9, <1>10, <2>1, <2>2, <2>3, <2>4
<1>14. \A b \in Address \ Stakes' :
         ~IsActive'[b] /\ paid'[b] = 0 /\ accrued'[b] = 0 /\ retroactive'[b] = 0
  BY <1>4 DEF PoolOK, IncreaseStake, recordVars, TypeOK
<1> QED  BY <1>6, <1>11, <1>12, <1>13, <1>14 DEF PoolOK

-----------------------------------------------------------------------------
\* Every step keeps the invariant.
LEMMA NextOK == TypeOK /\ PoolOK /\ [Next]_vars => TypeOK' /\ PoolOK'
<1> SUFFICES ASSUME TypeOK, PoolOK, [Next]_vars PROVE TypeOK' /\ PoolOK'  OBVIOUS
<1>1. CASE Tick  BY <1>1, TickOK
<1>2. ASSUME NEW a \in Address, ClaimRewards(a) PROVE TypeOK' /\ PoolOK'
  BY <1>2, ClaimRewardsOK
<1>3. ASSUME NEW a \in Address, Unstake(a) PROVE TypeOK' /\ PoolOK'
  BY <1>3, UnstakeOK
<1>4. ASSUME NEW a \in Address, NEW amount \in Amounts, CreateStake(a, amount)
      PROVE  TypeOK' /\ PoolOK'
  BY <1>4, CreateStakeOK
<1>5. ASSUME NEW a \in Address, NEW amount \in Amounts, IncreaseStake(a, amount)
      PROVE  TypeOK' /\ PoolOK'
  BY <1>5, IncreaseStakeOK
<1>6. CASE UNCHANGED vars
  BY <1>6 DEF vars, TypeOK, PoolOK, PrincipalConserved, ClaimsCovered, EarnedExactly,
              Active, Rewards
<1> QED  BY <1>1, <1>2, <1>3, <1>4, <1>5, <1>6 DEF Next

\* The two hold together: the type of what is paid rests on ClaimsCovered.
LEMMA Invariant == Spec => [](TypeOK /\ PoolOK)
<1> QED  BY InitOK, NextOK, PTL DEF Spec

\* The pool's types: no claim, reward or amount is ever negative.
THEOREM Typing == Spec => []TypeOK
<1> QED  BY Invariant, PTL

\* Coins paid in are in the stake or were returned, claims never exceed what
\* the stake shows, and what it shows is what its coins earned.
THEOREM Payments == Spec => []PoolOK
<1> QED  BY Invariant, PTL

\* However claims and increases follow each other, no claim takes anything
\* back (118, 152).
THEOREM ClaimsAreCovered == Spec => []ClaimsCovered
<1>1. PoolOK => ClaimsCovered  BY DEF PoolOK
<1> QED  BY <1>1, Invariant, PTL

\* What is paid out is what the coins earned tick by tick, and the retroactive
\* part of coins that were added later (88, 149, 216).
THEOREM EarnsExactly == Spec => []EarnedExactly
<1>1. PoolOK => EarnedExactly  BY DEF PoolOK
<1> QED  BY <1>1, Invariant, PTL

\* A stake that leaves has been paid, in all, its amount times its time.
THEOREM LeavingIsPaid == Spec => ClaimsDoNotChangeTheSum
<1> DEFINE Sum == \A a \in Active : a \notin Active' => paid'[a] = Rewards(a)
<1>1. TypeOK /\ PoolOK /\ [Next]_vars => [Sum]_vars
  <2> SUFFICES ASSUME TypeOK, PoolOK, Next, NEW a \in Active, a \notin Active'
               PROVE  paid'[a] = Rewards(a)
    OBVIOUS
  <2>1. a \in Address /\ IsActive[a] /\ a \in Stakes /\ ~(a \in Stakes' /\ IsActive'[a])
    BY DEF Active, TypeOK
  <2>2. Unstake(a)
    <3>1. ~Tick  BY <2>1 DEF Tick, recordVars
    <3>2. \A b \in Address : ~ClaimRewards(b)
      BY <2>1 DEF ClaimRewards, recordVars
    <3>3. \A b \in Address, amount \in Amounts : ~CreateStake(b, amount)
      BY <2>1 DEF CreateStake, TypeOK
    <3>4. \A b \in Address, amount \in Amounts : ~IncreaseStake(b, amount)
      BY <2>1 DEF IncreaseStake, recordVars
    <3>5. \A b \in Address : Unstake(b) => b = a
      BY <2>1 DEF Unstake, TypeOK
    <3> QED  BY <3>1, <3>2, <3>3, <3>4, <3>5 DEF Next
  <2>3. paid' = [paid EXCEPT ![a] = Rewards(a)]  BY <2>1, <2>2, UnstakePays
  <2> QED  BY <2>1, <2>3 DEF TypeOK
<1> QED  BY <1>1, Invariant, PTL DEF Spec, ClaimsDoNotChangeTheSum

-----------------------------------------------------------------------------
(* The pool's books.  Nobody stakes infinitely often, so that the sum over *)
(* the stakes is one, and every operation changes it as it changes the     *)
(* total.                                                                  *)

BooksOK == IsFiniteSet(Stakes) /\ TotalStaked = Total(Amount, Active)

\* What the sum is taken over: finitely many integers.
LEMMA ActiveAmounts ==
    ASSUME TypeOK, BooksOK
    PROVE  /\ IsFiniteSet(Active)
           /\ \A a \in Address : Amount[a] \in Int
           /\ \A a \in Active : a \in Address
           /\ TotalStaked = Total(Amount, Active)
<1>1. IsFiniteSet(Active)
  BY FS_Subset DEF Active, BooksOK
<1>2. TotalStaked = Total(Amount, Active)
  BY DEF BooksOK
<1> QED  BY <1>1, <1>2 DEF TypeOK, Active

LEMMA InitBooks == Init => BooksOK
<1> SUFFICES ASSUME Init PROVE BooksOK
  OBVIOUS
<1>1. Active = {} /\ IsFiniteSet(Stakes)
  BY FS_EmptySet DEF Init, Active
<1>2. Total(Amount, Active) = 0
  BY <1>1, TotalEmpty
<1> QED  BY <1>1, <1>2 DEF Init, BooksOK

\* A new stake joins the sum.
LEMMA CreateStakeBooks ==
    ASSUME TypeOK, BooksOK, PoolOK, NEW a \in Address, NEW amount \in Amounts,
           CreateStake(a, amount)
    PROVE  BooksOK'
<1>1. amount \in Int
  OBVIOUS
<1>2. a \notin Active /\ Active' = Active \cup {a}
  BY DEF Active, CreateStake, TypeOK
<1>3. \A b \in Active \cup {a} : Amount'[b] = IF b = a THEN amount ELSE Amount[b]
  BY DEF Active, CreateStake, TypeOK
<1>4. Total(Amount', Active \cup {a}) = Total(Amount', Active) + Amount'[a]
  BY <1>1, <1>2, <1>3, ActiveAmounts, TotalAdd, SMTT(30)
<1>5. Total(Amount', Active) = Total(Amount, Active)
  BY <1>2, <1>3, ActiveAmounts, TotalSame
<1>6. TotalStaked' = Total(Amount', Active')
  BY <1>2, <1>3, <1>4, <1>5, ActiveAmounts DEF CreateStake
<1>7. IsFiniteSet(Stakes')
  BY FS_AddElement DEF CreateStake, BooksOK
<1> QED  BY <1>6, <1>7 DEF BooksOK

\* A stake that leaves takes its amount out of it.
LEMMA UnstakeBooks ==
    ASSUME TypeOK, BooksOK, NEW a \in Address, Unstake(a)
    PROVE  BooksOK'
<1>1. a \in Active /\ Active' = Active \ {a}
  BY DEF Active, Unstake, TypeOK
<1>2. /\ Total(Amount, Active) = Amount[a] + Total(Amount, Active \ {a})
      /\ Total(Amount, Active \ {a}) \in Int
  BY <1>1, ActiveAmounts, TotalSplit
<1>3. TotalStaked' = TotalStaked - Amount[a] /\ Amount' = Amount /\ Amount[a] \in Int
  BY ActiveAmounts DEF Unstake
<1>4. TotalStaked' = Total(Amount', Active')
  BY <1>1, <1>2, <1>3, ActiveAmounts
<1>5. Stakes' = Stakes
  BY DEF Unstake
<1> QED  BY <1>4, <1>5 DEF BooksOK

\* What is added to a stake is added to the sum.
LEMMA IncreaseStakeBooks ==
    ASSUME TypeOK, BooksOK, NEW a \in Address, NEW amount \in Amounts,
           IncreaseStake(a, amount)
    PROVE  BooksOK'
<1>1. a \in Active /\ Active' = Active
  BY DEF Active, IncreaseStake, recordVars
<1>2. \A b \in Address :
         Amount'[b] = IF b = a THEN Amount[a] + amount ELSE Amount[b]
  BY DEF IncreaseStake, TypeOK
<1>3. amount \in Int /\ Amount[a] \in Int
  BY ActiveAmounts
<1>4. \A b \in Active : Amount[b] \in Int /\ Amount'[b] \in Int
  BY <1>2, <1>3, ActiveAmounts
<1>5. \A b \in Active \ {a} : Amount[b] = Amount'[b]
  BY <1>2, ActiveAmounts
<1>6. Total(Amount', Active) = Total(Amount, Active) + (Amount'[a] - Amount[a])
  BY <1>1, <1>4, <1>5, ActiveAmounts, TotalChange
<1>7. Total(Amount, Active) \in Int
  BY <1>4, ActiveAmounts, TotalInt
<1>8. TotalStaked' = Total(Amount', Active')
  BY <1>1, <1>2, <1>3, <1>6, <1>7, ActiveAmounts DEF IncreaseStake
<1>9. Stakes' = Stakes
  BY DEF IncreaseStake, recordVars
<1> QED  BY <1>8, <1>9 DEF BooksOK

LEMMA NextBooks == TypeOK /\ PoolOK /\ BooksOK /\ [Next]_vars => BooksOK'
<1> SUFFICES ASSUME TypeOK, PoolOK, BooksOK, [Next]_vars PROVE BooksOK'
  OBVIOUS
<1>1. CASE Tick
  BY <1>1 DEF Tick, recordVars, BooksOK, Active
<1>2. ASSUME NEW a \in Address, ClaimRewards(a) PROVE BooksOK'
  BY <1>2 DEF ClaimRewards, recordVars, BooksOK, Active
<1>3. ASSUME NEW a \in Address, Unstake(a) PROVE BooksOK'
  BY <1>3, UnstakeBooks
<1>4. ASSUME NEW a \in Address, NEW amount \in Amounts, CreateStake(a, amount)
      PROVE  BooksOK'
  BY <1>4, CreateStakeBooks
<1>5. ASSUME NEW a \in Address, NEW amount \in Amounts, IncreaseStake(a, amount)
      PROVE  BooksOK'
  BY <1>5, IncreaseStakeBooks
<1>6. CASE UNCHANGED vars
  BY <1>6 DEF vars, BooksOK, Active
<1> QED  BY <1>1, <1>2, <1>3, <1>4, <1>5, <1>6 DEF Next

\* The pool's total is the sum of its active stakes, and every coin paid in is
\* in a stake or was returned (68, 88, 158, 217).
THEOREM BooksBalance == Spec => []StakesConserved
<1>1. Spec => []BooksOK
  BY InitBooks, NextBooks, Invariant, PTL DEF Spec
<1>2. BooksOK /\ PoolOK => StakesConserved
  BY DEF BooksOK, PoolOK, StakesConserved, TotalIsSum, Total
<1> QED  BY <1>1, <1>2, Invariant, PTL

=============================================================================
