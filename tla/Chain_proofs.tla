---------------------------- MODULE Chain_proofs ----------------------------
(***************************************************************************)
(* Proof-of-stake consensus, for any addresses, amounts and callers; and   *)
(* the chain over the consensus that feeds it: the composition implements  *)
(* ProofOfStake, whose theorems it inherits, and its chain is always valid *)
(* and never goes past a stale block; for any creators and stakes.         *)
(***************************************************************************)
EXTENDS Chain, TLAPS

-----------------------------------------------------------------------------
(* Consensus by itself.                                                    *)

\* Every step keeps the types.
LEMMA TypeStep ==
    ASSUME StakeAssumption, TypeOK, [Next]_vars
    PROVE  TypeOK'
<1>1. ASSUME NEW a \in Address, NEW amount \in Amounts, RegisterValidator(a, amount)
      PROVE  TypeOK'
  BY <1>1 DEF StakeAssumption, TypeOK, RegisterValidator, callVars
<1>2. ASSUME NEW a \in Address, UnstakeValidator(a) PROVE TypeOK'
  BY <1>2 DEF StakeAssumption, TypeOK, UnstakeValidator, callVars
<1>3. ASSUME NEW c \in Creator, SelectValidator(c) PROVE TypeOK'
  BY <1>3 DEF StakeAssumption, TypeOK, SelectValidator, poolVars, bookVars
<1>4. ASSUME NEW c \in Creator, TakeIndex(c) PROVE TypeOK'
  BY <1>4 DEF StakeAssumption, TypeOK, TakeIndex, poolVars, bookVars
<1>5. ASSUME NEW c \in Creator, RewardValidator(c) PROVE TypeOK'
  <2>1. picked[c] \in Address
    BY <1>5 DEF TypeOK, RewardValidator
  <2>2. StakedAmount' \in [Address -> Nat] /\ made' \in [Address -> Nat]
    BY <1>5, <2>1 DEF StakeAssumption, TypeOK, RewardValidator
  <2>3. blocks' \subseteq Block
    BY <1>5, <2>1 DEF TypeOK, RewardValidator, Block
  <2>4. QED  BY <1>5, <2>2, <2>3 DEF TypeOK, RewardValidator, bookVars
<1>6. CASE UNCHANGED vars
  BY <1>6 DEF TypeOK, vars
<1>7. QED
  BY <1>1, <1>2, <1>3, <1>4, <1>5, <1>6 DEF Next

\* The variables of the pool always have their types (pos-validator.go, 13-41).
THEOREM Typing == StakeAssumption => (Spec => []TypeOK)
<1> SUFFICES ASSUME StakeAssumption PROVE Spec => []TypeOK
  OBVIOUS
<1>1. Init => TypeOK
  BY DEF Init, TypeOK
<1>2. TypeOK /\ [Next]_vars => TypeOK'
  BY TypeStep
<1>3. QED  BY <1>1, <1>2, PTL DEF Spec

-----------------------------------------------------------------------------
(* The inductive invariant, one action at a time.                          *)

LEMMA RegisterKeeps ==
    ASSUME StakeAssumption, TypeOK, ConsensusOK,
           NEW a \in Address, NEW amount \in Amounts, RegisterValidator(a, amount)
    PROVE  ConsensusOK'
<1>1. IndicesUnique'
  BY DEF ConsensusOK, IndicesUnique, RegisterValidator, callVars
<1>2. PoolBacked'
  BY DEF StakeAssumption, TypeOK, ConsensusOK, PoolBacked, RegisterValidator
<1>3. StakeAccounted'
  <2> SUFFICES ASSUME NEW b \in Address
               PROVE  /\ StakedAmount'[b] + withdrawn'[b]
                           <= deposited'[b] + RewardPerBlock * made'[b]
                      /\ leaves'[b] = 0 =>
                           StakedAmount'[b] + withdrawn'[b]
                             = deposited'[b] + RewardPerBlock * made'[b]
    BY DEF StakeAccounted
  <2>1. /\ withdrawn' = withdrawn /\ made' = made /\ leaves' = leaves
        /\ RewardPerBlock * made[b] \in Nat
    BY DEF RegisterValidator, StakeAssumption, TypeOK
  <2>2. /\ StakedAmount[b] + withdrawn[b] <= deposited[b] + RewardPerBlock * made[b]
        /\ leaves[b] = 0 =>
             StakedAmount[b] + withdrawn[b] = deposited[b] + RewardPerBlock * made[b]
    BY DEF ConsensusOK, StakeAccounted
  <2>3. CASE b = a
    <3>1. StakedAmount[b] = 0
      BY <2>3 DEF ConsensusOK, PoolBacked, RegisterValidator
    <3>2. StakedAmount'[b] = amount /\ deposited'[b] = deposited[b] + amount
      BY <2>3 DEF RegisterValidator, TypeOK
    <3>3. /\ amount \in Nat /\ deposited[b] \in Nat /\ withdrawn[b] \in Nat
      BY DEF StakeAssumption, TypeOK
    <3>4. QED  BY <2>1, <2>2, <3>1, <3>2, <3>3
  <2>4. CASE b # a
    <3>1. StakedAmount'[b] = StakedAmount[b] /\ deposited'[b] = deposited[b]
      BY <2>4 DEF RegisterValidator, TypeOK
    <3>2. QED  BY <2>1, <2>2, <3>1
  <2>5. QED  BY <2>3, <2>4
<1>4. QED
  BY <1>1, <1>2, <1>3 DEF StakeAssumption, TypeOK, ConsensusOK, RegisterValidator, callVars

LEMMA UnstakeKeeps ==
    ASSUME StakeAssumption, TypeOK, ConsensusOK, NEW a \in Address, UnstakeValidator(a)
    PROVE  ConsensusOK'
<1>1. IndicesUnique'
  BY DEF ConsensusOK, IndicesUnique, UnstakeValidator, callVars
<1>2. PoolBacked'
  BY DEF TypeOK, ConsensusOK, PoolBacked, UnstakeValidator
<1>3. StakeAccounted'
  <2> SUFFICES ASSUME NEW b \in Address
               PROVE  /\ StakedAmount'[b] + withdrawn'[b]
                           <= deposited'[b] + RewardPerBlock * made'[b]
                      /\ leaves'[b] = 0 =>
                           StakedAmount'[b] + withdrawn'[b]
                             = deposited'[b] + RewardPerBlock * made'[b]
    BY DEF StakeAccounted
  <2>1. /\ StakedAmount[b] + withdrawn[b] <= deposited[b] + RewardPerBlock * made[b]
        /\ leaves[b] = 0 =>
             StakedAmount[b] + withdrawn[b] = deposited[b] + RewardPerBlock * made[b]
    BY DEF ConsensusOK, StakeAccounted
  <2>2. deposited' = deposited /\ made' = made
    BY DEF UnstakeValidator
  <2>3. StakedAmount'[b] + withdrawn'[b] = StakedAmount[b] + withdrawn[b]
    BY DEF UnstakeValidator, TypeOK
  <2>4. leaves'[b] = 0 => leaves[b] = 0
    BY DEF UnstakeValidator, TypeOK
  <2>5. QED  BY <2>1, <2>2, <2>3, <2>4
<1>4. QED
  BY <1>1, <1>2, <1>3 DEF TypeOK, ConsensusOK, UnstakeValidator, callVars

LEMMA SelectKeeps ==
    ASSUME StakeAssumption, TypeOK, ConsensusOK, NEW c \in Creator, SelectValidator(c)
    PROVE  ConsensusOK'
<1>1. IndicesUnique'
  BY DEF TypeOK, ConsensusOK, IndicesUnique, SelectValidator
<1>2. PoolBacked' /\ StakeAccounted'
  BY DEF ConsensusOK, PoolBacked, StakeAccounted, SelectValidator, poolVars, bookVars
<1>3. PICK a \in Validators : picked' = [picked EXCEPT ![c] = a]
  BY DEF SelectValidator
<1>4. joins[a] > 0
  BY <1>3 DEF TypeOK, ConsensusOK
<1>5. QED
  BY <1>1, <1>2, <1>3, <1>4
  DEF TypeOK, ConsensusOK, SelectValidator, poolVars, bookVars

LEMMA TakeKeeps ==
    ASSUME StakeAssumption, TypeOK, ConsensusOK, NEW c \in Creator, TakeIndex(c)
    PROVE  ConsensusOK'
<1>1. IndicesUnique'
  <2>1. \A b \in blocks : b.Index \in Nat /\ b.Index # currentBlockIndex + 1
    BY DEF TypeOK, ConsensusOK, Block
  <2>2. \A d \in Creator : pc[d] = "indexed" => index[d] # currentBlockIndex + 1
    BY DEF TypeOK, ConsensusOK
  <2>3. QED
    BY <2>1, <2>2 DEF TypeOK, ConsensusOK, IndicesUnique, TakeIndex
<1>2. PoolBacked' /\ StakeAccounted'
  BY DEF ConsensusOK, PoolBacked, StakeAccounted, TakeIndex, poolVars, bookVars
<1>3. \A b \in blocks' : b.Index <= currentBlockIndex'
  BY DEF TypeOK, Block, ConsensusOK, TakeIndex
<1>4. QED
  BY <1>1, <1>2, <1>3 DEF TypeOK, ConsensusOK, TakeIndex, poolVars, bookVars

LEMMA RewardKeeps ==
    ASSUME StakeAssumption, TypeOK, ConsensusOK, NEW c \in Creator, RewardValidator(c)
    PROVE  ConsensusOK'
<1>0. /\ picked[c] \in Address /\ index[c] \in Nat /\ pc[c] = "indexed"
      /\ joins[picked[c]] > 0
  BY DEF TypeOK, RewardValidator, ConsensusOK
<1>1. IndicesUnique'
  BY <1>0 DEF TypeOK, ConsensusOK, IndicesUnique, RewardValidator
<1>2. PoolBacked'
  BY <1>0 DEF StakeAssumption, TypeOK, ConsensusOK, PoolBacked, RewardValidator, bookVars
<1>3. StakeAccounted'
  <2> SUFFICES ASSUME NEW b \in Address
               PROVE  /\ StakedAmount'[b] + withdrawn'[b]
                           <= deposited'[b] + RewardPerBlock * made'[b]
                      /\ leaves'[b] = 0 =>
                           StakedAmount'[b] + withdrawn'[b]
                             = deposited'[b] + RewardPerBlock * made'[b]
    BY DEF StakeAccounted
  <2>1. /\ StakedAmount[b] + withdrawn[b] <= deposited[b] + RewardPerBlock * made[b]
        /\ leaves[b] = 0 =>
             StakedAmount[b] + withdrawn[b] = deposited[b] + RewardPerBlock * made[b]
    BY DEF ConsensusOK, StakeAccounted
  <2>2. deposited' = deposited /\ withdrawn' = withdrawn /\ leaves' = leaves
    BY DEF RewardValidator, bookVars
  <2>3. CASE b # picked[c]
    <3>1. StakedAmount'[b] = StakedAmount[b] /\ made'[b] = made[b]
      BY <2>3 DEF RewardValidator, TypeOK
    <3>2. QED  BY <2>1, <2>2, <3>1
  <2>4. CASE b = picked[c]
    <3>1. /\ made'[b] = made[b] + 1
          /\ StakedAmount'[b] = IF b \in Validators THEN StakedAmount[b] + RewardPerBlock
                                ELSE StakedAmount[b]
      BY <2>4, <1>0 DEF RewardValidator, TypeOK
    <3>2. /\ RewardPerBlock * made'[b] = RewardPerBlock * made[b] + RewardPerBlock
          /\ RewardPerBlock \in Nat /\ RewardPerBlock * made[b] \in Nat
          /\ StakedAmount[b] \in Nat /\ withdrawn[b] \in Nat /\ deposited[b] \in Nat
      BY <3>1 DEF StakeAssumption, TypeOK
    <3>3. leaves[b] = 0 => b \in Validators
      BY <1>0, <2>4 DEF ConsensusOK
    <3>4. QED  BY <2>1, <2>2, <3>1, <3>2, <3>3
  <2>5. QED  BY <2>3, <2>4
<1>4. \A b \in blocks' : b.Index <= currentBlockIndex'
  BY <1>0 DEF RewardValidator, ConsensusOK
<1>5. \A a \in Address : joins'[a] = 0 => deposited'[a] = 0 /\ made'[a] = 0
  BY <1>0 DEF RewardValidator, ConsensusOK, TypeOK, bookVars
<1>6. QED
  BY <1>1, <1>2, <1>3, <1>4, <1>5 DEF TypeOK, ConsensusOK, RewardValidator, bookVars

\* The bookkeeping of stakes and indices holds in every reachable state.
THEOREM Consensus == StakeAssumption => (Spec => []ConsensusOK)
<1> SUFFICES ASSUME StakeAssumption PROVE Spec => []ConsensusOK
  OBVIOUS
<1>1. Init => ConsensusOK
  BY DEF StakeAssumption, Init, ConsensusOK, IndicesUnique, PoolBacked, StakeAccounted
<1>2. TypeOK /\ ConsensusOK /\ [Next]_vars => ConsensusOK'
  <2>1. ASSUME TypeOK, ConsensusOK, Next PROVE ConsensusOK'
    BY <2>1, RegisterKeeps, UnstakeKeeps, SelectKeeps, TakeKeeps, RewardKeeps DEF Next
  <2>2. ASSUME ConsensusOK, UNCHANGED vars PROVE ConsensusOK'
    BY <2>2 DEF ConsensusOK, IndicesUnique, PoolBacked, StakeAccounted, vars
  <2>3. QED  BY <2>1, <2>2
<1>3. QED  BY <1>1, <1>2, Typing, PTL DEF Spec

\* No two blocks share an index (pos-validator.go, 130-133).
THEOREM UniqueIndices == StakeAssumption => (Spec => []IndicesUnique)
<1>1. ConsensusOK => IndicesUnique
  BY DEF ConsensusOK
<1>2. QED  BY <1>1, Consensus, PTL

\* Stakes and rewards add up for each address (54-81, 161-168, 184-197).
THEOREM StakesAddUp == StakeAssumption => (Spec => []StakeAccounted)
<1>1. ConsensusOK => StakeAccounted
  BY DEF ConsensusOK
<1>2. QED  BY <1>1, Consensus, PTL

\* The pool holds the minimum stake of each validator and nothing of anybody
\* else (48, 161-168, 184-197).
THEOREM PoolHolds == StakeAssumption => (Spec => []PoolBacked)
<1>1. ConsensusOK => PoolBacked
  BY DEF ConsensusOK
<1>2. QED  BY <1>1, Consensus, PTL

-----------------------------------------------------------------------------
\* An index is in use when a block or a call has it.
LEMMA TakenMember ==
    ASSUME NEW i
    PROVE  i \in Taken <=> \/ \E b \in blocks : b.Index = i
                           \/ \E c \in Creator : pc[c] = "indexed" /\ index[c] = i
BY DEF Taken

\* Taking an index adds the next one to those in use; returning the block
\* moves it from the call to the blocks; nothing else touches them.
LEMMA GaplessStep ==
    ASSUME StakeAssumption, TypeOK, IndicesGapless, [Next]_vars
    PROVE  IndicesGapless'
<1>1. ASSUME blocks' = blocks, index' = index,
             \A c \in Creator : pc'[c] = "indexed" <=> pc[c] = "indexed",
             currentBlockIndex' = currentBlockIndex
      PROVE  IndicesGapless'
  BY <1>1 DEF IndicesGapless, Taken
<1>2. ASSUME NEW c \in Creator, TakeIndex(c) PROVE IndicesGapless'
  <2>1. \A i : i \in Taken' <=> i \in Taken \/ i = currentBlockIndex + 1
    <3> SUFFICES ASSUME NEW i
                 PROVE  i \in Taken' <=> i \in Taken \/ i = currentBlockIndex + 1
      OBVIOUS
    <3>1. i \in Taken' <=> \/ \E b \in blocks' : b.Index = i
                          \/ \E d \in Creator : pc'[d] = "indexed" /\ index'[d] = i
      BY DEF Taken
    <3>2. blocks' = blocks /\ pc[c] # "indexed"
      BY <1>2 DEF TakeIndex
    <3>3. \A d \in Creator :
             /\ pc'[d] = IF d = c THEN "indexed" ELSE pc[d]
             /\ index'[d] = IF d = c THEN currentBlockIndex + 1 ELSE index[d]
      BY <1>2 DEF TakeIndex, TypeOK
    <3> QED  BY <3>1, <3>2, <3>3, TakenMember
  <2>2. currentBlockIndex' = currentBlockIndex + 1 /\ currentBlockIndex \in Nat
    BY <1>2 DEF TakeIndex, TypeOK
  <2>3. 1..(currentBlockIndex + 1) = 1..currentBlockIndex \cup {currentBlockIndex + 1}
    BY <2>2
  <2> QED  BY <2>1, <2>2, <2>3 DEF IndicesGapless
<1>3. ASSUME NEW c \in Creator, RewardValidator(c) PROVE IndicesGapless'
  <2>1. \A i : i \in Taken' <=> i \in Taken
    <3> SUFFICES ASSUME NEW i PROVE i \in Taken' <=> i \in Taken
      OBVIOUS
    <3>1. i \in Taken' <=> \/ \E b \in blocks' : b.Index = i
                          \/ \E d \in Creator : pc'[d] = "indexed" /\ index'[d] = i
      BY DEF Taken
    <3> DEFINE new == [Index |-> index[c], Validator |-> picked[c]]
    <3>2. blocks' = blocks \cup {new} /\ new.Index = index[c]
      BY <1>3 DEF RewardValidator
    <3> HIDE DEF new
    <3>3. (\E b \in blocks' : b.Index = i) <=> (\E b \in blocks : b.Index = i) \/ i = index[c]
      BY <3>2
    <3>4. /\ pc[c] = "indexed" /\ index' = index
          /\ \A d \in Creator : pc'[d] = IF d = c THEN "idle" ELSE pc[d]
      BY <1>3 DEF RewardValidator, TypeOK
    <3> QED  BY <3>1, <3>3, <3>4, TakenMember
  <2>2. currentBlockIndex' = currentBlockIndex
    BY <1>3 DEF RewardValidator
  <2> QED  BY <2>1, <2>2 DEF IndicesGapless
<1>4. ASSUME NEW a \in Address, NEW amount \in Amounts, RegisterValidator(a, amount)
      PROVE  IndicesGapless'
  BY <1>1, <1>4 DEF RegisterValidator, callVars
<1>5. ASSUME NEW a \in Address, UnstakeValidator(a) PROVE IndicesGapless'
  BY <1>1, <1>5 DEF UnstakeValidator, callVars
<1>6. ASSUME NEW c \in Creator, SelectValidator(c) PROVE IndicesGapless'
  BY <1>1, <1>6 DEF SelectValidator, TypeOK
<1>7. CASE UNCHANGED vars
  BY <1>1, <1>7 DEF vars
<1> QED  BY <1>2, <1>3, <1>4, <1>5, <1>6, <1>7 DEF Next

\* Every index up to the counter is on a block or in the hand of a call, and no
\* other one is (130-133).
THEOREM GaplessIndices == StakeAssumption => (Spec => []IndicesGapless)
<1> SUFFICES ASSUME StakeAssumption PROVE Spec => []IndicesGapless
  OBVIOUS
<1>1. Init => IndicesGapless
  BY DEF Init, IndicesGapless, Taken
<1>2. TypeOK /\ IndicesGapless /\ [Next]_vars => IndicesGapless'
  BY GaplessStep
<1> QED  BY <1>1, <1>2, Typing, PTL DEF Spec

-----------------------------------------------------------------------------
(* The chain over it.                                                      *)

\* Adding blocks and remembering tips is a stutter of consensus.
LEMMA StepsOfConsensus == [ChainNext]_chainVars => [Next]_vars
<1> SUFFICES ASSUME [ChainNext]_chainVars PROVE [Next]_vars
  OBVIOUS
<1>1. ASSUME NEW c \in Creator, Begin(c) \/ Return(c) PROVE Next
  BY <1>1 DEF Begin, Return, Next
<1>2. ASSUME NEW a \in Address, NEW amount \in Amounts, RegisterValidator(a, amount)
      PROVE  Next
  BY <1>2 DEF Next
<1>3. ASSUME NEW a \in Address, UnstakeValidator(a) PROVE Next
  BY <1>3 DEF Next
<1>4. ASSUME NEW c \in Creator, TakeIndex(c) PROVE Next
  BY <1>4 DEF Next
<1>5. ASSUME NEW b \in blocks, AddBlock(b) PROVE UNCHANGED vars
  BY <1>5 DEF AddBlock
<1>6. CASE UNCHANGED chainVars
  BY <1>6 DEF chainVars
<1> QED  BY <1>1, <1>2, <1>3, <1>4, <1>5, <1>6 DEF ChainNext

(* The chain's callers see the consensus of ProofOfStake: all that holds of it *)
(* holds of the composition.                                                   *)
THEOREM ChainImplementsConsensus == ChainSpec => Spec
<1>1. ChainInit => Init
  BY DEF ChainInit
<1> QED  BY <1>1, StepsOfConsensus, PTL DEF ChainSpec, Spec

\* What the consensus keeps, as one formula about a state.
ConsensusFacts == TypeOK /\ IndicesUnique /\ IndicesGapless

LEMMA Inherited == StakeAssumption => (ChainSpec => []ConsensusFacts)
<1> SUFFICES ASSUME StakeAssumption PROVE ChainSpec => []ConsensusFacts
  OBVIOUS
<1>1. Spec => []TypeOK /\ []IndicesUnique /\ []IndicesGapless
  BY Typing, UniqueIndices, GaplessIndices
<1>2. TypeOK /\ IndicesUnique /\ IndicesGapless => ConsensusFacts
  BY DEF ConsensusFacts
<1> QED  BY <1>1, <1>2, ChainImplementsConsensus, PTL

-----------------------------------------------------------------------------
\* A sequence that is not empty has a last element.
LEMMA LastElement == ASSUME NEW S, NEW s \in Seq(S), s # <<>>
                     PROVE  Len(s) \in Nat \ {0} /\ s[Len(s)] \in S
OBVIOUS

\* Appending keeps what is there.
LEMMA AppendKeeps == ASSUME NEW S, NEW s \in Seq(S), NEW e \in S
                     PROVE  /\ Append(s, e) \in Seq(S) /\ Append(s, e) # <<>>
                            /\ Len(Append(s, e)) = Len(s) + 1
                            /\ Append(s, e)[Len(s) + 1] = e
                            /\ \A i \in 1..Len(s) : Append(s, e)[i] = s[i]
OBVIOUS

\* The chain is never empty, and its latest block has a number.
LEMMA LatestType == ASSUME ChainOK
                    PROVE  Len(Blocks) \in Nat \ {0} /\ GetLatestBlock.Index \in Nat
<1>1. Len(Blocks) \in Nat \ {0} /\ GetLatestBlock \in [Index : Nat, PrevHash : Int]
  BY LastElement DEF ChainOK, GetLatestBlock
<1> QED  BY <1>1

\* The index of a call that is about to return is ahead of the whole chain.
LEMMA IndexedIsAhead ==
    ASSUME ConsensusFacts, ChainOK, NEW c \in Creator, pc[c] = "indexed"
    PROVE  /\ index[c] \in Nat /\ index[c] > GetLatestBlock.Index
           /\ index[c] \notin DOMAIN PrevHash
<1>1. GetLatestBlock.Index \in Nat
  BY LatestType
<1>2. index[c] \in 1..currentBlockIndex /\ currentBlockIndex \in Nat
  BY DEF ConsensusFacts, IndicesGapless, Taken, TypeOK
<1>3. \A b \in blocks : b.Index # index[c]
  BY DEF ConsensusFacts, IndicesUnique
<1>4. index[c] \notin 1..GetLatestBlock.Index
  BY <1>3 DEF ChainOK
<1>5. index[c] \notin DOMAIN PrevHash
  BY <1>3 DEF ChainOK
<1> QED  BY <1>1, <1>2, <1>4, <1>5

\* Steps that change neither the blocks nor the chain.
LEMMA OthersKeep ==
    ASSUME ChainOK, UNCHANGED <<blocks, Blocks, PrevHash>>
    PROVE  ChainOK'
BY DEF ChainOK, GetLatestBlock, StaleBlockFreezes, ValidateChain

\* A block that is returned is ahead of the chain, so it may well be stale.
LEMMA ReturnKeeps ==
    ASSUME ConsensusFacts, ChainOK, NEW c \in Creator, Return(c)
    PROVE  ChainOK'
<1> DEFINE new == [Index |-> index[c], Validator |-> picked[c]]
<1>1. /\ blocks' = blocks \cup {new} /\ new.Index = index[c]
      /\ Blocks' = Blocks /\ pc[c] = "indexed"
      /\ PrevHash' = [i \in DOMAIN PrevHash \cup {index[c]} |->
                        IF i = index[c] THEN tip[c] ELSE PrevHash[i]]
  BY DEF Return, RewardValidator
<1> HIDE DEF new
<1>2. /\ index[c] \in Nat /\ index[c] > GetLatestBlock.Index
      /\ index[c] \notin DOMAIN PrevHash
  BY <1>1, IndexedIsAhead
<1>3. GetLatestBlock' = GetLatestBlock
  BY <1>1 DEF GetLatestBlock
<1>4. DOMAIN PrevHash' = {b.Index : b \in blocks'}
  BY <1>1 DEF ChainOK
<1>5. \A i \in 1 .. GetLatestBlock'.Index : \E b \in blocks' : b.Index = i
  BY <1>1, <1>3 DEF ChainOK
<1>6. StaleBlockFreezes'
  <2>1. ValidateChain'
    BY <1>1 DEF ChainOK, StaleBlockFreezes, ValidateChain
  <2>2. ASSUME NEW b \in blocks', PrevHash'[b.Index] # b.Index - 1
        PROVE  GetLatestBlock'.Index < b.Index
    <3>1. CASE b = new
      BY <1>1, <1>2, <1>3, <3>1
    <3>2. CASE b \in blocks
      <4>1. b.Index \in DOMAIN PrevHash
        BY <3>2 DEF ChainOK
      <4>2. PrevHash'[b.Index] = PrevHash[b.Index]
        BY <1>1, <1>2, <4>1
      <4> QED  BY <1>3, <2>2, <3>2, <4>2 DEF ChainOK, StaleBlockFreezes
    <3> QED  BY <1>1, <3>1, <3>2
  <2> QED  BY <2>1, <2>2 DEF StaleBlockFreezes
<1> QED  BY <1>1, <1>4, <1>5, <1>6 DEF ChainOK

\* The chain grows by one index, and only past blocks that are not stale.
LEMMA AddBlockKeeps ==
    ASSUME ConsensusFacts, ChainOK, NEW b \in blocks, AddBlock(b)
    PROVE  ChainOK'
<1> DEFINE last == GetLatestBlock.Index
           new == [Index |-> b.Index, PrevHash |-> PrevHash[b.Index]]
<1>1. /\ b.Index = last + 1 /\ PrevHash[b.Index] = last
      /\ Blocks' = Append(Blocks, new)
      /\ blocks' = blocks /\ PrevHash' = PrevHash
  BY DEF AddBlock, Follows, vars
<1>2. Len(Blocks) \in Nat \ {0} /\ last \in Nat
  BY LatestType
<1>3. new = [Index |-> last + 1, PrevHash |-> last]
  BY <1>1
<1> HIDE DEF new
<1>4. new \in [Index : Nat, PrevHash : Int] /\ new.Index = last + 1 /\ new.PrevHash = last
  BY <1>2, <1>3
<1>5. /\ Len(Blocks') = Len(Blocks) + 1
      /\ Blocks'[Len(Blocks) + 1] = new
      /\ \A i \in 1..Len(Blocks) : Blocks'[i] = Blocks[i]
  BY <1>1, <1>4, AppendKeeps DEF ChainOK
<1>5a. Blocks' \in Seq([Index : Nat, PrevHash : Int]) /\ Blocks' # <<>>
  BY <1>1, <1>4, AppendKeeps DEF ChainOK
<1>6. GetLatestBlock'.Index = last + 1
  BY <1>4, <1>5 DEF GetLatestBlock
<1>7. \A i \in 1 .. GetLatestBlock'.Index : \E d \in blocks' : d.Index = i
  <2> SUFFICES ASSUME NEW i \in 1 .. (last + 1) PROVE \E d \in blocks : d.Index = i
    BY <1>1, <1>6
  <2>1. i # last + 1 => i \in 1 .. last
    BY <1>2
  <2> QED  BY <1>1, <2>1 DEF ChainOK
<1>8. ValidateChain'
  <2> SUFFICES ASSUME NEW i \in 2..Len(Blocks')
               PROVE  /\ Blocks'[i].PrevHash = Blocks'[i - 1].Index
                      /\ Blocks'[i].Index = Blocks'[i - 1].Index + 1
    BY DEF ValidateChain
  <2> DEFINE n == Len(Blocks)
  <2>0. n \in Nat \ {0} /\ i \in 2..(n + 1)
    BY <1>2, <1>5
  <2>1. CASE i = n + 1
    <3>1. i - 1 = Len(Blocks) /\ Blocks'[i] = new /\ Blocks'[i - 1] = Blocks[Len(Blocks)]
      BY <1>5, <2>0, <2>1
    <3> QED  BY <1>4, <3>1 DEF GetLatestBlock
  <2>2. CASE i # n + 1
    <3>1. i \in 2..Len(Blocks) /\ Blocks'[i] = Blocks[i] /\ Blocks'[i - 1] = Blocks[i - 1]
      <4>1. i \in 2..n /\ i \in 1..n /\ i - 1 \in 1..n
        BY <2>0, <2>2
      <4> QED  BY <1>5, <4>1
    <3> QED  BY <3>1 DEF ChainOK, StaleBlockFreezes, ValidateChain
  <2> QED  BY <2>1, <2>2
<1>9. ASSUME NEW d \in blocks, PrevHash[d.Index] # d.Index - 1
      PROVE  last + 1 < d.Index
  <2>1. last < d.Index
    BY <1>9 DEF ChainOK, StaleBlockFreezes
  <2>2. d.Index \in Nat
    BY DEF ConsensusFacts, TypeOK, Block
  <2>3. d.Index # last + 1
    BY <1>1, <1>2, <1>9
  <2> QED  BY <1>2, <2>1, <2>2, <2>3
<1>10. StaleBlockFreezes'
  BY <1>1, <1>6, <1>8, <1>9 DEF StaleBlockFreezes
<1> QED  BY <1>1, <1>5a, <1>7, <1>10 DEF ChainOK

\* The chain is valid, and no block goes past a stale one, in every reachable
\* state (btnchain.go, 58-68, 84-103).
THEOREM ChainNeverPassesStale == StakeAssumption => (ChainSpec => []StaleBlockFreezes)
<1> SUFFICES ASSUME StakeAssumption PROVE ChainSpec => []StaleBlockFreezes
  OBVIOUS
<1>1. ChainInit => ChainOK
  <2> SUFFICES ASSUME ChainInit PROVE ChainOK
    OBVIOUS
  <2> DEFINE genesis == [Index |-> 0, PrevHash |-> -1]
  <2>1. Blocks = <<genesis>> /\ blocks = {} /\ PrevHash = <<>>
    BY DEF ChainInit, Init, NewBlockchain
  <2>2. genesis \in [Index : Nat, PrevHash : Int] /\ genesis.Index = 0
    OBVIOUS
  <2> HIDE DEF genesis
  <2>3. Blocks \in Seq([Index : Nat, PrevHash : Int]) /\ Blocks # <<>> /\ Len(Blocks) = 1
    BY <2>1, <2>2
  <2>4. GetLatestBlock.Index = 0
    BY <2>1, <2>2 DEF GetLatestBlock
  <2>5. DOMAIN PrevHash = {b.Index : b \in blocks}
    BY <2>1
  <2>6. StaleBlockFreezes
    BY <2>1, <2>3 DEF StaleBlockFreezes, ValidateChain
  <2> QED  BY <2>3, <2>4, <2>5, <2>6 DEF ChainOK
<1>2. ConsensusFacts /\ ChainOK /\ [ChainNext]_chainVars => ChainOK'
  <2> SUFFICES ASSUME ConsensusFacts, ChainOK, [ChainNext]_chainVars PROVE ChainOK'
    OBVIOUS
  <2>1. ASSUME NEW c \in Creator, Begin(c) PROVE ChainOK'
    BY <2>1, OthersKeep DEF Begin, SelectValidator
  <2>2. ASSUME NEW c \in Creator, Return(c) PROVE ChainOK'
    BY <2>2, ReturnKeeps
  <2>3. ASSUME NEW a \in Address, NEW amount \in Amounts, RegisterValidator(a, amount),
               UNCHANGED <<Blocks, tip, PrevHash>>
        PROVE  ChainOK'
    BY <2>3, OthersKeep DEF RegisterValidator, callVars
  <2>4. ASSUME NEW a \in Address, UnstakeValidator(a), UNCHANGED <<Blocks, tip, PrevHash>>
        PROVE  ChainOK'
    BY <2>4, OthersKeep DEF UnstakeValidator, callVars
  <2>5. ASSUME NEW c \in Creator, TakeIndex(c), UNCHANGED <<Blocks, tip, PrevHash>>
        PROVE  ChainOK'
    BY <2>5, OthersKeep DEF TakeIndex
  <2>6. ASSUME NEW b \in blocks, AddBlock(b) PROVE ChainOK'
    BY <2>6, AddBlockKeeps
  <2>7. CASE UNCHANGED chainVars
    BY <2>7, OthersKeep DEF chainVars, vars
  <2> QED  BY <2>1, <2>2, <2>3, <2>4, <2>5, <2>6, <2>7 DEF ChainNext
<1>3. ChainOK => StaleBlockFreezes
  BY DEF ChainOK
<1> QED  BY <1>1, <1>2, <1>3, Inherited, PTL DEF ChainSpec

=============================================================================
