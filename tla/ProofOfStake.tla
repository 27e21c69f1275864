---------------------------- MODULE ProofOfStake ----------------------------
(***************************************************************************)
(* consensus/pos-validator.go: validators register and unstake while       *)
(* goroutines create blocks.  CreateBlock is three critical sections of    *)
(* pos.mutex, selecting a validator, taking an index and paying the        *)
(* reward, and anything can happen between them.                           *)
(*                                                                         *)
(* Abstractions.  Amounts are natural numbers.  SelectValidator picks with *)
(* a random float weighted by stake; here any validator it can return is   *)
(* possible.  IsActive is set to true by RegisterValidator and written     *)
(* nowhere else, so that every entry of the map is active.  A block is its *)
(* index and its validator; its hash always fits, as nobody alters it.     *)
(***************************************************************************)
EXTENDS Naturals, FiniteSets

CONSTANTS
    Address,         \* validator addresses, "" not among them
    Creator,         \* goroutines that call CreateBlock
    Amounts,         \* amounts offered as stake
    MinStake,
    RewardPerBlock,
    MaxBlocks,       \* bound: calls of CreateBlock that select a validator
    MaxJoins,        \* bound: successful registrations of one address
    NoValidator      \* the nil *Validator

ASSUME StakeAssumption ==
    /\ Amounts \subseteq Nat
    /\ MinStake \in Nat \ {0}
    /\ RewardPerBlock \in Nat
    /\ MaxBlocks \in Nat
    /\ MaxJoins \in Nat
    /\ NoValidator \notin Address

VARIABLES
    Validators,          \* the keys of the map
    StakedAmount,        \* their stakes, 0 for an address without an entry
    currentBlockIndex,
    pc,                  \* pc[c]: where the goroutine inside CreateBlock is
    picked,              \* picked[c]: the validator it has selected
    index,               \* index[c]: the index it has taken
    blocks,              \* history: the blocks returned by CreateBlock
    selections,          \* history: how many calls selected a validator
    deposited,           \* history: stake paid in by each address
    withdrawn,           \* history: stake paid out to it
    made,                \* history: its blocks whose reward step is done
    joins, leaves        \* history: its registrations and unstakings

poolVars == <<Validators, StakedAmount>>
callVars == <<pc, picked, index, currentBlockIndex, blocks, selections>>
bookVars == <<deposited, withdrawn, joins, leaves>>
vars == <<Validators, StakedAmount, currentBlockIndex, pc, picked, index, blocks,
          selections, deposited, withdrawn, made, joins, leaves>>

Block == [Index : Nat, Validator : Address]

TypeOK ==
    /\ Validators \subseteq Address
    /\ StakedAmount \in [Address -> Nat]
    /\ currentBlockIndex \in Nat
    /\ pc \in [Creator -> {"idle", "selected", "indexed"}]
    /\ picked \in [Creator -> Address \cup {NoValidator}]
    /\ \A c \in Creator : pc[c] # "idle" => picked[c] \in Address
    /\ index \in [Creator -> Nat]
    /\ blocks \subseteq Block
    /\ selections \in Nat
    /\ deposited \in [Address -> Nat]
    /\ withdrawn \in [Address -> Nat]
    /\ made \in [Address -> Nat]
    /\ joins \in [Address -> Nat]
    /\ leaves \in [Address -> Nat]

Init ==
    /\ Validators = {}
    /\ StakedAmount = [a \in Address |-> 0]
    /\ currentBlockIndex = 0
    /\ pc = [c \in Creator |-> "idle"]
    /\ picked = [c \in Creator |-> NoValidator]
    /\ index = [c \in Creator |-> 0]
    /\ blocks = {}
    /\ selections = 0
    /\ deposited = [a \in Address |-> 0]
    /\ withdrawn = [a \in Address |-> 0]
    /\ made = [a \in Address |-> 0]
    /\ joins = [a \in Address |-> 0]
    /\ leaves = [a \in Address |-> 0]

-----------------------------------------------------------------------------
RegisterValidator(a, amount) ==
    /\ joins[a] < MaxJoins
    /\ amount >= MinStake
    /\ a \notin Validators
    /\ Validators' = Validators \cup {a}
    /\ StakedAmount' = [StakedAmount EXCEPT ![a] = amount]
    /\ deposited' = [deposited EXCEPT ![a] = @ + amount]
    /\ joins' = [joins EXCEPT ![a] = @ + 1]
    /\ UNCHANGED <<withdrawn, leaves, made, callVars>>

UnstakeValidator(a) ==
    /\ a \in Validators
    /\ Validators' = Validators \ {a}
    /\ StakedAmount' = [StakedAmount EXCEPT ![a] = 0]
    /\ withdrawn' = [withdrawn EXCEPT ![a] = @ + StakedAmount[a]]
    /\ leaves' = [leaves EXCEPT ![a] = @ + 1]
    /\ UNCHANGED <<deposited, joins, made, callVars>>

\* CreateBlock, first critical section.  With no validator it returns an error.
SelectValidator(c) ==
    /\ pc[c] = "idle"
    /\ selections < MaxBlocks
    /\ \E a \in Validators : picked' = [picked EXCEPT ![c] = a]
    /\ pc' = [pc EXCEPT ![c] = "selected"]
    /\ selections' = selections + 1
    /\ UNCHANGED <<index, currentBlockIndex, blocks, made, poolVars, bookVars>>

\* Mutant: the index is counted from the blocks that are finished.
TakeIndexFromBlocks(c) ==
    /\ pc[c] = "selected"
    /\ currentBlockIndex' = Cardinality(blocks) + 1
    /\ index' = [index EXCEPT ![c] = Cardinality(blocks) + 1]
    /\ pc' = [pc EXCEPT ![c] = "indexed"]
    /\ UNCHANGED <<picked, blocks, selections, made, poolVars, bookVars>>

\* Second critical section.
TakeIndex(c) ==
    /\ pc[c] = "selected"
    /\ currentBlockIndex' = currentBlockIndex + 1
    /\ index' = [index EXCEPT ![c] = currentBlockIndex + 1]
    /\ pc' = [pc EXCEPT ![c] = "indexed"]
    /\ UNCHANGED <<picked, blocks, selections, made, poolVars, bookVars>>

\* Mutant: the reward goes to the address, registered or not.
RewardAnybody(c) ==
    /\ pc[c] = "indexed"
    /\ StakedAmount' = [StakedAmount EXCEPT ![picked[c]] = @ + RewardPerBlock]
    /\ made' = [made EXCEPT ![picked[c]] = @ + 1]
    /\ blocks' = blocks \cup {[Index |-> index[c], Validator |-> picked[c]]}
    /\ pc' = [pc EXCEPT ![c] = "idle"]
    /\ UNCHANGED <<Validators, picked, index, currentBlockIndex, selections, bookVars>>

\* Mutant: the reward is paid over again when the block is returned.
RewardTwice(c) ==
    /\ pc[c] = "indexed"
    /\ StakedAmount' = IF picked[c] \in Validators
                       THEN [StakedAmount EXCEPT ![picked[c]] = @ + 2 * RewardPerBlock]
                       ELSE StakedAmount
    /\ made' = [made EXCEPT ![picked[c]] = @ + 1]
    /\ blocks' = blocks \cup {[Index |-> index[c], Validator |-> picked[c]]}
    /\ pc' = [pc EXCEPT ![c] = "idle"]
    /\ UNCHANGED <<Validators, picked, index, currentBlockIndex, selections, bookVars>>

\* Third critical section, rewardValidator; then the block is returned.
RewardValidator(c) ==
    /\ pc[c] = "indexed"
    /\ StakedAmount' = IF picked[c] \in Validators
                       THEN [StakedAmount EXCEPT ![picked[c]] = @ + RewardPerBlock]
                       ELSE StakedAmount
    /\ made' = [made EXCEPT ![picked[c]] = @ + 1]
    /\ blocks' = blocks \cup {[Index |-> index[c], Validator |-> picked[c]]}
    /\ pc' = [pc EXCEPT ![c] = "idle"]
    /\ UNCHANGED <<Validators, picked, index, currentBlockIndex, selections, bookVars>>

Next ==
    \/ \E a \in Address, amount \in Amounts : RegisterValidator(a, amount)
    \/ \E a \in Address : UnstakeValidator(a)
    \/ \E c \in Creator : SelectValidator(c) \/ TakeIndex(c) \/ RewardValidator(c)

Spec == Init /\ [][Next]_vars

-----------------------------------------------------------------------------
\* The indices that were taken, by blocks returned and calls under way.
Taken == {b.Index : b \in blocks} \cup {index[c] : c \in {d \in Creator : pc[d] = "indexed"}}

\* No two blocks get the same index, however many goroutines are inside
\* CreateBlock (130-133).
IndicesUnique ==
    /\ \A b1, b2 \in blocks : b1.Index = b2.Index => b1 = b2
    /\ \A c \in Creator : pc[c] = "indexed" =>
          /\ \A b \in blocks : b.Index # index[c]
          /\ \A d \in Creator : pc[d] = "indexed" /\ index[d] = index[c] => d = c

\* The indices are 1, 2, ... without a gap: one that is missing among the
\* returned blocks is in the hand of a call under way.
IndicesGapless == Taken = 1..currentBlockIndex

\* What an address has staked and got back is what it paid in and at most one
\* reward per block of its own; exactly that if it never unstaked in between
\* (146-147, 161-168 against 184-197).
StakeAccounted ==
    \A a \in Address :
        /\ StakedAmount[a] + withdrawn[a] <= deposited[a] + RewardPerBlock * made[a]
        /\ leaves[a] = 0 =>
              StakedAmount[a] + withdrawn[a] = deposited[a] + RewardPerBlock * made[a]

\* The pool holds at least the minimum stake of each validator, and nothing of
\* anybody else: a reward that comes late does not leave stake behind.
PoolBacked ==
    \A a \in Address :
        IF a \in Validators THEN StakedAmount[a] >= MinStake ELSE StakedAmount[a] = 0

\* The inductive invariant: the properties above, and that each index in use
\* is at most the counter.
ConsensusOK ==
    /\ IndicesUnique
    /\ PoolBacked
    /\ StakeAccounted
    /\ \A b \in blocks : b.Index <= currentBlockIndex
    /\ \A c \in Creator : pc[c] = "indexed" => index[c] <= currentBlockIndex
    /\ \A a \in Address : joins[a] = 0 => a \notin Validators
    /\ \A a \in Address : (leaves[a] = 0 /\ joins[a] > 0) => a \in Validators
    /\ \A a \in Address : joins[a] = 0 => deposited[a] = 0 /\ made[a] = 0
    /\ \A c \in Creator : pc[c] # "idle" => joins[picked[c]] > 0
    /\ \A a \in Address : leaves[a] = 0 => withdrawn[a] = 0

=============================================================================
