------------------------------- MODULE Chain --------------------------------
(* core/btnchain.go, fed by consensus/pos-validator.go: whoever calls          *)
(* CreateBlock passes the hash of the latest block it knows, and offers what   *)
(* it gets to AddBlock, in any order and as often as it likes.  Nothing in the *)
(* repository wires the two together; the callers are external.  A block's     *)
(* index stands for its hash, as indices are unique.                           *)
EXTENDS ProofOfStake, Integers, Sequences

VARIABLES
  Blocks,    \* bc.Blocks
  tip,       \* tip[c]: the prevHash that c passed to CreateBlock
  PrevHash   \* of each block that CreateBlock returned, by its index

chainVars == <<vars, Blocks, tip, PrevHash>>

NewBlockchain == <<[Index |-> 0, PrevHash |-> -1]>>

ChainInit ==
  /\ Init
  /\ Blocks = NewBlockchain
  /\ tip = [c \in Creator |-> 0]
  /\ PrevHash = <<>>

GetLatestBlock == Blocks[Len(Blocks)]

Begin(c) ==
  /\ SelectValidator(c)
  /\ tip' = [tip EXCEPT ![c] = GetLatestBlock.Index]
  /\ UNCHANGED <<Blocks, PrevHash>>

Return(c) ==
  /\ RewardValidator(c)
  /\ PrevHash' = [i \in DOMAIN PrevHash \cup {index[c]} |->
                    IF i = index[c] THEN tip[c] ELSE PrevHash[i]]
  /\ UNCHANGED <<Blocks, tip>>

\* Mutant: the previous hash is not compared.
FollowsByIndex(b) == b.Index = GetLatestBlock.Index + 1

Follows(b) ==
  b.Index = GetLatestBlock.Index + 1 /\ PrevHash[b.Index] = GetLatestBlock.Index

(* A block that does not follow the latest one is refused.                     *)
AddBlock(b) ==
  /\ Follows(b)
  /\ Blocks' = Append(Blocks, [Index |-> b.Index, PrevHash |-> PrevHash[b.Index]])
  /\ UNCHANGED <<vars, tip, PrevHash>>

ChainNext ==
  \/ \E c \in Creator : Begin(c) \/ Return(c)
  \/ /\ \/ \E a \in Address, amount \in Amounts : RegisterValidator(a, amount)
        \/ \E a \in Address : UnstakeValidator(a)
        \/ \E c \in Creator : TakeIndex(c)
     /\ UNCHANGED <<Blocks, tip, PrevHash>>
  \/ \E b \in blocks : AddBlock(b)

ChainSpec == ChainInit /\ [][ChainNext]_chainVars

ValidateChain ==
  \A i \in 2 .. Len(Blocks) :
    /\ Blocks[i].PrevHash = Blocks[i - 1].Index
    /\ Blocks[i].Index = Blocks[i - 1].Index + 1
-----------------------------------------------------------------------------
(* The chain is always valid; and a block made on a tip that is not its        *)
(* predecessor stops it for good: two creators that overlap read one tip and   *)
(* take two indices, the later block is refused (65), its index is used up     *)
(* (pos-validator.go:131), and no block from that index on is ever added.      *)
StaleBlockFreezes ==
  /\ ValidateChain
  /\ \A b \in blocks : PrevHash[b.Index] # b.Index - 1 => GetLatestBlock.Index < b.Index

(* The inductive invariant: what was added came from CreateBlock, an index at  *)
(* a time, and every block that it returned has its previous hash on record.   *)
ChainOK ==
  /\ Blocks \in Seq([Index : Nat, PrevHash : Int]) /\ Blocks # <<>>
  /\ DOMAIN PrevHash = {b.Index : b \in blocks}
  /\ \A i \in 1 .. GetLatestBlock.Index : \E b \in blocks : b.Index = i
  /\ StaleBlockFreezes
=============================================================================
