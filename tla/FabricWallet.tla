---------------------------- MODULE FabricWallet ----------------------------
(***************************************************************************)
(* The btng-wallet chaincode, fabric/chaincode/btng-wallet/main.go, under  *)
(* Fabric's execute-order-validate: a transaction is simulated against the *)
(* committed state, where it collects the versions it has read and the     *)
(* values it would write, and takes effect later, if nothing it has read   *)
(* has been written in between.  A transaction never reads its own writes. *)
(*                                                                         *)
(* Abstractions.  Amounts are integers, in units finer than the four       *)
(* decimals of the supply record: Grain units are 0.0001 BTNG.  A wallet   *)
(* without a record is one with balance 0, which the code treats alike up  *)
(* to the text of an error.  A simulation that returns an error is never   *)
(* submitted, so it is no step.  The TX_ records, written once under a     *)
(* fresh key and never read, are left out, as are time stamps.             *)
(***************************************************************************)
EXTENDS Integers, FiniteSets, Functions

CONSTANTS
    Wallet,          \* wallet IDs
    Supply,          \* the key BTNG_TOTAL_SUPPLY
    Tx,              \* the transactions clients propose
    Amounts,         \* the amounts they ask for
    Transfers,       \* the pairs <<from, to>> they ask to transfer between
    Grain,           \* units of amount per unit of the supply record
    ReadsMayFail     \* whether GetState can return an error

ASSUME FabricAssumption ==
    /\ Supply \notin Wallet
    /\ Amounts \subseteq Nat \ {0}
    /\ Transfers \subseteq Wallet \X Wallet
    /\ Grain \in Nat \ {0}
    /\ ReadsMayFail \in BOOLEAN

Key == Wallet \cup {Supply}

VARIABLES
    state,           \* state[k]: the committed value of a key
    version,         \* version[k]: how often it was written
    call,            \* call[t]: the contract function t invokes, "" before
    phase,           \* phase[t]: "new", "endorsed", "valid" or "invalid"
    reads,           \* reads[t]: version of each key t has read
    writes           \* writes[t]: value of each key t would write

vars == <<state, version, call, phase, reads, writes>>

\* A balance is never negative, and no endorsed write would make it so:
\* nothing is spent that is not there, whatever was committed between a
\* transaction's balance check and its commit (106, 151).
TypeOK ==
    /\ state \in [Key -> Int]
    /\ \A w \in Wallet : state[w] >= 0
    /\ version \in [Key -> Nat]
    /\ call \in [Tx -> {"", "Mint", "Melt", "Transfer"}]
    /\ phase \in [Tx -> {"new", "endorsed", "valid", "invalid"}]
    /\ DOMAIN reads = Tx /\ DOMAIN writes = Tx
    /\ \A t \in Tx :
          /\ DOMAIN reads[t] \subseteq Key
          /\ DOMAIN writes[t] \subseteq Key
          /\ \A k \in DOMAIN reads[t] : reads[t][k] \in Nat
          /\ \A k \in DOMAIN writes[t] : writes[t][k] \in Int
          /\ \A w \in Wallet \cap DOMAIN writes[t] : writes[t][w] >= 0

Nothing == [k \in {} |-> 0]

Init ==
    /\ state = [k \in Key |-> 0]
    /\ version = [k \in Key |-> 0]
    /\ call = [t \in Tx |-> ""]
    /\ phase = [t \in Tx |-> "new"]
    /\ reads = [t \in Tx |-> Nothing]
    /\ writes = [t \in Tx |-> Nothing]

-----------------------------------------------------------------------------
\* The endorsement of a simulation that has read the keys R.
Endorse(t, function, R, W) ==
    /\ phase[t] = "new"
    /\ call' = [call EXCEPT ![t] = function]
    /\ phase' = [phase EXCEPT ![t] = "endorsed"]
    /\ reads' = [reads EXCEPT ![t] = [k \in R |-> version[k]]]
    /\ writes' = [writes EXCEPT ![t] = W]
    /\ UNCHANGED <<state, version>>

\* The keys of K whose GetState fails.
Failures(K) == IF ReadsMayFail THEN SUBSET K ELSE {{}}

\* What a caller that swallows the error goes on with.
Value(k, failed) == IF k \in failed THEN 0 ELSE state[k]

\* Mutant: the decimals that do not fit are cut off.
NewSupplyTruncated(delta, failed) ==
    {((Value(Supply, failed) + delta) \div Grain) * Grain}

\* updateTotalSupply: the sum is stored with four decimals, the nearest ones; a
\* tie goes either way, as the float it stands for lies on either side of it.
NewSupply(delta, failed) ==
    LET sum == Value(Supply, failed) + delta
        low == (sum \div Grain) * Grain
    IN  {s \in {low, low + Grain} : 2 * (s - sum) <= Grain /\ 2 * (sum - s) <= Grain}

Mint(t, w, a) ==
    \E failed \in Failures({w, Supply}) : \E s \in NewSupply(a, failed) :
        Endorse(t, "Mint", {w, Supply} \ failed,
                [k \in {w, Supply} |-> IF k = w THEN Value(w, failed) + a ELSE s])

\* A wallet that cannot be read fails the call; the supply's error is swallowed.
Melt(t, w, a) ==
    /\ state[w] >= a
    /\ \E failed \in Failures({Supply}) : \E s \in NewSupply(-a, failed) :
          Endorse(t, "Melt", {w, Supply} \ failed,
                  [k \in {w, Supply} |-> IF k = w THEN state[w] - a ELSE s])

\* Both wallets are read before either is written, and v is written last.
Transfer(t, w, v, a) ==
    /\ state[w] >= a
    /\ \E failed \in Failures({v}) :
          Endorse(t, "Transfer", {w} \cup ({v} \ failed),
                  [k \in {w, v} |-> IF k = v THEN Value(v, failed) + a
                                    ELSE state[w] - a])

-----------------------------------------------------------------------------
(* The ordering service and the committing peers (Fabric, not under src/). *)

UpToDate(t) == \A k \in DOMAIN reads[t] : reads[t][k] = version[k]

\* Mutant: the versions are not compared.
CommitUnvalidated(t) ==
    /\ phase[t] = "endorsed"
    /\ phase' = [phase EXCEPT ![t] = "valid"]
    /\ state' = [k \in Key |-> IF k \in DOMAIN writes[t] THEN writes[t][k] ELSE state[k]]
    /\ version' = [k \in Key |-> IF k \in DOMAIN writes[t] THEN version[k] + 1
                                 ELSE version[k]]
    /\ UNCHANGED <<call, reads, writes>>

Commit(t) ==
    /\ phase[t] = "endorsed"
    /\ UpToDate(t)
    /\ phase' = [phase EXCEPT ![t] = "valid"]
    /\ state' = [k \in Key |-> IF k \in DOMAIN writes[t] THEN writes[t][k] ELSE state[k]]
    /\ version' = [k \in Key |-> IF k \in DOMAIN writes[t] THEN version[k] + 1
                                 ELSE version[k]]
    /\ UNCHANGED <<call, reads, writes>>

\* A read-write conflict: the transaction is recorded as invalid.
Invalidate(t) ==
    /\ phase[t] = "endorsed"
    /\ ~UpToDate(t)
    /\ phase' = [phase EXCEPT ![t] = "invalid"]
    /\ UNCHANGED <<state, version, call, reads, writes>>

Next ==
    \E t \in Tx :
        \/ \E a \in Amounts :
              \/ \E w \in Wallet : Mint(t, w, a) \/ Melt(t, w, a)
              \/ \E p \in Transfers : Transfer(t, p[1], p[2], a)
        \/ Commit(t)
        \/ Invalidate(t)

Spec == Init /\ [][Next]_vars

-----------------------------------------------------------------------------
\* main.go:194: "GetTotalSupply returns the total BTNG supply across all
\* wallets": the supply record is the sum of the balances.  It is so for
\* transfers between two wallets, amounts of four decimals and reads that do
\* not fail, and for none of the three without its condition.
SupplyIsSum == state[Supply] = FoldFunctionOnSet(+, 0, state, Wallet)

\* How far one update can put the record off: what has no more decimals than the
\* record is not rounded, other amounts are off by half of the last one at most.
Slack == IF \A a \in Amounts : a % Grain = 0 THEN 0 ELSE Grain \div 2

\* Amounts of more decimals make the record drift from the sum, by half of its
\* last decimal at most for every mint and melt that commits, however they
\* interleave (81, 133, 269).  With other amounts it is the sum (194).
DriftBounded ==
    LET drift == state[Supply] - FoldFunctionOnSet(+, 0, state, Wallet)
        bound == Slack * version[Supply]
    IN  -bound <= drift /\ drift <= bound

Committed == INSTANCE Ledger WITH
    balance <- [w \in Wallet |-> state[w]],
    supply <- state[Supply]

\* What the committed transactions do is a run of the ledger, one operation
\* after another, however simulations and commits interleave (51-83, 101-135,
\* 147-171); its supply follows as closely as Slack says.
ImplementsLedger == Committed!Spec

\* t would write x under k and y under l.
Puts(t, k, x, l, y) ==
    /\ DOMAIN writes[t] = {k, l}
    /\ writes[t][k] = x
    /\ writes[t][l] = y

\* What t would write is one operation of the ledger, done now, up to the
\* rounding of the supply.
WritesOperation(t) ==
    \E a \in Amounts, w \in Wallet :
        \/ \E s \in NewSupply(a, {}) : Puts(t, w, state[w] + a, Supply, s)
        \/ /\ state[w] >= a
           /\ \E s \in NewSupply(-a, {}) : Puts(t, w, state[w] - a, Supply, s)
        \/ /\ state[w] >= a
           /\ \E v \in Wallet \ {w} : Puts(t, w, state[w] - a, v, state[v] + a)

\* The inductive invariant: an endorsed transaction whose reads are still
\* current writes what a ledger operation would now, and versions only grow.
EndorsedOK ==
    \A t \in Tx :
        phase[t] = "endorsed" =>
            /\ DOMAIN reads[t] = DOMAIN writes[t]
            /\ \A k \in DOMAIN reads[t] : reads[t][k] <= version[k]
            /\ UpToDate(t) => WritesOperation(t)

=============================================================================
