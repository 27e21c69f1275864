------------------------ MODULE FabricWallet_proofs ------------------------
(***************************************************************************)
(* FabricWallet implements Ledger, and keeps the sum of its balances and   *)
(* the supply record together as closely as Slack says, for any wallets,   *)
(* transactions and amounts, when reads do not fail and nobody transfers   *)
(* to the same wallet.                                                     *)
(***************************************************************************)
EXTENDS FabricWallet, Sums

\* The conditions under which the chaincode keeps its books.
Sound ==
    /\ FabricAssumption
    /\ ~ReadsMayFail
    /\ \A p \in Transfers : p[1] # p[2]

\* And those under which nothing is rounded and Slack is 0.
WellFormed ==
    /\ Sound
    /\ \A a \in Amounts : a % Grain = 0

\* The supply record is rounded to the nearest of its units.
LEMMA Rounding ==
    ASSUME FabricAssumption, state[Supply] \in Int,
           NEW d \in Int, NEW s \in NewSupply(d, {})
    PROVE  /\ s \in Int /\ \E k \in Int : s = k * Grain
           /\ 2 * (s - (state[Supply] + d)) <= Grain
           /\ 2 * (state[Supply] + d - s) <= Grain
<1> DEFINE sum == state[Supply] + d
           q == sum \div Grain
<1>1. Grain \in Int /\ Grain > 0
  BY DEF FabricAssumption
<1>2. sum \in Int /\ q \in Int
  BY <1>1
<1>3. /\ s = q * Grain \/ s = q * Grain + Grain
      /\ 2 * (s - sum) <= Grain /\ 2 * (sum - s) <= Grain
  BY DEF NewSupply, Value
<1>4. q * Grain + Grain = (q + 1) * Grain
  <2> HIDE DEF q
  <2> QED  BY <1>1, <1>2
<1>5. \E k \in Int : s = k * Grain
  <2> HIDE DEF q
  <2>1. q + 1 \in Int /\ (s = q * Grain \/ s = (q + 1) * Grain)
    BY <1>2, <1>3, <1>4
  <2> QED  BY <1>2, <2>1
<1>6. s \in Int
  BY <1>1, <1>5
<1>7. /\ 2 * (s - (state[Supply] + d)) <= Grain
      /\ 2 * (state[Supply] + d - s) <= Grain
  BY <1>3
<1> HIDE DEF sum, q
<1> QED  BY <1>5, <1>6, <1>7

\* What has no more decimals than the record is not rounded.
LEMMA NoRounding ==
    ASSUME FabricAssumption, NEW k \in Int, state[Supply] = k * Grain,
           NEW j \in Int, NEW s \in NewSupply(j * Grain, {})
    PROVE  s = state[Supply] + j * Grain
<1>1. Grain \in Int /\ Grain > 0
  BY DEF FabricAssumption
<1>2. state[Supply] \in Int /\ j * Grain \in Int
  BY <1>1
<1>3. PICK i \in Int : s = i * Grain
  BY <1>2, Rounding
<1>4. state[Supply] + j * Grain = (k + j) * Grain
  BY <1>1
<1>5. 2 * (i * Grain - (k + j) * Grain) <= Grain /\ 2 * ((k + j) * Grain - i * Grain) <= Grain
  BY <1>2, <1>3, <1>4, Rounding
<1>6. k + j \in Int /\ i \in Int
  BY <1>3
<1>7. \A x, y \in Int : 2 * (x * Grain - y * Grain) <= Grain
                       /\ 2 * (y * Grain - x * Grain) <= Grain => x = y
  BY <1>1
<1>8. i = k + j
  BY <1>5, <1>6, <1>7
<1> QED  BY <1>3, <1>4, <1>8

-----------------------------------------------------------------------------
(* Types, whatever the constants. *)

LEMMA EndorseTypes ==
    ASSUME TypeOK, NEW t \in Tx, NEW f \in {"Mint", "Melt", "Transfer"},
           NEW R \in SUBSET Key, NEW W, DOMAIN W \subseteq Key,
           \A k \in DOMAIN W : W[k] \in Int,
           \A w \in Wallet \cap DOMAIN W : W[w] >= 0,
           Endorse(t, f, R, W)
    PROVE  TypeOK'
<1>1. /\ state' = state /\ version' = version
      /\ reads' = [reads EXCEPT ![t] = [k \in R |-> version[k]]]
      /\ writes' = [writes EXCEPT ![t] = W]
      /\ phase' = [phase EXCEPT ![t] = "endorsed"]
      /\ call' = [call EXCEPT ![t] = f]
  BY DEF Endorse
<1>2. ASSUME NEW u \in Tx
      PROVE  /\ DOMAIN reads'[u] \subseteq Key
             /\ DOMAIN writes'[u] \subseteq Key
             /\ \A k \in DOMAIN reads'[u] : reads'[u][k] \in Nat
             /\ \A k \in DOMAIN writes'[u] : writes'[u][k] \in Int
             /\ \A w \in Wallet \cap DOMAIN writes'[u] : writes'[u][w] >= 0
  <2>1. CASE u = t
    <3>1. reads'[u] = [k \in R |-> version[k]] /\ writes'[u] = W
      BY <1>1, <2>1 DEF TypeOK
    <3>2. \A k \in R : version[k] \in Nat
      BY DEF TypeOK
    <3>3. QED  BY <3>1, <3>2
  <2>2. CASE u # t
    <3>1. reads'[u] = reads[u] /\ writes'[u] = writes[u]
      BY <1>1, <2>2 DEF TypeOK
    <3>2. QED  BY <3>1 DEF TypeOK
  <2>3. QED  BY <2>1, <2>2
<1>3. /\ phase' \in [Tx -> {"new", "endorsed", "valid", "invalid"}]
      /\ call' \in [Tx -> {"", "Mint", "Melt", "Transfer"}]
      /\ DOMAIN reads' = Tx /\ DOMAIN writes' = Tx
  BY <1>1 DEF TypeOK
<1>4. QED  BY <1>1, <1>2, <1>3 DEF TypeOK

\* What simulations compute are integers, and natural for wallets.
LEMMA ValueTypes ==
    ASSUME TypeOK, NEW k \in Key, NEW failed
    PROVE  /\ Value(k, failed) \in Int
           /\ k \in Wallet => Value(k, failed) >= 0
<1>1. state[k] \in Int /\ (k \in Wallet => state[k] >= 0)
  BY DEF TypeOK
<1>2. QED  BY <1>1 DEF Value

LEMMA SupplyTypes ==
    ASSUME TypeOK, NEW d \in Int, NEW failed, NEW s \in NewSupply(d, failed)
    PROVE  s \in Int
<1> DEFINE sum == Value(Supply, failed) + d
           low == (sum \div Grain) * Grain
<1>1. Supply \in Key
  BY DEF Key
<1>2. sum \in Int
  BY <1>1, ValueTypes
<1>3. Grain \in Nat /\ Grain > 0
  BY FabricAssumption DEF FabricAssumption
<1>4. low \in Int
  <2> HIDE DEF sum
  <2> QED  BY <1>2, <1>3
<1>5. s \in {low, low + Grain}
  BY DEF NewSupply
<1> HIDE DEF low
<1> QED  BY <1>3, <1>4, <1>5

LEMMA TypeStep ==
    ASSUME TypeOK, [Next]_vars
    PROVE  TypeOK'
<1>1. /\ Supply \notin Wallet /\ Supply \in Key
      /\ \A w \in Wallet : w \in Key
      /\ \A a \in Amounts : a \in Int /\ -a \in Int /\ a > 0
  BY FabricAssumption DEF FabricAssumption, Key
<1>2. ASSUME NEW t \in Tx, NEW w \in Wallet, NEW a \in Amounts, Mint(t, w, a)
      PROVE  TypeOK'
  <2>1. PICK failed \in Failures({w, Supply}) : \E s \in NewSupply(a, failed) :
          Endorse(t, "Mint", {w, Supply} \ failed,
                  [k \in {w, Supply} |-> IF k = w THEN Value(w, failed) + a ELSE s])
    BY <1>2 DEF Mint
  <2>2a. PICK s \in NewSupply(a, failed) :
          Endorse(t, "Mint", {w, Supply} \ failed,
                  [k \in {w, Supply} |-> IF k = w THEN Value(w, failed) + a ELSE s])
    BY <2>1
  <2> DEFINE W == [k \in {w, Supply} |-> IF k = w THEN Value(w, failed) + a ELSE s]
  <2>2. /\ Value(w, failed) + a \in Int /\ Value(w, failed) + a >= 0
        /\ s \in Int
    BY <1>1, ValueTypes, SupplyTypes
  <2>3. /\ DOMAIN W \subseteq Key
        /\ \A k \in DOMAIN W : W[k] \in Int
        /\ \A k \in Wallet \cap DOMAIN W : W[k] >= 0
    BY <1>1, <2>2
  <2>4. {w, Supply} \ failed \in SUBSET Key
    BY <1>1
  <2>5. QED
    <3> HIDE DEF W
    <3>1. Endorse(t, "Mint", {w, Supply} \ failed, W)
      BY <2>2a DEF W
    <3>2. QED  BY <2>3, <2>4, <3>1, EndorseTypes
<1>3. ASSUME NEW t \in Tx, NEW w \in Wallet, NEW a \in Amounts, Melt(t, w, a)
      PROVE  TypeOK'
  <2>1. PICK failed \in Failures({Supply}) : \E s \in NewSupply(-a, failed) :
          Endorse(t, "Melt", {w, Supply} \ failed,
                  [k \in {w, Supply} |-> IF k = w THEN state[w] - a ELSE s])
    BY <1>3 DEF Melt
  <2>2a. PICK s \in NewSupply(-a, failed) :
          Endorse(t, "Melt", {w, Supply} \ failed,
                  [k \in {w, Supply} |-> IF k = w THEN state[w] - a ELSE s])
    BY <2>1
  <2> DEFINE W == [k \in {w, Supply} |-> IF k = w THEN state[w] - a ELSE s]
  <2>2. /\ state[w] - a \in Int /\ state[w] - a >= 0
        /\ s \in Int
    <3>1. state[w] \in Int /\ state[w] >= a
      BY <1>1, <1>3 DEF TypeOK, Melt
    <3>2. QED  BY <1>1, <3>1, SupplyTypes
  <2>3. /\ DOMAIN W \subseteq Key
        /\ \A k \in DOMAIN W : W[k] \in Int
        /\ \A k \in Wallet \cap DOMAIN W : W[k] >= 0
    BY <1>1, <2>2
  <2>4. {w, Supply} \ failed \in SUBSET Key
    BY <1>1
  <2>5. QED
    <3> HIDE DEF W
    <3>1. Endorse(t, "Melt", {w, Supply} \ failed, W)
      BY <2>2a DEF W
    <3>2. QED  BY <2>3, <2>4, <3>1, EndorseTypes
<1>4. ASSUME NEW t \in Tx, NEW w \in Wallet, NEW v \in Wallet, NEW a \in Amounts,
             Transfer(t, w, v, a)
      PROVE  TypeOK'
  <2>1. PICK failed \in Failures({v}) :
          Endorse(t, "Transfer", {w} \cup ({v} \ failed),
                  [k \in {w, v} |-> IF k = v THEN Value(v, failed) + a
                                    ELSE state[w] - a])
    BY <1>4 DEF Transfer
  <2> DEFINE W == [k \in {w, v} |-> IF k = v THEN Value(v, failed) + a
                                    ELSE state[w] - a]
  <2>2. /\ Value(v, failed) + a \in Int /\ Value(v, failed) + a >= 0
        /\ state[w] - a \in Int /\ state[w] - a >= 0
    <3>1. state[w] \in Int /\ state[w] >= a
      BY <1>1, <1>4 DEF TypeOK, Transfer
    <3>2. QED  BY <1>1, <3>1, ValueTypes
  <2>3. /\ DOMAIN W \subseteq Key
        /\ \A k \in DOMAIN W : W[k] \in Int
        /\ \A k \in Wallet \cap DOMAIN W : W[k] >= 0
    BY <1>1, <2>2
  <2>4. {w} \cup ({v} \ failed) \in SUBSET Key
    BY <1>1
  <2>5. QED
    <3> HIDE DEF W
    <3>1. Endorse(t, "Transfer", {w} \cup ({v} \ failed), W)
      BY <2>1 DEF W
    <3>2. QED  BY <2>3, <2>4, <3>1, EndorseTypes
<1>5. ASSUME NEW t \in Tx, Commit(t)
      PROVE  TypeOK'
  <2>1. /\ reads' = reads /\ writes' = writes /\ call' = call
        /\ phase' = [phase EXCEPT ![t] = "valid"]
        /\ version' = [k \in Key |-> IF k \in DOMAIN writes[t] THEN version[k] + 1
                                     ELSE version[k]]
        /\ state' = [k \in Key |-> IF k \in DOMAIN writes[t] THEN writes[t][k]
                                   ELSE state[k]]
    BY <1>5 DEF Commit
  <2>2. state' \in [Key -> Int] /\ \A w \in Wallet : state'[w] >= 0
    <3>1. state \in [Key -> Int] /\ \A w \in Wallet : state[w] >= 0
      BY DEF TypeOK
    <3>2. /\ \A k \in DOMAIN writes[t] : writes[t][k] \in Int
          /\ \A w \in Wallet \cap DOMAIN writes[t] : writes[t][w] >= 0
      BY DEF TypeOK
    <3>3. \A k \in Key : state'[k] \in Int
      BY <2>1, <3>1, <3>2
    <3>4. \A w \in Wallet : state'[w] >= 0
      BY <1>1, <2>1, <3>1, <3>2
    <3>5. QED  BY <2>1, <3>3, <3>4
  <2>3. version' \in [Key -> Nat]
    <3>1. version \in [Key -> Nat]
      BY DEF TypeOK
    <3>2. \A k \in Key : version'[k] \in Nat
      BY <2>1, <3>1
    <3>3. QED  BY <2>1, <3>2
  <2>4. phase' \in [Tx -> {"new", "endorsed", "valid", "invalid"}]
    BY <2>1 DEF TypeOK
  <2>5. QED  BY <2>1, <2>2, <2>3, <2>4 DEF TypeOK
<1>6. ASSUME NEW t \in Tx, Invalidate(t)
      PROVE  TypeOK'
  BY <1>6 DEF Invalidate, TypeOK
<1>7. CASE Next
  <2>1. \A p \in Transfers : p[1] \in Wallet /\ p[2] \in Wallet
    BY FabricAssumption DEF FabricAssumption
  <2>2. QED  BY <1>2, <1>3, <1>4, <1>5, <1>6, <1>7, <2>1 DEF Next
<1>8. CASE UNCHANGED vars
  BY <1>8 DEF vars, TypeOK
<1>9. QED  BY <1>7, <1>8

LEMMA TypeInit ==
    ASSUME Init
    PROVE  TypeOK
<1>1. state \in [Key -> Int] /\ \A w \in Wallet : state[w] >= 0
  <2>1. state = [k \in Key |-> 0]
    BY DEF Init
  <2>2. \A w \in Wallet : w \in Key
    BY DEF Key
  <2>3. QED  BY <2>1, <2>2
<1>2. \A t \in Tx : DOMAIN reads[t] = {} /\ DOMAIN writes[t] = {}
  BY DEF Init, Nothing
<1>3. /\ version \in [Key -> Nat]
      /\ call \in [Tx -> {"", "Mint", "Melt", "Transfer"}]
      /\ phase \in [Tx -> {"new", "endorsed", "valid", "invalid"}]
      /\ DOMAIN reads = Tx /\ DOMAIN writes = Tx
  BY DEF Init
<1>4. QED  BY <1>1, <1>2, <1>3 DEF TypeOK

\* No balance is ever negative, nor written so by an endorsed transaction.
THEOREM Typing == Spec => []TypeOK
<1>1. Init => TypeOK
  BY TypeInit
<1>2. TypeOK /\ [Next]_vars => TypeOK'
  BY TypeStep
<1>3. QED  BY <1>1, <1>2, PTL DEF Spec

-----------------------------------------------------------------------------
(* Endorsed transactions. *)

\* What is an operation now is one as long as what it is about stays.
LEMMA OperationStays ==
    ASSUME NEW u \in Tx, WritesOperation(u), writes'[u] = writes[u],
           \A k \in DOMAIN writes[u] : state'[k] = state[k]
    PROVE  WritesOperation(u)'
<1>1. PICK a \in Amounts, w \in Wallet :
        \/ \E s \in NewSupply(a, {}) : Puts(u, w, state[w] + a, Supply, s)
        \/ /\ state[w] >= a
           /\ \E s \in NewSupply(-a, {}) : Puts(u, w, state[w] - a, Supply, s)
        \/ /\ state[w] >= a
           /\ \E v \in Wallet \ {w} : Puts(u, w, state[w] - a, v, state[v] + a)
  BY DEF WritesOperation
<1>2. w \in DOMAIN writes[u] /\ state'[w] = state[w]
  BY <1>1 DEF Puts
<1>3. state'[Supply] = state[Supply] => \A d : NewSupply(d, {})' = NewSupply(d, {})
  BY DEF NewSupply, Value
<1>4. CASE \E s \in NewSupply(a, {}) : Puts(u, w, state[w] + a, Supply, s)
  <2>1. PICK s \in NewSupply(a, {}) : Puts(u, w, state[w] + a, Supply, s)
    BY <1>4
  <2>2. s \in NewSupply(a, {})'
    BY <1>3, <2>1 DEF Puts
  <2>3. QED  BY <1>2, <2>1, <2>2 DEF WritesOperation, Puts
<1>5. CASE /\ state[w] >= a
           /\ \E s \in NewSupply(-a, {}) : Puts(u, w, state[w] - a, Supply, s)
  <2>1. PICK s \in NewSupply(-a, {}) : Puts(u, w, state[w] - a, Supply, s)
    BY <1>5
  <2>2. s \in NewSupply(-a, {})'
    BY <1>3, <2>1 DEF Puts
  <2>3. QED  BY <1>2, <1>5, <2>1, <2>2 DEF WritesOperation, Puts
<1>6. CASE /\ state[w] >= a
           /\ \E v \in Wallet \ {w} : Puts(u, w, state[w] - a, v, state[v] + a)
  <2>1. PICK v \in Wallet \ {w} : Puts(u, w, state[w] - a, v, state[v] + a)
    BY <1>6
  <2>2. state'[v] = state[v]
    BY <2>1 DEF Puts
  <2>3. QED  BY <1>2, <1>6, <2>1, <2>2 DEF WritesOperation, Puts
<1>7. QED  BY <1>1, <1>4, <1>5, <1>6

\* An endorsement keeps the invariant if it writes what an operation would.
LEMMA EndorseKeeps ==
    ASSUME TypeOK, EndorsedOK, NEW t \in Tx, NEW f,
           NEW R \in SUBSET Key, NEW W, DOMAIN W = R,
           Endorse(t, f, R, W),
           (writes'[t] = W) => WritesOperation(t)'
    PROVE  EndorsedOK'
<1>1. /\ state' = state /\ version' = version
      /\ reads' = [reads EXCEPT ![t] = [k \in R |-> version[k]]]
      /\ writes' = [writes EXCEPT ![t] = W]
      /\ phase' = [phase EXCEPT ![t] = "endorsed"]
  BY DEF Endorse
<1>2. /\ reads'[t] = [k \in R |-> version[k]] /\ writes'[t] = W
      /\ \A u \in Tx \ {t} : /\ reads'[u] = reads[u]
                             /\ writes'[u] = writes[u]
                             /\ phase'[u] = phase[u]
  BY <1>1 DEF TypeOK
<1> SUFFICES ASSUME NEW u \in Tx, phase'[u] = "endorsed"
             PROVE  /\ DOMAIN reads'[u] = DOMAIN writes'[u]
                    /\ \A k \in DOMAIN reads'[u] : reads'[u][k] <= version'[k]
                    /\ UpToDate(u)' => WritesOperation(u)'
  BY DEF EndorsedOK
<1>3. CASE u = t
  <2>1. DOMAIN reads'[t] = DOMAIN writes'[t]
    BY <1>2
  <2>2. \A k \in DOMAIN reads'[t] : reads'[t][k] <= version'[k]
    <3>1. \A k \in R : version[k] \in Nat
      BY DEF TypeOK
    <3>2. QED  BY <1>1, <1>2, <3>1
  <2>3. WritesOperation(t)'
    BY <1>2
  <2>4. QED  BY <1>3, <2>1, <2>2, <2>3
<1>4. CASE u # t
  <2>1. /\ DOMAIN reads[u] = DOMAIN writes[u]
        /\ \A k \in DOMAIN reads[u] : reads[u][k] <= version[k]
        /\ UpToDate(u) => WritesOperation(u)
    BY <1>2, <1>4 DEF EndorsedOK
  <2>2. reads'[u] = reads[u] /\ writes'[u] = writes[u]
    BY <1>2, <1>4
  <2>3. UpToDate(u)' => UpToDate(u)
    BY <1>1, <2>2 DEF UpToDate
  <2>4. WritesOperation(u) => WritesOperation(u)'
    BY <1>1, <2>2, OperationStays
  <2>5. QED  BY <1>1, <2>1, <2>2, <2>3, <2>4
<1>5. QED  BY <1>3, <1>4

\* A simulation writes what an operation would, in the state it is made in.
LEMMA MintKeeps ==
    ASSUME Sound, TypeOK, EndorsedOK, NEW t \in Tx, NEW w \in Wallet, NEW a \in Amounts,
           Mint(t, w, a)
    PROVE  EndorsedOK'
<1>1. Supply # w
  BY DEF Sound, FabricAssumption
<1>2. PICK s \in NewSupply(a, {}) :
        Endorse(t, "Mint", {w, Supply},
                [k \in {w, Supply} |-> IF k = w THEN state[w] + a ELSE s])
  <2>1. Failures({w, Supply}) = {{}}
    BY DEF Sound, Failures
  <2>2. PICK s \in NewSupply(a, {}) :
          Endorse(t, "Mint", {w, Supply} \ {},
                  [k \in {w, Supply} |-> IF k = w THEN Value(w, {}) + a ELSE s])
    BY <2>1 DEF Mint
  <2>3. Value(w, {}) = state[w] /\ {w, Supply} \ {} = {w, Supply}
    BY DEF Value
  <2>4. QED  BY <2>2, <2>3
<1> DEFINE W == [k \in {w, Supply} |-> IF k = w THEN state[w] + a ELSE s]
<1>3. state' = state
  BY <1>2 DEF Endorse
<1>4. s \in NewSupply(a, {})'
  BY <1>2, <1>3 DEF NewSupply, Value
<1>5. (writes'[t] = W) => WritesOperation(t)'
  BY <1>1, <1>3, <1>4 DEF WritesOperation, Puts
<1>6. {w, Supply} \in SUBSET Key /\ DOMAIN W = {w, Supply}
  BY DEF Key
<1>7. QED  BY <1>2, <1>5, <1>6, EndorseKeeps

LEMMA MeltKeeps ==
    ASSUME Sound, TypeOK, EndorsedOK, NEW t \in Tx, NEW w \in Wallet, NEW a \in Amounts,
           Melt(t, w, a)
    PROVE  EndorsedOK'
<1>1. Supply # w
  BY DEF Sound, FabricAssumption
<1>2. state[w] >= a /\ \E s \in NewSupply(-a, {}) :
        Endorse(t, "Melt", {w, Supply},
                [k \in {w, Supply} |-> IF k = w THEN state[w] - a ELSE s])
  <2>1. Failures({Supply}) = {{}} /\ {w, Supply} \ {} = {w, Supply}
    BY DEF Sound, Failures
  <2>2. QED  BY <2>1, ZenonT(30) DEF Melt
<1>3. PICK s \in NewSupply(-a, {}) :
        Endorse(t, "Melt", {w, Supply},
                [k \in {w, Supply} |-> IF k = w THEN state[w] - a ELSE s])
  BY <1>2
<1> DEFINE W == [k \in {w, Supply} |-> IF k = w THEN state[w] - a ELSE s]
<1>4. state' = state
  BY <1>3 DEF Endorse
<1>5. s \in NewSupply(-a, {})'
  BY <1>3, <1>4 DEF NewSupply, Value
<1>6. (writes'[t] = W) => WritesOperation(t)'
  BY <1>1, <1>2, <1>4, <1>5 DEF WritesOperation, Puts
<1>7. {w, Supply} \in SUBSET Key /\ DOMAIN W = {w, Supply}
  BY DEF Key
<1>8. QED  BY <1>3, <1>6, <1>7, EndorseKeeps

LEMMA TransferKeeps ==
    ASSUME Sound, TypeOK, EndorsedOK, NEW t \in Tx, NEW p \in Transfers, NEW a \in Amounts,
           Transfer(t, p[1], p[2], a)
    PROVE  EndorsedOK'
<1> DEFINE w == p[1]
           v == p[2]
           W == [k \in {w, v} |-> IF k = v THEN state[v] + a ELSE state[w] - a]
<1>1. w \in Wallet /\ v \in Wallet /\ w # v
  BY DEF Sound, FabricAssumption
<1>2. Endorse(t, "Transfer", {w, v}, W) /\ state[w] >= a
  <2>1. Failures({v}) = {{}}
    BY DEF Sound, Failures
  <2>2. QED  BY <2>1 DEF Transfer, Value
<1>3. state' = state
  BY <1>2 DEF Endorse
<1>4. (writes'[t] = W) => WritesOperation(t)'
  BY <1>1, <1>2, <1>3 DEF WritesOperation, Puts
<1>5. {w, v} \in SUBSET Key /\ DOMAIN W = {w, v}
  BY <1>1 DEF Key
<1>6. QED  BY <1>2, <1>4, <1>5, EndorseKeeps

\* A commit outdates whatever has read a key it writes.
LEMMA CommitKeeps ==
    ASSUME TypeOK, EndorsedOK, NEW t \in Tx, Commit(t)
    PROVE  EndorsedOK'
<1>1. /\ reads' = reads /\ writes' = writes
      /\ phase' = [phase EXCEPT ![t] = "valid"]
      /\ version' = [k \in Key |-> IF k \in DOMAIN writes[t] THEN version[k] + 1
                                   ELSE version[k]]
      /\ state' = [k \in Key |-> IF k \in DOMAIN writes[t] THEN writes[t][k] ELSE state[k]]
  BY DEF Commit
<1> SUFFICES ASSUME NEW u \in Tx, phase'[u] = "endorsed"
             PROVE  /\ DOMAIN reads[u] = DOMAIN writes[u]
                    /\ \A k \in DOMAIN reads[u] : reads[u][k] <= version'[k]
                    /\ UpToDate(u)' => WritesOperation(u)'
  BY <1>1 DEF EndorsedOK
<1>2. phase[u] = "endorsed"
  BY <1>1 DEF TypeOK
<1>3. /\ DOMAIN reads[u] = DOMAIN writes[u] /\ DOMAIN reads[u] \subseteq Key
      /\ \A k \in DOMAIN reads[u] : reads[u][k] <= version[k] /\ reads[u][k] \in Nat
      /\ UpToDate(u) => WritesOperation(u)
  BY <1>2 DEF TypeOK, EndorsedOK
<1>4. \A k \in Key : /\ version[k] \in Nat
                     /\ version'[k] = version[k] \/ version'[k] = version[k] + 1
  BY <1>1 DEF TypeOK
<1>5. \A k \in DOMAIN reads[u] : reads[u][k] <= version'[k]
  BY <1>3, <1>4
<1>6. ASSUME UpToDate(u)' PROVE WritesOperation(u)'
  <2>1. \A k \in DOMAIN reads[u] : reads[u][k] = version'[k]
    BY <1>1, <1>6 DEF UpToDate
  <2>2. \A k \in DOMAIN reads[u] : k \notin DOMAIN writes[t]
    <3> SUFFICES ASSUME NEW k \in DOMAIN reads[u], k \in DOMAIN writes[t] PROVE FALSE
      OBVIOUS
    <3>1. version'[k] = version[k] + 1 /\ version[k] \in Nat
      BY <1>1, <1>3, <1>4
    <3>2. reads[u][k] = version[k] + 1 /\ reads[u][k] <= version[k]
      BY <1>3, <2>1, <3>1
    <3>3. QED  BY <3>1, <3>2
  <2>3. \A k \in DOMAIN reads[u] : state'[k] = state[k] /\ version'[k] = version[k]
    BY <1>1, <1>3, <2>2
  <2>4. UpToDate(u)
    BY <2>1, <2>3 DEF UpToDate
  <2>5. QED  BY <1>1, <1>3, <2>3, <2>4, OperationStays
<1>7. QED  BY <1>3, <1>5, <1>6

LEMMA InvalidateKeeps ==
    ASSUME TypeOK, EndorsedOK, NEW t \in Tx, Invalidate(t)
    PROVE  EndorsedOK'
<1>1. /\ state' = state /\ version' = version /\ reads' = reads /\ writes' = writes
      /\ phase' = [phase EXCEPT ![t] = "invalid"]
  BY DEF Invalidate
<1> SUFFICES ASSUME NEW u \in Tx, phase'[u] = "endorsed"
             PROVE  /\ DOMAIN reads[u] = DOMAIN writes[u]
                    /\ \A k \in DOMAIN reads[u] : reads[u][k] <= version[k]
                    /\ UpToDate(u)' => WritesOperation(u)'
  BY <1>1 DEF EndorsedOK
<1>2. phase[u] = "endorsed"
  BY <1>1 DEF TypeOK
<1>3. UpToDate(u)' => UpToDate(u)
  BY <1>1 DEF UpToDate
<1>4. WritesOperation(u) => WritesOperation(u)'
  BY <1>1, OperationStays
<1>5. QED  BY <1>2, <1>3, <1>4 DEF EndorsedOK

\* Every step keeps the invariant.
LEMMA EndorsedStep ==
    ASSUME Sound, TypeOK, EndorsedOK, [Next]_vars
    PROVE  EndorsedOK'
<1>1. CASE Next
  BY <1>1, MintKeeps, MeltKeeps, TransferKeeps, CommitKeeps, InvalidateKeeps DEF Next
<1>2. CASE UNCHANGED vars
  <2>1. /\ state' = state /\ version' = version /\ reads' = reads
        /\ writes' = writes /\ phase' = phase
    BY <1>2 DEF vars
  <2>2. \A u \in Tx : WritesOperation(u) => WritesOperation(u)'
    BY <2>1, OperationStays
  <2>3. \A u \in Tx : UpToDate(u)' => UpToDate(u)
    BY <2>1 DEF UpToDate
  <2>4. QED  BY <2>1, <2>2, <2>3 DEF EndorsedOK
<1>3. QED  BY <1>1, <1>2

LEMMA EndorsedInit ==
    ASSUME Init
    PROVE  EndorsedOK
  BY DEF Init, EndorsedOK

\* What is endorsed writes, as long as what it has read is current, what an
\* operation of the ledger would, up to the rounding of the supply.
THEOREM Endorsed == Sound => (Spec => []EndorsedOK)
<1> SUFFICES ASSUME Sound PROVE Spec => []EndorsedOK
  OBVIOUS
<1>1. Init => TypeOK /\ EndorsedOK
  BY TypeInit, EndorsedInit
<1>2. TypeOK /\ EndorsedOK /\ [Next]_vars => TypeOK' /\ EndorsedOK'
  BY TypeStep, EndorsedStep
<1>3. QED  BY <1>1, <1>2, PTL DEF Spec

-----------------------------------------------------------------------------
(* Committed transactions. *)

\* A commit does what the transaction has simulated, on the values it has now.
LEMMA CommitEffect ==
    ASSUME Sound, TypeOK, EndorsedOK, NEW t \in Tx, Commit(t)
    PROVE  \E a \in Amounts, w \in Wallet :
              \/ /\ \E s \in NewSupply(a, {}) :
                       state' = [k \in Key |-> IF k = w THEN state[w] + a
                                               ELSE IF k = Supply THEN s ELSE state[k]]
                 /\ version'[Supply] = version[Supply] + 1
              \/ /\ state[w] >= a
                 /\ \E s \in NewSupply(-a, {}) :
                       state' = [k \in Key |-> IF k = w THEN state[w] - a
                                               ELSE IF k = Supply THEN s ELSE state[k]]
                 /\ version'[Supply] = version[Supply] + 1
              \/ /\ state[w] >= a
                 /\ \E v \in Wallet \ {w} :
                       state' = [k \in Key |-> IF k = v THEN state[v] + a
                                               ELSE IF k = w THEN state[w] - a ELSE state[k]]
                 /\ version'[Supply] = version[Supply]
<1>1. /\ state' = [k \in Key |-> IF k \in DOMAIN writes[t] THEN writes[t][k] ELSE state[k]]
      /\ version' = [k \in Key |-> IF k \in DOMAIN writes[t] THEN version[k] + 1
                                   ELSE version[k]]
      /\ WritesOperation(t)
  BY DEF Commit, EndorsedOK
<1>2. PICK a \in Amounts, w \in Wallet :
        \/ \E s \in NewSupply(a, {}) : Puts(t, w, state[w] + a, Supply, s)
        \/ /\ state[w] >= a
           /\ \E s \in NewSupply(-a, {}) : Puts(t, w, state[w] - a, Supply, s)
        \/ /\ state[w] >= a
           /\ \E v \in Wallet \ {w} : Puts(t, w, state[w] - a, v, state[v] + a)
  BY <1>1 DEF WritesOperation
<1>3. Supply \notin Wallet /\ Supply \in Key
  BY DEF Sound, FabricAssumption, Key
<1>4. ASSUME NEW s, NEW x, Puts(t, w, x, Supply, s)
      PROVE  /\ state' = [k \in Key |-> IF k = w THEN x ELSE IF k = Supply THEN s ELSE state[k]]
             /\ version'[Supply] = version[Supply] + 1
  BY <1>1, <1>3, <1>4 DEF Puts
<1>5. ASSUME NEW v \in Wallet \ {w}, NEW x, NEW y, Puts(t, w, x, v, y)
      PROVE  /\ state' = [k \in Key |-> IF k = v THEN y ELSE IF k = w THEN x ELSE state[k]]
             /\ version'[Supply] = version[Supply]
  BY <1>1, <1>3, <1>5 DEF Puts
<1>6. CASE \E s \in NewSupply(a, {}) : Puts(t, w, state[w] + a, Supply, s)
  BY <1>4, <1>6
<1>7. CASE /\ state[w] >= a
           /\ \E s \in NewSupply(-a, {}) : Puts(t, w, state[w] - a, Supply, s)
  BY <1>4, <1>7
<1>8. CASE /\ state[w] >= a
           /\ \E v \in Wallet \ {w} : Puts(t, w, state[w] - a, v, state[v] + a)
  BY <1>5, <1>8
<1>9. QED  BY <1>2, <1>6, <1>7, <1>8

\* What is committed changes by commits only.
LEMMA OnlyCommits ==
    ASSUME [Next]_vars, \A t \in Tx : ~Commit(t)
    PROVE  state' = state /\ version' = version
<1>1. ASSUME NEW t, NEW f, NEW R, NEW W, Endorse(t, f, R, W)
      PROVE  state' = state /\ version' = version
  BY <1>1 DEF Endorse
<1>2. ASSUME NEW t, NEW w, NEW v, NEW a,
             Mint(t, w, a) \/ Melt(t, w, a) \/ Transfer(t, w, v, a)
      PROVE  state' = state /\ version' = version
  BY <1>1, <1>2 DEF Mint, Melt, Transfer
<1>3. ASSUME NEW t, Invalidate(t) PROVE state' = state /\ version' = version
  BY <1>3 DEF Invalidate
<1>4. CASE Next
  BY <1>2, <1>3, <1>4 DEF Next
<1>5. CASE UNCHANGED vars
  BY <1>5 DEF vars
<1>6. QED  BY <1>4, <1>5

\* The values that the steps compute with.
LEMMA Values ==
    ASSUME Sound, TypeOK
    PROVE  /\ \A a \in Amounts : a \in Int /\ -a \in Int /\ a > 0
           /\ Supply \notin Wallet /\ Supply \in Key
           /\ \A w \in Wallet : state[w] \in Int /\ state[w] >= 0 /\ w \in Key
           /\ state[Supply] \in Int /\ version[Supply] \in Nat
           /\ \A k \in Key : k \in Wallet \/ k = Supply
<1>1. /\ Amounts \subseteq Nat \ {0}
      /\ Supply \notin Wallet /\ Supply \in Key
      /\ \A w \in Wallet : w \in Key
      /\ \A k \in Key : k \in Wallet \/ k = Supply
  BY DEF Sound, FabricAssumption, Key
<1>2. /\ \A w \in Wallet : state[w] \in Int /\ state[w] >= 0
      /\ state[Supply] \in Int /\ version[Supply] \in Nat
  BY <1>1 DEF TypeOK
<1>3. \A a \in Amounts : a \in Int /\ -a \in Int /\ a > 0
  BY <1>1
<1>4. QED  BY <1>1, <1>2, <1>3

\* The record holds a number of its units.
WholeUnits == \E k \in Int : state[Supply] = k * Grain

LEMMA CommitIsWhole ==
    ASSUME Sound, TypeOK, EndorsedOK, WholeUnits, NEW t \in Tx, Commit(t)
    PROVE  WholeUnits'
<1>1. \A a \in Amounts : a \in Int /\ -a \in Int
  BY Values
<1>2. \A d \in Int : \A s \in NewSupply(d, {}) : \E k \in Int : s = k * Grain
  BY Values, Rounding DEF Sound
<1>3. \/ \E a \in Amounts : state'[Supply] \in NewSupply(a, {}) \cup NewSupply(-a, {})
      \/ state'[Supply] = state[Supply]
  BY Values, CommitEffect
<1>4. QED  BY <1>1, <1>2, <1>3 DEF WholeUnits

\* Then amounts of no more decimals are added and taken off exactly.
LEMMA ExactSupply ==
    ASSUME WellFormed, TypeOK, WholeUnits
    PROVE  \A a \in Amounts : \A d \in {a, -a} : \A s \in NewSupply(d, {}) :
              s = state[Supply] + d
<1> SUFFICES ASSUME NEW a \in Amounts, NEW d \in {a, -a}, NEW s \in NewSupply(d, {})
             PROVE  s = state[Supply] + d
  OBVIOUS
<1>1. Sound /\ FabricAssumption /\ a \in Int
  BY Values DEF WellFormed, Sound
<1>2. PICK k \in Int : state[Supply] = k * Grain
  BY DEF WholeUnits
<1>3. Grain \in Int /\ Grain > 0 /\ a % Grain = 0
  BY <1>1 DEF FabricAssumption, WellFormed
<1>4. PICK i \in Int : a = i * Grain
  <2>1. a = (a \div Grain) * Grain /\ a \div Grain \in Int
    BY <1>1, <1>3
  <2>2. QED  BY <2>1
<1>5. -i \in Int /\ -a = (-i) * Grain
  BY <1>3, <1>4
<1>6. PICK j \in Int : d = j * Grain
  BY <1>4, <1>5
<1>7. QED  BY <1>1, <1>2, <1>6, NoRounding

\* Whatever the amounts, the record follows them as closely as Slack says.
LEMMA SlackBounds ==
    ASSUME Sound, TypeOK, WholeUnits
    PROVE  /\ Slack \in Nat
           /\ \A a \in Amounts : \A d \in {a, -a} : \A s \in NewSupply(d, {}) :
                 /\ s \in Int
                 /\ s <= state[Supply] + d + Slack /\ state[Supply] + d - Slack <= s
<1>1. /\ FabricAssumption /\ state[Supply] \in Int
      /\ \A a \in Amounts : a \in Int /\ -a \in Int
  BY Values DEF Sound
<1>2. Grain \in Nat
  BY <1>1 DEF FabricAssumption
<1>3. CASE \A a \in Amounts : a % Grain = 0
  <2>1. WellFormed /\ Slack = 0
    BY <1>3 DEF WellFormed, Slack
  <2>2. \A a \in Amounts : \A d \in {a, -a} : \A s \in NewSupply(d, {}) :
           s = state[Supply] + d
    BY <2>1, ExactSupply
  <2>3. QED  BY <1>1, <2>1, <2>2
<1>4. CASE ~(\A a \in Amounts : a % Grain = 0)
  <2>1. Slack = Grain \div 2
    BY <1>4 DEF Slack
  <2> SUFFICES ASSUME NEW a \in Amounts, NEW d \in {a, -a}, NEW s \in NewSupply(d, {})
               PROVE  /\ s \in Int /\ s <= state[Supply] + d + Slack
                      /\ state[Supply] + d - Slack <= s
    BY <1>2, <2>1
  <2>2. /\ d \in Int /\ s \in Int
        /\ 2 * (s - (state[Supply] + d)) <= Grain
        /\ 2 * (state[Supply] + d - s) <= Grain
    BY <1>1, Rounding
  <2>3. QED  BY <1>1, <1>2, <2>1, <2>2
<1>5. QED  BY <1>3, <1>4

\* A commit is one operation of the ledger.
LEMMA CommitIsOperation ==
    ASSUME Sound, TypeOK, EndorsedOK, WholeUnits, NEW t \in Tx, Commit(t)
    PROVE  Committed!Next
<1>2. PICK a \in Amounts, w \in Wallet :
        \/ \E s \in NewSupply(a, {}) :
              state' = [k \in Key |-> IF k = w THEN state[w] + a
                                      ELSE IF k = Supply THEN s ELSE state[k]]
        \/ /\ state[w] >= a
           /\ \E s \in NewSupply(-a, {}) :
                 state' = [k \in Key |-> IF k = w THEN state[w] - a
                                         ELSE IF k = Supply THEN s ELSE state[k]]
        \/ /\ state[w] >= a
           /\ \E v \in Wallet \ {w} :
                 state' = [k \in Key |-> IF k = v THEN state[v] + a
                                         ELSE IF k = w THEN state[w] - a ELSE state[k]]
  BY CommitEffect
<1>3. /\ a \in Int /\ Supply \notin Wallet
      /\ \A x \in Wallet : state[x] \in Int /\ state[x] >= 0 /\ x \in Key
      /\ state[Supply] \in Int /\ Supply \in Key
      /\ \A k \in Key : k \in Wallet \/ k = Supply
  BY Values
<1>4. /\ \A s \in NewSupply(a, {}) : s \in Committed!Near(state[Supply] + a)
      /\ \A s \in NewSupply(-a, {}) : s \in Committed!Near(state[Supply] - a)
  <2>1. Slack \in Nat /\ -a \in Int /\ state[Supply] + (-a) = state[Supply] - a
    BY <1>3, SlackBounds
  <2>2. \A d \in {a, -a} : \A s \in NewSupply(d, {}) :
           s \in Int /\ s <= state[Supply] + d + Slack /\ state[Supply] + d - Slack <= s
    BY SlackBounds
  <2>3. ASSUME NEW d \in {a, -a}, NEW s \in NewSupply(d, {})
        PROVE  s \in Committed!Near(state[Supply] + d)
    BY <1>3, <2>1, <2>2 DEF Committed!Near
  <2>4. \A s \in NewSupply(a, {}) : s \in Committed!Near(state[Supply] + a)
    BY <2>3
  <2>5. \A s \in NewSupply(-a, {}) : s \in Committed!Near(state[Supply] + (-a))
    BY <2>3
  <2>6. QED  BY <2>1, <2>4, <2>5
<1>5. CASE \E s \in NewSupply(a, {}) :
             state' = [k \in Key |-> IF k = w THEN state[w] + a
                                     ELSE IF k = Supply THEN s ELSE state[k]]
  <2>1. PICK s \in NewSupply(a, {}) :
          state' = [k \in Key |-> IF k = w THEN state[w] + a
                                  ELSE IF k = Supply THEN s ELSE state[k]]
    BY <1>5
  <2>2. Committed!Mint(w, a)
    BY <1>3, <1>4, <2>1 DEF Committed!Mint
  <2>3. QED  BY <2>2 DEF Committed!Next
<1>6. CASE /\ state[w] >= a
           /\ \E s \in NewSupply(-a, {}) :
                 state' = [k \in Key |-> IF k = w THEN state[w] - a
                                         ELSE IF k = Supply THEN s ELSE state[k]]
  <2>1. PICK s \in NewSupply(-a, {}) :
          state' = [k \in Key |-> IF k = w THEN state[w] - a
                                  ELSE IF k = Supply THEN s ELSE state[k]]
    BY <1>6
  <2>2. Committed!Melt(w, a)
    BY <1>3, <1>4, <1>6, <2>1 DEF Committed!Melt
  <2>3. QED  BY <2>2 DEF Committed!Next
<1>7. CASE /\ state[w] >= a
           /\ \E v \in Wallet \ {w} :
                 state' = [k \in Key |-> IF k = v THEN state[v] + a
                                         ELSE IF k = w THEN state[w] - a ELSE state[k]]
  <2>1. PICK v \in Wallet \ {w} :
          state' = [k \in Key |-> IF k = v THEN state[v] + a
                                  ELSE IF k = w THEN state[w] - a ELSE state[k]]
    BY <1>7
  <2>2. Committed!Transfer(w, v, a)
    BY <1>3, <1>7, <2>1 DEF Committed!Transfer
  <2>3. QED  BY <2>2 DEF Committed!Next
<1>8. QED  BY <1>2, <1>5, <1>6, <1>7

(* The invariants of the committed state, together. *)
CommittedOK == TypeOK /\ EndorsedOK /\ WholeUnits

LEMMA CommittedInit == ASSUME Init PROVE CommittedOK
<1>1. state[Supply] = 0 * Grain
  <2>1. state[Supply] = 0
    BY DEF Init, Key
  <2>2. Grain \in Nat
    BY FabricAssumption DEF FabricAssumption
  <2>3. QED  BY <2>1, <2>2
<1>2. QED  BY <1>1, TypeInit, EndorsedInit DEF CommittedOK, WholeUnits

LEMMA CommittedStep == ASSUME Sound, CommittedOK, [Next]_vars PROVE CommittedOK'
<1>1. WholeUnits'
  <2>1. CASE \E t \in Tx : Commit(t)
    BY <2>1, CommitIsWhole DEF CommittedOK
  <2>2. CASE \A t \in Tx : ~Commit(t)
    BY <2>2, OnlyCommits DEF CommittedOK, WholeUnits
  <2>3. QED  BY <2>1, <2>2
<1>2. QED  BY <1>1, TypeStep, EndorsedStep DEF CommittedOK

\* Committed transactions are a serial run of the ledger, whose supply follows as
\* closely as Slack says (main.go, 36-187, 269).
THEOREM Implementation == Sound => (Spec => ImplementsLedger)
<1> SUFFICES ASSUME Sound PROVE Spec => Committed!Spec
  BY DEF ImplementsLedger
<1>1. Init => CommittedOK /\ Committed!Init
  <2> SUFFICES ASSUME Init PROVE CommittedOK /\ Committed!Init
    OBVIOUS
  <2>1. Committed!Init
    BY DEF Init, Committed!Init, Key
  <2>2. QED  BY <2>1, CommittedInit
<1>2. CommittedOK /\ [Next]_vars => CommittedOK'
  BY CommittedStep
<1>3. CommittedOK /\ [Next]_vars
        => [Committed!Next]_<<[w \in Wallet |-> state[w]], state[Supply]>>
  <2> SUFFICES ASSUME CommittedOK, [Next]_vars
               PROVE  Committed!Next \/ state' = state
    OBVIOUS
  <2>1. ASSUME NEW t \in Tx, Commit(t) PROVE Committed!Next
    BY <2>1, CommitIsOperation DEF CommittedOK
  <2>2. QED  BY <2>1, OnlyCommits
<1>4. QED  BY <1>1, <1>2, <1>3, PTL DEF Spec, Committed!Spec

-----------------------------------------------------------------------------
(* The sum of the balances, of finitely many wallets. *)

Sum == Total(state, Wallet)

\* A commit changes the sum by an amount, and the supply by the same amount
\* rounded, or neither.
LEMMA CommitSum ==
    ASSUME Sound, IsFiniteSet(Wallet), TypeOK, EndorsedOK, NEW t \in Tx, Commit(t)
    PROVE  \/ /\ \E a \in Amounts : \E d \in {a, -a} :
                   Sum' = Sum + d /\ state'[Supply] \in NewSupply(d, {})
              /\ version'[Supply] = version[Supply] + 1
           \/ /\ Sum' = Sum /\ state'[Supply] = state[Supply]
              /\ version'[Supply] = version[Supply]
<1>1. PICK a \in Amounts, w \in Wallet :
        \/ /\ \E s \in NewSupply(a, {}) :
                 state' = [k \in Key |-> IF k = w THEN state[w] + a
                                         ELSE IF k = Supply THEN s ELSE state[k]]
           /\ version'[Supply] = version[Supply] + 1
        \/ /\ \E s \in NewSupply(-a, {}) :
                 state' = [k \in Key |-> IF k = w THEN state[w] - a
                                         ELSE IF k = Supply THEN s ELSE state[k]]
           /\ version'[Supply] = version[Supply] + 1
        \/ /\ \E v \in Wallet \ {w} :
                 state' = [k \in Key |-> IF k = v THEN state[v] + a
                                         ELSE IF k = w THEN state[w] - a ELSE state[k]]
           /\ version'[Supply] = version[Supply]
  BY CommitEffect
<1>2. /\ a \in Int /\ -a \in Int /\ Supply \notin Wallet /\ Supply \in Key
      /\ \A x \in Wallet : state[x] \in Int /\ x \in Key
  BY Values
<1>3. ASSUME NEW x \in Int, NEW s,
             state' = [k \in Key |-> IF k = w THEN x ELSE IF k = Supply THEN s ELSE state[k]]
      PROVE  Sum' = Sum + (x - state[w]) /\ state'[Supply] = s
  <2>1. \A y \in Wallet : state'[y] = IF y = w THEN x ELSE state[y]
    BY <1>2, <1>3
  <2>2. Total(state', Wallet) = Total(state, Wallet) + (state'[w] - state[w])
    BY <1>2, <2>1, TotalChange
  <2>3. QED  BY <1>2, <1>3, <2>1, <2>2 DEF Sum
<1>4. ASSUME NEW v \in Wallet \ {w},
             state' = [k \in Key |-> IF k = v THEN state[v] + a
                                     ELSE IF k = w THEN state[w] - a ELSE state[k]]
      PROVE  Sum' = Sum /\ state'[Supply] = state[Supply]
  <2> DEFINE taken == [k \in Key |-> IF k = w THEN state[w] - a ELSE state[k]]
  <2>1. \A y \in Wallet : taken[y] = IF y = w THEN state[w] - a ELSE state[y]
    BY <1>2
  <2>2. \A y \in Wallet : state'[y] = IF y = v THEN state[v] + a ELSE taken[y]
    BY <1>2, <1>4, <2>1
  <2> HIDE DEF taken
  <2>3. Total(taken, Wallet) = Total(state, Wallet) + (taken[w] - state[w])
    BY <1>2, <2>1, TotalChange
  <2>4. Total(state', Wallet) = Total(taken, Wallet) + (state'[v] - taken[v])
    <3>1. \A y \in Wallet : taken[y] \in Int /\ state'[y] \in Int
      BY <1>2, <2>1, <2>2
    <3>2. QED  BY <2>2, <3>1, TotalChange
  <2>5. Total(state, Wallet) \in Int
    BY <1>2, TotalInt
  <2>6. /\ taken[w] = state[w] - a /\ taken[v] = state[v]
        /\ state'[v] = state[v] + a /\ state[w] \in Int /\ state[v] \in Int
    BY <1>2, <2>1, <2>2
  <2>7. Total(state', Wallet) = Total(state, Wallet)
    BY <1>2, <2>3, <2>4, <2>5, <2>6
  <2>8. state'[Supply] = state[Supply]
    BY <1>2, <1>4
  <2>9. QED  BY <2>7, <2>8 DEF Sum
<1>5. /\ state[w] + a \in Int /\ (state[w] + a) - state[w] = a
      /\ state[w] - a \in Int /\ (state[w] - a) - state[w] = -a
  BY <1>2
<1>6. CASE /\ \E s \in NewSupply(a, {}) :
                state' = [k \in Key |-> IF k = w THEN state[w] + a
                                        ELSE IF k = Supply THEN s ELSE state[k]]
           /\ version'[Supply] = version[Supply] + 1
  <2>1. PICK s \in NewSupply(a, {}) :
          state' = [k \in Key |-> IF k = w THEN state[w] + a
                                  ELSE IF k = Supply THEN s ELSE state[k]]
    BY <1>6
  <2>2. Sum' = Sum + ((state[w] + a) - state[w]) /\ state'[Supply] = s
    BY <1>3, <1>5, <2>1
  <2>3. QED  BY <1>5, <1>6, <2>1, <2>2
<1>7. CASE /\ \E s \in NewSupply(-a, {}) :
                state' = [k \in Key |-> IF k = w THEN state[w] - a
                                        ELSE IF k = Supply THEN s ELSE state[k]]
           /\ version'[Supply] = version[Supply] + 1
  <2>1. PICK s \in NewSupply(-a, {}) :
          state' = [k \in Key |-> IF k = w THEN state[w] - a
                                  ELSE IF k = Supply THEN s ELSE state[k]]
    BY <1>7
  <2>2. Sum' = Sum + ((state[w] - a) - state[w]) /\ state'[Supply] = s
    BY <1>3, <1>5, <2>1
  <2>3. QED  BY <1>5, <1>7, <2>1, <2>2
<1>8. CASE /\ \E v \in Wallet \ {w} :
                state' = [k \in Key |-> IF k = v THEN state[v] + a
                                        ELSE IF k = w THEN state[w] - a ELSE state[k]]
           /\ version'[Supply] = version[Supply]
  BY <1>4, <1>8
<1>9. QED  BY <1>1, <1>6, <1>7, <1>8

Near(drift, n) == -(Slack * n) <= drift /\ drift <= Slack * n

LEMMA DriftIsNear == DriftBounded <=> Near(state[Supply] - Sum, version[Supply])
BY DEF DriftBounded, Near, Sum, Total

\* Every update of the record may be off by Slack, and no more.
LEMMA DriftStep ==
    ASSUME Sound, IsFiniteSet(Wallet), CommittedOK, DriftBounded, [Next]_vars
    PROVE  DriftBounded'
<1>1. /\ Slack \in Nat /\ Sum \in Int
      /\ state[Supply] \in Int /\ version[Supply] \in Nat
      /\ \A a \in Amounts : a \in Int /\ -a \in Int
  <2>1. Sum \in Int
    BY Values, TotalInt DEF CommittedOK, Sum
  <2>2. QED  BY <2>1, Values, SlackBounds DEF CommittedOK
<1>2. DriftBounded <=> Near(state[Supply] - Sum, version[Supply])
  BY DriftIsNear
<1>3. (DriftBounded <=> Near(state[Supply] - Sum, version[Supply]))'
  BY DriftIsNear, PTL
<1>4. ASSUME NEW a \in Amounts, NEW d \in {a, -a}, state'[Supply] \in NewSupply(d, {}),
             Sum' = Sum + d, version'[Supply] = version[Supply] + 1
      PROVE  Near(state'[Supply] - Sum', version'[Supply])
  <2> DEFINE off == state'[Supply] - (state[Supply] + d)
             x == state[Supply] - Sum
             b == Slack * version[Supply]
  <2>1. /\ state'[Supply] \in Int /\ d \in Int
        /\ state'[Supply] <= state[Supply] + d + Slack
        /\ state[Supply] + d - Slack <= state'[Supply]
    BY <1>1, <1>4, SlackBounds DEF CommittedOK
  <2>2. off \in Int /\ off <= Slack /\ -Slack <= off
    BY <1>1, <2>1
  <2>3. state'[Supply] - Sum' = x + off
    BY <1>1, <1>4, <2>1
  <2>4. Slack * (version[Supply] + 1) = b + Slack
    BY <1>1
  <2>5. x \in Int /\ b \in Int
    BY <1>1
  <2>6. -b <= x /\ x <= b
    BY <1>2 DEF Near
  <2> HIDE DEF off, x, b
  <2>7. -(b + Slack) <= x + off /\ x + off <= b + Slack
    BY <1>1, <2>2, <2>5, <2>6
  <2>8. QED  BY <1>4, <2>3, <2>4, <2>7 DEF Near
<1>5. CASE \E t \in Tx : Commit(t)
  <2>1. PICK t \in Tx : Commit(t)
    BY <1>5
  <2>2. \/ /\ \E a \in Amounts : \E d \in {a, -a} :
                 Sum' = Sum + d /\ state'[Supply] \in NewSupply(d, {})
           /\ version'[Supply] = version[Supply] + 1
        \/ /\ Sum' = Sum /\ state'[Supply] = state[Supply]
           /\ version'[Supply] = version[Supply]
    BY <2>1, CommitSum DEF CommittedOK
  <2>3. Near(state'[Supply] - Sum', version'[Supply])
    BY <1>1, <1>2, <1>4, <2>2
  <2>4. QED  BY <1>3, <2>3
<1>6. CASE \A t \in Tx : ~Commit(t)
  BY <1>2, <1>3, <1>6, OnlyCommits DEF Sum
<1>7. QED  BY <1>5, <1>6

LEMMA SumInit ==
    ASSUME Init, IsFiniteSet(Wallet)
    PROVE  Sum = 0 /\ state[Supply] = 0 /\ version[Supply] = 0
<1>1. /\ state[Supply] = 0 /\ version[Supply] = 0
      /\ \A w \in Wallet : state[w] = 0
  BY DEF Init, Key
<1>2. QED  BY <1>1, TotalOfNothing DEF Sum

\* However many decimals the amounts have, the record is off the sum of the
\* balances by half of its last decimal at most for every mint and melt that was
\* committed (269), and not at all if the amounts have no more decimals than it.
THEOREM Drift == Sound /\ IsFiniteSet(Wallet) => (Spec => []DriftBounded)
<1> SUFFICES ASSUME Sound, IsFiniteSet(Wallet) PROVE Spec => []DriftBounded
  OBVIOUS
<1>1. Init => CommittedOK /\ DriftBounded
  <2> SUFFICES ASSUME Init PROVE DriftBounded
    BY CommittedInit
  <2>1. Slack * 0 = 0
    BY CommittedInit, SlackBounds DEF CommittedOK
  <2>2. Near(0, 0)
    BY <2>1 DEF Near
  <2>3. QED  BY <2>2, SumInit, DriftIsNear
<1>2. CommittedOK /\ DriftBounded /\ [Next]_vars => CommittedOK' /\ DriftBounded'
  BY CommittedStep, DriftStep
<1>3. QED  BY <1>1, <1>2, PTL DEF Spec

\* With amounts of as many decimals as the record, the record is the sum of the
\* balances (194).
THEOREM SupplyOfBalances == WellFormed /\ IsFiniteSet(Wallet) => (Spec => []SupplyIsSum)
<1> SUFFICES ASSUME WellFormed, IsFiniteSet(Wallet) PROVE Spec => []SupplyIsSum
  OBVIOUS
<1>1. Sound /\ Slack = 0
  BY DEF WellFormed, Slack
<1>2. Init => CommittedOK
  BY CommittedInit
<1>3. CommittedOK /\ [Next]_vars => CommittedOK'
  BY <1>1, CommittedStep
<1>4. CommittedOK /\ DriftBounded => SupplyIsSum
  <2> SUFFICES ASSUME CommittedOK, DriftBounded PROVE state[Supply] = Sum
    BY DEF SupplyIsSum, Sum, Total
  <2>1. /\ state[Supply] \in Int /\ version[Supply] \in Nat /\ Sum \in Int
    BY <1>1, Values, TotalInt DEF CommittedOK, Sum
  <2>2. Slack * version[Supply] = 0
    BY <1>1, <2>1
  <2>3. QED  BY <2>1, <2>2, DriftIsNear DEF Near
<1>5. Spec => []DriftBounded
  BY <1>1, Drift
<1>6. QED  BY <1>2, <1>3, <1>4, <1>5, PTL DEF Spec

=============================================================================
