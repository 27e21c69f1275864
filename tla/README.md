# Bituncoin in TLA+

TLA+ specifications of Bituncoin's concurrent and stateful parts, the TLC
configurations that model-check them on small instances, and TLAPS proofs of
their main invariants for every value of the constants. Paths such as
`network/network.go` are relative to `src/`; a number in parentheses in a module
or in this file is a line of the source file that is being discussed.

* [Inventory](#inventory) - the system's parts, their state and what can go wrong
* [Modules](#modules) - which module models what, and how
* [Runs](#runs) - what TLC checks, on which instances
* [Proofs](#proofs) - what TLAPS proves, and along which argument
* [Disagreements](#disagreements-between-the-code-and-its-documentation)
* [Not modelled](#what-is-not-modelled)
* [Plan](#plan)

To check a module: `tlc -config NetworkSafety.cfg MCBtngNetwork`; to check its
proofs: `tlapm BtngNetwork_proofs.tla`.

## Inventory

| Component | State | Operations | Interacts with | What is hard | What makes it correct |
|---|---|---|---|---|---|
| **Network** `network/network.go` | listener, `isRunning`, the `peers` map, a connection per peer | `Start`, `Stop`, `Connect`, `Disconnect`, `Send`, `Broadcast`, one `acceptLoop` per `Start`, one `readLoop` per peer | other nodes, over TCP | several goroutines per connection on each side, pointers used after the unlock, blocking writes under a lock, stop and restart | a peer listed as connected has shaken hands and is read; nothing removed comes back; loops end; handshakes complete |
| **Proof of stake** `consensus/pos-validator.go` | validators and stakes, block index | `RegisterValidator`, `UnstakeValidator`, `CreateBlock` (three critical sections), `ValidateBlock` | callers; `core` is fed by examples only | validators leave inside a `CreateBlock`, concurrent `CreateBlock`s | unique indices without gaps, stakes and rewards accounted |
| **Block chain** `core/btnchain.go` | list of blocks | `AddBlock`, `ValidateChain`, getters | blocks of consensus, through callers outside the repository | two creators on one tip, an index that was taken and never added | hash links and indices; nothing goes past a block that did not follow |
| **Fabric chaincode** `fabric/chaincode/btng-wallet/main.go` | balances, supply record, transaction records on the Fabric ledger | `Mint`, `Melt`, `Transfer`, queries | `btng-api`, Fabric's endorsement and commit | simulation and commit are far apart, reads that fail, two writes to one key, rounding | serial ledger, no negative balance, supply is the sum |
| **Staking pool** `goldcoin/staking.go` | one stake per address, total | `CreateStake`, `IncreaseStake`, `ClaimRewards`, `Unstake`, getters | clock | any order of claims and additions over time | coins and rewards conserved, claims never exceed what was earned |
| **Gold-Coin** `goldcoin/goldcoin.go` | circulating supply | `Mint`, `CreateTransaction`, `ValidateTransaction` | - | 64-bit arithmetic | - (see [Not modelled](#what-is-not-modelled)) |
| **Dashboard, security, history** `wallet/{dashboard,security,transactions}.go` | component status, update queue, alerts; settings; transactions by user | about thirty methods | each other, within one object | methods that lock call methods that lock; live maps are handed out | calls return, methods do not race with each other, an update is over when nothing shows it |
| **Fraud detector, alert system** `wallet/security.go` | activities, blocked addresses; alerts, subscriber channels | `CheckTransaction`, `BlockAddress`; `SendAlert`, `Subscribe`, `Unsubscribe` | subscribers | a channel that is full, closed or replaced | no send on a closed channel, a blocked address stays blocked |
| **Exchange, cards, merchant** `wallet/{exchange,cards,merchant}.go` | rates and orders; cards; payment requests | create, update, query | clock | two reads of one rate, expiry written by readers | orders show rates that were in force, limits and balances kept, one completion per request |
| **Cross-chain bridge, portfolio, platform, AI manager** `wallet/{crosschain,portfolio,platform,ai_manager}.go` | in-memory records | single critical sections | - | - | - |
| **BTN-PAY** `payments/btnpay.go` | invoices | `CreateInvoice`, `GetInvoice`, `MarkPaid`, HTTP handlers | clock | expiry is written by reads only | an invoice is paid once, and in time |
| **Accounts** `auth/accounts.go` | users, sessions | `CreateUser`, `Authenticate`, `ValidateSession`, `HasPermission`, `UpdateUserRole`, `DeactivateUser`, `Logout` | `api` | check-then-act over several calls | who may act is allowed when it acts |
| **API node** `api/btnnode.go` | one of each of the above | HTTP handlers, `Start`, `Stop` | all of the above | concurrent requests | that of its parts |
| **Key-value store** `storage/leveldb.go` | cache and one file per key | `Put`, `Delete`, `Close`, load at start | the file system | crash in a write, failing disk, use after `Close`, keys that share a file or leave the directory | what was acknowledged is found after a restart, other files are not touched |
| **Add-ons** `addons/*.go` | registered modules and their status, offers, loans | `Register`, `Enable`, `Disable`, `Execute`, lending actions | module code | two status records, identifiers of one-second resolution | one status, no lost loan |
| **Mint and melt routes** `btng-api/` | none | dual write to .NET and Fabric | .NET service, chaincode | one of two writes fails | - (see [Not modelled](#what-is-not-modelled)) |
| **.NET service** `src/src/BTNGWalletService.cs` | balances | mint, melt, queries | routes | concurrent requests, restarts | - |
| Python contract, address derivation, user interface, examples, scripts | - | - | - | - | - |

`PROJECT.json` lists the same parts under "components" with their status, and the
places where each can go wrong, line by line, under "hazards".

## Modules

### The network: `BtngNetwork`

State: per node the running flag and the open listener; per listener the program
counter of its accept loop and the connection it has in hand; per *end* of a
connection (the dialled one and the accepted one) what the owner's map and `Peer`
struct say, the socket, the messages under way to it, and the program counter of
its read loop. An end stands for the peer ID as well, because IDs are random and
not reused.

One action is one critical section of `n.mutex`, or one system call, so that
everything the code reads under the lock and uses later can have changed.
`Connect` is six actions (`ConnectCheck`, `ConnectDial`, `ConnectRegister`,
`ConnectLookup`, `ConnectGreet` with `ConnectUndo`, `ConnectSpawn`): its test for
an existing peer, the dial, `registerPeer`, the lookup and the write of
`sendHandshake`, and the start of the read loop. The accept loop is cut at the
same places (`Accept` ... `AcceptSpawn`), `readLoop` into `Decode`, a handler per
kind of message and its exit. `Send` is a lookup and a write; `Broadcast` is one
action here, since it holds the read lock throughout. A write may succeed, be
lost because the other side has closed, or fail.

### Blocking writes: `BroadcastLocks`, `RWMutex`

`RWMutex` is Go's `sync.RWMutex` as a record and operators on it: a `Lock` that
was called keeps new readers out, and `Unlock` lets the waiting readers in.
`BroadcastLocks` uses it for the part that `BtngNetwork` leaves out: connections
hold at most `Capacity` messages, a write on a full one waits, and `Broadcast`
waits with its read lock held while read loops need the write lock (399) for each
message. A read loop writes too: it answers a ping through `Send`, which looks its
peer up under the read lock and then writes with no lock held (424-426, 246-282).

### Consensus: `ProofOfStake`

Registering, unstaking and the three critical sections of `CreateBlock`
(`SelectValidator`, `TakeIndex`, `RewardValidator`), for any number of goroutines
that create blocks. History variables count what each address paid in and took
out, and its blocks, so that the stakes can be audited.

### The block chain: `Chain`, over `ProofOfStake`

`AddBlock` and `ValidateChain`, composed with the consensus: whoever calls
`CreateBlock` reads the chain's tip first (`Begin`), gets its block when the reward
is paid (`Return`), and offers it to `AddBlock` at any time, any number of times,
or never. Nothing in the repository wires the two together, so the callers are
external. A block stands for its hash by its index, since indices are unique
(proved). `ChainSpec` is what the run `stake_pool` checks; it implements
`ProofOfStake!Spec`, so the consensus properties are checked of the composition.

### The chaincode: `FabricWallet`, refining `Ledger`

`Ledger` is what the chaincode promises: mint, melt and transfer, one at a time,
with a supply record that follows each to within `Slack`.
`FabricWallet` is the three contract functions under Fabric's execute-order-
validate: an endorsed transaction keeps the versions it read and the values it
would write, and `Commit` applies them if no version has changed; `Invalidate` is
the other case. The refinement mapping reads the ledger's balances and supply off
the committed state. Fabric itself is external and modelled from how chaincode
uses it. `ReadsMayFail` adds reads that return an error, which `Mint` and
`Transfer` take for a missing wallet (51, 156). `Grain` says how much finer amounts
are than the four decimals of the supply record: `NewSupply` gives the nearest
multiple of it, and either neighbour of a tie, since the float64 that the code
rounds (269) may lie on either side of the decimal it stands for. The `Slack` of the
ledger it implements is half of `Grain`, or 0 if no amount needs rounding.

### The staking pool: `StakingPool`

Each method is one critical section that also reads the clock; `Tick` moves the
clock. The unit of a reward is what the annual rate pays one coin per tick, so
rewards are integers. History variables hold what each address put in, got back
and was paid, what its coins earned tick by tick, and how much of what is shown is
*retroactive*: `IncreaseStake` (216) changes the amount and leaves `StartTime`, so
added coins are shown as if they had been there from the beginning.

### Nested locks: `WalletLocks`

A method is the sequence of its steps, and a method it calls is a part of that
sequence, as in the code: `ScheduleUpdate` is `Lock`, append, the steps of
`AddAlert`, `Unlock`. A goroutine calls any method when it is idle; the actions
take its next step on the object's mutex or data. The status of components, the
update queue and the number of alerts are kept; other fields are "read" or
"written". `HealthCheck` (184), `GetDashboardSummary` (329) and other getters return
live maps and pointers, which their callers read with no lock, whenever they like:
`ReadHandedOut` is such a read, a call of one step ("peeks") by anybody at any time. The module is checked on its own, with fairness, for what may hang, and as
a part of `Services` for its invariants.

### The key-value store: `Store`, refining `KeyValue`

`Store` has the cache, the files, and the call that holds the mutex, cut
where the file system can fail or the process can die: the file is truncated, the
write is handed to the operating system, or the call returns an error. `Put` and
`Delete` change the cache first (74, 92); `Close` writes file after file, stops at
the first it cannot write, and empties the cache after the last; a closed store can
still be called. `Crash` is the death of the process at any of these points;
`loadFromDisk` passes over files it cannot read.

The file of a key is `filePath[k]`, for `filepath.Join(dataDir, key+".dat")` (105),
which cleans the path. So keys can share a file ("a" and "./a"; `Kin` are the keys
of one file), and a file can lie where no start looks for it ("../x", or a
subdirectory). A start reads the names in the directory itself (110-138): the keys
it makes from them are `Plain`, no two of which share a file. The empty key is
plain, as a start finds a file ".dat", but `Put` refuses it.

`KeyValue` is the promise: a map that outlives the process, in which an
acknowledged call has taken effect exactly, a call that failed or died leaves its
own key in *doubt* (old value, new value, or torn), and keys kept in another place
are not touched. Any call leaves the other keys of its own place in doubt, and a
restart may lose a key that is not plain: the promise is about plain keys whose
place was last used by an acknowledged call on them.
The mapping takes the value from the cache while the store is open and from the
files while it is closed or down.

### The API node: `Node`, over `Accounts` and `Invoices`

`Accounts` and `Invoices` are the methods of `auth/accounts.go` and
`payments/btnpay.go`, one critical section each. `Node` has the requests under
way: the administrators' handlers validate the session, test the permission and
act in three critical sections (388-409, 431-451), so a demotion, a deactivation, a
logout or an expiry can come in between. A request to which this happened is
*overtaken*, a history variable. `GetInvoice` writes "expired" under the read lock
and hands out a pointer that is encoded after the unlock; its answer is what was
read last (`getters`, `shown`).

`Start` spawns a goroutine that goes through the endpoint map without the lock.
`Stop` clears a flag and nothing else: the server goes on, and that of the next
`Start` does not get the port. A second `Start` while the first goroutine is still
at the map can make Go end the program ("fatal"), after which nothing happens.

### Services that stand alone: `Services` and its parts

`Services` puts side by side the parts that share nothing but the clock. Its
variable `part` says which of them a behaviour exercises, so that what is reachable
is the sum of their states; for each, the others stand still.

| Module | Code | What is kept of it |
|---|---|---|
| `Addons` | `addons/registry.go`, `staking_module.go`, `lending_module.go` | the registry's record of a status and the module's own; `Execute` as test and call under the shared lock, so that calls of several goroutines interleave and status changes wait; third-party modules whose methods fail; offers and loans under identifiers of one second |
| `FraudDetector` | `wallet/security.go:222-306` | counting, blocking at the threshold, unblocking that leaves the count |
| `AlertSystem` | `wallet/security.go:308-412` | the list of alerts, channels with a capacity and with what their owners have taken out of them, subscribing again, `Unsubscribe`, resolving by an identifier of one second |
| `Exchange` | `wallet/exchange.go` | an order in three steps: it is priced by one reading of a rate, shows the next reading, and is recorded; the reverse rate is set with the rate |
| `Cards` | `wallet/cards.go` | top-ups, transactions against balance and daily limit, status, the daily reset |
| `Merchant` | `wallet/merchant.go` | payment requests are `Invoices` under other names; the merchant's total; mobile payments |
| `WalletLocks` | `wallet/dashboard.go`, `security.go`, `transactions.go` | see above |

## Runs

| Run | Configuration | Checks | Result |
|---|---|---|---|
| `network_safety` | two nodes, one start each, one connection, two user sends | handshakes, read loops, removed peers stay removed and are not written to | 1,002,052 states |
| `network_liveness` | the listener may be started twice, one connection, no sends | liveness of handshakes, of the connected list and of accept loops, over a restart | 23,579 states |
| `network_stop` | same | `StopDisconnectsAll` | violated |
| `broadcast_two` | two nodes that both broadcast blocks, pings and other messages, connections of one message | only circles of full connections block, messages get handled | 25,272 states |
| `stake_pool` | `ChainSpec`: two validators that join up to twice, two creators, three blocks, amounts below, at and above the minimum | indices, stakes, rewards; the chain stays valid and stops at a stale block | 216,032 states |
| `fabric_ledger` | two wallets, three transactions, transfers both ways, `Grain = 4` and amounts of 2 and 3, a tie and a proper rounding | how far the supply record drifts from the balances, refinement of `Ledger` | 28,099 states |
| `fabric_self` | as `fabric_ledger`, amounts that need no rounding, and transfers from a wallet to itself | `SupplyIsSum` | violated |
| `staking_pool` | two addresses, amounts below and at the minimum, lock of two ticks, four ticks | stakes, claims, exact earnings | 198,731 states |
| `wallet_locks` | two goroutines, all modelled methods, a known and an unknown component | which calls may hang | 9,186 states |
| `store` | four keys ("a", "./a", "../x" and the empty one), three files, two values; any number of failures, crashes and restarts | cache against files, refinement of `KeyValue` | 104,121 states |
| `node` | two users, two sessions, two requests, one invoice, one tick, two starts | who changes accounts, ended sessions, what answers said of an invoice | 199,862 states |
| `services` | see below | one property or two for each part | 603,745 states |

Every property of a passing run has a mutant: a plausible mistake in the code,
kept beside the action it alters and marked "Mutant", under which TLC finds the
property violated.

**Why the bounds are enough.** A connection has two sides with up to three
goroutines each, and connections share nothing but `isRunning`, the listener and
the accept loop, which handles one connection after another; one connection with
every interleaving of both sides therefore shows the peer life cycle, and the
proofs carry it to any number. Two starts give two accept loops, of which one is
stale; two sends give a Send that was overtaken by a removal and a later one. Two
broadcasters, or a broadcaster and a pong, or two pongs, are the smallest circles,
and a connection that holds one message is full or empty. Three transactions on two wallets give a
stale read, a lost race and a transaction that depends on a committed one. Two
creators and validators that come back are enough for a late reward to meet a
validator that has left or re-registered, and for two blocks on one tip. Four ticks
leave room for two claims around an addition, and for unstaking with and without
unclaimed rewards. Two goroutines are enough for a writer between two nested read
locks.

The store's calls touch one file each and Close touches all, so the four keys show
a file in use, a file left alone, a file of two keys, one that no start finds, and a
Close that stops half way. Its state space is finite without any bound. At the node, two requests are the smallest number of which
one overtakes the other; two users are an administrator and one that is
demoted, also by the other; with a session time of 0 one tick ends sessions and
invoices.

The services: two seconds on the clock (`MaxSecond = 1`), so that identifiers
collide within one and not across; two callers inside `Execute`, one plugin that
fails beside the two modules of the package, four offers and loans; threshold 3
with four unblockings, so that the count exceeds the threshold and five; two channels of
capacity 1, so that a channel is replaced and is full, and three alerts; two assets,
rates of two values, three settings of them, one after each reading of an order; a
card with a limit below what it holds; two merchants, requests and readers; the
wallet's locks as in the run `wallet_locks`.

Deadlock checking is off where the bounds stop the system (all starts, blocks,
ticks or transactions used up, or the node's "fatal" end) or where the code
really blocks (`BroadcastLocks`, `WalletLocks`; what may block is then a property).
It is on for the store.

**Fairness.** Weak fairness of each goroutine's own steps: the Go scheduler runs a
goroutine that can run. Users' calls have none: nobody must call `Connect`, `Stop`
or `Broadcast`. Strong fairness of taking a mutex in `BroadcastLocks` and
`WalletLocks`: `sync.Mutex` hands the lock over to a waiter that has waited longer
than a millisecond, so none is passed over for ever. `BroadcastLocks` has strong
fairness of the writes on a connection too: writers of one connection queue for its
descriptor (poll.FD's write lock), so a pong and a Broadcast cannot pass each other over for ever. With three nodes weak
fairness is not enough there: two read loops of one node can pass the third over.
`BtngNetwork` needs none of it, its critical sections being single actions. The
store, the node and the services promise nothing that must eventually happen: an
invoice expires when somebody looks, and nobody must.

## Proofs

All theorems hold for every value of the constants that the modules' named
assumptions allow. PROJECT.json lists the ones to know of under "theorems".

**`BtngNetwork_proofs`.** `Typing`, then `Lifecycle`: `PeerLifecycle` is inductive
together with the types. That a connected peer was greeted is not inductive: the
handshake may still be in the stream or in the read loop's hand, so the invariant
traces it back to the writer (`HandshakeSource`) and forward until it is recorded
or obsolete (`HandshakePending`). The rest says who holds a connection: how far
its `Connect` is (`CallLife`), which one accept loop has it in hand (`HoldLife`),
and that a removed peer is closed and a read loop belongs to a registered peer
(`PeerLife`). `ConnectedIsGreeted`, `ConnectedIsRead`, `HandshakesArrive` and the
action properties `NoResurrection` and `NoLateWrite` follow; the last goes through
the actions once more and shows of each that writes (the `Quiet` lemmas) that the
peer it writes to was not removed.

**`Chain_proofs`.** First the consensus on its own, then composed with the chain.
`Consensus`: uniqueness of indices needs that every index in use is at most the
counter; the account of stakes needs who has joined and left. `UniqueIndices`,
`StakesAddUp`, `PoolHolds` and `GaplessIndices` follow. `ChainImplementsConsensus`:
a step of the composition is a step of `ProofOfStake` or leaves its variables alone,
so `Consensus` holds of it too. `ChainNeverPassesStale` rests on `ChainOK`: every
index up to the tip's is on a block that was returned, and each of these has its
previous hash on record. With unique indices a stale block's index then cannot be
behind the tip.

**`Sums`.** What the books of three components rest on: the sum of a function over a
finite set does not depend on the order of the fold, splits at any element
(`TotalSplit`), and changes by what one element changes (`TotalChange`, `TotalAdd`).
The fold of the community modules is a recursive function on subsets. That there is
one, and that two agree, is proved by induction over subsets, where the induction is
the minimal element of a well-founded order (`SubsetInduction`): this form needs a
set of subsets as its parameter, not a predicate.

**`FabricWallet_proofs`.** `Typing`: no balance is or would be made negative, even
with failing reads. The rest assumes `Sound`: reads do not fail and no transfer goes
from a wallet to itself. `Endorsed`: an endorsed transaction whose reads are current
writes what a ledger operation would write now, up to the rounding of the supply.
From it, every commit is an operation of the ledger (`Implementation`,
`Spec => Committed!Spec`), and changes the sum of the balances by its amount and the
record by what it rounds that to: `Drift` bounds their difference by `Slack` for each
write of the record. `SlackBounds` shows that `Slack` is enough: half of the record's
last decimal, and nothing if amounts have no more decimals than the record, since the
record then holds a multiple of `Grain` that every amount keeps (`ExactSupply`).
`WellFormed` is that case, and there `SupplyOfBalances` follows. Without any one of its
three conditions it is false. (`fabric_self` shows it of the second.)

**`StakingPool_proofs`.** Types and payments hold together only: that a payment is
not negative rests on `ClaimsCovered`, which rests on the types. `Payments` proves
that coins are in the stake or were returned, that claims never exceed what the
stake shows, and that what it shows is exactly what its coins earned plus the
retroactive part; `ClaimsAreCovered` and `EarnsExactly` are its parts.
`LeavingIsPaid`: over all its claims a stake that leaves has been paid its amount
times its time. Three lemmas do the multiplication. `BooksBalance` adds the pool's
total, the sum of the active stakes: there are finitely many of them however many
addresses there are (`BooksOK`), and each operation changes one.

**`Store_proofs`.** `Consistent`: that cache and files agree on settled plain keys
needs `CallOK`, which says that all keys of the call's file are in doubt, that the
call works for what the cache shows, and that keys still to be flushed are in the
cache. Of paths nothing is assumed but that no two plain keys share one.
`Implementation`, `Spec => KV!Spec`, takes the steps one by one: `Put` begins a
call and puts the keys of its file in doubt, truncation and failure tear, the
completed write or removal acknowledges, and `Closed`, `Crash` and the start are the abstract `Restart`, for which settled
keys must be in the cache and on disk alike.

**`Node_proofs`.** `NodeInvariant` joins three: `AuthOK` (every session was issued
once and belongs to a user that was created, and users are never removed),
`RequestsOK` (a request past its checks still has what it was given, or has been
overtaken) and `PayOK` (an invoice that an answer showed paid or expired is so).
`AuthorisedActs`, `EndedSessionsStay` and `FatesStay` follow. That an ended session
stays ended needs that it ends by the clock, by its removal or by the
deactivation of its user, and that none of the three is ever undone.

**`Services_proofs`.** `ServicesOK` is the conjunction of one inductive invariant
per part; a step of one part leaves the others' variables alone, which one lemma
per part (its "idle" lemma) turns into its invariant. The strengthenings: what a
call inside `Execute` has tested still holds (registry), an offer has at most one
loan (lending), the count is threshold plus unblockings at most (fraud detector), a
buffer holds alerts of its owner after those received (alerts), both readings of
an order are among the rates in force (exchange). Two parts need more:

* `TotalsDoAgree` (merchant). The total is a sum over the completed requests and one
  over the mobile payments (`TotalsOK`). That a paid request stays
  paid needs that a reader about to write "expired" was not overtaken by the payment
  (`RequestsOK`); that no total is lost, that requests belong to registered merchants
  only (`MerchantsOK`).
* `NoRaces` and `MaintenanceIsShown` (locks). The invariant `LocksOK` relates every
  thread's hold on a mutex to what is left of its method: a thread outside is at the
  beginning of one; one that was granted the write lock writes until it unlocks, and
  returns, or until it asks for a lock again, where it stays; one that reads has as
  many read locks as it has still to give back. That every method has this shape
  (`MethodsStart`) is proved once, by putting its sequence together from those of the
  methods it calls. `MaintenanceOK` adds how much every thread has left of an update
  (`UpdateLeft`, the last `n` of its ten steps; `Quiet`, none): from the third step to
  the fifth, where it asks for the lock that it holds and stays, it has the write
  lock, and between putting the component into maintenance and restoring it no other
  step of any method touches the status. So an update that is not over is shown by
  its component, and methods that read under the lock cannot see it. Those who read
  what was handed out to them can, and will for ever: the update never ends.

**Model-checked only.** Every invariant and action property of the passing runs is
stated by a theorem. What is left to TLC is liveness, which needs fairness and
ENABLED: `HandshakeCompletes`, `ClosedPeersGetUnlisted` and `StoppedLoopsExit` of
the network, `OnlyGridlockBlocks` and `MessagesGetHandled` of `BroadcastLocks`,
`OnlyNestedCallsBlock` of `WalletLocks`.

## Disagreements between the code and its documentation

With a run that shows them (PROJECT.json, "findings"):

* `Stop` "disconnects all peers" (network.go:128), but a connection that the
  accept loop has taken and not yet registered is registered, greeted and read
  afterwards (`network_stop`).
* A transfer to oneself creates balance that the supply does not count
  (`fabric_self`).

Seen while modelling, without a run of their own:

* An accept loop whose listener was closed looks at `isRunning` (network.go:362);
  if the node has been started again it goes round on the closed listener for ever.
* Two nodes that broadcast to each other faster than they read can block for ever
  (network.go:232), and so can two that are sent more pings than they can answer: a
  read loop that waits for room for its pong (425) does not read. `OnlyGridlockBlocks`
  says that circles of full connections, closed in one of these two ways at each
  node, are the only ones.
* `ScheduleUpdate`, `ExecuteUpdate` and `CreateBackup` never return, because the
  methods they call lock the mutex they hold (dashboard.go:315, security.go:161);
  nested read locks do not either when a writer comes in between
  (transactions.go:144). `OnlyNestedCallsBlock` says that nothing else hangs. A
  component whose update was executed is in maintenance from then on, for whoever
  holds the map that `HealthCheck` or `GetDashboardSummary` returned.
* `loadFromDisk` "loads all data from disk into cache" (leveldb.go:109), but not what
  was put under "../x" or "dir/x"; and "a" and "./a", two keys of the cache, share
  one file, so that deleting one loses the other at the next start.
* `GetConnectedPeers` "returns only peers with an active connection"
  (network.go:298), but a handshake that was decoded before `Stop` sets a closed
  peer's status to connected again (419).
* Two `Connect`s to one address, the second begun before the first is answered,
  both succeed, because only a peer that is already connected is refused (156).
* A block whose validator unstakes while `CreateBlock` runs is returned without an
  error and refused by `ValidateBlock` (pos-validator.go:130-150). A block that is
  thrown away, or made on a tip that another block has left behind, uses up an index
  and `AddBlock` takes no block after it (`StaleBlockFreezes`).
* A `Mint` whose read of the wallet fails replaces the balance by the amount
  (main.go:51). The supply is rounded to four decimals while balances are not (269),
  so the record drifts; `DriftBounded` says how far.
* `README.md:684` promises "5% Annual Staking Rewards", but coins added by
  `IncreaseStake` are paid from the day the stake was created; they are not locked
  for 30 days either, and an address that has unstaked can never stake again
  (staking.go:53).
* The API node's `Stop` "stops the API node server" (btnnode.go:84), but the HTTP
  server goes on serving; the server of the next `Start` is refused the port and
  its error is dropped.
* A "unique loan ID" (lending_module.go:263) is the second of the loan: two loans
  of one second are one entry. The same holds of offers and of alerts, of which only
  the first with an identifier can be resolved.

## What is not modelled

Components marked `not_modelled` in PROJECT.json: the cross-chain bridge (one
critical section records a transfer, another sets it to any status at any time,
and nothing reads it), the portfolio, platform and AI managers (single critical
sections over in-memory records and floating-point summaries, and nothing of theirs
interacts), the user interface, the Python contract (a client stub), the
command-line copy of the .NET service (no program of the repository hosts it),
address derivation (hashing and encoding), examples, scripts and workflows.

Gold-Coin's `Mint` (goldcoin.go:105-111) is not modelled: it is a guard and the
addition it guards, and a property of it would restate one or the other. Read by
hand: the sum is taken modulo 2^64 before it is compared with the maximum, so an
amount near 2^64 passes and lowers the supply, and two concurrent calls can lose one.

The mint and melt routes of `btng-api` and the .NET service they write to, next to
Fabric, are not modelled either. The two sides do not agree exactly even when
nothing fails: the .NET service sums decimals (BTNGWalletService.cs:9, 45), the
chaincode float64 (main.go:55); the .NET ledger is a dictionary in memory that a
restart empties; and the chaincode's `Mint` replaces a balance it could not read
(main.go:50-53) and reports success. No document says what should hold between them.

Partly modelled: `AddWalletAddress` and the password hashes of the accounts; the
API node's handlers that answer constants or only read; the payment methods that a
merchant accepts, which nothing tests; network checks, metrics, settings and the
transactions themselves in the dashboard, security settings and history.

Inside the modelled ones: message payloads, versions and block heights, a write
that blocks while a connection is being torn down, and the race of `Send`'s status
test with its write (one step) in the network; hashes and the weights of the
random choice in consensus; transaction records, histories, queries and time
stamps in the chaincode; rounding of floating-point numbers in the staking pool,
cards and exchange; a rate of 0, whose reverse is +Inf, and the rate of an asset with
itself (exchange.go:112); negative card amounts, which add to the balance (cards.go:168);
a power failure, after which a value that `WriteFile` handed over may be lost.

Hazards of this code that no property covers: read loops that end neither close
their connection nor remove their peer (network.go:396), so entries and sockets of
dead peers accumulate; getters that hand out live pointers, which callers read
while methods write them (pos-validator.go:180, dashboard.go:184, btnpay.go:94,
ai_manager.go:309; of the dashboard's the model has the reads, and `RaceFree` excuses
them), and the store's sharing of slices with its callers (leveldb.go:62);
rounding of rewards (staking.go:118); a mint that is tried again after a timeout
mints twice; the node that does not stop serving (btnnode.go:93); each endorser puts its own clock's second into
the wallet record (main.go:56), so that two endorsements can differ.

## Plan

Done: everything the first plan listed, and a theorem for every invariant and action
property of the passing runs. Left, most useful first:

1. `BroadcastLocks`: the invariant of its mutexes (a writer is alone, and each
   goroutine's hold is what its program counter says) for any number of nodes, which
   is the safety part of `OnlyGridlockBlocks`.
2. A run of two connections between two nodes, for concurrent `Connect`s to one
   address; it is too large for the present cut of the actions.
3. The cross-chain bridge, once something in the repository reads its records.
