--------------------------- MODULE BroadcastLocks ---------------------------
(***************************************************************************)
(* Broadcast of network/network.go against the read loops, with writes     *)
(* that block.  Every node is connected to every other; the kernel keeps   *)
(* at most Capacity messages between a writer and a reader, and a write on *)
(* a full connection waits, with whatever lock its goroutine holds.  A     *)
(* read loop writes as well: it answers a ping with a pong, holding no     *)
(* lock.  This is the part of the network that BtngNetwork leaves out;     *)
(* connections do not come and go here, and the handshakes are over.       *)
(***************************************************************************)
EXTENDS Naturals, Sequences, FiniteSets, SequencesExt

CONSTANTS
    Node,
    Caster,      \* the nodes whose user calls Broadcast, again and again
    Capacity,    \* bound: messages a connection holds before a write blocks
    NoThread

ASSUME BroadcastAssumption ==
    /\ Caster \subseteq Node
    /\ Capacity \in Nat \ {0}
    /\ NoThread \notin Node \X Node

\* <<n, p>>: what n reads from p, and the readLoop of n that reads it.
Link == {l \in Node \X Node : l[1] # l[2]}
Peer(n) == Node \ {n}

\* The connection's other direction: what the reader of l writes to.
Back(l) == <<l[2], l[1]>>

\* The messages the read loop tells apart here: those it answers, and the rest.
Kind == {"ping", "other"}

\* The goroutines that use a node's mutex: its Broadcast caller is <<n, n>>.
Thread == Node \X Node
Caller(n) == <<n, n>>

RW == INSTANCE RWMutex

VARIABLES
    mutex,       \* mutex[n]: Network.mutex
    casting,     \* casting[n]: the user's goroutine is inside Broadcast
    msg,         \* msg[n]: the kind of message it broadcasts
    todo,        \* todo[n]: the peers its loop has still to write to, in turn
    inbox,       \* inbox[l]: messages buffered on the connection
    reader,      \* reader[l]: where the readLoop is
    hand         \* hand[l]: the message it is handling

vars == <<mutex, casting, msg, todo, inbox, reader, hand>>

ReadPC == {"decode", "lock", "locked", "send", "sending", "pong", "handle", "handler"}

TypeOK ==
    /\ mutex \in [Node -> RW!Mutex]
    /\ casting \in [Node -> BOOLEAN]
    /\ msg \in [Node -> Kind]
    /\ todo \in [Node -> Seq(Node)]
    /\ inbox \in [Link -> Seq(Kind)]
    /\ \A l \in Link : Len(inbox[l]) <= Capacity
    /\ reader \in [Link -> ReadPC]
    /\ hand \in [Link -> Kind]

Init ==
    /\ mutex = [n \in Node |-> RW!Unlocked]
    /\ casting = [n \in Node |-> FALSE]
    /\ msg = [n \in Node |-> "other"]
    /\ todo = [n \in Node |-> <<>>]
    /\ inbox = [l \in Link |-> <<>>]
    /\ reader = [l \in Link |-> "decode"]
    /\ hand = [l \in Link |-> "other"]

Full(l) == Len(inbox[l]) = Capacity
Enqueue(l, k) == inbox' = [inbox EXCEPT ![l] = Append(@, k)]
Goto(l, pc) == reader' = [reader EXCEPT ![l] = pc]

-----------------------------------------------------------------------------
(* Broadcast: the read lock is held from before the first write to after   *)
(* the last (226-227); the peers come in the order of a map.               *)

BroadcastRLock(n, k) ==
    /\ n \in Caster
    /\ ~casting[n]
    /\ casting' = [casting EXCEPT ![n] = TRUE]
    /\ msg' = [msg EXCEPT ![n] = k]
    /\ \E order \in SetToSeqs(Peer(n)) : todo' = [todo EXCEPT ![n] = order]
    /\ mutex' = [mutex EXCEPT ![n] = RW!RLock(@, Caller(n))]
    /\ UNCHANGED <<inbox, reader, hand>>

BroadcastWrite(n) ==
    /\ casting[n] /\ todo[n] # <<>>
    /\ RW!HoldsRead(mutex[n], Caller(n))
    /\ LET out == <<Head(todo[n]), n>>
       IN ~Full(out) /\ Enqueue(out, msg[n])
    /\ todo' = [todo EXCEPT ![n] = Tail(@)]
    /\ UNCHANGED <<mutex, casting, msg, reader, hand>>

BroadcastReturn(n) ==
    /\ casting[n] /\ todo[n] = <<>>
    /\ RW!HoldsRead(mutex[n], Caller(n))
    /\ casting' = [casting EXCEPT ![n] = FALSE]
    /\ msg' = [msg EXCEPT ![n] = "other"]
    /\ mutex' = [mutex EXCEPT ![n] = RW!RUnlock(@, Caller(n))]
    /\ UNCHANGED <<todo, inbox, reader, hand>>

-----------------------------------------------------------------------------
(* readLoop: decode, LastSeen under Lock, then handleMessage, which        *)
(* answers a ping and then takes the read lock to fetch the handler.       *)

Decode(l) ==
    /\ reader[l] = "decode"
    /\ inbox[l] # <<>>
    /\ hand' = [hand EXCEPT ![l] = Head(inbox[l])]
    /\ inbox' = [inbox EXCEPT ![l] = Tail(@)]
    /\ Goto(l, "lock")
    /\ UNCHANGED <<mutex, casting, msg, todo>>

SeenLock(l) ==
    /\ reader[l] = "lock"
    /\ RW!CanLock(mutex[l[1]])
    /\ mutex' = [mutex EXCEPT ![l[1]] = RW!Lock(@, l)]
    /\ Goto(l, "locked")
    /\ UNCHANGED <<casting, msg, todo, inbox, hand>>

AfterSeen(l) == Goto(l, IF hand[l] = "ping" THEN "send" ELSE "handle")

\* Mutant: the Unlock is deferred, so the lock is kept while handleMessage runs.
SeenKeepsLock(l) ==
    /\ reader[l] = "locked"
    /\ RW!HoldsWrite(mutex[l[1]], l)
    /\ AfterSeen(l)
    /\ UNCHANGED <<mutex, casting, msg, todo, inbox, hand>>

SeenUnlock(l) ==
    /\ reader[l] = "locked"
    /\ RW!HoldsWrite(mutex[l[1]], l)
    /\ mutex' = [mutex EXCEPT ![l[1]] = RW!Unlock(@)]
    /\ AfterSeen(l)
    /\ UNCHANGED <<casting, msg, todo, inbox, hand>>

\* The answer goes through Send, which looks the peer up under the read lock ...
SendRLock(l) ==
    /\ reader[l] = "send"
    /\ mutex' = [mutex EXCEPT ![l[1]] = RW!RLock(@, l)]
    /\ Goto(l, "sending")
    /\ UNCHANGED <<casting, msg, todo, inbox, hand>>

SendRUnlock(l) ==
    /\ reader[l] = "sending"
    /\ RW!HoldsRead(mutex[l[1]], l)
    /\ mutex' = [mutex EXCEPT ![l[1]] = RW!RUnlock(@, l)]
    /\ Goto(l, "pong")
    /\ UNCHANGED <<casting, msg, todo, inbox, hand>>

\* ... and writes without it, for as long as the connection is full.
PongWrite(l) ==
    /\ reader[l] = "pong"
    /\ ~Full(Back(l))
    /\ Enqueue(Back(l), "other")
    /\ Goto(l, "handle")
    /\ UNCHANGED <<mutex, casting, msg, todo, hand>>

HandlerRLock(l) ==
    /\ reader[l] = "handle"
    /\ mutex' = [mutex EXCEPT ![l[1]] = RW!RLock(@, l)]
    /\ Goto(l, "handler")
    /\ UNCHANGED <<casting, msg, todo, inbox, hand>>

HandlerRUnlock(l) ==
    /\ reader[l] = "handler"
    /\ RW!HoldsRead(mutex[l[1]], l)
    /\ mutex' = [mutex EXCEPT ![l[1]] = RW!RUnlock(@, l)]
    /\ Goto(l, "decode")
    /\ hand' = [hand EXCEPT ![l] = "other"]
    /\ UNCHANGED <<casting, msg, todo, inbox>>

-----------------------------------------------------------------------------
BroadcastStep(n) == BroadcastWrite(n) \/ BroadcastReturn(n)

ReadStep(l) ==
    \/ Decode(l) \/ SeenLock(l) \/ SeenUnlock(l)
    \/ SendRLock(l) \/ SendRUnlock(l) \/ PongWrite(l)
    \/ HandlerRLock(l) \/ HandlerRUnlock(l)

Next ==
    \/ \E n \in Node : BroadcastStep(n) \/ \E k \in Kind : BroadcastRLock(n, k)
    \/ \E l \in Link : ReadStep(l)

\* A goroutine that is not blocked runs.  None is passed over for ever at the
\* lock (sync.Mutex hands it to one that has waited too long) or at a connection
\* (its writers queue for the descriptor); nobody has to call Broadcast.
FairSpec ==
    /\ Init /\ [][Next]_vars
    /\ \A n \in Node : WF_vars(BroadcastStep(n)) /\ SF_vars(BroadcastWrite(n))
    /\ \A l \in Link :
         WF_vars(ReadStep(l)) /\ SF_vars(SeenLock(l)) /\ SF_vars(PongWrite(l))

-----------------------------------------------------------------------------
\* The read loop of l is in Lock or in RLock of its node's mutex.
AwaitsMutex(l) ==
    LET m == mutex[l[1]]
    IN  \/ reader[l] = "lock"
        \/ reader[l] = "locked" /\ ~RW!HoldsWrite(m, l)
        \/ l \in m.waiting

\* n's Broadcast holds the read lock and waits for room on l.
CastAwaits(n, l) ==
    /\ casting[n] /\ todo[n] # <<>>
    /\ RW!HoldsRead(mutex[n], Caller(n))
    /\ l = <<Head(todo[n]), n>>

\* Full connections, each with a read loop that waits for room on another of
\* them: to write its pong there, or for the lock that its node's Broadcast
\* holds while it waits there.
Gridlock ==
    \E S \in (SUBSET Link) \ {{}} : \A l \in S :
        /\ Full(l)
        /\ \/ reader[l] = "pong" /\ Back(l) \in S
           \/ AwaitsMutex(l) /\ \E b \in S : CastAwaits(l[1], b)

\* A Broadcast ends, unless connections that fill each other have brought their
\* readers into a circle: the writes under the read lock (226-232) and the pongs
\* a read loop writes itself (425) are the only ways to block for ever.
OnlyGridlockBlocks ==
    \A n \in Node : casting[n] ~> (~casting[n] \/ Gridlock)

\* Every message taken off a connection is handled, whoever broadcasts and
\* pings, unless readers wait for each other in such a circle.
MessagesGetHandled ==
    \A l \in Link : (reader[l] # "decode") ~> (reader[l] = "decode" \/ Gridlock)

=============================================================================
