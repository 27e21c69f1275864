---------------------------- MODULE BtngNetwork ----------------------------
(***************************************************************************)
(* The peer-to-peer layer of network/network.go: several Network objects,  *)
(* the goroutines each of them runs (one acceptLoop per Start, one         *)
(* readLoop per peer, the caller of a Connect, a caller of Send) and the   *)
(* TCP connections between them.                                           *)
(*                                                                         *)
(* One step is one critical section of n.mutex or one call on a            *)
(* connection, so that everything the code reads under a lock and uses     *)
(* after the unlock can change in between.                                 *)
(*                                                                         *)
(* Abstractions.  A connection is an element of Conn, one per call of      *)
(* Connect; its two ends stand for the net.Conn, and for the Peer struct   *)
(* that wraps it, on each side.  A peer ID is random and never reused, so  *)
(* the end itself is the ID.  Message payloads, LastSeen, Version and      *)
(* BlockHeight are left out.  A write does not block here: the blocking    *)
(* one is the subject of module BroadcastLocks.                            *)
(***************************************************************************)
EXTENDS Naturals, Sequences, FiniteSets

CONSTANTS
    Node,        \* the Network objects
    Conn,        \* the calls of Connect
    From,        \* From[c]: the node that makes the call c
    To,          \* To[c]: the node that listens on the address c dials
    MaxStarts,   \* bound: MaxStarts[n] is how often the Start of n succeeds
    MaxSends     \* bound: how many Send and Broadcast calls the users make

ASSUME NetworkAssumption ==
    /\ From \in [Conn -> Node]
    /\ To \in [Conn -> Node]
    /\ MaxStarts \in [Node -> Nat]
    /\ MaxSends \in Nat

End == Conn \X {"out", "in"}          \* dialled end, accepted end
Out(c) == <<c, "out">>
In(c) == <<c, "in">>
Other(e) == IF e[2] = "out" THEN In(e[1]) ELSE Out(e[1])
Owner(e) == IF e[2] = "out" THEN From[e[1]] ELSE To[e[1]]

\* <<n, g>>: the listener that the g-th Start of n opened
Listener == UNION {{n} \X (1..MaxStarts[n]) : n \in Node}

Kind == {"handshake", "ping", "pong", "block"}
Status == {"none", "connecting", "connected", "disconnected"}
LoopPC == {"none", "accept", "failed", "register", "lookup", "greet", "spawn", "exited"}
CallPC == {"idle", "dial", "register", "lookup", "greet", "undo", "spawn",
           "returned", "refused"}
ReadPC == {"none", "reading", "failed", "ponging", "exited"} \cup Kind

VARIABLES
    isRunning,   \* isRunning[n]: Network.isRunning
    listener,    \* listener[n]: number of the open listener, 0 for nil
    starts,      \* starts[n]: how many times Start has succeeded
    loop,        \* loop[l]: where the acceptLoop goroutine of listener l is
    hold,        \* hold[l]: the connections that goroutine has in hand
    inPeers,     \* inPeers[e]: the peer of end e is in its owner's peers map
    status,      \* status[e]: Peer.Status, "none" before registerPeer
    fd,          \* fd[e]: the socket: "none", "backlog", "open" or "closed"
    via,         \* via[c]: number of the listener whose backlog c entered
    stream,      \* stream[e]: messages written to e and not yet decoded
    reader,      \* reader[e]: where the readLoop goroutine of e is
    call,        \* call[c]: where the goroutine inside Connect c is
    sending,     \* sending[e]: a user's Send has looked e up and not written
    sends,       \* how many user sends have begun
    greeted      \* greeted[e]: history, e's handshake reached the other end

netVars == <<isRunning, listener, starts, loop, hold>>
peerVars == <<inPeers, status>>
wireVars == <<fd, via, stream, greeted>>
userVars == <<sending, sends>>
vars == <<isRunning, listener, starts, loop, hold, inPeers, status, fd, via,
          stream, reader, call, sending, sends, greeted>>

TypeOK ==
    /\ isRunning \in [Node -> BOOLEAN]
    /\ listener \in [Node -> Nat]
    /\ starts \in [Node -> Nat]
    /\ \A n \in Node : listener[n] <= starts[n] /\ starts[n] <= MaxStarts[n]
    /\ loop \in [Listener -> LoopPC]
    /\ hold \in [Listener -> SUBSET Conn]
    /\ inPeers \in [End -> BOOLEAN]
    /\ status \in [End -> Status]
    /\ fd \in [End -> {"none", "backlog", "open", "closed"}]
    /\ via \in [Conn -> Nat]
    /\ stream \in [End -> Seq(Kind)]
    /\ reader \in [End -> ReadPC]
    /\ call \in [Conn -> CallPC]
    /\ sending \in [End -> BOOLEAN]
    /\ sends \in 0..MaxSends
    /\ greeted \in [End -> BOOLEAN]

Init ==
    /\ isRunning = [n \in Node |-> FALSE]
    /\ listener = [n \in Node |-> 0]
    /\ starts = [n \in Node |-> 0]
    /\ loop = [l \in Listener |-> "none"]
    /\ hold = [l \in Listener |-> {}]
    /\ inPeers = [e \in End |-> FALSE]
    /\ status = [e \in End |-> "none"]
    /\ fd = [e \in End |-> "none"]
    /\ via = [c \in Conn |-> 0]
    /\ stream = [e \in End |-> << >>]
    /\ reader = [e \in End |-> "none"]
    /\ call = [c \in Conn |-> "idle"]
    /\ sending = [e \in End |-> FALSE]
    /\ sends = 0
    /\ greeted = [e \in End |-> FALSE]

-----------------------------------------------------------------------------
(* Send, network.go:245-283.  Its map lookup is one critical section; the  *)
(* status test and the write that follow run without the lock, and are one *)
(* step here.                                                              *)

\* Send does not refuse the peer e on its status.
Sendable(e) == status[e] \in {"connected", "connecting"}

\* The write on e returns nil: the message is on its way, or is lost because
\* the remote end is already closed and this side has not learnt of it.
WriteOK(e, kind) ==
    /\ Sendable(e)
    /\ fd[e] = "open"
    /\ stream' = IF fd[Other(e)] = "closed" THEN stream
                 ELSE [stream EXCEPT ![Other(e)] = Append(@, kind)]
    /\ greeted' = IF kind = "handshake" /\ fd[Other(e)] # "closed"
                  THEN [greeted EXCEPT ![e] = TRUE] ELSE greeted

\* The status test or the write fails and Send returns an error.
WriteFails(e) ==
    /\ \/ ~Sendable(e)
       \/ fd[e] = "closed"
       \/ fd[Other(e)] = "closed"
    /\ UNCHANGED <<stream, greeted>>

\* Mutant: the peer counts as connected before the other side has spoken.
RegisterConnected(e) ==
    /\ inPeers' = [inPeers EXCEPT ![e] = TRUE]
    /\ status' = [status EXCEPT ![e] = "connected"]

\* Inside registerPeer's critical section.
Register(e) ==
    /\ inPeers' = [inPeers EXCEPT ![e] = TRUE]
    /\ status' = [status EXCEPT ![e] = "connecting"]

-----------------------------------------------------------------------------
(* Start and Stop: one critical section each.                              *)

Start(n) ==
    /\ ~isRunning[n]
    /\ starts[n] < MaxStarts[n]
    /\ starts' = [starts EXCEPT ![n] = @ + 1]
    /\ listener' = [listener EXCEPT ![n] = starts[n] + 1]
    /\ isRunning' = [isRunning EXCEPT ![n] = TRUE]
    /\ loop' = [loop EXCEPT ![<<n, starts[n] + 1>>] = "accept"]
    /\ UNCHANGED <<hold, reader, call, peerVars, wireVars, userVars>>

\* Closing the listener resets the connections waiting in its backlog.
Stop(n) ==
    /\ isRunning[n]
    /\ isRunning' = [isRunning EXCEPT ![n] = FALSE]
    /\ listener' = [listener EXCEPT ![n] = 0]
    /\ fd' = [e \in End |->
                IF Owner(e) = n /\ (inPeers[e] \/ fd[e] = "backlog")
                THEN "closed" ELSE fd[e]]
    /\ status' = [e \in End |->
                    IF Owner(e) = n /\ inPeers[e] THEN "disconnected" ELSE status[e]]
    /\ UNCHANGED <<starts, loop, hold, inPeers, via, stream, greeted, reader, call,
                   userVars>>

-----------------------------------------------------------------------------
(* Connect, network.go:155-184.                                            *)

\* The test under RLock.  An accepted peer's address is the remote side's
\* ephemeral port, so only dialled peers can match the address.
AlreadyConnected(c) ==
    \E d \in Conn : /\ From[d] = From[c]
                    /\ To[d] = To[c]
                    /\ inPeers[Out(d)]
                    /\ status[Out(d)] = "connected"

ConnectCheck(c) ==
    /\ call[c] = "idle"
    /\ call' = [call EXCEPT ![c] = IF AlreadyConnected(c) THEN "refused" ELSE "dial"]
    /\ UNCHANGED <<reader, netVars, peerVars, wireVars, userVars>>

\* The kernel completes the TCP handshake as soon as somebody listens.
ConnectDial(c) ==
    /\ call[c] = "dial"
    /\ listener[To[c]] # 0
    /\ via' = [via EXCEPT ![c] = listener[To[c]]]
    /\ fd' = [fd EXCEPT ![Out(c)] = "open", ![In(c)] = "backlog"]
    /\ call' = [call EXCEPT ![c] = "register"]
    /\ UNCHANGED <<stream, greeted, reader, netVars, peerVars, userVars>>

\* Refused, or DialTimeout's ten seconds are over.
ConnectDialFails(c) ==
    /\ call[c] = "dial"
    /\ call' = [call EXCEPT ![c] = "refused"]
    /\ UNCHANGED <<reader, netVars, peerVars, wireVars, userVars>>

ConnectRegister(c) ==
    /\ call[c] = "register"
    /\ Register(Out(c))
    /\ call' = [call EXCEPT ![c] = "lookup"]
    /\ UNCHANGED <<reader, netVars, wireVars, userVars>>

\* sendHandshake: Send's lookup, then its write.
ConnectLookup(c) ==
    /\ call[c] = "lookup"
    /\ call' = [call EXCEPT ![c] = IF inPeers[Out(c)] THEN "greet" ELSE "undo"]
    /\ UNCHANGED <<reader, netVars, peerVars, wireVars, userVars>>

ConnectGreet(c) ==
    /\ call[c] = "greet"
    /\ \/ /\ WriteOK(Out(c), "handshake")
          /\ call' = [call EXCEPT ![c] = "spawn"]
       \/ /\ WriteFails(Out(c))
          /\ call' = [call EXCEPT ![c] = "undo"]
    /\ UNCHANGED <<reader, fd, via, netVars, peerVars, userVars>>

\* The handshake failed: removePeer, and Connect returns the error.
ConnectUndo(c) ==
    /\ call[c] = "undo"
    /\ call' = [call EXCEPT ![c] = "refused"]
    /\ fd' = [fd EXCEPT ![Out(c)] = IF inPeers[Out(c)] THEN "closed" ELSE @]
    /\ inPeers' = [inPeers EXCEPT ![Out(c)] = FALSE]
    /\ UNCHANGED <<status, via, stream, greeted, reader, netVars, userVars>>

ConnectSpawn(c) ==
    /\ call[c] = "spawn"
    /\ call' = [call EXCEPT ![c] = "returned"]
    /\ reader' = [reader EXCEPT ![Out(c)] = "reading"]
    /\ UNCHANGED <<netVars, peerVars, wireVars, userVars>>

-----------------------------------------------------------------------------
(* acceptLoop(ln), network.go:358-382, for the listener l.                 *)

Accept(l, c) ==
    /\ loop[l] = "accept"
    /\ To[c] = l[1] /\ via[c] = l[2]
    /\ fd[In(c)] = "backlog"
    /\ fd' = [fd EXCEPT ![In(c)] = "open"]
    /\ hold' = [hold EXCEPT ![l] = {c}]
    /\ loop' = [loop EXCEPT ![l] = "register"]
    /\ UNCHANGED <<isRunning, listener, starts, via, stream, greeted, reader, call,
                   peerVars, userVars>>

\* Accept on a closed listener returns an error.
AcceptFails(l) ==
    /\ loop[l] = "accept"
    /\ listener[l[1]] # l[2]
    /\ loop' = [loop EXCEPT ![l] = "failed"]
    /\ UNCHANGED <<isRunning, listener, starts, hold, reader, call, peerVars,
                   wireVars, userVars>>

\* Mutant: the error of Accept is always taken for a temporary one.
AcceptCheckIgnoresStop(l) ==
    /\ loop[l] = "failed"
    /\ loop' = [loop EXCEPT ![l] = "accept"]
    /\ UNCHANGED <<isRunning, listener, starts, hold, reader, call, peerVars,
                   wireVars, userVars>>

\* isRunning, and not the listener, decides whether the loop goes on.
AcceptCheck(l) ==
    /\ loop[l] = "failed"
    /\ loop' = [loop EXCEPT ![l] = IF isRunning[l[1]] THEN "accept" ELSE "exited"]
    /\ UNCHANGED <<isRunning, listener, starts, hold, reader, call, peerVars,
                   wireVars, userVars>>

AcceptRegister(l) ==
    /\ loop[l] = "register"
    /\ \E c \in hold[l] : Register(In(c))
    /\ loop' = [loop EXCEPT ![l] = "lookup"]
    /\ UNCHANGED <<isRunning, listener, starts, hold, reader, call, wireVars, userVars>>

\* Mutant: only a peer that has been heard of is greeted.
AcceptLookupConnected(l) ==
    /\ loop[l] = "lookup"
    /\ \E c \in hold[l] :
          loop' = [loop EXCEPT ![l] =
                     IF inPeers[In(c)] /\ status[In(c)] = "connected" THEN "greet" ELSE "spawn"]
    /\ UNCHANGED <<isRunning, listener, starts, hold, reader, call, peerVars,
                   wireVars, userVars>>

\* sendHandshake; acceptLoop ignores its error.
AcceptLookup(l) ==
    /\ loop[l] = "lookup"
    /\ \E c \in hold[l] :
          loop' = [loop EXCEPT ![l] = IF inPeers[In(c)] THEN "greet" ELSE "spawn"]
    /\ UNCHANGED <<isRunning, listener, starts, hold, reader, call, peerVars,
                   wireVars, userVars>>

AcceptGreet(l) ==
    /\ loop[l] = "greet"
    /\ \E c \in hold[l] : WriteOK(In(c), "handshake") \/ WriteFails(In(c))
    /\ loop' = [loop EXCEPT ![l] = "spawn"]
    /\ UNCHANGED <<isRunning, listener, starts, hold, fd, via, reader, call,
                   peerVars, userVars>>

AcceptSpawn(l) ==
    /\ loop[l] = "spawn"
    /\ \E c \in hold[l] : reader' = [reader EXCEPT ![In(c)] = "reading"]
    /\ hold' = [hold EXCEPT ![l] = {}]
    /\ loop' = [loop EXCEPT ![l] = "accept"]
    /\ UNCHANGED <<isRunning, listener, starts, call, peerVars, wireVars, userVars>>

-----------------------------------------------------------------------------
(* readLoop and handleMessage, network.go:385-436.                         *)

\* Mutant: a new decoder per message, which loses what the last had read ahead.
DecodeAfresh(e) ==
    /\ reader[e] = "reading"
    /\ stream[e] # << >>
    /\ reader' = [reader EXCEPT ![e] = Head(stream[e])]
    /\ stream' = [stream EXCEPT ![e] = << >>]
    /\ UNCHANGED <<fd, via, greeted, call, netVars, peerVars, userVars>>

\* The decoder reads ahead: a message that has reached this end can still be
\* decoded after the end is closed.
Decode(e) ==
    /\ reader[e] = "reading"
    /\ stream[e] # << >>
    /\ reader' = [reader EXCEPT ![e] = Head(stream[e])]
    /\ stream' = [stream EXCEPT ![e] = Tail(@)]
    /\ UNCHANGED <<fd, via, greeted, call, netVars, peerVars, userVars>>

\* A close, here or at the other end, makes the decoder fail; data that is
\* still under way may be lost with it.
DecodeFails(e) ==
    /\ reader[e] = "reading"
    /\ fd[e] = "closed" \/ fd[Other(e)] = "closed"
    /\ reader' = [reader EXCEPT ![e] = "failed"]
    /\ UNCHANGED <<call, netVars, peerVars, wireVars, userVars>>

\* Mutant: the goroutine ends without recording that the peer is gone.
ReadLoopExitSilent(e) ==
    /\ reader[e] = "failed"
    /\ reader' = [reader EXCEPT ![e] = "exited"]
    /\ UNCHANGED <<call, netVars, peerVars, wireVars, userVars>>

ReadLoopExit(e) ==
    /\ reader[e] = "failed"
    /\ reader' = [reader EXCEPT ![e] = "exited"]
    /\ status' = [status EXCEPT ![e] = IF inPeers[e] THEN "disconnected" ELSE @]
    /\ UNCHANGED <<inPeers, call, netVars, wireVars, userVars>>

\* Mutant: the handler stores its peer instead of looking it up.
HandleHandshakeStores(e) ==
    /\ reader[e] = "handshake"
    /\ reader' = [reader EXCEPT ![e] = "reading"]
    /\ status' = [status EXCEPT ![e] = "connected"]
    /\ inPeers' = [inPeers EXCEPT ![e] = TRUE]
    /\ UNCHANGED <<call, netVars, wireVars, userVars>>

HandleHandshake(e) ==
    /\ reader[e] = "handshake"
    /\ reader' = [reader EXCEPT ![e] = "reading"]
    /\ status' = [status EXCEPT ![e] = IF inPeers[e] THEN "connected" ELSE @]
    /\ UNCHANGED <<inPeers, call, netVars, wireVars, userVars>>

\* A ping is answered through Send: lookup, then write.
HandlePing(e) ==
    /\ reader[e] = "ping"
    /\ reader' = [reader EXCEPT ![e] = IF inPeers[e] THEN "ponging" ELSE "reading"]
    /\ UNCHANGED <<call, netVars, peerVars, wireVars, userVars>>

SendPong(e) ==
    /\ reader[e] = "ponging"
    /\ WriteOK(e, "pong") \/ WriteFails(e)
    /\ reader' = [reader EXCEPT ![e] = "reading"]
    /\ UNCHANGED <<fd, via, call, netVars, peerVars, userVars>>

\* Any other message only goes to the user's handler.
HandleOther(e) ==
    /\ reader[e] \in {"pong", "block"}
    /\ reader' = [reader EXCEPT ![e] = "reading"]
    /\ UNCHANGED <<call, netVars, peerVars, wireVars, userVars>>

-----------------------------------------------------------------------------
(* The users' Disconnect, Send and Broadcast.                              *)

\* Mutant: the entry is deleted and the connection left open.
DisconnectOnlyDeletes(e) ==
    /\ inPeers[e]
    /\ inPeers' = [inPeers EXCEPT ![e] = FALSE]
    /\ UNCHANGED <<status, reader, call, netVars, wireVars, userVars>>

Disconnect(e) ==
    /\ inPeers[e]
    /\ fd' = [fd EXCEPT ![e] = "closed"]
    /\ status' = [status EXCEPT ![e] = "disconnected"]
    /\ inPeers' = [inPeers EXCEPT ![e] = FALSE]
    /\ UNCHANGED <<via, stream, greeted, reader, call, netVars, userVars>>

SendLookup(e) ==
    /\ sends < MaxSends
    /\ inPeers[e]
    /\ ~sending[e]
    /\ sending' = [sending EXCEPT ![e] = TRUE]
    /\ sends' = sends + 1
    /\ UNCHANGED <<reader, call, netVars, peerVars, wireVars>>

SendWrite(e) ==
    /\ sending[e]
    /\ WriteOK(e, "ping") \/ WriteFails(e)
    /\ sending' = [sending EXCEPT ![e] = FALSE]
    /\ UNCHANGED <<sends, fd, via, reader, call, netVars, peerVars>>

\* Broadcast holds the read lock over all its writes, so no status and no
\* entry of the map changes between them.
BroadcastTargets(n) ==
    {e \in End : Owner(e) = n /\ inPeers[e] /\ status[e] = "connected"}

Broadcast(n) ==
    /\ sends < MaxSends
    /\ sends' = sends + 1
    /\ stream' = [e \in End |->
                    IF /\ Other(e) \in BroadcastTargets(n)
                       /\ fd[Other(e)] = "open"
                       /\ fd[e] # "closed"
                    THEN Append(stream[e], "block") ELSE stream[e]]
    /\ UNCHANGED <<fd, via, greeted, sending, reader, call, netVars, peerVars>>

-----------------------------------------------------------------------------
ConnectStep(c) ==
    \/ ConnectDial(c) \/ ConnectDialFails(c) \/ ConnectRegister(c)
    \/ ConnectLookup(c) \/ ConnectGreet(c) \/ ConnectUndo(c) \/ ConnectSpawn(c)

AcceptStep(l) ==
    \/ \E c \in Conn : Accept(l, c)
    \/ AcceptFails(l) \/ AcceptCheck(l) \/ AcceptRegister(l)
    \/ AcceptLookup(l) \/ AcceptGreet(l) \/ AcceptSpawn(l)

ReadStep(e) ==
    \/ Decode(e) \/ DecodeFails(e) \/ ReadLoopExit(e)
    \/ HandleHandshake(e) \/ HandlePing(e) \/ SendPong(e) \/ HandleOther(e)

UserStep ==
    \/ \E n \in Node : Start(n) \/ Stop(n) \/ Broadcast(n)
    \/ \E c \in Conn : ConnectCheck(c)
    \/ \E e \in End : Disconnect(e) \/ SendLookup(e) \/ SendWrite(e)

Next ==
    \/ UserStep
    \/ \E c \in Conn : ConnectStep(c)
    \/ \E l \in Listener : AcceptStep(l)
    \/ \E e \in End : ReadStep(e)

Spec == Init /\ [][Next]_vars

\* Goroutines that can run do run; nobody has to call Start, Stop, Connect,
\* Disconnect, Send or Broadcast.
Fairness ==
    /\ \A c \in Conn : WF_vars(ConnectStep(c))
    /\ \A l \in Listener : WF_vars(AcceptStep(l))
    /\ \A e \in End : WF_vars(ReadStep(e))

FairSpec == Spec /\ Fairness

-----------------------------------------------------------------------------
(* Properties.                                                             *)

\* registerPeer has run for e and the entry is gone again.
Removed(e) == status[e] # "none" /\ ~inPeers[e]

Listed(e) == inPeers[e] /\ status[e] = "connected"     \* in GetConnectedPeers

\* A peer is marked Connected only by its handshake: whatever the order of
\* Connect, accept, Stop and Disconnect on both sides, the other end of the
\* connection has registered its peer and written to it (handleMessage, 415-421).
ConnectedMeansGreeted ==
    \A e \in End : status[e] = "connected" => greeted[Other(e)]

\* Nobody is left listed as connected with no goroutine to notice the end of
\* the connection: a Connected entry always has a running readLoop (385-397).
ConnectedHasReader ==
    \A e \in End : Listed(e) => reader[e] \notin {"none", "exited"}

\* When both ends are registered and open, both handshakes were written and
\* nothing is under way, both sides list each other: no interleaving of
\* accept, register, greet and decode loses a handshake (371-380, 170-181).
HandshakeNotLost ==
    \A c \in Conn :
        (\A e \in {Out(c), In(c)} :
            /\ inPeers[e] /\ fd[e] = "open" /\ greeted[e]
            /\ reader[e] = "reading" /\ stream[e] = << >>)
        => Listed(Out(c)) /\ Listed(In(c))

\* A peer that Disconnect or removePeer took out of the map is never put back
\* by a goroutine that still holds its pointer (197-201, 392, 416).
RemovedForever ==
    [][\A e \in End : Removed(e) => Removed(e)']_vars

\* Once a peer is removed nothing more is written on its connection, not even
\* by a Send that looked it up before the removal (247-249, then 281).
RemovedIsSilent ==
    [][\A e \in End : Removed(e) =>
          Len(stream'[Other(e)]) <= Len(stream[Other(e)])]_vars

\* A peer whose connection is closed, at either end, does not stay listed as
\* connected: its readLoop finds out (390-396).
ClosedPeersGetUnlisted ==
    \A e \in End :
        (Listed(e) /\ (fd[e] = "closed" \/ fd[Other(e)] = "closed")) ~> ~Listed(e)

\* A Connect that returned a peer is answered: the peer becomes Connected,
\* unless somebody on either side ends the connection (170-183, 371-380).
HandshakeCompletes ==
    \A c \in Conn :
        (call[c] = "returned")
            ~> (status[Out(c)] \in {"connected", "disconnected"} \/ ~inPeers[Out(c)])

\* The accept loops of a node that is stopped for good all end (362-367).
StoppedLoopsExit ==
    \A n \in Node :
        <>[](~isRunning[n]) =>
            <>[](\A l \in Listener : l[1] = n => loop[l] \in {"none", "exited"})

(* The inductive invariant behind the safety properties.                   *)

\* A handshake is under way to e and not decoded yet.
InStream(e) == \E i \in 1..Len(stream[e]) : stream[e][i] = "handshake"

\* Whatever e shows of a handshake, the other end has written it ...
HandshakeSource ==
    \A e \in End :
        (status[e] = "connected" \/ reader[e] = "handshake" \/ InStream(e))
            => greeted[Other(e)]

\* ... and what was written is under way, in hand, recorded or obsolete.
HandshakePending ==
    \A e \in End :
        greeted[Other(e)] =>
            \/ InStream(e)
            \/ reader[e] = "handshake"
            \/ status[e] \in {"connected", "disconnected"}
            \/ Removed(e)

\* A peer that left the map is closed; one that is down and open has lost its
\* readLoop; a readLoop and a map entry belong to a registered peer.
PeerLife ==
    \A e \in End :
        /\ Removed(e) => fd[e] = "closed"
        /\ status[e] = "disconnected" => fd[e] = "closed" \/ reader[e] = "exited"
        /\ reader[e] # "none" => status[e] # "none"
        /\ inPeers[e] => status[e] # "none"

\* How far a Connect has come tells what exists of its connection.
CallLife ==
    \A c \in Conn :
        /\ call[c] \in {"idle", "dial"} => fd[Out(c)] = "none" /\ fd[In(c)] = "none"
        /\ call[c] \in {"idle", "dial", "register"} => status[Out(c)] = "none"
        /\ call[c] \in {"lookup", "greet", "undo", "spawn"} =>
              status[Out(c)] # "none" /\ reader[Out(c)] = "none"

\* So does the accept loop that has a connection in hand, and only one has it.
HoldLife ==
    /\ \A c \in Conn : fd[In(c)] \in {"none", "backlog"} => status[In(c)] = "none"
    /\ \A l \in Listener : \A c \in hold[l] :
          /\ fd[In(c)] \notin {"none", "backlog"}
          /\ reader[In(c)] = "none"
          /\ \A d \in hold[l] : d = c
          /\ \A m \in Listener : c \in hold[m] => m = l
          /\ loop[l] = "register" => status[In(c)] = "none"
          /\ loop[l] \in {"lookup", "greet", "spawn"} => status[In(c)] # "none"

\* No interleaving of the goroutines of both sides breaks the bookkeeping of
\* one connection: who holds it, how far it is, what was said on it.
PeerLifecycle ==
    /\ HandshakeSource
    /\ HandshakePending
    /\ ConnectedHasReader
    /\ PeerLife
    /\ CallLife
    /\ HoldLife

(* Two claims of the repository that the code does not keep.               *)

\* network.go:128: "Stop shuts down the network listener and disconnects all
\* peers": a node that is not running has no open connection to a peer that
\* came in through its listener.
StopDisconnectsAll ==
    \A e \in End :
        (e[2] = "in" /\ inPeers[e] /\ fd[e] = "open") => isRunning[Owner(e)]

=============================================================================
