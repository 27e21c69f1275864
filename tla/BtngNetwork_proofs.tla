------------------------- MODULE BtngNetwork_proofs -------------------------
(***************************************************************************)
(* Theorems about BtngNetwork, for every set of nodes and connections.     *)
(***************************************************************************)
EXTENDS BtngNetwork, TLAPS

\* The two ends of a connection are ends, and each is the other's other.
LEMMA EndFacts ==
    /\ \A c \in Conn : Out(c) \in End /\ In(c) \in End
    /\ \A e \in End : Other(e) \in End /\ Other(Other(e)) = e
  BY DEF End, Out, In, Other

\* A write changes the streams and the history variable within their types.
LEMMA WriteType ==
    ASSUME TypeOK, NEW e \in End, NEW kind \in Kind,
           WriteOK(e, kind) \/ WriteFails(e)
    PROVE  /\ stream' \in [End -> Seq(Kind)]
           /\ greeted' \in [End -> BOOLEAN]
<1>1. CASE WriteFails(e)
  BY <1>1 DEF WriteFails, TypeOK
<1>2. CASE WriteOK(e, kind)
  <2>1. Append(stream[Other(e)], kind) \in Seq(Kind)
    BY EndFacts DEF TypeOK
  <2>2. QED  BY <1>2, <2>1, EndFacts DEF WriteOK, TypeOK
<1>3. QED  BY <1>1, <1>2

\* Every step of the users' calls keeps the types.
LEMMA TypeUser ==
    ASSUME NetworkAssumption, TypeOK, UserStep
    PROVE  TypeOK'
<1>1. ASSUME NEW n \in Node, Start(n) PROVE TypeOK'
  <2>1. starts' \in [Node -> Nat] /\ listener' \in [Node -> Nat]
    BY <1>1 DEF TypeOK, Start
  <2>2. \A m \in Node : listener'[m] <= starts'[m] /\ starts'[m] <= MaxStarts[m]
    BY <1>1 DEF NetworkAssumption, TypeOK, Start
  <2>3. isRunning' \in [Node -> BOOLEAN] /\ loop' \in [Listener -> LoopPC]
    BY <1>1 DEF TypeOK, Start, LoopPC
  <2>4. QED
    BY <1>1, <2>1, <2>2, <2>3 DEF TypeOK, Start, peerVars, wireVars, userVars
<1>2. ASSUME NEW n \in Node, Stop(n) PROVE TypeOK'
  BY <1>2 DEF NetworkAssumption, TypeOK, Stop, Status, userVars
<1>3. ASSUME NEW n \in Node, Broadcast(n) PROVE TypeOK'
  <2>1. stream' \in [End -> Seq(Kind)]
    <3>1. "block" \in Kind  BY DEF Kind
    <3>2. QED  BY <1>3, <3>1 DEF TypeOK, Broadcast
  <2>2. sends' \in 0..MaxSends
    BY <1>3 DEF TypeOK, Broadcast, NetworkAssumption
  <2>3. QED  BY <1>3, <2>1, <2>2 DEF TypeOK, Broadcast, netVars, peerVars
<1>4. ASSUME NEW c \in Conn, ConnectCheck(c) PROVE TypeOK'
  BY <1>4 DEF TypeOK, ConnectCheck, CallPC, netVars, peerVars, wireVars, userVars
<1>5. ASSUME NEW e \in End, Disconnect(e) PROVE TypeOK'
  BY <1>5 DEF TypeOK, Disconnect, Status, netVars, userVars
<1>6. ASSUME NEW e \in End, SendLookup(e) PROVE TypeOK'
  <2>1. sends' \in 0..MaxSends
    BY <1>6 DEF TypeOK, SendLookup, NetworkAssumption
  <2>2. QED  BY <1>6, <2>1 DEF TypeOK, SendLookup, netVars, peerVars, wireVars
<1>7. ASSUME NEW e \in End, SendWrite(e) PROVE TypeOK'
  <2>1. stream' \in [End -> Seq(Kind)] /\ greeted' \in [End -> BOOLEAN]
    BY <1>7, WriteType DEF SendWrite, Kind
  <2>2. QED  BY <1>7, <2>1 DEF TypeOK, SendWrite, netVars, peerVars
<1>8. QED
  BY <1>1, <1>2, <1>3, <1>4, <1>5, <1>6, <1>7 DEF UserStep

\* Every step of a Connect keeps the types.
LEMMA TypeConnect ==
    ASSUME NetworkAssumption, TypeOK, NEW c \in Conn, ConnectStep(c)
    PROVE  TypeOK'
<1>1. CASE ConnectDial(c)
  BY <1>1, EndFacts
  DEF NetworkAssumption, TypeOK, ConnectDial, CallPC, netVars, peerVars, userVars
<1>2. CASE ConnectDialFails(c)
  BY <1>2 DEF TypeOK, ConnectDialFails, CallPC, netVars, peerVars, wireVars, userVars
<1>3. CASE ConnectRegister(c)
  BY <1>3, EndFacts
  DEF TypeOK, ConnectRegister, Register, Status, CallPC, netVars, wireVars, userVars
<1>4. CASE ConnectLookup(c)
  BY <1>4 DEF TypeOK, ConnectLookup, CallPC, netVars, peerVars, wireVars, userVars
<1>5. CASE ConnectGreet(c)
  <2>1. stream' \in [End -> Seq(Kind)] /\ greeted' \in [End -> BOOLEAN]
    BY <1>5, WriteType, EndFacts DEF ConnectGreet, Kind
  <2>2. call' \in [Conn -> CallPC]
    BY <1>5 DEF TypeOK, ConnectGreet, CallPC
  <2>3. QED  BY <1>5, <2>1, <2>2 DEF TypeOK, ConnectGreet, netVars, peerVars, userVars
<1>6. CASE ConnectUndo(c)
  BY <1>6, EndFacts DEF TypeOK, ConnectUndo, CallPC, netVars, userVars
<1>7. CASE ConnectSpawn(c)
  BY <1>7, EndFacts
  DEF TypeOK, ConnectSpawn, CallPC, ReadPC, netVars, peerVars, wireVars, userVars
<1>8. QED
  BY <1>1, <1>2, <1>3, <1>4, <1>5, <1>6, <1>7 DEF ConnectStep

\* Every step of an accept loop keeps the types.
LEMMA TypeAccept ==
    ASSUME NetworkAssumption, TypeOK, NEW l \in Listener, AcceptStep(l)
    PROVE  TypeOK'
<1>0. \A c \in hold[l] : c \in Conn /\ In(c) \in End
  BY EndFacts DEF TypeOK
<1>1. ASSUME NEW c \in Conn, Accept(l, c) PROVE TypeOK'
  BY <1>1, EndFacts DEF TypeOK, Accept, LoopPC, peerVars, userVars
<1>2. CASE AcceptFails(l)
  BY <1>2 DEF TypeOK, AcceptFails, LoopPC, peerVars, wireVars, userVars
<1>3. CASE AcceptCheck(l)
  BY <1>3 DEF TypeOK, AcceptCheck, LoopPC, peerVars, wireVars, userVars
<1>4. CASE AcceptRegister(l)
  BY <1>4, <1>0 DEF TypeOK, AcceptRegister, Register, Status, LoopPC, wireVars, userVars
<1>5. CASE AcceptLookup(l)
  BY <1>5 DEF TypeOK, AcceptLookup, LoopPC, peerVars, wireVars, userVars
<1>6. CASE AcceptGreet(l)
  <2>1. stream' \in [End -> Seq(Kind)] /\ greeted' \in [End -> BOOLEAN]
    BY <1>6, <1>0, WriteType DEF AcceptGreet, Kind
  <2>2. QED  BY <1>6, <2>1 DEF TypeOK, AcceptGreet, LoopPC, peerVars, userVars
<1>7. CASE AcceptSpawn(l)
  BY <1>7, <1>0 DEF TypeOK, AcceptSpawn, LoopPC, ReadPC, peerVars, wireVars, userVars
<1>8. QED
  BY <1>1, <1>2, <1>3, <1>4, <1>5, <1>6, <1>7 DEF AcceptStep

\* Every step of a read loop keeps the types.
LEMMA TypeRead ==
    ASSUME NetworkAssumption, TypeOK, NEW e \in End, ReadStep(e)
    PROVE  TypeOK'
<1>1. CASE Decode(e)
  <2>1. Head(stream[e]) \in Kind /\ Tail(stream[e]) \in Seq(Kind)
    BY <1>1 DEF TypeOK, Decode
  <2>2. reader' \in [End -> ReadPC] /\ stream' \in [End -> Seq(Kind)]
    BY <1>1, <2>1 DEF TypeOK, Decode, ReadPC
  <2>3. QED  BY <1>1, <2>2 DEF TypeOK, Decode, netVars, peerVars, userVars
<1>2. CASE DecodeFails(e)
  BY <1>2 DEF TypeOK, DecodeFails, ReadPC, netVars, peerVars, wireVars, userVars
<1>3. CASE ReadLoopExit(e)
  BY <1>3 DEF TypeOK, ReadLoopExit, ReadPC, Status, netVars, wireVars, userVars
<1>4. CASE HandleHandshake(e)
  BY <1>4 DEF TypeOK, HandleHandshake, ReadPC, Status, netVars, wireVars, userVars
<1>5. CASE HandlePing(e)
  BY <1>5 DEF TypeOK, HandlePing, ReadPC, netVars, peerVars, wireVars, userVars
<1>6. CASE SendPong(e)
  <2>1. stream' \in [End -> Seq(Kind)] /\ greeted' \in [End -> BOOLEAN]
    BY <1>6, WriteType DEF SendPong, Kind
  <2>2. QED  BY <1>6, <2>1 DEF TypeOK, SendPong, ReadPC, netVars, peerVars, userVars
<1>7. CASE HandleOther(e)
  BY <1>7 DEF TypeOK, HandleOther, ReadPC, netVars, peerVars, wireVars, userVars
<1>8. QED
  BY <1>1, <1>2, <1>3, <1>4, <1>5, <1>6, <1>7 DEF ReadStep

\* The variables of a network always have their types (network.go, 43-74).
THEOREM Typing == NetworkAssumption => (Spec => []TypeOK)
<1> SUFFICES ASSUME NetworkAssumption PROVE Spec => []TypeOK
  OBVIOUS
<1>1. Init => TypeOK
  BY DEF Init, TypeOK, NetworkAssumption, LoopPC, CallPC, ReadPC, Status
<1>2. TypeOK /\ [Next]_vars => TypeOK'
  <2>1. ASSUME TypeOK, Next PROVE TypeOK'
    BY <2>1, TypeUser, TypeConnect, TypeAccept, TypeRead DEF Next
  <2>2. ASSUME TypeOK, UNCHANGED vars PROVE TypeOK'
    BY <2>2 DEF TypeOK, vars
  <2>3. QED  BY <2>1, <2>2
<1>3. QED  BY <1>1, <1>2, PTL DEF Spec

-----------------------------------------------------------------------------
(* How the steps move handshakes.                                          *)

\* With the streams as they were, the same handshakes are under way.
LEMMA InStreamUnchanged ==
    ASSUME NEW e, stream' = stream
    PROVE  InStream(e)' <=> InStream(e)
  BY DEF InStream

\* A message appended to a stream leaves those before it in place.
LEMMA InStreamAppend ==
    ASSUME NEW s \in Seq(Kind), NEW kind \in Kind
    PROVE  (\E i \in 1..Len(Append(s, kind)) : Append(s, kind)[i] = "handshake")
             <=> (kind = "handshake" \/ \E i \in 1..Len(s) : s[i] = "handshake")
<1>1. /\ Len(Append(s, kind)) = Len(s) + 1
      /\ Len(s) \in Nat
      /\ \A i \in 1..Len(s) : Append(s, kind)[i] = s[i]
      /\ Append(s, kind)[Len(s) + 1] = kind
  OBVIOUS
<1>2. 1..(Len(s) + 1) = 1..Len(s) \cup {Len(s) + 1}
  BY <1>1
<1>3. QED  BY <1>1, <1>2

\* A write puts a handshake under way, and records it, at its own connection only.
LEMMA WriteEffect ==
    ASSUME TypeOK, NEW e \in End, NEW kind \in Kind,
           WriteOK(e, kind) \/ WriteFails(e), NEW f \in End
    PROVE  /\ InStream(f) => InStream(f)'
           /\ InStream(f)' => InStream(f) \/ greeted'[Other(f)]
           /\ greeted[f] => greeted'[f]
           /\ greeted'[Other(f)] => greeted[Other(f)] \/ InStream(f)'
<1>1. CASE stream' = stream /\ greeted' = greeted
  BY <1>1, InStreamUnchanged
<1>2. CASE /\ stream' = [stream EXCEPT ![Other(e)] = Append(@, kind)]
           /\ fd[Other(e)] # "closed"
           /\ WriteOK(e, kind)
  <2>1. /\ greeted' = IF kind = "handshake" THEN [greeted EXCEPT ![e] = TRUE] ELSE greeted
        /\ Other(e) \in End /\ Other(f) \in End
        /\ Other(Other(e)) = e /\ Other(Other(f)) = f
    BY <1>2, EndFacts DEF WriteOK
  <2>2. CASE f = Other(e)
    <3>1. stream'[f] = Append(stream[f], kind) /\ stream[f] \in Seq(Kind)
      BY <1>2, <2>1, <2>2 DEF TypeOK
    <3>2. InStream(f)' <=> (kind = "handshake" \/ InStream(f))
      BY <3>1, InStreamAppend DEF InStream
    <3>3. QED  BY <2>1, <2>2, <3>2 DEF TypeOK
  <2>3. CASE f # Other(e)
    <3>1. stream'[f] = stream[f]
      BY <1>2, <2>3 DEF TypeOK
    <3>2. InStream(f)' <=> InStream(f)
      BY <3>1 DEF InStream
    <3>3. Other(f) # e
      BY <2>1, <2>3
    <3>4. QED  BY <2>1, <3>2, <3>3 DEF TypeOK
  <2>4. QED  BY <2>2, <2>3
<1>3. QED
  BY <1>1, <1>2 DEF WriteOK, WriteFails

\* Decoding takes a handshake out of a stream only to put it in the loop's hand.
LEMMA DecodeEffect ==
    ASSUME TypeOK, NEW e \in End, Decode(e), NEW f \in End
    PROVE  /\ InStream(f)' => InStream(f)
           /\ InStream(f) => InStream(f)' \/ (f = e /\ reader'[e] = "handshake")
           /\ reader'[e] = "handshake" => InStream(e)
<1>1. /\ stream' = [stream EXCEPT ![e] = Tail(@)]
      /\ reader'[e] = Head(stream[e])
      /\ stream[e] \in Seq(Kind) /\ stream[e] # << >>
  BY DEF Decode, TypeOK
<1>2. /\ Len(stream[e]) \in Nat /\ Len(stream[e]) > 0
      /\ Len(Tail(stream[e])) = Len(stream[e]) - 1
      /\ \A i \in 1..Len(Tail(stream[e])) : Tail(stream[e])[i] = stream[e][i + 1]
      /\ Head(stream[e]) = stream[e][1]
  BY <1>1
<1>3. CASE f = e
  <2>1. stream'[e] = Tail(stream[e])
    BY <1>1 DEF TypeOK
  <2>2. InStream(e)' => InStream(e)
    BY <1>2, <2>1 DEF InStream
  <2>3. ASSUME NEW i \in 1..Len(stream[e]), stream[e][i] = "handshake", i # 1
        PROVE  InStream(e)'
    <3>1. i - 1 \in 1..Len(Tail(stream[e])) /\ Tail(stream[e])[i - 1] = "handshake"
      BY <1>2, <2>3
    <3>2. QED  BY <2>1, <3>1 DEF InStream
  <2>4. InStream(e) => InStream(e)' \/ stream[e][1] = "handshake"
    BY <2>3 DEF InStream
  <2>5. stream[e][1] = "handshake" => InStream(e)
    BY <1>2 DEF InStream
  <2>6. QED  BY <1>1, <1>2, <1>3, <2>2, <2>4, <2>5
<1>4. CASE f # e
  <2>1. stream'[f] = stream[f]
    BY <1>1, <1>4 DEF TypeOK
  <2>2. QED  BY <1>1, <1>2, <1>4, <2>1 DEF InStream
<1>5. QED  BY <1>3, <1>4

\* A broadcast carries no handshake.
LEMMA BroadcastEffect ==
    ASSUME TypeOK, NEW n \in Node, Broadcast(n), NEW f \in End
    PROVE  InStream(f)' <=> InStream(f)
<1>1. stream'[f] = stream[f] \/ stream'[f] = Append(stream[f], "block")
  BY DEF Broadcast
<1>2. stream[f] \in Seq(Kind) /\ "block" \in Kind
  BY DEF TypeOK, Kind
<1>3. QED  BY <1>1, <1>2, InStreamAppend, ZenonT(30) DEF InStream

-----------------------------------------------------------------------------
(* What one step can do to the end f of a connection.                      *)

Effect(f) ==
    /\ InStream(f)' => InStream(f) \/ greeted'[Other(f)]
    /\ reader'[f] = "handshake" => reader[f] = "handshake" \/ InStream(f)
    /\ status'[f] = "connected" => status[f] = "connected" \/ reader[f] = "handshake"
    /\ greeted[Other(f)] => greeted'[Other(f)]
    /\ greeted'[Other(f)] => greeted[Other(f)] \/ InStream(f)'
    /\ InStream(f) => InStream(f)' \/ reader'[f] = "handshake"
    /\ reader[f] = "handshake" =>
          \/ reader'[f] = "handshake"
          \/ status'[f] = "connected"
          \/ Removed(f)'
    /\ status[f] \in {"connected", "disconnected"} =>
          status'[f] \in {"connected", "disconnected"}
    /\ Removed(f) => Removed(f)'

\* A step that leaves the wire, the readLoops and the peers alone has no effect.
LEMMA NoEffect ==
    ASSUME stream' = stream, greeted' = greeted, reader' = reader,
           status' = status, inPeers' = inPeers, NEW f \in End
    PROVE  Effect(f)
  BY InStreamUnchanged DEF Effect, Removed

\* A write touches neither the peers nor a handshake in hand.
LEMMA WriteHasEffect ==
    ASSUME TypeOK, NEW e \in End, NEW kind \in Kind,
           WriteOK(e, kind) \/ WriteFails(e),
           status' = status, inPeers' = inPeers, NEW f \in End,
           reader'[f] = "handshake" <=> reader[f] = "handshake"
    PROVE  Effect(f)
<1>1. Other(f) \in End /\ Other(Other(f)) = f
  BY EndFacts
<1>2. /\ InStream(f) => InStream(f)'
      /\ InStream(f)' => InStream(f) \/ greeted'[Other(f)]
      /\ greeted'[Other(f)] => greeted[Other(f)] \/ InStream(f)'
  BY WriteEffect
<1>3. greeted[Other(f)] => greeted'[Other(f)]
  BY <1>1, WriteEffect
<1>4. QED  BY <1>2, <1>3 DEF Effect, Removed

\* The users' calls.
LEMMA EffectUser ==
    ASSUME TypeOK, PeerLifecycle, UserStep, NEW f \in End
    PROVE  Effect(f)
<1>1. ASSUME NEW n \in Node, Start(n) PROVE Effect(f)
  BY <1>1, NoEffect DEF Start, peerVars, wireVars
<1>2. ASSUME NEW n \in Node, Stop(n) PROVE Effect(f)
  <2>1. InStream(f)' <=> InStream(f)
    BY <1>2, InStreamUnchanged DEF Stop
  <2>2. status'[f] \in {status[f], "disconnected"}
    BY <1>2 DEF Stop
  <2>3. Removed(f) => status'[f] = status[f]
    BY <1>2 DEF Stop, Removed
  <2>4. QED  BY <1>2, <2>1, <2>2, <2>3 DEF Stop, Effect, Removed
<1>3. ASSUME NEW n \in Node, Broadcast(n) PROVE Effect(f)
  <2>1. InStream(f)' <=> InStream(f)
    BY <1>3, BroadcastEffect
  <2>2. QED  BY <1>3, <2>1 DEF Broadcast, peerVars, Effect, Removed
<1>4. ASSUME NEW c \in Conn, ConnectCheck(c) PROVE Effect(f)
  BY <1>4, NoEffect DEF ConnectCheck, peerVars, wireVars
<1>5. ASSUME NEW e \in End, Disconnect(e) PROVE Effect(f)
  <2>1. InStream(f)' <=> InStream(f)
    BY <1>5, InStreamUnchanged DEF Disconnect
  <2>2. CASE f = e
    BY <1>5, <2>1, <2>2 DEF Disconnect, Effect, Removed, TypeOK
  <2>3. CASE f # e
    BY <1>5, <2>1, <2>3 DEF Disconnect, Effect, Removed, TypeOK
  <2>4. QED  BY <2>2, <2>3
<1>6. ASSUME NEW e \in End, SendLookup(e) PROVE Effect(f)
  BY <1>6, NoEffect DEF SendLookup, peerVars, wireVars
<1>7. ASSUME NEW e \in End, SendWrite(e) PROVE Effect(f)
  BY <1>7, WriteHasEffect DEF SendWrite, Kind, peerVars
<1>8. QED
  BY <1>1, <1>2, <1>3, <1>4, <1>5, <1>6, <1>7 DEF UserStep

\* Registering the fresh peer e changes only e, and e had no status yet.
LEMMA RegisterHasEffect ==
    ASSUME TypeOK, PeerLifecycle, NEW e \in End, Register(e), status[e] = "none",
           stream' = stream, greeted' = greeted, reader' = reader, NEW f \in End
    PROVE  Effect(f)
<1>1. InStream(f)' <=> InStream(f)
  BY InStreamUnchanged
<1>2. reader[e] = "none"
  BY DEF PeerLifecycle, PeerLife
<1>3. CASE f = e
  BY <1>1, <1>2, <1>3 DEF Register, Effect, Removed, TypeOK
<1>4. CASE f # e
  BY <1>1, <1>4 DEF Register, Effect, Removed, TypeOK
<1>5. QED  BY <1>3, <1>4

\* Spawning the readLoop of e takes no handshake out of anybody's hand.
LEMMA SpawnHasEffect ==
    ASSUME TypeOK, NEW e \in End, reader[e] = "none",
           reader' = [reader EXCEPT ![e] = "reading"],
           stream' = stream, greeted' = greeted,
           status' = status, inPeers' = inPeers, NEW f \in End
    PROVE  Effect(f)
<1>1. InStream(f)' <=> InStream(f)
  BY InStreamUnchanged
<1>2. QED  BY <1>1 DEF Effect, Removed, TypeOK

\* Connect.
LEMMA EffectConnect ==
    ASSUME TypeOK, PeerLifecycle, NEW c \in Conn, ConnectStep(c), NEW f \in End
    PROVE  Effect(f)
<1>0. Out(c) \in End
  BY EndFacts
<1>1. CASE ConnectDial(c)
  BY <1>1, NoEffect DEF ConnectDial, peerVars
<1>2. CASE ConnectDialFails(c)
  BY <1>2, NoEffect DEF ConnectDialFails, peerVars, wireVars
<1>3. CASE ConnectRegister(c)
  <2>1. status[Out(c)] = "none"
    BY <1>3 DEF ConnectRegister, PeerLifecycle, CallLife
  <2>2. QED  BY <1>0, <1>3, <2>1, RegisterHasEffect DEF ConnectRegister, wireVars
<1>4. CASE ConnectLookup(c)
  BY <1>4, NoEffect DEF ConnectLookup, peerVars, wireVars
<1>5. CASE ConnectGreet(c)
  BY <1>0, <1>5, WriteHasEffect DEF ConnectGreet, Kind, peerVars
<1>6. CASE ConnectUndo(c)
  <2>1. InStream(f)' <=> InStream(f)
    BY <1>6, InStreamUnchanged DEF ConnectUndo
  <2>2. QED
    BY <1>6, <2>1 DEF ConnectUndo, Effect, Removed, TypeOK
<1>7. CASE ConnectSpawn(c)
  <2>1. reader[Out(c)] = "none"
    BY <1>7 DEF ConnectSpawn, PeerLifecycle, CallLife
  <2>2. QED
    BY <1>0, <1>7, <2>1, SpawnHasEffect DEF ConnectSpawn, peerVars, wireVars
<1>8. QED
  BY <1>1, <1>2, <1>3, <1>4, <1>5, <1>6, <1>7 DEF ConnectStep

\* acceptLoop.
LEMMA EffectAccept ==
    ASSUME TypeOK, PeerLifecycle, NEW l \in Listener, AcceptStep(l), NEW f \in End
    PROVE  Effect(f)
<1>0. \A c \in hold[l] : c \in Conn /\ In(c) \in End
  BY EndFacts DEF TypeOK
<1>1. ASSUME NEW c \in Conn, Accept(l, c) PROVE Effect(f)
  BY <1>1, NoEffect DEF Accept, peerVars
<1>2. CASE AcceptFails(l)
  BY <1>2, NoEffect DEF AcceptFails, peerVars, wireVars
<1>3. CASE AcceptCheck(l)
  BY <1>3, NoEffect DEF AcceptCheck, peerVars, wireVars
<1>4. CASE AcceptRegister(l)
  <2>1. PICK c \in hold[l] : Register(In(c))
    BY <1>4 DEF AcceptRegister
  <2>2. status[In(c)] = "none"
    BY <1>4 DEF AcceptRegister, PeerLifecycle, HoldLife
  <2>3. QED  BY <1>0, <1>4, <2>1, <2>2, RegisterHasEffect DEF AcceptRegister, wireVars
<1>5. CASE AcceptLookup(l)
  BY <1>5, NoEffect DEF AcceptLookup, peerVars, wireVars
<1>6. CASE AcceptGreet(l)
  BY <1>0, <1>6, WriteHasEffect DEF AcceptGreet, Kind, peerVars
<1>7. CASE AcceptSpawn(l)
  <2>1. PICK c \in hold[l] : reader' = [reader EXCEPT ![In(c)] = "reading"]
    BY <1>7 DEF AcceptSpawn
  <2>2. reader[In(c)] = "none"
    BY DEF PeerLifecycle, HoldLife
  <2>3. QED
    BY <1>0, <1>7, <2>1, <2>2, SpawnHasEffect DEF AcceptSpawn, peerVars, wireVars
<1>8. QED
  BY <1>1, <1>2, <1>3, <1>4, <1>5, <1>6, <1>7 DEF AcceptStep

\* readLoop and handleMessage.
LEMMA EffectRead ==
    ASSUME TypeOK, PeerLifecycle, NEW e \in End, ReadStep(e), NEW f \in End
    PROVE  Effect(f)
<1>0. reader[e] # "none" => status[e] # "none"
  BY DEF PeerLifecycle, PeerLife
<1>1. CASE Decode(e)
  <2>1. /\ InStream(f)' => InStream(f)
        /\ InStream(f) => InStream(f)' \/ (f = e /\ reader'[e] = "handshake")
        /\ reader'[e] = "handshake" => InStream(e)
    BY <1>1, DecodeEffect
  <2>2. /\ f # e => reader'[f] = reader[f]
        /\ reader[e] = "reading"
    BY <1>1 DEF Decode, TypeOK
  <2>3. status' = status /\ inPeers' = inPeers /\ greeted' = greeted
    BY <1>1 DEF Decode, peerVars
  <2>4. QED  BY <2>1, <2>2, <2>3 DEF Effect, Removed
<1>2. ASSUME stream' = stream PROVE InStream(f)' <=> InStream(f)
  BY <1>2, InStreamUnchanged
<1>3. CASE DecodeFails(e)
  BY <1>2, <1>3 DEF DecodeFails, Effect, Removed, TypeOK, peerVars, wireVars
<1>4. CASE ReadLoopExit(e)
  BY <1>0, <1>2, <1>4 DEF ReadLoopExit, Effect, Removed, TypeOK, wireVars
<1>5. CASE HandleHandshake(e)
  BY <1>0, <1>2, <1>5 DEF HandleHandshake, Effect, Removed, TypeOK, wireVars
<1>6. CASE HandlePing(e)
  BY <1>2, <1>6 DEF HandlePing, Effect, Removed, TypeOK, peerVars, wireVars
<1>7. CASE SendPong(e)
  <2>1. reader'[f] = "handshake" <=> reader[f] = "handshake"
    BY <1>7 DEF SendPong, TypeOK
  <2>2. QED  BY <1>7, <2>1, WriteHasEffect DEF SendPong, Kind, peerVars
<1>8. CASE HandleOther(e)
  BY <1>2, <1>8 DEF HandleOther, Effect, Removed, TypeOK, peerVars, wireVars
<1>9. QED
  BY <1>1, <1>3, <1>4, <1>5, <1>6, <1>7, <1>8 DEF ReadStep

\* Any step.
LEMMA StepEffect ==
    ASSUME TypeOK, PeerLifecycle, [Next]_vars, NEW f \in End
    PROVE  Effect(f)
<1>1. CASE UNCHANGED vars
  BY <1>1, NoEffect DEF vars
<1>2. CASE Next
  BY <1>2, EffectUser, EffectConnect, EffectAccept, EffectRead DEF Next
<1>3. QED  BY <1>1, <1>2

-----------------------------------------------------------------------------
(* The bookkeeping of one end: ConnectedHasReader and PeerLife.            *)

PeerOK(f) ==
    /\ Listed(f) => reader[f] \notin {"none", "exited"}
    /\ Removed(f) => fd[f] = "closed"
    /\ status[f] = "disconnected" => fd[f] = "closed" \/ reader[f] = "exited"
    /\ reader[f] # "none" => status[f] # "none"
    /\ inPeers[f] => status[f] # "none"

\* A step that leaves an end's socket, readLoop and peer alone keeps it in order.
LEMMA PeerOKUnchanged ==
    ASSUME NEW f, PeerOK(f), fd'[f] = fd[f], reader'[f] = reader[f],
           status'[f] = status[f], inPeers'[f] = inPeers[f]
    PROVE  PeerOK(f)'
  BY DEF PeerOK, Listed, Removed

\* The users' calls.
LEMMA PeerOKUser ==
    ASSUME TypeOK, PeerLifecycle, UserStep, NEW f \in End, PeerOK(f)
    PROVE  PeerOK(f)'
<1>1. ASSUME NEW n \in Node, Start(n) PROVE PeerOK(f)'
  BY <1>1, PeerOKUnchanged DEF Start, peerVars, wireVars
<1>2. ASSUME NEW n \in Node, Stop(n) PROVE PeerOK(f)'
  BY <1>2 DEF Stop, PeerOK, Listed, Removed
<1>3. ASSUME NEW n \in Node, Broadcast(n) PROVE PeerOK(f)'
  BY <1>3, PeerOKUnchanged DEF Broadcast, peerVars
<1>4. ASSUME NEW c \in Conn, ConnectCheck(c) PROVE PeerOK(f)'
  BY <1>4, PeerOKUnchanged DEF ConnectCheck, peerVars, wireVars
<1>5. ASSUME NEW e \in End, Disconnect(e) PROVE PeerOK(f)'
  BY <1>5 DEF Disconnect, PeerOK, Listed, Removed, TypeOK
<1>6. ASSUME NEW e \in End, SendLookup(e) PROVE PeerOK(f)'
  BY <1>6, PeerOKUnchanged DEF SendLookup, peerVars, wireVars
<1>7. ASSUME NEW e \in End, SendWrite(e) PROVE PeerOK(f)'
  BY <1>7, PeerOKUnchanged DEF SendWrite, peerVars
<1>8. QED
  BY <1>1, <1>2, <1>3, <1>4, <1>5, <1>6, <1>7 DEF UserStep

\* Connect.
LEMMA PeerOKConnect ==
    ASSUME TypeOK, PeerLifecycle, NEW c \in Conn, ConnectStep(c),
           NEW f \in End, PeerOK(f)
    PROVE  PeerOK(f)'
<1>0. Out(c) \in End /\ In(c) \in End
  BY EndFacts
<1>1. CASE ConnectDial(c)
  <2>1. /\ fd[Out(c)] = "none" /\ fd[In(c)] = "none"
        /\ status[Out(c)] = "none" /\ status[In(c)] = "none"
    BY <1>1 DEF ConnectDial, PeerLifecycle, CallLife, HoldLife
  <2>2. QED
    BY <1>0, <1>1, <2>1 DEF ConnectDial, PeerOK, Listed, Removed, TypeOK, peerVars
<1>2. CASE ConnectDialFails(c)
  BY <1>2, PeerOKUnchanged DEF ConnectDialFails, peerVars, wireVars
<1>3. CASE ConnectRegister(c)
  BY <1>0, <1>3
  DEF ConnectRegister, Register, PeerOK, Listed, Removed, TypeOK, wireVars
<1>4. CASE ConnectLookup(c)
  BY <1>4, PeerOKUnchanged DEF ConnectLookup, peerVars, wireVars
<1>5. CASE ConnectGreet(c)
  BY <1>5, PeerOKUnchanged DEF ConnectGreet, peerVars
<1>6. CASE ConnectUndo(c)
  BY <1>0, <1>6 DEF ConnectUndo, PeerOK, Listed, Removed, TypeOK
<1>7. CASE ConnectSpawn(c)
  <2>1. status[Out(c)] # "none" /\ reader[Out(c)] = "none"
    BY <1>7 DEF ConnectSpawn, PeerLifecycle, CallLife
  <2>2. QED
    BY <1>0, <1>7, <2>1
    DEF ConnectSpawn, PeerOK, Listed, Removed, TypeOK, peerVars, wireVars
<1>8. QED
  BY <1>1, <1>2, <1>3, <1>4, <1>5, <1>6, <1>7 DEF ConnectStep

\* acceptLoop.
LEMMA PeerOKAccept ==
    ASSUME TypeOK, PeerLifecycle, NEW l \in Listener, AcceptStep(l),
           NEW f \in End, PeerOK(f)
    PROVE  PeerOK(f)'
<1>0. \A c \in hold[l] : c \in Conn /\ In(c) \in End
  BY EndFacts DEF TypeOK
<1>1. ASSUME NEW c \in Conn, Accept(l, c) PROVE PeerOK(f)'
  <2>1. fd[In(c)] = "backlog" /\ status[In(c)] = "none" /\ In(c) \in End
    BY <1>1, EndFacts DEF Accept, PeerLifecycle, HoldLife
  <2>2. QED
    BY <1>1, <2>1 DEF Accept, PeerOK, Listed, Removed, TypeOK, peerVars
<1>2. CASE AcceptFails(l)
  BY <1>2, PeerOKUnchanged DEF AcceptFails, peerVars, wireVars
<1>3. CASE AcceptCheck(l)
  BY <1>3, PeerOKUnchanged DEF AcceptCheck, peerVars, wireVars
<1>4. CASE AcceptRegister(l)
  BY <1>0, <1>4
  DEF AcceptRegister, Register, PeerOK, Listed, Removed, TypeOK, wireVars
<1>5. CASE AcceptLookup(l)
  BY <1>5, PeerOKUnchanged DEF AcceptLookup, peerVars, wireVars
<1>6. CASE AcceptGreet(l)
  BY <1>6, PeerOKUnchanged DEF AcceptGreet, peerVars
<1>7. CASE AcceptSpawn(l)
  <2>1. PICK c \in hold[l] : reader' = [reader EXCEPT ![In(c)] = "reading"]
    BY <1>7 DEF AcceptSpawn
  <2>2. reader[In(c)] = "none" /\ status[In(c)] # "none" /\ In(c) \in End
    BY <1>0, <1>7 DEF AcceptSpawn, PeerLifecycle, HoldLife
  <2>3. QED
    BY <1>7, <2>1, <2>2
    DEF AcceptSpawn, PeerOK, Listed, Removed, TypeOK, peerVars, wireVars
<1>8. QED
  BY <1>1, <1>2, <1>3, <1>4, <1>5, <1>6, <1>7 DEF AcceptStep

\* readLoop and handleMessage.
LEMMA PeerOKRead ==
    ASSUME TypeOK, PeerLifecycle, NEW e \in End, ReadStep(e),
           NEW f \in End, PeerOK(f)
    PROVE  PeerOK(f)'
<1>1. CASE Decode(e)
  <2>1. Head(stream[e]) \in Kind
    BY <1>1 DEF Decode, TypeOK
  <2>2. reader'[e] \notin {"none", "exited"}
    BY <1>1, <2>1 DEF Decode, Kind, TypeOK
  <2>3. QED
    BY <1>1, <2>2 DEF Decode, PeerOK, Listed, Removed, TypeOK, peerVars
<1>2. CASE DecodeFails(e)
  BY <1>2 DEF DecodeFails, PeerOK, Listed, Removed, TypeOK, peerVars, wireVars
<1>3. CASE ReadLoopExit(e)
  BY <1>3 DEF ReadLoopExit, PeerOK, Listed, Removed, TypeOK, wireVars
<1>4. CASE HandleHandshake(e)
  BY <1>4 DEF HandleHandshake, PeerOK, Listed, Removed, TypeOK, wireVars
<1>5. CASE HandlePing(e)
  BY <1>5 DEF HandlePing, PeerOK, Listed, Removed, TypeOK, peerVars, wireVars
<1>6. CASE SendPong(e)
  BY <1>6 DEF SendPong, PeerOK, Listed, Removed, TypeOK, peerVars
<1>7. CASE HandleOther(e)
  BY <1>7 DEF HandleOther, PeerOK, Listed, Removed, TypeOK, peerVars, wireVars
<1>8. QED
  BY <1>1, <1>2, <1>3, <1>4, <1>5, <1>6, <1>7 DEF ReadStep

-----------------------------------------------------------------------------
(* The bookkeeping of one call of Connect: CallLife.                       *)

\* No two ends are the same.
LEMMA EndsDistinct ==
    ASSUME NEW c \in Conn, NEW d \in Conn
    PROVE  /\ Out(c) # In(d)
           /\ (Out(c) = Out(d)) <=> (c = d)
           /\ (In(c) = In(d)) <=> (c = d)
  BY DEF Out, In

CallOK(c) ==
    /\ call[c] \in {"idle", "dial"} => fd[Out(c)] = "none" /\ fd[In(c)] = "none"
    /\ call[c] \in {"idle", "dial", "register"} => status[Out(c)] = "none"
    /\ call[c] \in {"lookup", "greet", "undo", "spawn"} =>
          status[Out(c)] # "none" /\ reader[Out(c)] = "none"

\* A step that leaves a call and its connection alone keeps them in order.
LEMMA CallOKUnchanged ==
    ASSUME NEW c, CallOK(c), call'[c] = call[c],
           fd'[Out(c)] = fd[Out(c)], fd'[In(c)] = fd[In(c)],
           status'[Out(c)] = status[Out(c)], reader'[Out(c)] = reader[Out(c)]
    PROVE  CallOK(c)'
  BY DEF CallOK, Out, In

\* The users' calls.
LEMMA CallOKUser ==
    ASSUME TypeOK, PeerLifecycle, UserStep, NEW c \in Conn, CallOK(c)
    PROVE  CallOK(c)'
<1>0. /\ Out(c) \in End /\ In(c) \in End
      /\ inPeers[Out(c)] => status[Out(c)] # "none"
      /\ inPeers[In(c)] => status[In(c)] # "none"
      /\ fd[In(c)] = "none" => status[In(c)] = "none"
  BY EndFacts DEF PeerLifecycle, PeerLife, HoldLife
<1>1. ASSUME NEW n \in Node, Start(n) PROVE CallOK(c)'
  BY <1>1, CallOKUnchanged DEF Start, peerVars, wireVars
<1>2. ASSUME NEW n \in Node, Stop(n) PROVE CallOK(c)'
  <2>1. call[c] \in {"idle", "dial"} => fd'[Out(c)] = "none" /\ fd'[In(c)] = "none"
    BY <1>0, <1>2 DEF Stop, CallOK
  <2>2. /\ status[Out(c)] = "none" => status'[Out(c)] = "none"
        /\ status[Out(c)] # "none" => status'[Out(c)] # "none"
    BY <1>0, <1>2 DEF Stop
  <2>3. call' = call /\ reader' = reader
    BY <1>2 DEF Stop
  <2>4. QED  BY <2>1, <2>2, <2>3 DEF CallOK, Out, In
<1>3. ASSUME NEW n \in Node, Broadcast(n) PROVE CallOK(c)'
  BY <1>3, CallOKUnchanged DEF Broadcast, peerVars
<1>4. ASSUME NEW d \in Conn, ConnectCheck(d) PROVE CallOK(c)'
  BY <1>4 DEF ConnectCheck, CallOK, Out, In, TypeOK, peerVars, wireVars
<1>5. ASSUME NEW e \in End, Disconnect(e) PROVE CallOK(c)'
  <2>1. /\ e = Out(c) => status[Out(c)] # "none"
        /\ e = In(c) => fd[In(c)] # "none"
    BY <1>0, <1>5 DEF Disconnect
  <2>2. /\ fd' = [fd EXCEPT ![e] = "closed"]
        /\ status' = [status EXCEPT ![e] = "disconnected"]
        /\ call' = call /\ reader' = reader
    BY <1>5 DEF Disconnect
  <2>3. /\ call[c] \in {"idle", "dial"} => fd'[Out(c)] = "none" /\ fd'[In(c)] = "none"
        /\ status[Out(c)] = "none" => status'[Out(c)] = "none"
        /\ status[Out(c)] # "none" => status'[Out(c)] # "none"
    BY <1>0, <2>1, <2>2 DEF TypeOK, CallOK
  <2>4. QED  BY <2>2, <2>3 DEF CallOK, Out, In
<1>6. ASSUME NEW e \in End, SendLookup(e) PROVE CallOK(c)'
  BY <1>6, CallOKUnchanged DEF SendLookup, peerVars, wireVars
<1>7. ASSUME NEW e \in End, SendWrite(e) PROVE CallOK(c)'
  BY <1>7, CallOKUnchanged DEF SendWrite, peerVars
<1>8. QED
  BY <1>1, <1>2, <1>3, <1>4, <1>5, <1>6, <1>7 DEF UserStep

\* Connect.
LEMMA CallOKConnect ==
    ASSUME TypeOK, PeerLifecycle, NEW d \in Conn, ConnectStep(d),
           NEW c \in Conn, CallOK(c)
    PROVE  CallOK(c)'
<1>0. /\ Out(c) \in End /\ In(c) \in End /\ Out(d) \in End /\ In(d) \in End
      /\ Out(c) # In(d) /\ In(c) # Out(d)
      /\ (Out(c) = Out(d)) <=> (c = d)
      /\ (In(c) = In(d)) <=> (c = d)
      /\ status[Out(c)] = "none" => reader[Out(c)] = "none"
  BY EndFacts, EndsDistinct DEF PeerLifecycle, PeerLife
<1>1. CASE ConnectDial(d)
  <2>1. CASE c = d
    <3>1. call'[c] = "register" /\ status'[Out(c)] = "none"
      BY <1>1, <2>1 DEF ConnectDial, CallOK, TypeOK, peerVars
    <3>2. QED  BY <3>1 DEF CallOK, Out, In
  <2>2. CASE c # d
    BY <1>0, <1>1, <2>2, CallOKUnchanged DEF ConnectDial, TypeOK, peerVars
  <2>3. QED  BY <2>1, <2>2
<1>2. CASE ConnectDialFails(d)
  BY <1>2 DEF ConnectDialFails, CallOK, Out, In, TypeOK, peerVars, wireVars
<1>3. CASE ConnectRegister(d)
  <2>1. CASE c = d
    <3>1. /\ call'[c] = "lookup" /\ status'[Out(c)] = "connecting"
          /\ reader'[Out(c)] = "none"
      BY <1>0, <1>3, <2>1 DEF ConnectRegister, Register, CallOK, TypeOK
    <3>2. QED  BY <3>1 DEF CallOK, Out, In
  <2>2. CASE c # d
    BY <1>0, <1>3, <2>2, CallOKUnchanged
    DEF ConnectRegister, Register, TypeOK, wireVars
  <2>3. QED  BY <2>1, <2>2
<1>4. CASE ConnectLookup(d)
  BY <1>4 DEF ConnectLookup, CallOK, Out, In, TypeOK, peerVars, wireVars
<1>5. CASE ConnectGreet(d)
  BY <1>5 DEF ConnectGreet, CallOK, Out, In, TypeOK, peerVars
<1>6. CASE ConnectUndo(d)
  <2>1. CASE c = d
    <3>1. call'[c] = "refused"
      BY <1>6, <2>1 DEF ConnectUndo, TypeOK
    <3>2. QED  BY <3>1 DEF CallOK
  <2>2. CASE c # d
    BY <1>0, <1>6, <2>2, CallOKUnchanged DEF ConnectUndo, TypeOK
  <2>3. QED  BY <2>1, <2>2
<1>7. CASE ConnectSpawn(d)
  <2>1. CASE c = d
    <3>1. call'[c] = "returned"
      BY <1>7, <2>1 DEF ConnectSpawn, TypeOK
    <3>2. QED  BY <3>1 DEF CallOK
  <2>2. CASE c # d
    BY <1>0, <1>7, <2>2, CallOKUnchanged DEF ConnectSpawn, TypeOK, peerVars, wireVars
  <2>3. QED  BY <2>1, <2>2
<1>8. QED
  BY <1>1, <1>2, <1>3, <1>4, <1>5, <1>6, <1>7 DEF ConnectStep

\* acceptLoop works on accepted ends only.
LEMMA CallOKAccept ==
    ASSUME TypeOK, PeerLifecycle, NEW l \in Listener, AcceptStep(l),
           NEW c \in Conn, CallOK(c)
    PROVE  CallOK(c)'
<1>0. /\ Out(c) \in End /\ In(c) \in End
      /\ \A d \in hold[l] : d \in Conn /\ In(d) \in End /\ In(d) # Out(c)
  BY EndFacts, EndsDistinct DEF TypeOK
<1>1. ASSUME NEW d \in Conn, Accept(l, d) PROVE CallOK(c)'
  <2>1. /\ fd[In(d)] = "backlog" /\ fd' = [fd EXCEPT ![In(d)] = "open"]
        /\ call' = call /\ status' = status /\ reader' = reader
    BY <1>1 DEF Accept, peerVars
  <2>2. /\ fd'[Out(c)] = fd[Out(c)]
        /\ fd[In(c)] = "none" => fd'[In(c)] = "none"
    BY <1>0, <2>1, EndFacts, EndsDistinct DEF TypeOK
  <2>3. QED  BY <2>1, <2>2 DEF CallOK, Out, In
<1>2. CASE AcceptFails(l)
  BY <1>2, CallOKUnchanged DEF AcceptFails, peerVars, wireVars
<1>3. CASE AcceptCheck(l)
  BY <1>3, CallOKUnchanged DEF AcceptCheck, peerVars, wireVars
<1>4. CASE AcceptRegister(l)
  BY <1>0, <1>4, CallOKUnchanged DEF AcceptRegister, Register, TypeOK, wireVars
<1>5. CASE AcceptLookup(l)
  BY <1>5, CallOKUnchanged DEF AcceptLookup, peerVars, wireVars
<1>6. CASE AcceptGreet(l)
  BY <1>6, CallOKUnchanged DEF AcceptGreet, peerVars
<1>7. CASE AcceptSpawn(l)
  BY <1>0, <1>7, CallOKUnchanged DEF AcceptSpawn, TypeOK, peerVars, wireVars
<1>8. QED
  BY <1>1, <1>2, <1>3, <1>4, <1>5, <1>6, <1>7 DEF AcceptStep

\* A readLoop runs on ends whose Connect has gone past its own steps.
LEMMA CallOKRead ==
    ASSUME TypeOK, PeerLifecycle, NEW e \in End, ReadStep(e),
           NEW c \in Conn, CallOK(c)
    PROVE  CallOK(c)'
<1>1. reader[e] # "none" /\ status[e] # "none"
  <2>1. reader[e] # "none"
    BY DEF ReadStep, Decode, DecodeFails, ReadLoopExit, HandleHandshake, HandlePing,
           SendPong, HandleOther
  <2>2. QED  BY <2>1 DEF PeerLifecycle, PeerLife
<1>2. /\ call' = call /\ fd' = fd
      /\ \A f \in End : f # e => status'[f] = status[f] /\ reader'[f] = reader[f]
  BY DEF ReadStep, Decode, DecodeFails, ReadLoopExit, HandleHandshake, HandlePing,
         SendPong, HandleOther, TypeOK, peerVars, wireVars
<1>3. Out(c) \in End
  BY EndFacts
<1>4. CASE e = Out(c)
  <2>1. call[c] \notin {"idle", "dial", "register", "lookup", "greet", "undo", "spawn"}
    BY <1>1, <1>4 DEF CallOK
  <2>2. QED  BY <1>2, <2>1 DEF CallOK
<1>5. CASE e # Out(c)
  BY <1>2, <1>3, <1>5, CallOKUnchanged
<1>6. QED  BY <1>4, <1>5

-----------------------------------------------------------------------------
(* The bookkeeping of the accept loops: HoldLife.                          *)

\* A step that leaves the loops' hands and the accepted ends alone.
LEMMA HoldLifeUnchanged ==
    ASSUME HoldLife, hold' = hold, loop' = loop,
           \A c \in Conn : /\ fd'[In(c)] = fd[In(c)]
                           /\ status'[In(c)] = status[In(c)]
                           /\ reader'[In(c)] = reader[In(c)],
           \A l \in Listener : hold[l] \subseteq Conn
    PROVE  HoldLife'
  BY DEF HoldLife, In

\* What the steps below need of the state they start in.
LEMMA HoldFacts ==
    ASSUME TypeOK, PeerLifecycle
    PROVE  /\ \A l \in Listener : hold[l] \subseteq Conn
           /\ \A c \in Conn : In(c) \in End /\ Out(c) \in End
           /\ \A c, d \in Conn : Out(c) # In(d) /\ (In(c) = In(d) => c = d)
           /\ \A e \in End : reader[e] # "none" => status[e] # "none"
           /\ \A e \in End : inPeers[e] => status[e] # "none"
           /\ HoldLife
  BY EndFacts, EndsDistinct DEF TypeOK, PeerLifecycle, PeerLife

\* The users' calls.
LEMMA HoldLifeUser ==
    ASSUME TypeOK, PeerLifecycle, UserStep
    PROVE  HoldLife'
<1>1. ASSUME NEW n \in Node, Start(n) PROVE HoldLife'
  <2>1. \A l \in Listener : loop'[l] \in {loop[l], "accept"}
    BY <1>1 DEF Start, TypeOK
  <2>2. hold' = hold /\ fd' = fd /\ status' = status /\ reader' = reader
    BY <1>1 DEF Start, peerVars, wireVars
  <2>3. QED  BY <2>1, <2>2, HoldFacts DEF HoldLife, In
<1>2. ASSUME NEW n \in Node, Stop(n) PROVE HoldLife'
  <2>1. /\ hold' = hold /\ loop' = loop /\ reader' = reader
        /\ \A e \in End : fd'[e] = fd[e] \/ fd'[e] = "closed"
        /\ \A e \in End : status'[e] = status[e]
                           \/ (status[e] # "none" /\ status'[e] # "none")
    BY <1>2, HoldFacts DEF Stop
  <2>2. QED  BY <2>1, HoldFacts DEF HoldLife, In
<1>3. ASSUME NEW n \in Node, Broadcast(n) PROVE HoldLife'
  BY <1>3, HoldFacts, HoldLifeUnchanged DEF Broadcast, netVars, peerVars
<1>4. ASSUME NEW c \in Conn, ConnectCheck(c) PROVE HoldLife'
  BY <1>4, HoldFacts, HoldLifeUnchanged DEF ConnectCheck, netVars, peerVars, wireVars
<1>5. ASSUME NEW e \in End, Disconnect(e) PROVE HoldLife'
  <2>1. /\ hold' = hold /\ loop' = loop /\ reader' = reader
        /\ \A f \in End : fd'[f] = fd[f] \/ fd'[f] = "closed"
        /\ \A f \in End : status'[f] = status[f]
                           \/ (status[f] # "none" /\ status'[f] # "none")
    BY <1>5, HoldFacts DEF Disconnect, netVars, TypeOK
  <2>2. QED  BY <2>1, HoldFacts DEF HoldLife, In
<1>6. ASSUME NEW e \in End, SendLookup(e) PROVE HoldLife'
  BY <1>6, HoldFacts, HoldLifeUnchanged DEF SendLookup, netVars, peerVars, wireVars
<1>7. ASSUME NEW e \in End, SendWrite(e) PROVE HoldLife'
  BY <1>7, HoldFacts, HoldLifeUnchanged DEF SendWrite, netVars, peerVars
<1>8. QED
  BY <1>1, <1>2, <1>3, <1>4, <1>5, <1>6, <1>7 DEF UserStep

\* Connect works on dialled ends, and hands a fresh one to the backlog.
LEMMA HoldLifeConnect ==
    ASSUME TypeOK, PeerLifecycle, NEW d \in Conn, ConnectStep(d)
    PROVE  HoldLife'
<1>1. CASE ConnectDial(d)
  <2>1. fd[In(d)] = "none"
    BY <1>1 DEF ConnectDial, PeerLifecycle, CallLife
  <2>2. /\ hold' = hold /\ loop' = loop /\ reader' = reader /\ status' = status
        /\ \A c \in Conn : c # d => fd'[In(c)] = fd[In(c)]
    BY <1>1, HoldFacts DEF ConnectDial, TypeOK, netVars, peerVars
  <2>3. \A l \in Listener : d \notin hold[l]
    BY <2>1, HoldFacts DEF HoldLife
  <2>4. QED  BY <2>1, <2>2, <2>3, HoldFacts DEF HoldLife, In
<1>2. CASE ConnectDialFails(d)
  BY <1>2, HoldFacts, HoldLifeUnchanged DEF ConnectDialFails, netVars, peerVars, wireVars
<1>3. CASE ConnectRegister(d)
  BY <1>3, HoldFacts, HoldLifeUnchanged
  DEF ConnectRegister, Register, TypeOK, netVars, wireVars
<1>4. CASE ConnectLookup(d)
  BY <1>4, HoldFacts, HoldLifeUnchanged DEF ConnectLookup, netVars, peerVars, wireVars
<1>5. CASE ConnectGreet(d)
  BY <1>5, HoldFacts, HoldLifeUnchanged DEF ConnectGreet, netVars, peerVars
<1>6. CASE ConnectUndo(d)
  BY <1>6, HoldFacts, HoldLifeUnchanged DEF ConnectUndo, TypeOK, netVars
<1>7. CASE ConnectSpawn(d)
  BY <1>7, HoldFacts, HoldLifeUnchanged
  DEF ConnectSpawn, TypeOK, netVars, peerVars, wireVars
<1>8. QED
  BY <1>1, <1>2, <1>3, <1>4, <1>5, <1>6, <1>7 DEF ConnectStep

\* acceptLoop: a connection is in hand from Accept to the go statement.
LEMMA HoldLifeAccept ==
    ASSUME TypeOK, PeerLifecycle, NEW m \in Listener, AcceptStep(m)
    PROVE  HoldLife'
<1>1. ASSUME NEW d \in Conn, Accept(m, d) PROVE HoldLife'
  <2>1. fd[In(d)] = "backlog" /\ status[In(d)] = "none" /\ reader[In(d)] = "none"
    BY <1>1, HoldFacts DEF Accept, HoldLife
  <2>2. \A l \in Listener : d \notin hold[l]
    BY <2>1, HoldFacts DEF HoldLife
  <2>3. /\ status' = status /\ reader' = reader
        /\ fd'[In(d)] = "open"
        /\ \A c \in Conn : c # d => fd'[In(c)] = fd[In(c)]
        /\ hold'[m] = {d} /\ loop'[m] = "register"
        /\ \A l \in Listener : l # m => hold'[l] = hold[l] /\ loop'[l] = loop[l]
    BY <1>1, HoldFacts DEF Accept, TypeOK, peerVars
  <2>4. QED  BY <2>1, <2>2, <2>3, HoldFacts DEF HoldLife, In
<1>2. ASSUME hold' = hold, fd' = fd, status' = status, reader' = reader,
             \A l \in Listener : l # m => loop'[l] = loop[l],
             loop'[m] = "register" => loop[m] = "register",
             loop'[m] \in {"lookup", "greet", "spawn"} =>
                 loop[m] \in {"lookup", "greet", "spawn"}
      PROVE  HoldLife'
  BY <1>2, HoldFacts DEF HoldLife, In
<1>3. CASE AcceptFails(m)
  BY <1>2, <1>3 DEF AcceptFails, TypeOK, peerVars, wireVars
<1>4. CASE AcceptCheck(m)
  BY <1>2, <1>4 DEF AcceptCheck, TypeOK, peerVars, wireVars
<1>5. CASE AcceptRegister(m)
  <2>1. PICK d \in hold[m] : Register(In(d))
    BY <1>5 DEF AcceptRegister
  <2>2. /\ hold[m] = {d} /\ d \in Conn
        /\ fd[In(d)] \notin {"none", "backlog"}
        /\ \A l \in Listener : d \in hold[l] => l = m
    BY <2>1, HoldFacts DEF HoldLife
  <2>3. /\ hold' = hold /\ fd' = fd /\ reader' = reader
        /\ status'[In(d)] = "connecting"
        /\ \A c \in Conn : c # d => status'[In(c)] = status[In(c)]
        /\ loop'[m] = "lookup"
        /\ \A l \in Listener : l # m => loop'[l] = loop[l]
    BY <1>5, <2>1, <2>2, HoldFacts DEF AcceptRegister, Register, TypeOK, wireVars
  <2>4. QED  BY <2>2, <2>3, HoldFacts DEF HoldLife, In
<1>6. CASE AcceptLookup(m)
  BY <1>2, <1>6 DEF AcceptLookup, TypeOK, peerVars, wireVars
<1>7. CASE AcceptGreet(m)
  BY <1>2, <1>7 DEF AcceptGreet, TypeOK, peerVars
<1>8. CASE AcceptSpawn(m)
  <2>1. PICK d \in hold[m] : reader' = [reader EXCEPT ![In(d)] = "reading"]
    BY <1>8 DEF AcceptSpawn
  <2>2. /\ d \in Conn
        /\ \A l \in Listener : d \in hold[l] => l = m
    BY <2>1, HoldFacts DEF HoldLife
  <2>3. /\ fd' = fd /\ status' = status
        /\ hold'[m] = {}
        /\ \A c \in Conn : c # d => reader'[In(c)] = reader[In(c)]
        /\ \A l \in Listener : l # m => hold'[l] = hold[l] /\ loop'[l] = loop[l]
    BY <1>8, <2>1, <2>2, HoldFacts DEF AcceptSpawn, TypeOK, peerVars, wireVars
  <2>4. QED  BY <2>2, <2>3, HoldFacts DEF HoldLife, In
<1>9. QED
  BY <1>1, <1>3, <1>4, <1>5, <1>6, <1>7, <1>8 DEF AcceptStep

\* A readLoop runs on ends that no accept loop has in hand any more.
LEMMA HoldLifeRead ==
    ASSUME TypeOK, PeerLifecycle, NEW e \in End, ReadStep(e)
    PROVE  HoldLife'
<1>1. reader[e] # "none"
  BY DEF ReadStep, Decode, DecodeFails, ReadLoopExit, HandleHandshake, HandlePing,
         SendPong, HandleOther
<1>2. status[e] # "none"
  BY <1>1, HoldFacts
<1>3. /\ hold' = hold /\ loop' = loop /\ fd' = fd
      /\ \A f \in End : f # e => status'[f] = status[f] /\ reader'[f] = reader[f]
  BY DEF ReadStep, Decode, DecodeFails, ReadLoopExit, HandleHandshake, HandlePing,
         SendPong, HandleOther, TypeOK, netVars, peerVars, wireVars
<1>4. \A l \in Listener : \A c \in hold[l] : In(c) # e
  BY <1>1, HoldFacts DEF HoldLife
<1>5. \A c \in Conn : fd[In(c)] \in {"none", "backlog"} => In(c) # e
  BY <1>2, HoldFacts DEF HoldLife
<1>6. QED  BY <1>3, <1>4, <1>5, HoldFacts DEF HoldLife, In

-----------------------------------------------------------------------------
(* The theorems.                                                           *)

\* Every step keeps the inductive invariant.
LEMMA LifecycleStep ==
    ASSUME TypeOK, PeerLifecycle, [Next]_vars
    PROVE  PeerLifecycle'
<1>1. HandshakeSource' /\ HandshakePending'
  <2> SUFFICES ASSUME NEW e \in End
               PROVE  /\ (status[e] = "connected" \/ reader[e] = "handshake"
                            \/ InStream(e))' => greeted'[Other(e)]
                      /\ greeted'[Other(e)] =>
                           \/ InStream(e)'
                           \/ reader'[e] = "handshake"
                           \/ status'[e] \in {"connected", "disconnected"}
                           \/ Removed(e)'
    BY DEF HandshakeSource, HandshakePending, Other, In, Out
  <2>1. Effect(e)
    BY StepEffect
  <2>2. /\ (status[e] = "connected" \/ reader[e] = "handshake" \/ InStream(e))
              => greeted[Other(e)]
        /\ greeted[Other(e)] =>
             \/ InStream(e)
             \/ reader[e] = "handshake"
             \/ status[e] \in {"connected", "disconnected"}
             \/ Removed(e)
    BY DEF PeerLifecycle, HandshakeSource, HandshakePending
  <2>3. QED  BY <2>1, <2>2 DEF Effect
<1>2. ConnectedHasReader' /\ PeerLife'
  <2>1. ASSUME NEW f \in End PROVE PeerOK(f)'
    <3>1. PeerOK(f)
      BY DEF PeerOK, PeerLifecycle, ConnectedHasReader, PeerLife
    <3>2. CASE UNCHANGED vars
      BY <3>1, <3>2, PeerOKUnchanged DEF vars
    <3>3. CASE Next
      BY <3>1, <3>3, PeerOKUser, PeerOKConnect, PeerOKAccept, PeerOKRead DEF Next
    <3>4. QED  BY <3>2, <3>3
  <2>2. QED  BY <2>1 DEF PeerOK, ConnectedHasReader, PeerLife
<1>3. CallLife'
  <2>1. ASSUME NEW c \in Conn PROVE CallOK(c)'
    <3>1. CallOK(c)
      BY DEF CallOK, PeerLifecycle, CallLife
    <3>2. CASE UNCHANGED vars
      BY <3>1, <3>2, CallOKUnchanged DEF vars
    <3>3. CASE Next
      BY <3>1, <3>3, CallOKUser, CallOKConnect, CallOKAccept, CallOKRead DEF Next
    <3>4. QED  BY <3>2, <3>3
  <2>2. QED  BY <2>1 DEF CallOK, CallLife
<1>4. HoldLife'
  <2>1. CASE UNCHANGED vars
    BY <2>1, HoldFacts, HoldLifeUnchanged DEF vars
  <2>2. CASE Next
    BY <2>2, HoldLifeUser, HoldLifeConnect, HoldLifeAccept, HoldLifeRead DEF Next
  <2>3. QED  BY <2>1, <2>2
<1>5. QED  BY <1>1, <1>2, <1>3, <1>4 DEF PeerLifecycle

\* The bookkeeping of every connection is in order in every reachable state,
\* however the goroutines of all the nodes interleave (network.go, 155-204, 358-486).
THEOREM Lifecycle == NetworkAssumption => (Spec => []PeerLifecycle)
<1> SUFFICES ASSUME NetworkAssumption PROVE Spec => []PeerLifecycle
  OBVIOUS
<1>1. Init => PeerLifecycle
  <2> SUFFICES ASSUME Init PROVE PeerLifecycle
    OBVIOUS
  <2>1. HandshakeSource /\ HandshakePending
    BY EndFacts DEF Init, HandshakeSource, HandshakePending, InStream
  <2>2. ConnectedHasReader /\ PeerLife
    BY DEF Init, ConnectedHasReader, PeerLife, Listed, Removed
  <2>3. CallLife /\ HoldLife
    BY EndFacts DEF Init, CallLife, HoldLife
  <2>4. QED  BY <2>1, <2>2, <2>3 DEF PeerLifecycle
<1>2. TypeOK /\ PeerLifecycle /\ [Next]_vars => PeerLifecycle'
  BY LifecycleStep
<1>3. QED  BY <1>1, <1>2, Typing, PTL DEF Spec

\* A peer is Connected only if the other end has registered and greeted it.
THEOREM ConnectedIsGreeted == NetworkAssumption => (Spec => []ConnectedMeansGreeted)
<1>1. PeerLifecycle => ConnectedMeansGreeted
  BY DEF PeerLifecycle, HandshakeSource, ConnectedMeansGreeted
<1>2. QED  BY <1>1, Lifecycle, PTL

\* A peer that is listed as connected has a readLoop to notice its end.
THEOREM ConnectedIsRead == NetworkAssumption => (Spec => []ConnectedHasReader)
<1>1. PeerLifecycle => ConnectedHasReader
  BY DEF PeerLifecycle
<1>2. QED  BY <1>1, Lifecycle, PTL

\* No interleaving loses a handshake of a connection that both sides keep open.
THEOREM HandshakesArrive == NetworkAssumption => (Spec => []HandshakeNotLost)
<1>1. PeerLifecycle => HandshakeNotLost
  <2> SUFFICES ASSUME PeerLifecycle, NEW c \in Conn,
                      \A e \in {Out(c), In(c)} :
                         /\ inPeers[e] /\ fd[e] = "open" /\ greeted[e]
                         /\ reader[e] = "reading" /\ stream[e] = << >>
               PROVE  Listed(Out(c)) /\ Listed(In(c))
    BY DEF HandshakeNotLost
  <2>1. Other(Out(c)) = In(c) /\ Other(In(c)) = Out(c)
    BY DEF Other, Out, In
  <2>2. \A e \in {Out(c), In(c)} : e \in End /\ greeted[Other(e)] /\ ~InStream(e)
    BY <2>1, EndFacts DEF InStream
  <2>3. \A e \in {Out(c), In(c)} : status[e] = "connected"
    BY <2>2 DEF PeerLifecycle, HandshakePending, PeerLife, Removed
  <2>4. QED  BY <2>3 DEF Listed
<1>2. QED  BY <1>1, Lifecycle, PTL

\* A peer that was taken out of the map never comes back.
THEOREM NoResurrection == NetworkAssumption => (Spec => RemovedForever)
<1>1. TypeOK /\ PeerLifecycle /\ [Next]_vars
        => [\A e \in End : Removed(e) => Removed(e)']_vars
  BY StepEffect DEF Effect
<1>2. QED  BY <1>1, Typing, Lifecycle, PTL DEF Spec, RemovedForever

-----------------------------------------------------------------------------
(* Nothing is written on a connection that its owner has closed.           *)

Quiet(e) == Len(stream'[Other(e)]) <= Len(stream[Other(e)])

LEMMA QuietUnchanged == ASSUME TypeOK, NEW e \in End, stream' = stream PROVE Quiet(e)
  BY EndFacts DEF Quiet, TypeOK

LEMMA QuietWrite ==
    ASSUME TypeOK, NEW e \in End, fd[e] = "closed", NEW f \in End, NEW kind,
           WriteOK(f, kind) \/ WriteFails(f)
    PROVE  Quiet(e)
<1>1. CASE stream' = stream
  BY <1>1, QuietUnchanged
<1>2. CASE fd[f] = "open" /\ stream' = [stream EXCEPT ![Other(f)] = Append(@, kind)]
  <2>1. Other(f) # Other(e) /\ Other(e) \in End
    BY <1>2, EndFacts
  <2>2. stream'[Other(e)] = stream[Other(e)] /\ Len(stream[Other(e)]) \in Nat
    BY <1>2, <2>1 DEF TypeOK
  <2>3. QED  BY <2>2 DEF Quiet
<1>3. QED  BY <1>1, <1>2 DEF WriteOK, WriteFails

LEMMA QuietDecode ==
    ASSUME TypeOK, NEW e \in End, NEW f \in End, Decode(f)
    PROVE  Quiet(e)
<1>1. /\ stream[f] # << >> /\ stream[f] \in Seq(Kind)
      /\ stream' = [stream EXCEPT ![f] = Tail(stream[f])]
      /\ Other(e) \in End
  BY EndFacts DEF Decode, TypeOK
<1>2. Len(Tail(stream[f])) <= Len(stream[f]) /\ Len(stream[Other(e)]) \in Nat
  BY <1>1 DEF TypeOK
<1>3. QED  BY <1>1, <1>2 DEF Quiet, TypeOK

LEMMA QuietBroadcast ==
    ASSUME TypeOK, NEW e \in End, fd[e] = "closed", NEW n \in Node, Broadcast(n)
    PROVE  Quiet(e)
<1>1. Other(e) \in End /\ Other(Other(e)) = e
  BY EndFacts
<1>2. stream'[Other(e)] = stream[Other(e)] /\ Len(stream[Other(e)]) \in Nat
  BY <1>1 DEF Broadcast, TypeOK
<1>3. QED  BY <1>2 DEF Quiet

LEMMA StepIsQuiet ==
    ASSUME TypeOK, [Next]_vars, NEW e \in End, fd[e] = "closed"
    PROVE  Quiet(e)
<1>1. CASE UNCHANGED stream
  BY <1>1, QuietUnchanged
<1>2. CASE UserStep
  BY <1>1, <1>2, QuietBroadcast, QuietWrite
  DEF UserStep, Start, Stop, ConnectCheck, Disconnect, SendLookup, SendWrite, wireVars
<1>3. ASSUME NEW c \in Conn, ConnectStep(c) PROVE Quiet(e)
  BY <1>1, <1>3, QuietWrite, EndFacts
  DEF ConnectStep, ConnectDial, ConnectDialFails, ConnectRegister, ConnectLookup,
      ConnectGreet, ConnectUndo, ConnectSpawn, wireVars
<1>4. ASSUME NEW l \in Listener, AcceptStep(l) PROVE Quiet(e)
  <2>1. CASE AcceptGreet(l)
    <3>1. PICK c \in Conn : WriteOK(In(c), "handshake") \/ WriteFails(In(c))
      BY <2>1 DEF AcceptGreet, TypeOK
    <3>2. QED  BY <3>1, QuietWrite, EndFacts
  <2>2. CASE ~AcceptGreet(l)
    BY <1>1, <1>4, <2>2
    DEF AcceptStep, Accept, AcceptFails, AcceptCheck, AcceptRegister, AcceptLookup,
        AcceptSpawn, wireVars
  <2>3. QED  BY <2>1, <2>2
<1>5. ASSUME NEW f \in End, ReadStep(f) PROVE Quiet(e)
  BY <1>1, <1>5, QuietDecode, QuietWrite
  DEF ReadStep, DecodeFails, ReadLoopExit, HandleHandshake, HandlePing, SendPong,
      HandleOther, wireVars
<1>6. QED  BY <1>1, <1>2, <1>3, <1>4, <1>5 DEF Next, vars

\* After a removal nothing is written on the connection, by whomever.
THEOREM NoLateWrite == NetworkAssumption => (Spec => RemovedIsSilent)
<1>1. TypeOK /\ PeerLifecycle /\ [Next]_vars
        => [\A e \in End : Removed(e) =>
              Len(stream'[Other(e)]) <= Len(stream[Other(e)])]_vars
  BY StepIsQuiet DEF Quiet, PeerLifecycle, PeerLife
<1>2. QED  BY <1>1, Typing, Lifecycle, PTL DEF Spec, RemovedIsSilent

=============================================================================
