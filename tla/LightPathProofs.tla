-------------------------- MODULE LightPathProofs --------------------------
(***************************************************************************)
(* The path of a light command for every set of clients and menus: its     *)
(* types, and that every publication of laitt has a send of its own.       *)
(*                                                                         *)
(* PublishedOnce speaks of the two ends of the path.  What admiral does in *)
(* between is proved for any clients in BrokerProofs: HandInv names for    *)
(* each connection it dialled the packet it was dialled for, where the     *)
(* packets of a client are taken from its menu.  Here they are what lights *)
(* sends (SentSets), so that the third packet of a run is the command of   *)
(* its user; and laitt publishes what a connection it is done with         *)
(* carried, each once and in the order it accepted them (PubInv).  A run   *)
(* of lights that is accepted is on a configured address, because the one  *)
(* packet it sends that can be a claim names lights (ClaimInv).            *)
(***************************************************************************)
EXTENDS LightPath, BrokerProofs, LmpProofs

-----------------------------------------------------------------------------
(* What lights sends *)

LightsTypeOK ==
  lights \in [LightsConns ->
                [pc : {"off", "init", "claim", "wait", "command", "exit", "done"},
                 argv : Commands \cup {NoCommand}]]

\* The packets of the handshake are not commands.
LEMMA HandshakePackets ==
  ASSUME NEW m \in Commands \cup {NoCommand}
  PROVE  /\ CommandPacket(m).payload[1] = Laitt
         /\ InitPacket # CommandPacket(m) /\ ClaimPacket # CommandPacket(m)
         /\ InitPacket.type # TypeSend
<1>1. CommandPacket(m).payload[1] = Laitt
  <2> DEFINE S == Byte \cup {Laitt, Lights}
             q == <<Laitt, Lights>>
  <2>1. m \in Seq(S) /\ q \in Seq(S) /\ Len(q) = 2 /\ q[1] = Laitt
    <3>1. m \in Seq(Byte)
      BY CommandsAssumption, EmptySeq DEF NoCommand
    <3> QED  BY <3>1, SeqMonotonic
  <2>2. (q \o m)[1] = Laitt
    <3>1. Len(m) \in Nat
      BY <2>1, LenProperties
    <3> HIDE DEF q, S
    <3>2. \A i \in 1 .. Len(q) + Len(m) :
            (q \o m)[i] = IF i <= Len(q) THEN q[i] ELSE m[i - Len(q)]
      BY <2>1, ConcatProperties
    <3> QED  BY <2>1, <3>1, <3>2
  <2> QED  BY <2>2 DEF CommandPacket, Build
<1>2. ClaimPacket.payload[1] = Admiral /\ InitPacket.type = TypeInit
  BY DEF ClaimPacket, InitPacket, Build
<1>3. CommandPacket(m).type = TypeSend /\ TypeInit # TypeSend
  BY DEF CommandPacket, Build, TypeInit, TypeSend
<1> QED  BY <1>1, <1>2, <1>3, LaittAssumption

LEMMA LastOfAppend ==
  ASSUME NEW S, NEW q \in Seq(S), NEW a, NEW b, Append(q, a) = Append(q, b)
  PROVE  a = b
<1> DEFINE T == S \cup {a, b}
<1>1. q \in Seq(T) /\ a \in T /\ b \in T
  BY SeqMonotonic
<1> HIDE DEF T
<1>2. Append(q, a)[Len(q) + 1] = a /\ Append(q, b)[Len(q) + 1] = b
  BY <1>1, AppendProperties
<1> QED  BY <1>2

\* The step of the whole path is one of the broker.
LEMMA PathStep ==
  ASSUME [PathNext]_pathVars
  PROVE  [Next]_vars
<1>1. CASE UNCHANGED pathVars
  BY <1>1 DEF pathVars
<1>2. CASE BrokerStep
  BY <1>2 DEF BrokerStep, PathServerStep, Next, ClientStep
<1>3. ASSUME NEW c \in LightsConns,
             LightsStart(c) \/ LightsStep(c) \/ LightsInterrupted(c)
      PROVE  [Next]_vars
  <2>1. c \in Conns
    BY LightsAssumption
  <2>2. ClientStep(c) \/ UNCHANGED vars
    BY <1>3
    DEF LightsStart, LightsStep, LightsInterrupted, LightsSend, LightsReadAnswer,
        LightsBadCommand, LightsCommand, LightsExit, ClientStep
  <2> QED  BY <2>1, <2>2 DEF Next
<1>4. CASE LaittStep
  BY <1>4 DEF LaittStep, LaittAccept, LaittRecv
<1> QED  BY <1>1, <1>2, <1>3, <1>4 DEF PathNext

\* A run of lights keeps its command, from before its first packet.
LEMMA ArgvStays ==
  ASSUME LightsTypeOK, [PathNext]_pathVars
  PROVE  /\ LightsTypeOK'
         /\ \A c \in LightsConns :
              lights'[c].argv = lights[c].argv \/ peer[c] = "absent"
<1>1. CASE UNCHANGED lights
  BY <1>1 DEF LightsTypeOK
<1>2. ASSUME NEW c \in LightsConns, NEW m \in Commands \cup {NoCommand},
             lights' = [lights EXCEPT ![c] = [pc |-> "init", argv |-> m]],
             peer[c] = "absent"
      PROVE  /\ LightsTypeOK'
             /\ \A d \in LightsConns :
                  lights'[d].argv = lights[d].argv \/ peer[d] = "absent"
  BY <1>2 DEF LightsTypeOK
<1>3. ASSUME NEW c \in LightsConns,
             NEW pc \in {"claim", "wait", "command", "exit", "done"}, Goto(c, pc)
      PROVE  /\ LightsTypeOK'
             /\ \A d \in LightsConns : lights'[d].argv = lights[d].argv
  BY <1>3 DEF LightsTypeOK, Goto
<1>4. ASSUME NEW c \in LightsConns, LightsStep(c) \/ LightsInterrupted(c)
      PROVE  \E pc \in {"claim", "wait", "command", "exit", "done"} : Goto(c, pc)
  <2>1. CASE LightsSend(c, "init", InitPacket, "claim")
    BY <2>1 DEF LightsSend
  <2>2. CASE LightsSend(c, "claim", ClaimPacket, "wait")
    BY <2>2 DEF LightsSend
  <2>3. CASE LightsCommand(c)
    BY <2>3 DEF LightsCommand, LightsSend
  <2>4. CASE LightsReadAnswer(c) \/ LightsBadCommand(c) \/ LightsExit(c) \/ LightsInterrupted(c)
    BY <2>4 DEF LightsReadAnswer, LightsBadCommand, LightsExit, LightsInterrupted
  <2> QED  BY <1>4, <2>1, <2>2, <2>3, <2>4 DEF LightsStep
<1>5. \/ UNCHANGED lights
      \/ \E c \in LightsConns :
           LightsStart(c) \/ LightsStep(c) \/ LightsInterrupted(c)
  BY DEF PathNext, pathVars, LaittStep, LaittAccept, LaittRecv
<1> QED
  BY <1>1, <1>2, <1>3, <1>4, <1>5 DEF LightsStart, Connect, ClientIs

\* What a run of lights sends is a packet of the handshake or its command.
LEMMA LightsSends ==
  ASSUME BrokerInv, LightsTypeOK, [PathNext]_pathVars, NEW c \in LightsConns,
         turn'[c] # turn[c]
  PROVE  /\ peer[c] = "open"
         /\ \E packet \in {InitPacket, ClaimPacket, CommandPacket(lights[c].argv)} :
              inbox'[c] = Append(inbox[c], packet)
<1>1. turn \in [Conns -> Nat] /\ c \in Conns
  BY LightsAssumption DEF BrokerInv, TypeInv, TypeOK
<1>2. ASSUME NEW d \in Conns, ClientStep(d) PROVE d = c
  <2>1. UNCHANGED turn \/ turn' = [turn EXCEPT ![d] = turn[d] + 1]
    BY <1>2 DEF ClientStep, Connect, ClientSend, ClientLeave, Finalize
  <2> QED  BY <1>1, <2>1
<1>3. ~ BrokerStep
  <2>1. ASSUME BrokerStep PROVE FALSE
    <3>1. CASE AcceptorStep
      BY <3>1
      DEF AcceptorStep, Accept, HandshakeReadFails, ReadInit, ReadSend,
          PublishConnected, connVars, clientVars
    <3>2. CASE HandlerStep
      BY <3>2
      DEF HandlerStep, ReceiveConnected, PutId, PutConn, ReceiveDisconnected, MoveId,
          MoveConn, ClearId, ClearConn, WriteField, StoreTable, connVars, clientVars
    <3>3. ASSUME NEW d \in Conns, PathServerStep(d) \/ Finalize(d) PROVE FALSE
      BY <3>3
      DEF PathServerStep, Finalize, ServerStep, ServeRead, ServeEOF,
          PublishDisconnected, ServeScan, ServeTake, ServeWrite, Written, ServeDial, ServeSelf,
          connVars, clientVars
    <3>4. ASSUME NEW d \in Conns \ LightsConns, ClientStep(d) PROVE FALSE
      BY <1>2, <3>4
    <3> QED  BY <2>1, <3>1, <3>2, <3>3, <3>4 DEF BrokerStep
  <2> QED  BY <2>1
<1>4. PICK d \in LightsConns :
        LightsStart(d) \/ LightsStep(d) \/ LightsInterrupted(d)
  BY <1>3
  DEF PathNext, pathVars, vars, connVars, clientVars, LaittStep, LaittAccept,
      LaittRecv
<1>5. d \in Conns
  BY LightsAssumption
<1>6. PICK packet \in {InitPacket, ClaimPacket, CommandPacket(lights[d].argv)} :
        ClientSend(d) /\ inbox'[d] = Append(inbox[d], packet)
  <2>1. ~(UNCHANGED turn) /\ ~(UNCHANGED vars)
    BY DEF vars, connVars, clientVars
  <2>2. ~LightsStart(d) /\ ~LightsInterrupted(d) /\ ~LightsExit(d)
    BY <2>1 DEF LightsStart, LightsInterrupted, LightsExit, Connect, ClientLeave
  <2>3. ~LightsReadAnswer(d) /\ ~LightsBadCommand(d)
    BY <2>1 DEF LightsReadAnswer, LightsBadCommand
  <2>4. \/ LightsSend(d, "init", InitPacket, "claim")
        \/ LightsSend(d, "claim", ClaimPacket, "wait")
        \/ LightsSend(d, "command", CommandPacket(lights[d].argv), "exit")
    BY <1>4, <2>2, <2>3 DEF LightsStep, LightsCommand
  <2>5. CASE LightsSend(d, "init", InitPacket, "claim")
    BY <2>1, <2>5 DEF LightsSend
  <2>6. CASE LightsSend(d, "claim", ClaimPacket, "wait")
    BY <2>1, <2>6 DEF LightsSend
  <2>7. CASE LightsSend(d, "command", CommandPacket(lights[d].argv), "exit")
    BY <2>1, <2>7 DEF LightsSend
  <2> QED  BY <2>4, <2>5, <2>6, <2>7
<1>7. d = c
  BY <1>2, <1>5, <1>6 DEF ClientStep
<1> QED  BY <1>6, <1>7 DEF ClientSend, ClientIs

-----------------------------------------------------------------------------
(* The packets on their way to laitt *)

\* What each client sent.
SentSets == [c \in Clients |-> [i \in 1 .. Len(Menu[c]) |-> Sent(c, i)]]

\* A run of lights that was accepted is on a configured address.
ClaimInv == \A c \in LightsConns : Known(c) => Configured(c)

SendsInv == LightsTypeOK /\ ClaimInv /\ PlacesInv(SentSets) /\ HandInv(SentSets)

\* A step of the path.
Step == BrokerInv /\ RefusedInv /\ SendsInv /\ [PathNext]_pathVars

\* Sent(c, i) after the step.
SentAfter(c, i) ==
  IF c \in LightsConns /\ i = 3 THEN {CommandPacket(lights'[c].argv)} ELSE Menu[c][i]

LEMMA SentOfClient ==
  ASSUME NEW c \in Clients, NEW i \in 1 .. Len(Menu[c])
  PROVE  SentSets[c][i] = Sent(c, i) /\ SentSets'[c][i] = SentAfter(c, i)
BY DEF SentSets, Sent, SentAfter

\* What a client has sent is not changed afterwards, and what a step adds is what
\* the client wrote.
LEMMA SentStays ==
  ASSUME Step, NEW c \in Clients
  PROVE  /\ \A i \in 1 .. turn[c] : SentAfter(c, i) = Sent(c, i)
         /\ Writes(c) => \E f \in Menu[c][turn[c] + 1] :
                          /\ inbox'[c] = Append(inbox[c], f)
                          /\ f \in SentAfter(c, turn[c] + 1)
                          /\ SentAfter(c, turn[c] + 1) \subseteq Menu[c][turn[c] + 1]
<1>1. /\ turn[c] \in Nat /\ inbox[c] \in Seq(Incoming)
      /\ peer[c] = "absent" => turn[c] = 0
      /\ LightsTypeOK
  BY DEF Step, BrokerInv, TypeInv, TypeOK, SendsInv, PlacesInv, Clients
<1>2. CASE c \notin LightsConns
  BY <1>2 DEF Sent, SentAfter, Writes
<1>3. CASE c \in LightsConns
  <2>1. lights'[c].argv = lights[c].argv \/ peer[c] = "absent"
    BY <1>1, <1>3, ArgvStays DEF Step
  <2>2. \A i \in 1 .. turn[c] : SentAfter(c, i) = Sent(c, i)
    <3>1. CASE peer[c] = "absent"
      BY <1>1, <3>1
    <3>2. CASE lights'[c].argv = lights[c].argv
      BY <3>2 DEF Sent, SentAfter
    <3> QED  BY <2>1, <3>1, <3>2
  <2>3. ASSUME Writes(c)
        PROVE  \E f \in Menu[c][turn[c] + 1] :
                 /\ inbox'[c] = Append(inbox[c], f)
                 /\ f \in SentAfter(c, turn[c] + 1)
                 /\ SentAfter(c, turn[c] + 1) \subseteq Menu[c][turn[c] + 1]
    <3>1. PICK f \in Menu[c][turn[c] + 1] : inbox'[c] = Append(inbox[c], f)
      BY <2>3 DEF Writes
    <3>2. turn'[c] # turn[c]
      BY <1>1, <2>3 DEF Writes
    <3>3. PICK packet \in {InitPacket, ClaimPacket, CommandPacket(lights[c].argv)} :
            inbox'[c] = Append(inbox[c], packet)
      BY <1>1, <1>3, <3>2, LightsSends DEF Step
    <3>4. f = packet
      BY <1>1, <3>1, <3>3, LastOfAppend
    <3>5. CASE turn[c] + 1 # 3
      BY <3>1, <3>5 DEF SentAfter
    <3>6. CASE turn[c] + 1 = 3
      <4>1. PICK m \in Commands : f = CommandPacket(m)
        <5>1. f \in Menu[c][3]
          BY <3>1, <3>6
        <5> QED  BY <1>3, <5>1, LightsMenuAssumption
      <4>2. f = CommandPacket(lights[c].argv)
        BY <3>3, <3>4, <4>1, HandshakePackets
      <4>3. lights'[c].argv = lights[c].argv
        BY <2>1, <2>3 DEF Writes
      <4>4. SentAfter(c, turn[c] + 1) = {f}
        BY <1>3, <3>6, <4>2, <4>3 DEF SentAfter
      <4> QED  BY <3>1, <4>4
    <3> QED  BY <3>5, <3>6
  <2> QED  BY <2>2, <2>3
<1> QED  BY <1>2, <1>3

LEMMA SentFollows ==
  ASSUME Step, NEW S, NEW S2, S = SentSets, S2 = SentSets'
  PROVE  Follows(S, S2)
<1> SUFFICES ASSUME NEW c \in Clients
             PROVE  /\ \A i \in 1 .. turn[c] : S2[c][i] = S[c][i]
                    /\ Writes(c) => \E f \in Menu[c][turn[c] + 1] :
                          /\ inbox'[c] = Append(inbox[c], f)
                          /\ f \in S2[c][turn[c] + 1]
                          /\ S2[c][turn[c] + 1] \subseteq Menu[c][turn[c] + 1]
  BY DEF Follows
<1>1. turn[c] \in Nat /\ Len(Menu[c]) \in Nat /\ turn[c] <= Len(Menu[c])
  BY Counters DEF Step, SendsInv, PlacesInv
<1>2. \A i \in 1 .. turn[c] : S2[c][i] = S[c][i]
  <2> SUFFICES ASSUME NEW i \in 1 .. turn[c] PROVE S2[c][i] = S[c][i]
    OBVIOUS
  <2>1. i \in 1 .. Len(Menu[c])
    BY <1>1
  <2> QED  BY <2>1, SentOfClient, SentStays
<1>3. ASSUME Writes(c)
      PROVE  S2[c][turn[c] + 1] = SentAfter(c, turn[c] + 1)
  <2>1. turn[c] + 1 \in 1 .. Len(Menu[c])
    BY <1>1, <1>3 DEF Writes
  <2> QED  BY <2>1, SentOfClient
<1> QED  BY <1>2, <1>3, SentStays

LEMMA StepSendsInv ==
  ASSUME Step
  PROVE  BrokerInv' /\ RefusedInv' /\ SendsInv'
<1>1. [Next]_vars /\ BrokerInv' /\ RefusedInv' /\ Admits
  BY PathStep, NextMoves DEF Step
<1>2. PICK S, S2 : S = SentSets /\ S2 = SentSets'
  OBVIOUS
<1>3. PlacesInv(S) /\ HandInv(S) /\ Follows(S, S2)
  BY <1>2, SentFollows DEF Step, SendsInv
<1>4. PlacesInv(S2)' /\ HandInv(S2)'
  BY <1>1, <1>3, StepPlacesInv, StepHandInv DEF Step
<1>5. LightsTypeOK'
  BY ArgvStays DEF Step, SendsInv
<1>6. ClaimInv'
  <2> SUFFICES ASSUME NEW c \in LightsConns, ~Known(c), Known(c)' PROVE Configured(c)
    BY DEF ClaimInv, Step, SendsInv, Configured
  <2>1. c \in Clients /\ c \in Conns
    BY LightsAssumption DEF Clients
  <2>2. inbox[c] # <<>> /\ Claims(c, Head(inbox[c]))
    BY <1>1, <2>1 DEF Admits
  <2>3. /\ inbox[c] \in Seq(Incoming) /\ turn[c] \in Nat /\ Len(inbox[c]) \in Nat
        /\ Len(inbox[c]) <= turn[c] /\ lights[c].argv \in Commands \cup {NoCommand}
    <3>1. inbox[c] \in Seq(Incoming) /\ turn[c] \in Nat
      BY <2>1 DEF Step, BrokerInv, TypeInv, TypeOK
    <3> QED
      BY <2>1, <3>1, LenProperties
      DEF Step, BrokerInv, LinkInv, ReadInv, SendsInv, LightsTypeOK
  <2>4. Head(inbox[c]) = inbox[c][1] /\ Len(inbox[c]) >= 1
    BY <2>2, <2>3, HeadAndTail
  <2>5. turn[c] <= 3
    <3>1. Len(Menu[c]) = 3
      <4>1. \A x, y, z : Len(<<x, y, z>>) = 3
        OBVIOUS
      <4> QED  BY <4>1, LightsMenuAssumption, Zenon
    <3>2. turn[c] <= Len(Menu[c])
      BY <2>1 DEF Step, SendsInv, PlacesInv
    <3> QED  BY <2>3, <3>1, <3>2
  <2> DEFINE k == turn[c] - Len(inbox[c]) + 1
  <2>6. k \in 1 .. 3 /\ Head(inbox[c]) \in Sent(c, k)
    <3>1. k \in 1 .. turn[c] /\ k \in 1 .. 3
      BY <2>3, <2>4, <2>5
    <3>2. turn[c] <= Len(Menu[c]) /\ Len(Menu[c]) \in Nat
      BY <2>1, Counters DEF Step, SendsInv, PlacesInv
    <3>3. Head(inbox[c]) \in SentSets[c][k]
      BY <2>1, <2>3, <2>4 DEF Step, SendsInv, PlacesInv, Consumed
    <3>4. k \in 1 .. Len(Menu[c])
      BY <2>3, <3>1, <3>2
    <3> HIDE DEF k
    <3> QED  BY <2>1, <3>1, <3>3, <3>4, SentOfClient
  <2>7. Head(inbox[c]) \in {InitPacket, ClaimPacket, CommandPacket(lights[c].argv)}
    <3>1. Menu[c][1] = {InitPacket} /\ Menu[c][2] = {ClaimPacket}
      BY LightsMenuAssumption
    <3>2. /\ Sent(c, 1) = {InitPacket} /\ Sent(c, 2) = {ClaimPacket}
          /\ Sent(c, 3) = {CommandPacket(lights[c].argv)}
      BY <3>1 DEF Sent
    <3>3. k = 1 \/ k = 2 \/ k = 3
      BY <2>6
    <3> HIDE DEF k
    <3> QED  BY <2>6, <3>2, <3>3
  <2>8. Head(inbox[c]) = ClaimPacket
    BY <2>2, <2>3, <2>7, HandshakePackets, LaittAssumption DEF Claims
  <2>9. ClaimPacket.payload[2] = Lights
    BY DEF ClaimPacket, Build
  <2> QED  BY <2>2, <2>8, <2>9 DEF Claims, SenderIsValid, Configured
<1>7. PlacesInv(SentSets)' /\ HandInv(SentSets)'
  BY <1>2, <1>4 DEF PlacesInv, HandInv, Origin
<1> QED  BY <1>1, <1>5, <1>6, <1>7 DEF SendsInv

-----------------------------------------------------------------------------
(* laitt *)

\* What admiral makes of a packet without a terminator has none either.
LEMMA ForwardedIsWhole ==
  ASSUME NEW f \in Packet, Whole(f), Serializable(Forwarded(f))
  PROVE  /\ Forwarded(f) \in Packet /\ Whole(Forwarded(f))
         /\ f.type \in {TypePing, TypeSend}
<1>1. Forwarded(f) \in Packet
  BY ForwardedIsPacket
<1>2. f.payload \in Seq(Byte) /\ Len(f.payload) \in Nat
      /\ DOMAIN f.payload = 1 .. Len(f.payload)
  BY LenProperties DEF Packet
<1>3. ~Serializable(ZeroPacket)
  BY DEF Serializable, ZeroPacket, Versions
<1>4. CASE f.type = TypePing
  <2>1. Forwarded(f) = PingPacket
    BY <1>4 DEF Forwarded
  <2>2. PingPacket.flags = 0 /\ PingPacket.payload = <<0>>
    BY DEF PingPacket, Build, FlagsNone, PayloadEmpty
  <2> QED  BY <1>1, <1>4, <2>1, <2>2 DEF Whole, Terminate
<1>5. CASE f.type = TypeSend
  <2> DEFINE rest == SubSeq(f.payload, 3, Len(f.payload))
  <2>1. Forwarded(f).flags = 0 /\ Forwarded(f).payload = rest
    BY <1>5 DEF Forwarded, Build, FlagsNone, TypePing, TypeSend
  <2>2. \A i \in 3 .. Len(f.payload) : f.payload[i] \in Byte \ {Terminate}
    BY <1>2, ElementOfSeq DEF Whole
  <2>3. rest \in Seq(Byte \ {Terminate})
    BY <1>2, <2>2, SubSeqProperties
  <2>4. \A i \in DOMAIN rest : rest[i] # Terminate
    <3> HIDE DEF rest
    <3> QED  BY <2>3, LenProperties, ElementOfSeq
  <2> QED  BY <1>1, <1>5, <2>1, <2>4 DEF Whole, Terminate
<1> QED  BY <1>3, <1>4, <1>5 DEF Forwarded

\* The bytes up to the first terminator are the whole frame.
LEMMA ReceivedIsFrame ==
  ASSUME NEW p \in Packet, Whole(p), Serializable(p)
  PROVE  Received(Frame(p)) = Frame(p)
<1> DEFINE b == Frame(p)
           last == HeaderSize + Len(p.payload) + 1
<1>1. /\ b \in Seq(Byte) /\ Len(p.payload) \in Nat /\ Len(b) = last
      /\ b[1] = p.version /\ b[2] = p.type /\ b[3] = p.arg /\ b[4] = p.flags
      /\ \A i \in 1 .. Len(p.payload) : b[HeaderSize + i] = p.payload[i]
      /\ b[last] = Terminate
  BY FrameBytes
<1>2. DOMAIN b = 1 .. last /\ DOMAIN p.payload = 1 .. Len(p.payload)
  BY <1>1, LenProperties DEF Packet
<1>3. p.version # Terminate /\ p.type # Terminate /\ p.arg # Terminate
  <2>1. /\ p.version \in {1, 2} /\ p.type \in 1 .. 5 /\ p.arg \in ArgsOf[p.type]
    BY DEF Serializable, Versions, Types, TypeInit, TypeInvalid
  <2>2. \A t \in 1 .. 5 : 127 \notin ArgsOf[t]
    BY DEF ArgsOf, ArgInitInit, ArgInitAccept, ArgPing, ArgSend, ArgTermClean
  <2> QED  BY <2>1, <2>2 DEF Terminate
<1>4. \A i \in 1 .. last - 1 : b[i] # Terminate
  <2> SUFFICES ASSUME NEW i \in 1 .. last - 1 PROVE b[i] # Terminate
    OBVIOUS
  <2>1. CASE i \in 1 .. 4
    <3>1. i = 1 \/ i = 2 \/ i = 3 \/ i = 4
      BY <2>1
    <3> HIDE DEF b
    <3> QED  BY <1>1, <1>3, <3>1 DEF Whole
  <2>2. CASE i \in 5 .. last - 1
    <3>1. i - 4 \in 1 .. Len(p.payload) /\ HeaderSize + (i - 4) = i
      BY <1>1, <2>2 DEF HeaderSize
    <3>2. b[HeaderSize + (i - 4)] = p.payload[i - 4]
      BY <1>1, <3>1
    <3> QED  BY <1>2, <3>1, <3>2 DEF Whole
  <2> QED  BY <1>1, <2>1, <2>2 DEF HeaderSize
<1>5. last \in Nat /\ last >= 1
  BY <1>1 DEF HeaderSize
<1> HIDE DEF b, last
<1> DEFINE First(i) == b[i] = Terminate /\ \A j \in 1 .. i - 1 : b[j] # Terminate
<1>6. last \in DOMAIN b /\ First(last)
  BY <1>1, <1>2, <1>4, <1>5
<1>7. ASSUME NEW i \in DOMAIN b, First(i) PROVE i = last
  BY <1>2, <1>4, <1>5, <1>7
<1>8. (CHOOSE i \in DOMAIN b : First(i)) = last
  BY <1>6, <1>7
<1>9. SubSeq(b, 1, last) = b
  BY <1>1, SubSeqFull
<1> QED  BY <1>8, <1>9 DEF Received, b

\* How many of the connections laitt is done with.
Read == IF laitt = "recv" THEN taken - 1 ELSE taken

\* Every publication is the payload of a connection of its own, a later one of a
\* later connection.
PubInv ==
  /\ laitt \in {"accept", "recv"}
  /\ taken \in 0 .. Len(dialled[Laitt]) /\ (laitt = "recv" => taken >= 1)
  /\ published \in Seq(Seq(Byte))
  /\ \E at \in [DOMAIN published -> 1 .. Read] :
       /\ \A i, j \in DOMAIN published : i < j => at[i] < at[j]
       /\ \A i \in DOMAIN published :
            /\ dialled[Laitt][at[i]] # BadFrame
            /\ published[i] = dialled[Laitt][at[i]].payload

PathInv == BrokerInv /\ RefusedInv /\ SendsInv /\ PubInv

LEMMA DialledTypes ==
  ASSUME BrokerInv
  PROVE  /\ dialled[Laitt] \in Seq(Incoming) /\ Len(dialled[Laitt]) \in Nat
         /\ DOMAIN dialled[Laitt] = 1 .. Len(dialled[Laitt])
<1>1. dialled[Laitt] \in Seq(Incoming)
  BY LaittAssumption DEF BrokerInv, TypeInv, TypeOK
<1> QED  BY <1>1, LenProperties

\* The place of connection k to laitt.
ToLaitt(k) == <<"service", Laitt, k>>

LEMMA LaittPlaces ==
  /\ \A k : ToLaitt(k) \in HandedOn <=> k \in DOMAIN dialled[Laitt]
  /\ \A k : ToLaitt(k) \in HandedOn' <=> k \in DOMAIN dialled'[Laitt]
  /\ \A k : Item(ToLaitt(k)) = dialled[Laitt][k]
  /\ \A k : Item(ToLaitt(k))' = dialled'[Laitt][k]
BY HandedOnPlaces, LaittAssumption DEF ToLaitt, Place, Item

\* What came of a packet is something laitt can be sent, without a terminator
\* inside, and it makes laitt publish the message of the packet.
LEMMA DialOrigin ==
  ASSUME BrokerInv, SendsInv, NEW c \in Clients, NEW i \in Nat,
         NEW k \in DOMAIN dialled[Laitt], dialled[Laitt][k] # BadFrame,
         Origin(SentSets, c, i, ToLaitt(k))
  PROVE  LET p == dialled[Laitt][k]
         IN  /\ p \in Packet /\ Serializable(p) /\ Whole(p)
             /\ <<c, i>> \in Sends /\ MayPublish(<<c, i>>, p.payload)
<1> DEFINE p == dialled[Laitt][k]
<1>1. Item(ToLaitt(k)) = p /\ ToLaitt(k)[1] = "service" /\ ToLaitt(k)[2] = Laitt
  BY LaittPlaces DEF ToLaitt
<1>2. PICK f \in SentSets[c][i] :
        /\ f # BadFrame /\ Len(f.payload) >= 2 /\ f.payload[1] = Laitt
        /\ Serializable(p) /\ p = Forwarded(f)
  BY <1>1 DEF Origin
<1>3. i \in 3 .. turn[c] /\ i \in 1 .. Len(Menu[c]) /\ i \in 1 .. turn[c]
  <2>1. /\ Finished(c) <= turn[c] /\ Finished(c) \in Int /\ turn[c] \in Nat
        /\ turn[c] <= Len(Menu[c]) /\ Len(Menu[c]) \in Nat
    BY Counters DEF SendsInv, PlacesInv
  <2> QED  BY <2>1 DEF Origin
<1>4. f \in Packet /\ Whole(f)
  <2>1. f \in Menu[c][i] /\ c \in Conns \ SelfConns
    BY <1>2, <1>3 DEF SendsInv, PlacesInv, Clients
  <2> QED  BY <1>2, <1>3, <2>1, MenuAssumption
<1>5. p \in Packet /\ Serializable(p) /\ Whole(p) /\ f.type \in {TypePing, TypeSend}
  BY <1>2, <1>4, ForwardedIsWhole
<1>6. Carries(f, p.payload)
  <2>1. /\ f.type = TypeSend => p.payload = SubSeq(f.payload, 3, Len(f.payload))
        /\ f.type = TypePing => p.payload = <<PayloadEmpty>>
    BY <1>2 DEF Forwarded, PingPacket, Build, TypePing, TypeSend
  <2> QED  BY <1>2, <1>5, <2>1 DEF Carries
<1>7. f \in Sent(c, i)
  BY <1>2, <1>3, SentOfClient
<1>8. Known(c) /\ (c \in LightsConns => Configured(c))
  BY DEF Origin, SendsInv, ClaimInv
<1>9. <<c, i>> \in Sends
  BY <1>3 DEF Sends
<1> QED  BY <1>5, <1>6, <1>7, <1>8, <1>9 DEF MayPublish, Known

\* The sends of the connections to laitt: one for each, and of one client in order.
LEMMA DialsHaveOrigins ==
  ASSUME BrokerInv, SendsInv
  PROVE  \E from \in Injection(DOMAIN dialled[Laitt], Clients \X Nat) :
           /\ \A k \in DOMAIN dialled[Laitt] :
                Origin(SentSets, from[k][1], from[k][2], ToLaitt(k))
           /\ \A j, k \in DOMAIN dialled[Laitt] :
                (j < k /\ from[j][1] = from[k][1]) => from[j][2] < from[k][2]
<1>1. PICK of \in Injection(HandedOn, Clients \X Nat) :
        /\ \A h \in HandedOn : Origin(SentSets, of[h][1], of[h][2], h)
        /\ InOrder(of, HandedOn)
  BY DEF SendsInv, HandInv
<1>2. /\ of \in [HandedOn -> Clients \X Nat]
      /\ \A g, h \in HandedOn : of[g] = of[h] => g = h
  BY <1>1 DEF Injection, IsInjective
<1>3. PICK from : from = [k \in DOMAIN dialled[Laitt] |-> of[ToLaitt(k)]]
  OBVIOUS
<1>4. \A k \in DOMAIN dialled[Laitt] : ToLaitt(k) \in HandedOn /\ from[k] = of[ToLaitt(k)]
  BY <1>3, LaittPlaces
<1>5. \A j, k : ToLaitt(j) = ToLaitt(k) => j = k
  BY DEF ToLaitt
<1>6. from \in Injection(DOMAIN dialled[Laitt], Clients \X Nat)
  <2>1. from \in [DOMAIN dialled[Laitt] -> Clients \X Nat]
    BY <1>2, <1>3, <1>4
  <2>2. \A j, k \in DOMAIN dialled[Laitt] : from[j] = from[k] => j = k
    BY <1>2, <1>4, <1>5
  <2> QED  BY <2>1, <2>2 DEF Injection, IsInjective
<1>7. ASSUME NEW k \in DOMAIN dialled[Laitt]
      PROVE  Origin(SentSets, from[k][1], from[k][2], ToLaitt(k))
  BY <1>1, <1>4
<1>8. ASSUME NEW j \in DOMAIN dialled[Laitt], NEW k \in DOMAIN dialled[Laitt],
             j < k, from[j][1] = from[k][1]
      PROVE  from[j][2] < from[k][2]
  <2>1. /\ ToLaitt(j)[1] = ToLaitt(k)[1] /\ ToLaitt(j)[2] = ToLaitt(k)[2]
        /\ ToLaitt(j)[3] < ToLaitt(k)[3]
    BY <1>8 DEF ToLaitt
  <2> QED  BY <1>1, <1>4, <1>8, <2>1 DEF InOrder
<1> QED  BY <1>6, <1>7, <1>8

\* A connection that carries something carries a packet laitt can be sent, without
\* a terminator inside.
LEMMA DialledAreWhole ==
  ASSUME PathInv, NEW k \in 1 .. Len(dialled[Laitt]), dialled[Laitt][k] # BadFrame
  PROVE  LET p == dialled[Laitt][k]
         IN  p \in Packet /\ Serializable(p) /\ Whole(p)
<1>1. PICK from \in Injection(DOMAIN dialled[Laitt], Clients \X Nat) :
        \A j \in DOMAIN dialled[Laitt] :
          Origin(SentSets, from[j][1], from[j][2], ToLaitt(j))
  BY DialsHaveOrigins DEF PathInv
<1>2. k \in DOMAIN dialled[Laitt]
  BY DialledTypes DEF PathInv
<1>3. PICK c \in Clients, i \in Nat : Origin(SentSets, c, i, ToLaitt(k))
  <2>1. from[k] \in Clients \X Nat
    BY <1>1, <1>2 DEF Injection
  <2> QED  BY <1>1, <1>2, <2>1
<1> QED  BY <1>2, <1>3, DialOrigin DEF PathInv

\* The connections admiral dials come after those it dialled.
LEMMA DialledGrow ==
  ASSUME Step
  PROVE  /\ Len(dialled[Laitt]) <= Len(dialled'[Laitt])
         /\ Len(dialled[Laitt]) \in Nat /\ Len(dialled'[Laitt]) \in Nat
         /\ \A k \in 1 .. Len(dialled[Laitt]) : dialled'[Laitt][k] = dialled[Laitt][k]
<1> DEFINE n == Len(dialled[Laitt])
           n2 == Len(dialled'[Laitt])
<1>1. /\ n \in Nat /\ DOMAIN dialled[Laitt] = 1 .. n
      /\ n2 \in Nat /\ DOMAIN dialled'[Laitt] = 1 .. n2
  <2>1. dialled'[Laitt] \in Seq(Incoming)
    BY StepSendsInv, LaittAssumption DEF BrokerInv, TypeInv, TypeOK
  <2>2. n2 \in Nat /\ DOMAIN dialled'[Laitt] = 1 .. n2
    BY <2>1, LenProperties
  <2> QED  BY <2>2, DialledTypes DEF Step
<1>2. \A h \in HandedOn : h \in HandedOn' /\ Item(h)' = Item(h)
  <2>1. Hands
    BY PathStep, StepHands DEF Step
  <2> QED  BY <2>1 DEF Hands, Rests, HandsOn
<1>3. ASSUME NEW k \in 1 .. n
      PROVE  k \in 1 .. n2 /\ dialled'[Laitt][k] = dialled[Laitt][k]
  <2>1. ToLaitt(k) \in HandedOn
    BY <1>1, LaittPlaces
  <2>2. PICK h : h = ToLaitt(k)
    OBVIOUS
  <2>3. h \in HandedOn' /\ Item(h)' = Item(h)
    BY <1>2, <2>1, <2>2
  <2> QED  BY <1>1, <2>2, <2>3, LaittPlaces DEF ToLaitt, Item
<1>4. n <= n2
  BY <1>1, <1>3
<1> QED  BY <1>1, <1>3, <1>4

LEMMA StepPubInv ==
  ASSUME PathInv, [PathNext]_pathVars
  PROVE  PubInv'
<1> DEFINE d == dialled[Laitt]
<1>0. Step
  BY DEF Step, PathInv
<1>1. /\ Len(d) <= Len(dialled'[Laitt]) /\ Len(d) \in Nat /\ Len(dialled'[Laitt]) \in Nat
      /\ \A k \in 1 .. Len(d) : dialled'[Laitt][k] = d[k]
  BY <1>0, DialledGrow
<1>2. /\ laitt \in {"accept", "recv"} /\ taken \in 0 .. Len(d)
      /\ laitt = "recv" => taken >= 1
      /\ published \in Seq(Seq(Byte))
      /\ DOMAIN published = 1 .. Len(published) /\ Len(published) \in Nat
      /\ Read \in 0 .. Len(d) /\ Read <= taken
  BY <1>1, LenProperties DEF PathInv, PubInv, Read
<1>3. PICK at \in [DOMAIN published -> 1 .. Read] :
        /\ \A i, j \in DOMAIN published : i < j => at[i] < at[j]
        /\ \A i \in DOMAIN published :
             d[at[i]] # BadFrame /\ published[i] = d[at[i]].payload
  BY DEF PathInv, PubInv
<1>5. ASSUME UNCHANGED published, laitt' \in {"accept", "recv"},
             taken' \in 0 .. Len(dialled'[Laitt]), laitt' = "recv" => taken' >= 1,
             NEW r, r = Read', Read <= r, r \in Nat
      PROVE  PubInv'
  <2>1. at \in [DOMAIN published' -> 1 .. r]
    <3>1. 1 .. Read \subseteq 1 .. r
      BY <1>2, <1>5
    <3> QED  BY <1>3, <1>5, <3>1
  <2>2. \A i \in DOMAIN published' :
          /\ dialled'[Laitt][at[i]] # BadFrame
          /\ published'[i] = dialled'[Laitt][at[i]].payload
    <3> SUFFICES ASSUME NEW i \in DOMAIN published
                 PROVE  dialled'[Laitt][at[i]] = d[at[i]]
      BY <1>3, <1>5
    <3>1. at[i] \in 1 .. Len(d)
      BY <1>2, <1>3
    <3> QED  BY <1>1, <3>1
  <2>3. \A i, j \in DOMAIN published' : i < j => at[i] < at[j]
    BY <1>3, <1>5
  <2> QED  BY <1>2, <1>5, <2>1, <2>2, <2>3 DEF PubInv
<1>6. CASE UNCHANGED laittVars
  <2>1. PICK r : r = Read'
    OBVIOUS
  <2>2. r = Read /\ UNCHANGED <<laitt, taken, published>>
    BY <1>6, <2>1 DEF laittVars, Read
  <2> QED  BY <1>1, <1>2, <1>5, <2>1, <2>2
<1>7. CASE LaittAccept
  <2>1. PICK r : r = Read'
    OBVIOUS
  <2>2. /\ laitt = "accept" /\ taken < Len(d) /\ taken' = taken + 1 /\ laitt' = "recv"
        /\ UNCHANGED published
    BY <1>7 DEF LaittAccept
  <2>3. r = Read
    BY <1>2, <2>1, <2>2 DEF Read
  <2> QED  BY <1>1, <1>2, <1>5, <2>1, <2>2, <2>3
<1>8. CASE LaittRecv
  <2> DEFINE p == d[taken]
  <2>1. /\ laitt = "recv" /\ laitt' = "accept" /\ taken' = taken
        /\ dialled'[Laitt] = d /\ Read = taken - 1 /\ Read' = taken
        /\ \/ UNCHANGED published
           \/ /\ p # BadFrame
              /\ published' = Append(published, Unframe(Received(Frame(p))).payload)
    BY <1>8 DEF LaittRecv, LaittRefuse, Read, vars, sharedVars, serverVars
  <2>2. CASE UNCHANGED published
    <3>1. PICK r : r = Read'
      OBVIOUS
    <3> QED  BY <1>1, <1>2, <1>5, <2>1, <2>2, <3>1
  <2>3. CASE /\ p # BadFrame
             /\ published' = Append(published, Unframe(Received(Frame(p))).payload)
    <3>1. p \in Packet /\ Serializable(p) /\ Whole(p)
      <4>1. taken \in 1 .. Len(d)
        BY <1>1, <1>2, <2>1
      <4> QED  BY <2>3, <4>1, DialledAreWhole
    <3>2. published' = Append(published, p.payload) /\ p.payload \in Seq(Byte)
      BY <2>3, <3>1, ReceivedIsFrame, FrameIsUndone DEF Packet
    <3> DEFINE n == Len(published)
    <3>3. /\ published' \in Seq(Seq(Byte)) /\ DOMAIN published' = 1 .. n + 1
          /\ published'[n + 1] = p.payload
          /\ \A i \in 1 .. n : published'[i] = published[i]
      <4>1. /\ published' \in Seq(Seq(Byte)) /\ Len(published') = n + 1
            /\ published'[n + 1] = p.payload
            /\ \A i \in 1 .. n : published'[i] = published[i]
        BY <1>2, <3>2, AppendProperties
      <4> QED  BY <4>1, LenProperties
    <3>4. PICK at2 : at2 = [i \in 1 .. n + 1 |-> IF i \in 1 .. n THEN at[i] ELSE taken]
      OBVIOUS
    <3>5. \A i \in 1 .. n : at[i] \in 1 .. taken - 1
      BY <1>2, <1>3, <2>1
    <3>6. at2 \in [1 .. n + 1 -> 1 .. taken]
      BY <1>2, <2>1, <3>4, <3>5
    <3>7. \A i, j \in 1 .. n + 1 : i < j => at2[i] < at2[j]
      <4> SUFFICES ASSUME NEW i \in 1 .. n + 1, NEW j \in 1 .. n + 1, i < j
                   PROVE  at2[i] < at2[j]
        OBVIOUS
      <4>1. CASE j \in 1 .. n
        <5>1. i \in 1 .. n
          BY <1>2, <4>1
        <5> QED  BY <1>2, <1>3, <3>4, <4>1, <5>1
      <4>2. CASE j \notin 1 .. n
        <5>1. i \in 1 .. n /\ at2[i] = at[i] /\ at2[j] = taken
          BY <1>2, <3>4, <4>2
        <5> QED  BY <1>2, <2>1, <3>5, <5>1
      <4> QED  BY <4>1, <4>2
    <3>8. \A i \in DOMAIN published' :
            /\ dialled'[Laitt][at2[i]] # BadFrame
            /\ published'[i] = dialled'[Laitt][at2[i]].payload
      <4> SUFFICES ASSUME NEW i \in 1 .. n + 1
                   PROVE  d[at2[i]] # BadFrame /\ published'[i] = d[at2[i]].payload
        BY <2>1, <3>3
      <4>1. CASE i \in 1 .. n
        <5>1. at2[i] = at[i] /\ i \in DOMAIN published
          BY <1>2, <3>4, <4>1
        <5> QED  BY <1>3, <3>3, <4>1, <5>1
      <4>2. CASE i \notin 1 .. n
        <5>1. at2[i] = taken /\ i = n + 1
          BY <1>2, <3>4, <4>2
        <5> QED  BY <2>3, <3>3, <5>1
      <4> QED  BY <4>1, <4>2
    <3> QED  BY <1>2, <2>1, <3>3, <3>6, <3>7, <3>8 DEF PubInv
  <2> QED  BY <2>1, <2>2, <2>3
<1>9. UNCHANGED laittVars \/ LaittAccept \/ LaittRecv
  BY DEF PathNext, LaittStep, pathVars
<1> QED  BY <1>6, <1>7, <1>8, <1>9

-----------------------------------------------------------------------------

LEMMA InitPathInv == PathInit => PathInv
<1> SUFFICES ASSUME PathInit PROVE PathInv
  OBVIOUS
<1>1. Init /\ BrokerInv /\ RefusedInv
  BY InitRefused DEF PathInit
<1>2. LightsTypeOK
  BY DEF PathInit, LightsTypeOK
<1>3. ClaimInv
  BY <1>1, LightsAssumption DEF Init, ClaimInv, Known
<1>4. PlacesInv(SentSets) /\ HandInv(SentSets)
  BY <1>1, InitPlaces
<1>5. PubInv
  <2>1. DOMAIN <<>> = {} /\ <<>> \in [{} -> 1 .. Read]
    OBVIOUS
  <2>2. Len(dialled[Laitt]) \in Nat
    BY <1>1, DialledTypes
  <2>3. laitt = "accept" /\ taken = 0 /\ published = <<>> /\ <<>> \in Seq(Seq(Byte))
    BY EmptySeq DEF PathInit
  <2>4. PICK at : at = <<>>
    OBVIOUS
  <2>5. DOMAIN published = {} /\ at \in [DOMAIN published -> 1 .. Read]
    BY <2>1, <2>3, <2>4
  <2>6. \E f \in [DOMAIN published -> 1 .. Read] :
          /\ \A i, j \in DOMAIN published : i < j => f[i] < f[j]
          /\ \A i \in DOMAIN published :
               /\ dialled[Laitt][f[i]] # BadFrame
               /\ published[i] = dialled[Laitt][f[i]].payload
    BY <2>5
  <2>7. /\ laitt \in {"accept", "recv"} /\ (laitt = "recv" => taken >= 1)
        /\ taken \in 0 .. Len(dialled[Laitt]) /\ published \in Seq(Seq(Byte))
    BY <2>2, <2>3
  <2> QED  BY <2>6, <2>7 DEF PubInv
<1> QED  BY <1>1, <1>2, <1>3, <1>4, <1>5 DEF PathInv, SendsInv

LEMMA NextPathInv == PathInv /\ [PathNext]_pathVars => PathInv'
<1> SUFFICES ASSUME PathInv, [PathNext]_pathVars PROVE PathInv'
  OBVIOUS
<1>1. Step
  BY DEF Step, PathInv
<1> QED  BY <1>1, StepSendsInv, StepPubInv DEF PathInv

THEOREM PathInvariant == PathSpec => []PathInv
<1> QED  BY InitPathInv, NextPathInv, PTL DEF PathSpec

\* Every variable keeps its type: laitt never returns from its loop and counts
\* no connection that was not dialled.
THEOREM PathTypeCorrect == PathSpec => []PathTypeOK
<1>1. PathInv => PathTypeOK
  BY DEF PathInv, BrokerInv, TypeInv, SendsInv, LightsTypeOK, PubInv, PathTypeOK
<1> QED  BY <1>1, PathInvariant, PTL

\* laitt publishes each connection once and in turn, and the connections came of
\* packets of their own, those of one client in order.
LEMMA PublicationsHaveSends == PathInv => PublishedOnce
<1> SUFFICES ASSUME PathInv PROVE PublishedOnce
  OBVIOUS
<1> DEFINE d == dialled[Laitt]
<1>1. PICK at \in [DOMAIN published -> 1 .. Read] :
        /\ \A i, j \in DOMAIN published : i < j => at[i] < at[j]
        /\ \A i \in DOMAIN published :
             d[at[i]] # BadFrame /\ published[i] = d[at[i]].payload
  BY DEF PathInv, PubInv
<1>2. PICK from \in Injection(DOMAIN d, Clients \X Nat) :
        /\ \A k \in DOMAIN d : Origin(SentSets, from[k][1], from[k][2], ToLaitt(k))
        /\ \A j, k \in DOMAIN d :
             (j < k /\ from[j][1] = from[k][1]) => from[j][2] < from[k][2]
  BY DialsHaveOrigins DEF PathInv
<1>3. /\ from \in [DOMAIN d -> Clients \X Nat]
      /\ \A j, k \in DOMAIN d : from[j] = from[k] => j = k
  BY <1>2 DEF Injection, IsInjective
<1>4. DOMAIN d = 1 .. Len(d) /\ Len(d) \in Nat
  BY DialledTypes DEF PathInv
<1>5. \A i \in DOMAIN published : at[i] \in DOMAIN d /\ at[i] \in Int
  BY <1>1, <1>4 DEF PathInv, PubInv, Read
<1>6. \A i, j \in DOMAIN published : at[i] = at[j] => i = j
  <2> SUFFICES ASSUME NEW i \in DOMAIN published, NEW j \in DOMAIN published, i # j
               PROVE  at[i] # at[j]
    OBVIOUS
  <2>1. i \in Int /\ j \in Int
    <3>1. DOMAIN published = 1 .. Len(published) /\ Len(published) \in Nat
      BY LenProperties DEF PathInv, PubInv
    <3> QED  BY <3>1
  <2>2. i < j \/ j < i
    BY <2>1
  <2> QED  BY <1>1, <1>5, <2>2
<1>7. ASSUME NEW i \in DOMAIN published
      PROVE  from[at[i]] \in Sends /\ MayPublish(from[at[i]], published[i])
  <2>1. PICK k : k = at[i]
    OBVIOUS
  <2>2. k \in DOMAIN d /\ d[k] # BadFrame /\ published[i] = d[k].payload
    BY <1>1, <1>5, <2>1
  <2>3. PICK c \in Clients, n \in Nat : from[k] = <<c, n>>
    BY <1>3, <2>2
  <2>4. Origin(SentSets, c, n, ToLaitt(k))
    BY <1>2, <2>2, <2>3
  <2> QED  BY <2>1, <2>2, <2>3, <2>4, DialOrigin DEF PathInv
<1>8. PICK of : of = [i \in DOMAIN published |-> from[at[i]]]
  OBVIOUS
<1>9. of \in Injection(DOMAIN published, Sends)
  <2>1. of \in [DOMAIN published -> Sends]
    BY <1>7, <1>8
  <2>2. \A i, j \in DOMAIN published : of[i] = of[j] => i = j
    BY <1>3, <1>5, <1>6, <1>8
  <2> QED  BY <2>1, <2>2 DEF Injection, IsInjective
<1>10. \A i, j \in DOMAIN published :
         (i < j /\ of[i][1] = of[j][1]) => of[i][2] < of[j][2]
  BY <1>1, <1>2, <1>5, <1>8
<1> QED  BY <1>7, <1>8, <1>9, <1>10 DEF PublishedOnce

\* Every publication has a send of its own, by a client that was accepted, and for
\* a run of lights on a configured address; and the messages of one client are
\* published in the order in which it sent them.
THEOREM PublishedOnceTheorem == PathSpec => []PublishedOnce
<1> QED  BY PathInvariant, PublicationsHaveSends, PTL
=============================================================================
