---------------------------- MODULE BrokerProofs ----------------------------
(***************************************************************************)
(* The broker for every set of connections, every menu of the clients and  *)
(* every capacity of the channel of events: its types, that the first      *)
(* packet a client reads is ACCEPT, that no connection is left without an  *)
(* owner, that the table matches the servers, that it keeps the contract   *)
(* of AdmiralClient with every client, and that it hands on the packets of *)
(* its clients without invention, repetition or reordering.                *)
(*                                                                         *)
(* TypeOK is not inductive: the handler and the servers index the table    *)
(* with numbers they loaded earlier, and the handler writes the service of *)
(* a connection whose event it took from the channel.  TypeInv adds that   *)
(* these indices are still inside the array and that every connection an   *)
(* event, a server or the handler refers to was accepted.                  *)
(*                                                                         *)
(* AcceptFirst is not inductive.  A server writes to a connection it read  *)
(* from the table, possibly while the handler was moving the elements; so  *)
(* every connection that is in any field of the table, or in the hands of  *)
(* a server, must be one the acceptor has answered (TableInv, TargetInv,   *)
(* AnsweredInv).  And the acceptor answers a connection only once: one it  *)
(* has not accepted has nothing in its outbox and is queued only once      *)
(* (BacklogInv, FreshInv, GreetingInv).                                    *)
(*                                                                         *)
(* HandedOnInOrder names for each place a send it came from; its           *)
(* invariant, HandInv, carries these names from step to step.  A packet is *)
(* followed by counting: admiral has read Consumed(c) of the packets of c, *)
(* so what waits in the inbox comes after, in its place, and a busy server *)
(* holds what came of the last one it read (PlacesInv).  A step hands on   *)
(* at most one packet, at the end of one destination, and its server is    *)
(* then done with it (StepHands), so the next it hands on is a later one.  *)
(* Connections to admiral itself feed nothing into this, because the       *)
(* acceptor refuses them (RefusedInv).                                     *)
(***************************************************************************)
EXTENDS BrokerProperties, SequenceTheorems, FiniteSetTheorems, TLAPS

Known(c) == service[c] # NoService

AcceptorInv ==
  /\ acceptor.pc # "accept" => acceptor.conn \in Conns
  /\ acceptor.pc = "publish" => Known(acceptor.conn)

EventsInv == \A i \in 1 .. Len(events) : Known(events[i].conn)

HandlerInv ==
  /\ handler.pc # "receive" =>
       handler.conn \in Conns /\ Known(handler.conn) /\ handler.at \in 1 .. len
  /\ handler.pc \in {"moveId", "moveConn"} => handler.at < len

ServerInv ==
  \A c \in Conns :
    /\ server[c].pc # "none" => Known(c)
    /\ server[c].pc = "scan" => server[c].at >= 1 /\ server[c].n <= Len(slots)
    /\ server[c].pc = "take" => server[c].at \in 1 .. Len(slots)

TypeInv == TypeOK /\ AcceptorInv /\ EventsInv /\ HandlerInv /\ ServerInv

-----------------------------------------------------------------------------

\* The packets admiral builds are packets.
LEMMA BuiltPackets ==
  /\ AcceptPacket \in Packet /\ PingPacket \in Packet /\ ZeroPacket \in Packet
  /\ \A pc : ServerIdle(pc).packet \in Packet
<1>1. <<>> \in Seq(Byte) /\ <<PayloadEmpty>> \in Seq(Byte)
  BY EmptySeq DEF PayloadEmpty, Byte
<1> QED
  BY <1>1
  DEF AcceptPacket, PingPacket, ZeroPacket, Build, ServerIdle, Packet, Byte,
      TypeInit, ArgInitAccept, FlagsNone, TypePing, ArgPing

LEMMA IdleServers ==
  \A pc \in {"none", "read", "done"} : ServerIdle(pc) \in ServerState
BY BuiltPackets DEF ServerIdle, ServerState, Byte

\* So is what a server sends on for a packet.
LEMMA ForwardedIsPacket ==
  ASSUME NEW p \in Packet
  PROVE  Forwarded(p) \in Packet
<1>1. SubSeq(p.payload, 3, Len(p.payload)) \in Seq(Byte)
  <2>1. p.payload \in Seq(Byte) /\ Len(p.payload) \in Nat
    BY LenProperties DEF Packet
  <2>2. \A i \in 3 .. Len(p.payload) : p.payload[i] \in Byte
    BY <2>1, ElementOfSeq
  <2> QED  BY <2>1, <2>2, SubSeqProperties
<1>2. CASE p.type = TypeSend
  <2>1. Forwarded(p) = Build(TypeSend, ArgSend, SubSeq(p.payload, 3, Len(p.payload)))
    BY <1>2 DEF Forwarded, TypeSend, TypePing
  <2> QED  BY <1>1, <2>1 DEF Build, Packet, Byte, TypeSend, ArgSend, FlagsNone
<1>3. CASE p.type # TypeSend
  BY <1>3, BuiltPackets DEF Forwarded
<1> QED  BY <1>2, <1>3

\* Taking the head of a sequence of S.
LEMMA HeadAndTail ==
  ASSUME NEW S, NEW q \in Seq(S), q # <<>>
  PROVE  /\ Head(q) \in S /\ Head(q) = q[1]
         /\ Tail(q) \in Seq(S)
         /\ Len(q) >= 1 /\ Len(Tail(q)) = Len(q) - 1
         /\ \A i \in 1 .. Len(q) - 1 : Tail(q)[i] = q[i + 1]
BY HeadTailProperties, EmptySeq, LenProperties, ElementOfSeq

\* The fields of the events in the channel.
LEMMA EventFields ==
  ASSUME TypeOK
  PROVE  \A i \in 1 .. Len(events) : events[i].conn \in Conns
<1>1. events \in Seq(Event)
  BY DEF TypeOK
<1>2. \A i \in 1 .. Len(events) : events[i] \in Event
  BY <1>1, ElementOfSeq
<1> QED  BY <1>2 DEF Event

\* Writing an element of the table keeps its type and its length.
LEMMA WriteSlot ==
  ASSUME TypeOK, NEW i \in 1 .. len, NEW v \in Entry
  PROVE  /\ [slots EXCEPT ![i] = v] \in Seq(Entry)
         /\ Len([slots EXCEPT ![i] = v]) = Len(slots)
BY ExceptSeq, LenProperties DEF TypeOK

-----------------------------------------------------------------------------

LEMMA InitTypeInv == Init => TypeInv
<1> SUFFICES ASSUME Init PROVE TypeInv
  OBVIOUS
<1>1. TypeOK
  <2>1. /\ <<>> \in Seq(Incoming) /\ <<>> \in Seq(Packet)
        /\ <<>> \in Seq(Conns) /\ <<>> \in Seq(Event) /\ <<>> \in Seq(Entry)
        /\ Len(slots) = 0
    BY EmptySeq DEF Init
  <2>2. server \in [Conns -> ServerState]
    BY IdleServers DEF Init
  <2>3. /\ peer \in [Conns -> {"absent", "open", "eof", "reset"}]
        /\ inbox \in [Conns -> Seq(Incoming)]
        /\ outbox \in [Conns -> Seq(Packet)]
        /\ dialled \in [Services -> Seq(Incoming)]
    BY <2>1 DEF Init
  <2>4. /\ turn \in [Conns -> Nat]
        /\ sock \in [Conns -> {"none", "open", "closed"}]
        /\ service \in [Conns -> Services \cup {NoService}]
    BY DEF Init
  <2>5. /\ acceptor \in AcceptorState
        /\ handler \in HandlerState
    BY DEF Init, AcceptorIdle, HandlerIdle, AcceptorState, HandlerState
  <2>6. len \in 0 .. Len(slots)
    BY <2>1 DEF Init
  <2> QED
    BY <2>1, <2>2, <2>3, <2>4, <2>5, <2>6 DEF Init, TypeOK
<1> QED
  <2>1. Len(events) = 0
    BY EmptySeq DEF Init
  <2> QED
    BY <1>1, <2>1
    DEF Init, TypeInv, AcceptorInv, EventsInv, HandlerInv, ServerInv,
        AcceptorIdle, HandlerIdle, ServerIdle

\* A client takes one step through its menu.
LEMMA TurnGrows ==
  ASSUME turn \in [Conns -> Nat], NEW c \in Conns,
         turn' = [turn EXCEPT ![c] = turn[c] + 1]
  PROVE  turn[c] \in Nat /\ turn' \in [Conns -> Nat]
OBVIOUS

LEMMA ClientKeepsTypes ==
  ASSUME TypeInv, NEW c \in Conns, ClientStep(c)
  PROVE  TypeInv'
<1> USE DEF TypeInv, AcceptorInv, EventsInv, HandlerInv, ServerInv, Known,
            AcceptorState, HandlerState, ServerState
<1>1. CASE Connect(c)
  BY <1>1, AppendProperties
  DEF Connect, TypeOK, handlerVars, serverVars
<1>2. CASE ClientSend(c)
  <2>1. PICK f \in Menu[c][turn[c] + 1] :
          inbox' = [inbox EXCEPT ![c] = Append(inbox[c], f)]
    BY <1>2 DEF ClientSend
  <2>2. /\ c \in Conns \ SelfConns /\ turn[c] < Len(Menu[c])
        /\ turn' = [turn EXCEPT ![c] = turn[c] + 1]
        /\ UNCHANGED <<peer, outbox, sock, backlog, acceptor, service, events,
                       slots, len, handler, server, dialled, crashed>>
    BY <1>2
    DEF ClientSend, ClientIs, sharedVars, acceptorVars, handlerVars, serverVars
  <2>3. turn[c] \in Nat /\ turn' \in [Conns -> Nat]
    BY <2>2, TurnGrows DEF TypeOK
  <2>4. f \in Incoming
    <3>1. turn[c] + 1 \in 1 .. Len(Menu[c])
      BY <2>2, <2>3, MenuAssumption
    <3> QED  BY <2>1, <2>2, <3>1, MenuAssumption DEF Incoming
  <2>5. inbox' \in [Conns -> Seq(Incoming)]
    BY <2>1, <2>4, AppendProperties DEF TypeOK
  <2> QED
    BY <2>2, <2>3, <2>5 DEF TypeOK
<1>3. CASE ClientLeave(c)
  <2>1. /\ peer' \in [Conns -> {"absent", "open", "eof", "reset"}]
        /\ UNCHANGED <<inbox, turn, outbox, sock, backlog, acceptor, service,
                       events, slots, len, handler, server, dialled, crashed>>
    BY <1>3
    DEF ClientLeave, TypeOK, sharedVars, acceptorVars, handlerVars, serverVars
  <2> QED  BY <2>1 DEF TypeOK
<1>4. CASE Finalize(c)
  BY <1>4
  DEF Finalize, TypeOK, sharedVars, acceptorVars, handlerVars, serverVars
<1> QED  BY <1>1, <1>2, <1>3, <1>4 DEF ClientStep

\* Closing the connection in the acceptor's hands.
LEMMA RejectTypes ==
  ASSUME TypeInv, acceptor.conn \in Conns, Reject(acceptor.conn)
  PROVE  /\ sock' \in [Conns -> {"none", "open", "closed"}]
         /\ acceptor' \in AcceptorState
         /\ acceptor'.pc = "accept"
BY DEF TypeInv, TypeOK, Reject, AcceptorIdle, AcceptorState

LEMMA AcceptorKeepsTypes ==
  ASSUME TypeInv, AcceptorStep
  PROVE  TypeInv'
<1> USE DEF TypeInv, AcceptorInv, EventsInv, HandlerInv, ServerInv, Known,
            AcceptorState, HandlerState, ServerState
<1>1. CASE Accept
  <2>1. Head(backlog) \in Conns /\ Tail(backlog) \in Seq(Conns)
    BY <1>1, HeadAndTail DEF Accept, TypeOK
  <2> QED
    BY <1>1, <2>1
    DEF Accept, TypeOK, clientVars, handlerVars, serverVars
<1>2. CASE HandshakeReadFails
  <2>1. acceptor.conn \in Conns /\ Reject(acceptor.conn)
    BY <1>2 DEF HandshakeReadFails, AcceptorAt
  <2> QED
    BY <1>2, <2>1, RejectTypes
    DEF HandshakeReadFails, TypeOK, clientVars, handlerVars, serverVars
<1>3. CASE ReadInit
  <2> DEFINE c == acceptor.conn
  <2>1. c \in Conns /\ inbox[c] # <<>>
    BY <1>3 DEF ReadInit, AcceptorAt
  <2>2. inbox' \in [Conns -> Seq(Incoming)]
    <3>1. Tail(inbox[c]) \in Seq(Incoming)
      BY <2>1, HeadAndTail DEF TypeOK
    <3> QED  BY <1>3, <3>1 DEF ReadInit, TypeOK
  <2>3. CASE Reject(c)
    BY <1>3, <2>1, <2>2, <2>3, RejectTypes
    DEF ReadInit, TypeOK, handlerVars, serverVars
  <2>4. CASE acceptor' = [acceptor EXCEPT !.pc = "send"] /\ UNCHANGED sock
    BY <1>3, <2>1, <2>2, <2>4
    DEF ReadInit, TypeOK, handlerVars, serverVars
  <2> QED  BY <1>3, <2>3, <2>4 DEF ReadInit
<1>4. CASE ReadSend
  <2> DEFINE c == acceptor.conn
             f == Head(inbox[c])
  <2>1. c \in Conns /\ inbox[c] # <<>>
    BY <1>4 DEF ReadSend, AcceptorAt
  <2>2. inbox' \in [Conns -> Seq(Incoming)]
    <3>1. Tail(inbox[c]) \in Seq(Incoming)
      BY <2>1, HeadAndTail DEF TypeOK
    <3> QED  BY <1>4, <3>1 DEF ReadSend, TypeOK
  <2>3. outbox' \in [Conns -> Seq(Packet)]
    <3>1. Append(outbox[c], AcceptPacket) \in Seq(Packet)
      BY <2>1, BuiltPackets, AppendProperties DEF TypeOK
    <3> QED  BY <1>4, <2>1, <3>1 DEF ReadSend, Answer, TypeOK
  <2>4. crashed' \in BOOLEAN
    BY <1>4 DEF ReadSend
  <2>5. CASE Reject(c) /\ UNCHANGED service
    BY <1>4, <2>1, <2>2, <2>3, <2>4, <2>5, RejectTypes
    DEF ReadSend, TypeOK, handlerVars, serverVars
  <2>6. CASE /\ acceptor' = [acceptor EXCEPT !.pc = "publish"]
             /\ service' = [service EXCEPT ![c] = f.payload[2]]
             /\ SenderIsValid(c, f.payload[2])
             /\ UNCHANGED sock
    <3>1. f.payload[2] \in Services /\ NoService \notin Services
      BY <2>6, ServicesAssumption DEF SenderIsValid
    <3>2. /\ service' \in [Conns -> Services \cup {NoService}]
          /\ \A d \in Conns : Known(d) => Known(d)'
          /\ Known(acceptor.conn)'
          /\ acceptor' \in AcceptorState
          /\ acceptor'.conn \in Conns
      BY <2>1, <2>6, <3>1 DEF TypeOK
    <3>3. \A i \in 1 .. Len(events) : events[i].conn \in Conns
      BY EventFields
    <3>4. UNCHANGED <<peer, turn, backlog, events, slots, len, handler, server,
                      dialled>>
      BY <1>4 DEF ReadSend, handlerVars, serverVars
    <3>5. TypeOK'
      BY <2>2, <2>3, <2>4, <2>6, <3>2, <3>4 DEF TypeOK
    <3> QED
      BY <2>1, <2>6, <3>2, <3>3, <3>4, <3>5 DEF TypeOK
  <2> QED  BY <1>4, <2>5, <2>6 DEF ReadSend
<1>5. CASE PublishConnected
  <2>1. acceptor.conn \in Conns /\ Known(acceptor.conn)
    BY <1>5 DEF PublishConnected, AcceptorAt
  <2>2. Connected(acceptor.conn) \in Event
    BY <2>1 DEF Connected, Event
  <2>3. /\ events' \in Seq(Event) /\ Len(events') = Len(events) + 1
        /\ events'[Len(events) + 1] = Connected(acceptor.conn)
        /\ \A i \in 1 .. Len(events) : events'[i] = events[i]
    BY <1>5, <2>2, AppendProperties DEF PublishConnected, TypeOK
  <2>4. EventsInv'
    <3>1. service' = service /\ events \in Seq(Event) /\ Len(events) \in Nat
      BY <1>5, LenProperties DEF PublishConnected, TypeOK
    <3>2. Connected(acceptor.conn).conn = acceptor.conn
      BY DEF Connected
    <3>3. \A i \in 1 .. Len(events) + 1 : Known(events'[i].conn)
      <4> SUFFICES ASSUME NEW i \in 1 .. Len(events) + 1
                   PROVE  Known(events'[i].conn)
        OBVIOUS
      <4>1. CASE i \in 1 .. Len(events)
        BY <2>3, <4>1
      <4>2. CASE i = Len(events) + 1
        BY <2>1, <2>3, <3>2, <4>2
      <4> QED  BY <3>1, <4>1, <4>2
    <3> QED  BY <2>3, <3>1, <3>3
  <2> QED
    BY <1>5, <2>3, <2>4
    DEF PublishConnected, TypeOK, AcceptorIdle, connVars, clientVars,
        handlerVars, serverVars
<1> QED  BY <1>1, <1>2, <1>3, <1>4, <1>5 DEF AcceptorStep

LEMMA HandlerKeepsTypes ==
  ASSUME TypeInv, HandlerStep
  PROVE  TypeInv'
<1> USE DEF TypeInv, AcceptorInv, EventsInv, HandlerInv, ServerInv, Known,
            AcceptorState, HandlerState, ServerState
<1>1. Len(slots) \in Nat /\ len \in 0 .. Len(slots)
  BY LenProperties DEF TypeOK
<1>2. \A i \in 1 .. Len(slots) : slots[i] \in Entry
  BY ElementOfSeq DEF TypeOK
<1>3. events # <<>> =>
        /\ Tail(events) \in Seq(Event)
        /\ Head(events).conn \in Conns /\ Known(Head(events).conn)
        /\ \A i \in 1 .. Len(Tail(events)) : Known(Tail(events)[i].conn)
  <2> SUFFICES ASSUME events # <<>>
               PROVE  /\ Tail(events) \in Seq(Event)
                      /\ Head(events).conn \in Conns /\ Known(Head(events).conn)
                      /\ \A i \in 1 .. Len(Tail(events)) : Known(Tail(events)[i].conn)
    OBVIOUS
  <2>1. events \in Seq(Event)
    BY DEF TypeOK
  <2>2. /\ Tail(events) \in Seq(Event) /\ Head(events) = events[1]
        /\ Len(events) >= 1 /\ Len(Tail(events)) = Len(events) - 1
        /\ \A i \in 1 .. Len(events) - 1 : Tail(events)[i] = events[i + 1]
        /\ Len(events) \in Nat
    BY <2>1, HeadAndTail, LenProperties
  <2> QED  BY <2>2, EventFields
<1>4. CASE ReceiveConnected
  <2>1. /\ slots' \in Seq(Entry) /\ Len(slots') \in Nat
        /\ Len(slots') >= Len(slots) /\ len + 1 <= Len(slots')
    <3>1. ZeroEntry \in Entry
      BY DEF ZeroEntry, Entry, Byte
    <3>2. slots \in Seq(Entry) /\ slots' = Grown
      BY <1>4 DEF ReceiveConnected, TypeOK
    <3>3. CASE len = Len(slots)
      BY <1>1, <3>1, <3>2, <3>3, AppendProperties DEF Grown
    <3>4. CASE len # Len(slots)
      BY <1>1, <3>2, <3>4 DEF Grown
    <3> QED  BY <3>3, <3>4
  <2>2. handler' = [pc |-> "putId", conn |-> Head(events).conn, at |-> len + 1]
    BY <1>4 DEF ReceiveConnected
  <2>3. /\ events # <<>> /\ events' = Tail(events) /\ len' = len + 1
        /\ UNCHANGED <<peer, inbox, turn, outbox, sock, backlog, acceptor,
                      service, server, dialled, crashed>>
    BY <1>4
    DEF ReceiveConnected, connVars, clientVars, acceptorVars, serverVars
  <2>4. HandlerInv'
    BY <1>1, <1>3, <2>2, <2>3
  <2>5. ServerInv'
    <3> SUFFICES ASSUME NEW c \in Conns
                 PROVE  /\ server[c].pc = "scan" => server[c].n <= Len(slots')
                        /\ server[c].pc = "take" => server[c].at \in 1 .. Len(slots')
      BY <2>3
    <3>1. server[c].n \in Nat /\ server[c].at \in Nat
      BY DEF TypeOK
    <3> QED  BY <1>1, <2>1, <3>1
  <2>6. TypeOK'
    <3>1. len' \in 0 .. Len(slots') /\ len + 1 \in Nat
      BY <1>1, <2>1, <2>3
    <3>2. handler' \in HandlerState
      BY <1>3, <2>2, <2>3, <3>1
    <3> QED  BY <1>3, <2>1, <2>3, <3>1, <3>2 DEF TypeOK
  <2> QED
    BY <1>3, <2>3, <2>4, <2>5, <2>6
<1>5. CASE PutId
  <2> DEFINE e == [slots[handler.at] EXCEPT !.service = service[handler.conn]]
  <2>1. handler.conn \in Conns /\ handler.at \in 1 .. len
    BY <1>5 DEF PutId, HandlerAt
  <2>2. e \in Entry
    <3>1. service[handler.conn] \in Byte
      BY <1>5, <2>1, ServicesAssumption DEF PutId, HandlerAt, TypeOK
    <3> QED  BY <1>1, <1>2, <2>1, <3>1 DEF Entry
  <2>3. slots' = [slots EXCEPT ![handler.at] = e]
    BY <1>5 DEF PutId
  <2>4. slots' \in Seq(Entry) /\ Len(slots') = Len(slots)
    BY <2>1, <2>2, <2>3, WriteSlot
  <2> QED
    BY <1>1, <1>5, <2>1, <2>4
    DEF PutId, HandlerAt, TypeOK, connVars, clientVars, acceptorVars, serverVars
<1>6. CASE PutConn
  <2> DEFINE e == [slots[handler.at] EXCEPT !.conn = handler.conn]
  <2>1. handler.conn \in Conns /\ handler.at \in 1 .. len /\ Known(handler.conn)
    BY <1>6 DEF PutConn, HandlerAt
  <2>2. e \in Entry
    BY <1>1, <1>2, <2>1 DEF Entry
  <2>3. slots' = [slots EXCEPT ![handler.at] = e]
    BY <1>6 DEF PutConn
  <2>4. slots' \in Seq(Entry) /\ Len(slots') = Len(slots)
    BY <2>1, <2>2, <2>3, WriteSlot
  <2>5. server' = [server EXCEPT ![handler.conn] = ServerIdle("read")]
    BY <1>6 DEF PutConn
  <2>6. server' \in [Conns -> ServerState]
    BY <2>5, IdleServers DEF TypeOK
  <2>7. ServerInv'
    BY <1>6, <2>1, <2>4, <2>5
    DEF PutConn, ServerIdle, TypeOK, acceptorVars
  <2> QED
    BY <1>1, <1>6, <2>4, <2>6, <2>7
    DEF PutConn, HandlerIdle, TypeOK, connVars, clientVars, acceptorVars
<1>7. CASE ReceiveDisconnected
  <2> DEFINE c == Head(events).conn
  <2>1. CASE sock' = [sock EXCEPT ![c] = "closed"] /\ UNCHANGED handler
    BY <1>3, <1>7, <2>1
    DEF ReceiveDisconnected, TypeOK, clientVars, acceptorVars, serverVars
  <2>2. ASSUME NEW first \in EntriesFor(c), UNCHANGED sock,
               handler' = [pc |-> IF first < len THEN "moveId" ELSE "clearId",
                           conn |-> c, at |-> first]
        PROVE  TypeInv'
    <3>1. first \in 1 .. len
      BY DEF EntriesFor
    <3>2. HandlerInv'
      BY <1>1, <1>3, <1>7, <2>2, <3>1 DEF ReceiveDisconnected, acceptorVars
    <3>3. /\ events' = Tail(events)
          /\ UNCHANGED <<peer, inbox, turn, outbox, backlog, acceptor, service,
                        slots, len, server, dialled, crashed>>
      BY <1>7 DEF ReceiveDisconnected, clientVars, acceptorVars, serverVars
    <3>4. TypeOK'
      <4>1. handler' \in HandlerState
        BY <1>1, <1>3, <1>7, <2>2, <3>1 DEF ReceiveDisconnected
      <4> QED  BY <1>3, <1>7, <2>2, <3>3, <4>1 DEF ReceiveDisconnected, TypeOK
    <3>5. EventsInv'
      BY <1>3, <1>7, <3>3 DEF ReceiveDisconnected
    <3> QED  BY <3>2, <3>3, <3>4, <3>5
  <2> QED  BY <1>7, <2>1, <2>2 DEF ReceiveDisconnected
<1>8. ASSUME NEW pc \in {"moveId", "moveConn", "clearId", "clearConn"},
             NEW v \in Entry, NEW nextPc, NEW nextAt \in Nat,
             WriteField(pc, v, nextPc, nextAt),
             nextPc \in {"moveId", "moveConn", "clearId", "clearConn", "store"},
             nextAt \in 1 .. len,
             nextPc \in {"moveId", "moveConn"} => nextAt < len
      PROVE  TypeInv'
  <2>1. handler.conn \in Conns /\ handler.at \in 1 .. len /\ Known(handler.conn)
    BY <1>8 DEF WriteField, HandlerAt
  <2>2. slots' \in Seq(Entry) /\ Len(slots') = Len(slots)
    BY <1>8, <2>1, WriteSlot DEF WriteField
  <2> QED
    BY <1>1, <1>8, <2>1, <2>2
    DEF WriteField, TypeOK, connVars, clientVars, acceptorVars, serverVars
<1>9. CASE MoveId \/ MoveConn
  <2>1. /\ handler.at \in 1 .. len /\ handler.at < len
        /\ slots[handler.at] \in Entry /\ slots[handler.at + 1] \in Entry
    BY <1>1, <1>2, <1>9 DEF MoveId, MoveConn, WriteField, HandlerAt
  <2>2. /\ [slots[handler.at] EXCEPT !.service = slots[handler.at + 1].service]
             \in Entry
        /\ [slots[handler.at] EXCEPT !.conn = slots[handler.at + 1].conn]
             \in Entry
    BY <2>1 DEF Entry
  <2>3. CASE MoveId
    BY <1>1, <1>8, <2>1, <2>2, <2>3 DEF MoveId
  <2>4. CASE MoveConn
    BY <1>1, <1>8, <2>1, <2>2, <2>4 DEF MoveConn
  <2> QED  BY <1>9, <2>3, <2>4
<1>10. CASE ClearId \/ ClearConn
  <2>1. handler.at \in 1 .. len /\ slots[handler.at] \in Entry
    BY <1>1, <1>2, <1>10 DEF ClearId, ClearConn, WriteField, HandlerAt
  <2>2. /\ [slots[handler.at] EXCEPT !.service = 0] \in Entry
        /\ [slots[handler.at] EXCEPT !.conn = NoConn] \in Entry
    <3>1. 0 \in Byte
      BY DEF Byte
    <3> QED  BY <2>1, <3>1 DEF Entry
  <2>3. CASE ClearId
    BY <1>1, <1>8, <2>1, <2>2, <2>3 DEF ClearId
  <2>4. CASE ClearConn
    BY <1>1, <1>8, <2>1, <2>2, <2>4 DEF ClearConn
  <2> QED  BY <1>10, <2>3, <2>4
<1>11. CASE StoreTable
  <2>1. handler.at \in 1 .. len
    BY <1>11 DEF StoreTable, HandlerAt
  <2>2. /\ len' = len - 1 /\ handler' = HandlerIdle
        /\ sock' = [sock EXCEPT ![handler.conn] = "closed"]
        /\ UNCHANGED <<peer, inbox, turn, outbox, backlog, acceptor, service,
                      events, slots, server, dialled, crashed>>
    BY <1>11 DEF StoreTable, clientVars, acceptorVars, serverVars
  <2>3. len' \in 0 .. Len(slots')
    BY <1>1, <2>1, <2>2
  <2> QED
    BY <2>2, <2>3 DEF HandlerIdle, TypeOK
<1> QED
  BY <1>4, <1>5, <1>6, <1>7, <1>9, <1>10, <1>11 DEF HandlerStep

\* A step that changes the state of one server and nothing the others need.
LEMMA OneServerChanges ==
  ASSUME TypeInv, NEW c \in Conns, NEW s \in ServerState,
         server' = [server EXCEPT ![c] = s],
         UNCHANGED <<service, slots, len, handler>>,
         s.pc = "none" \/ Known(c),
         s.pc = "scan" => s.at >= 1 /\ s.n <= Len(slots),
         s.pc = "take" => s.at \in 1 .. Len(slots)
  PROVE  /\ server' \in [Conns -> ServerState]
         /\ ServerInv' /\ HandlerInv'
<1>1. server' \in [Conns -> ServerState]
  BY DEF TypeInv, TypeOK
<1>2. ServerInv'
  BY DEF TypeInv, TypeOK, ServerInv, Known
<1>3. HandlerInv'
  BY DEF TypeInv, HandlerInv, Known
<1> QED  BY <1>1, <1>2, <1>3

LEMMA ServerKeepsTypes ==
  ASSUME TypeInv, NEW c \in Conns, ServerStep(c)
  PROVE  TypeInv'
<1> DEFINE s == server[c]
<1>1. /\ s \in ServerState
      /\ s.pc # "none" => Known(c)
      /\ Len(slots) \in Nat /\ len \in 0 .. Len(slots)
  BY LenProperties DEF TypeInv, TypeOK, ServerInv
<1>2. \A i \in 1 .. Len(slots) : slots[i] \in Entry
  BY ElementOfSeq DEF TypeInv, TypeOK
<1>3. inbox[c] # <<>> => /\ Head(inbox[c]) \in Incoming
                         /\ Tail(inbox[c]) \in Seq(Incoming)
  BY HeadAndTail DEF TypeInv, TypeOK
<1>4. CASE ServeRead(c)
  <2> DEFINE f == Head(inbox[c])
             scan == [pc |-> "scan", packet |-> Forwarded(f),
                      to |-> f.payload[1], at |-> 1, n |-> len,
                      target |-> NoConn]
  <2>1. inbox' \in [Conns -> Seq(Incoming)]
    BY <1>3, <1>4 DEF ServeRead, TypeInv, TypeOK
  <2>2. /\ crashed' \in BOOLEAN
        /\ UNCHANGED <<peer, turn, outbox, sock, backlog, acceptor, service,
                       events, slots, len, handler, dialled>>
    BY <1>4 DEF ServeRead, acceptorVars, handlerVars
  <2>3. CASE UNCHANGED server
    BY <2>1, <2>2, <2>3
    DEF TypeInv, TypeOK, AcceptorInv, EventsInv, HandlerInv, ServerInv, Known
  <2>4. CASE /\ server' = [server EXCEPT ![c] = scan]
             /\ f # BadFrame /\ f.payload[1] \in Services
    <3>1. Known(c) /\ f \in Packet
      BY <1>1, <1>3, <1>4, <2>4 DEF ServeRead, ServerAt, Incoming
    <3>2. scan \in ServerState
      BY <1>1, <2>4, <3>1, ForwardedIsPacket, ServicesAssumption DEF ServerState
    <3>3. /\ server' \in [Conns -> ServerState]
          /\ ServerInv' /\ HandlerInv'
      <4>1. /\ scan.pc = "scan" /\ scan.at >= 1 /\ scan.n <= Len(slots)
            /\ server' = [server EXCEPT ![c] = scan]
        BY <1>1, <2>4
      <4> HIDE DEF scan
      <4> QED  BY <2>2, <3>1, <3>2, <4>1, OneServerChanges
    <3> QED
      BY <2>1, <2>2, <3>3
      DEF TypeInv, TypeOK, AcceptorInv, EventsInv, Known
  <2> QED  BY <1>4, <2>3, <2>4 DEF ServeRead
<1>5. CASE ServeEOF(c)
  <2>1. UNCHANGED <<inbox, turn, outbox, sock, backlog, acceptor, service,
                    events, slots, len, handler, dialled, crashed>>
    BY <1>5 DEF ServeEOF, acceptorVars, handlerVars
  <2>2. CASE peer' = [peer EXCEPT ![c] = "eof"] /\ UNCHANGED server
    BY <2>1, <2>2
    DEF TypeInv, TypeOK, AcceptorInv, EventsInv, HandlerInv, ServerInv, Known
  <2>3. CASE server' = [server EXCEPT ![c].pc = "publish"] /\ UNCHANGED peer
    <3>1. Known(c)
      BY <1>1, <1>5 DEF ServeEOF, ServerAt
    <3>2. [s EXCEPT !.pc = "publish"] \in ServerState
      BY <1>1 DEF ServerState
    <3>3. /\ server' \in [Conns -> ServerState]
          /\ ServerInv' /\ HandlerInv'
      BY <1>1, <2>1, <2>3, <3>1, <3>2, OneServerChanges DEF ServerState
    <3> QED
      BY <2>1, <2>3, <3>3
      DEF TypeInv, TypeOK, AcceptorInv, EventsInv, Known
  <2> QED  BY <1>5, <2>2, <2>3 DEF ServeEOF
<1>6. CASE PublishDisconnected(c)
  <2>1. /\ UNCHANGED <<peer, inbox, turn, outbox, sock, backlog, acceptor,
                       service, slots, len, handler, dialled, crashed>>
        /\ server' = [server EXCEPT ![c] = ServerIdle("done")]
        /\ events' = Append(events, Disconnected(c))
        /\ Known(c)
    BY <1>1, <1>6
    DEF PublishDisconnected, ServerAt, connVars, clientVars, acceptorVars,
        handlerVars
  <2>2. /\ server' \in [Conns -> ServerState]
        /\ ServerInv' /\ HandlerInv'
    BY <1>1, <2>1, OneServerChanges, IdleServers DEF ServerIdle
  <2>3. Disconnected(c) \in Event
    BY DEF Disconnected, Event
  <2>4. /\ events' \in Seq(Event) /\ Len(events') = Len(events) + 1
        /\ events'[Len(events) + 1] = Disconnected(c)
        /\ \A i \in 1 .. Len(events) : events'[i] = events[i]
    BY <2>1, <2>3, AppendProperties DEF TypeInv, TypeOK
  <2>5. EventsInv'
    BY <2>1, <2>4, LenProperties
    DEF Disconnected, TypeInv, TypeOK, EventsInv, Known
  <2> QED
    BY <2>1, <2>2, <2>4, <2>5 DEF TypeInv, TypeOK, AcceptorInv, Known
<1>7. CASE ServeScan(c)
  <2> DEFINE t == IF s.at > s.n THEN [s EXCEPT !.pc = "dial"]
                  ELSE IF slots[s.at].service = s.to THEN [s EXCEPT !.pc = "take"]
                  ELSE [s EXCEPT !.at = s.at + 1]
  <2>1. /\ UNCHANGED <<peer, inbox, turn, outbox, sock, backlog, acceptor,
                       service, events, slots, len, handler, dialled, crashed>>
        /\ server' = [server EXCEPT ![c] = t]
        /\ s.pc = "scan" /\ Known(c)
        /\ s.at >= 1 /\ s.n <= Len(slots)
    BY <1>1, <1>7
    DEF ServeScan, ServerAt, connVars, clientVars, acceptorVars, handlerVars,
        TypeInv, ServerInv
  <2>2. t \in ServerState
    BY <1>1 DEF ServerState
  <2>3. /\ t.pc = "scan" => t.at >= 1 /\ t.n <= Len(slots)
        /\ t.pc = "take" => t.at \in 1 .. Len(slots)
    BY <1>1, <2>1 DEF ServerState
  <2>4. /\ server' \in [Conns -> ServerState]
        /\ ServerInv' /\ HandlerInv'
    <3> HIDE DEF t
    <3> QED  BY <2>1, <2>2, <2>3, OneServerChanges
  <2> QED
    BY <2>1, <2>4 DEF TypeInv, TypeOK, AcceptorInv, EventsInv, Known
<1>8. CASE ServeTake(c)
  <2> DEFINE t == [s EXCEPT !.pc = "write", !.target = slots[s.at].conn]
  <2>1. /\ UNCHANGED <<peer, inbox, turn, outbox, sock, backlog, acceptor,
                       service, events, slots, len, handler, dialled, crashed>>
        /\ server' = [server EXCEPT ![c] = t]
        /\ Known(c)
        /\ s.at \in 1 .. Len(slots)
    BY <1>1, <1>8
    DEF ServeTake, ServerAt, connVars, clientVars, acceptorVars, handlerVars,
        TypeInv, TypeOK, ServerInv
  <2>2. t \in ServerState /\ t.pc = "write"
    BY <1>1, <1>2, <2>1 DEF ServerState, Entry
  <2>3. /\ server' \in [Conns -> ServerState]
        /\ ServerInv' /\ HandlerInv'
    <3> HIDE DEF t
    <3> QED  BY <2>1, <2>2, OneServerChanges
  <2> QED
    BY <2>1, <2>3 DEF TypeInv, TypeOK, AcceptorInv, EventsInv, Known
<1>9. CASE ServeWrite(c)
  <2>1. /\ UNCHANGED <<peer, inbox, turn, sock, backlog, acceptor, service,
                       events, slots, len, handler, dialled>>
        /\ server' = [server EXCEPT ![c] = ServerIdle("read")]
        /\ crashed' \in BOOLEAN
        /\ Known(c)
    BY <1>1, <1>9
    DEF ServeWrite, Written, ServerAt, clientVars, acceptorVars, handlerVars
  <2>2. outbox' \in [Conns -> Seq(Packet)]
    <3>1. \A d \in Conns : Append(outbox[d], s.packet) \in Seq(Packet)
      BY <1>1, AppendProperties DEF ServerState, TypeInv, TypeOK
    <3> QED  BY <1>9, <3>1 DEF ServeWrite, Written, TypeInv, TypeOK
  <2>3. /\ server' \in [Conns -> ServerState]
        /\ ServerInv' /\ HandlerInv'
    BY <1>1, <2>1, OneServerChanges, IdleServers DEF ServerIdle
  <2> QED
    BY <2>1, <2>2, <2>3 DEF TypeInv, TypeOK, AcceptorInv, EventsInv, Known
<1>10. CASE ServeDial(c)
  <2>1. /\ UNCHANGED <<inbox, turn, outbox, sock, acceptor, service, events,
                       slots, len, handler, crashed>>
        /\ Known(c)
    BY <1>1, <1>10 DEF ServeDial, ServerAt, handlerVars
  <2> DEFINE carried == IF Serializable(s.packet) THEN s.packet ELSE BadFrame
  <2>2. CASE /\ server' = [server EXCEPT ![c] = ServerIdle("read")]
             /\ \/ UNCHANGED dialled
                \/ dialled' = [dialled EXCEPT ![s.to] = Append(@, carried)]
             /\ UNCHANGED <<peer, backlog>>
    <3>1. \A d \in Services : Append(dialled[d], carried) \in Seq(Incoming)
      <4>1. carried \in Incoming
        BY <1>1 DEF ServerState, Incoming
      <4> QED  BY <4>1, AppendProperties DEF TypeInv, TypeOK
    <3>2. dialled' \in [Services -> Seq(Incoming)]
      <4> DEFINE q == Append(dialled[s.to], carried)
      <4>1. dialled' = dialled \/ dialled' = [dialled EXCEPT ![s.to] = q]
        BY <2>2
      <4>2. s.to \in Services => q \in Seq(Incoming)
        BY <3>1
      <4> HIDE DEF q
      <4> QED  BY <4>1, <4>2 DEF TypeInv, TypeOK
    <3>3. /\ server' \in [Conns -> ServerState]
          /\ ServerInv' /\ HandlerInv'
      BY <1>1, <2>1, <2>2, OneServerChanges, IdleServers DEF ServerIdle
    <3> QED
      BY <2>1, <2>2, <3>2, <3>3
      DEF TypeInv, TypeOK, AcceptorInv, EventsInv, Known
  <2>3. ASSUME NEW d \in SelfConns,
               peer' = [peer EXCEPT ![d] = "open"],
               backlog' = Append(backlog, d),
               server' = [server EXCEPT ![c].pc = "self", ![c].target = d],
               UNCHANGED dialled
        PROVE  TypeInv'
    <3> DEFINE t == [s EXCEPT !.pc = "self", !.target = d]
    <3>1. d \in Conns
      BY ConnsAssumption
    <3>2. t \in ServerState /\ t.pc = "self"
      BY <1>1, <3>1 DEF ServerState
    <3>3. server' = [server EXCEPT ![c] = t]
      BY <2>3 DEF TypeInv, TypeOK
    <3>4. /\ server' \in [Conns -> ServerState]
          /\ ServerInv' /\ HandlerInv'
      <4> HIDE DEF t
      <4> QED  BY <2>1, <3>2, <3>3, OneServerChanges
    <3>5. backlog' \in Seq(Conns)
      BY <2>3, <3>1, AppendProperties DEF TypeInv, TypeOK
    <3> QED
      BY <2>1, <2>3, <3>4, <3>5
      DEF TypeInv, TypeOK, AcceptorInv, EventsInv, Known
  <2> QED  BY <1>10, <2>2, <2>3 DEF ServeDial
<1>11. CASE ServeSelf(c)
  <2>1. /\ UNCHANGED <<peer, turn, outbox, sock, backlog, acceptor, service,
                       events, slots, len, handler, dialled, crashed>>
        /\ server' = [server EXCEPT ![c] = ServerIdle("read")]
        /\ Known(c)
    BY <1>1, <1>11 DEF ServeSelf, ServerAt, acceptorVars, handlerVars
  <2>2. inbox' \in [Conns -> Seq(Incoming)]
    <3>1. Arriving(s.packet) \in Incoming
      BY <1>1 DEF Arriving, ServerState, Incoming
    <3>2. \A d \in Conns :
            Append(inbox[d], Arriving(s.packet)) \in Seq(Incoming)
      BY <3>1, AppendProperties DEF TypeInv, TypeOK
    <3> QED  BY <1>11, <3>2 DEF ServeSelf, TypeInv, TypeOK
  <2>3. /\ server' \in [Conns -> ServerState]
        /\ ServerInv' /\ HandlerInv'
    BY <1>1, <2>1, OneServerChanges, IdleServers DEF ServerIdle
  <2> QED
    BY <2>1, <2>2, <2>3 DEF TypeInv, TypeOK, AcceptorInv, EventsInv, Known
<1> QED
  BY <1>4, <1>5, <1>6, <1>7, <1>8, <1>9, <1>10, <1>11 DEF ServerStep

LEMMA NextTypeInv == TypeInv /\ [Next]_vars => TypeInv'
<1> SUFFICES ASSUME TypeInv, [Next]_vars PROVE TypeInv'
  OBVIOUS
<1>1. CASE UNCHANGED vars
  BY <1>1
  DEF vars, connVars, clientVars, sharedVars, acceptorVars, handlerVars,
      serverVars, TypeInv, TypeOK, AcceptorInv, EventsInv, HandlerInv,
      ServerInv, Known
<1> QED
  BY <1>1, ClientKeepsTypes, AcceptorKeepsTypes, HandlerKeepsTypes,
     ServerKeepsTypes
  DEF Next

THEOREM TypeInvariant == Spec => []TypeInv
<1> QED  BY InitTypeInv, NextTypeInv, PTL DEF Spec

\* No goroutine ever holds an index outside the table it loaded, and every
\* variable keeps its type, whatever the clients send and in whatever order
\* the goroutines run.
THEOREM TypeCorrect == Spec => []TypeOK
<1>1. TypeInv => TypeOK
  BY DEF TypeInv
<1> QED  BY <1>1, TypeInvariant, PTL

-----------------------------------------------------------------------------
(* The greeting *)

BacklogInv ==
  /\ \A i, j \in 1 .. Len(backlog) : backlog[i] = backlog[j] => i = j
  /\ \A i \in 1 .. Len(backlog) : /\ sock[backlog[i]] = "none"
                                  /\ peer[backlog[i]] # "absent"

FreshInv ==
  \A c \in Conns : /\ sock[c] = "none" => ~Known(c) /\ outbox[c] = <<>>
                   /\ sock[c] # "none" => peer[c] # "absent"

GreetingInv ==
  acceptor.pc \in {"init", "send"} =>
    /\ ~Known(acceptor.conn) /\ outbox[acceptor.conn] = <<>>
    /\ sock[acceptor.conn] # "none"

TableInv ==
  \A i \in 1 .. Len(slots) : slots[i].conn # NoConn => Known(slots[i].conn)

TargetInv ==
  \A c \in Conns :
    /\ server[c].pc = "write" /\ server[c].target # NoConn
         => Known(server[c].target)
    /\ server[c].packet = ZeroPacket
         \/ server[c].packet.type \in {TypePing, TypeSend}

AnsweredInv == \A c \in Conns : Known(c) /\ peer[c] = "open" => outbox[c] # <<>>

\* The parts about the connections, and those about the table and the servers.
ConnInv == BacklogInv /\ FreshInv /\ GreetingInv
RefInv == TableInv /\ TargetInv

GreetInv == ConnInv /\ RefInv /\ AnsweredInv /\ AcceptFirst

-----------------------------------------------------------------------------

\* Packets that are sent to a client after ACCEPT.
LEMMA Traffic ==
  ASSUME TypeInv, RefInv, NEW c \in Conns, Serializable(server[c].packet)
  PROVE  server[c].packet.type \in {TypePing, TypeSend}
<1>1. ~Serializable(ZeroPacket)
  BY DEF Serializable, ZeroPacket, Versions
<1> QED  BY <1>1 DEF RefInv, TargetInv

\* What a server takes to send on is such a packet, or the zero packet.
LEMMA ForwardedTraffic ==
  ASSUME NEW p
  PROVE  Forwarded(p) = ZeroPacket \/ Forwarded(p).type \in {TypePing, TypeSend}
BY DEF Forwarded, Build, PingPacket

\* What the table and the servers refer to.
LEMMA ReferredConns ==
  ASSUME TypeOK
  PROVE  /\ \A i \in 1 .. Len(slots) : slots[i].conn \in Conns \cup {NoConn}
         /\ \A c \in Conns : server[c].target \in Conns \cup {NoConn}
<1>1. \A i \in 1 .. Len(slots) : slots[i] \in Entry
  BY ElementOfSeq DEF TypeOK
<1>2. \A c \in Conns : server[c] \in ServerState
  BY DEF TypeOK
<1> QED  BY <1>1, <1>2 DEF Entry, ServerState

\* A step that leaves the connections alone, except that some are closed that
\* were accepted.
LEMMA ClosingKeepsConnInv ==
  ASSUME TypeInv, ConnInv,
         UNCHANGED <<backlog, peer, service, outbox, acceptor>>,
         NEW c \in Conns, sock[c] # "none",
         sock' = sock \/ sock' = [sock EXCEPT ![c] = "closed"]
  PROVE  ConnInv'
<1>1. /\ backlog \in Seq(Conns) /\ sock \in [Conns -> {"none", "open", "closed"}]
      /\ acceptor.pc # "accept" => acceptor.conn \in Conns
  BY DEF TypeInv, TypeOK, AcceptorInv
<1>2. \A i \in 1 .. Len(backlog) : backlog[i] \in Conns
  BY <1>1, ElementOfSeq
<1>3. \A d \in Conns : (sock'[d] = "none") <=> (sock[d] = "none")
  BY <1>1
<1> QED
  BY <1>1, <1>2, <1>3
  DEF ConnInv, BacklogInv, FreshInv, GreetingInv, Known

\* A step of the handler or of a server that touches no connection at all.
LEMMA QuietKeepsConnInv ==
  ASSUME ConnInv, UNCHANGED <<backlog, peer, service, outbox, acceptor, sock>>
  PROVE  ConnInv'
BY DEF ConnInv, BacklogInv, FreshInv, GreetingInv, Known

LEMMA QuietKeepsAnswers ==
  ASSUME AnsweredInv, AcceptFirst, UNCHANGED <<peer, service, outbox>>
  PROVE  AnsweredInv' /\ AcceptFirst'
BY DEF AnsweredInv, AcceptFirst, Known

\* A new connection enters the backlog.
LEMMA QueueKeepsConnInv ==
  ASSUME TypeInv, ConnInv, NEW c \in Conns, peer[c] = "absent",
         peer' = [peer EXCEPT ![c] = "open"],
         backlog' = Append(backlog, c),
         UNCHANGED <<service, outbox, acceptor, sock>>
  PROVE  ConnInv' /\ sock[c] = "none"
<1>1. sock[c] = "none"
  BY DEF ConnInv, FreshInv
<1>2. /\ backlog \in Seq(Conns) /\ Len(backlog) \in Nat
      /\ \A i \in 1 .. Len(backlog) : backlog[i] \in Conns
  BY ElementOfSeq, LenProperties DEF TypeInv, TypeOK
<1>3. /\ Len(backlog') = Len(backlog) + 1
      /\ \A i \in 1 .. Len(backlog) : backlog'[i] = backlog[i]
      /\ backlog'[Len(backlog) + 1] = c
  BY <1>2, AppendProperties
<1>4. \A i \in 1 .. Len(backlog) : backlog[i] # c
  BY DEF ConnInv, BacklogInv
<1>5. \A d \in Conns : d # c => peer'[d] = peer[d]
  BY DEF TypeInv, TypeOK
<1>6. peer'[c] = "open"
  BY DEF TypeInv, TypeOK
<1>7. BacklogInv'
  BY <1>1, <1>2, <1>3, <1>4, <1>5, <1>6 DEF ConnInv, BacklogInv
<1>8. FreshInv'
  BY <1>1, <1>5, <1>6 DEF ConnInv, FreshInv, Known
<1> QED  BY <1>1, <1>7, <1>8 DEF ConnInv, GreetingInv, Known

-----------------------------------------------------------------------------

LEMMA InitGreetInv == Init => GreetInv
<1> SUFFICES ASSUME Init PROVE GreetInv
  OBVIOUS
<1>1. Len(backlog) = 0 /\ Len(slots) = 0 /\ \A c \in Conns : DOMAIN outbox[c] = {}
  BY EmptySeq DEF Init
<1>2. ConnInv
  BY <1>1 DEF Init, ConnInv, BacklogInv, FreshInv, GreetingInv, Known, AcceptorIdle
<1>3. RefInv
  BY <1>1 DEF Init, RefInv, TableInv, TargetInv, ServerIdle
<1> QED
  BY <1>1, <1>2, <1>3 DEF Init, GreetInv, AnsweredInv, AcceptFirst, Known

LEMMA ClientKeepsGreeting ==
  ASSUME TypeInv, GreetInv, NEW c \in Conns, ClientStep(c)
  PROVE  GreetInv'
<1>1. UNCHANGED <<slots, server, service, outbox, sock, acceptor>>
  BY DEF ClientStep, Connect, ClientSend, ClientLeave, Finalize, sharedVars,
         acceptorVars, handlerVars, serverVars
<1>2. RefInv' /\ AcceptFirst'
  BY <1>1 DEF GreetInv, RefInv, TableInv, TargetInv, AcceptFirst, Known
<1>3. CASE Connect(c)
  <2>1. ConnInv' /\ sock[c] = "none"
    BY <1>1, <1>3, QueueKeepsConnInv DEF Connect, ClientIs, GreetInv
  <2>2. \A d \in Conns : d # c => peer'[d] = peer[d]
    BY <1>3 DEF Connect, TypeInv, TypeOK
  <2>3. AnsweredInv'
    BY <1>1, <2>1, <2>2
    DEF GreetInv, ConnInv, FreshInv, AnsweredInv, Known
  <2> QED  BY <1>2, <2>1, <2>3 DEF GreetInv
<1>4. CASE ClientSend(c) \/ ClientLeave(c) \/ Finalize(c)
  <2>1. UNCHANGED backlog
    BY <1>4
    DEF ClientSend, ClientLeave, Finalize, sharedVars, acceptorVars
  <2>2. \A d \in Conns : /\ (peer'[d] = "absent") <=> (peer[d] = "absent")
                         /\ peer'[d] = "open" => peer[d] = "open"
    BY <1>4 DEF ClientSend, ClientLeave, ClientIs, Finalize, TypeInv, TypeOK
  <2>3. \A i \in 1 .. Len(backlog) : backlog[i] \in Conns
    BY ElementOfSeq DEF TypeInv, TypeOK
  <2>4. ConnInv'
    BY <1>1, <2>1, <2>2, <2>3
    DEF GreetInv, ConnInv, BacklogInv, FreshInv, GreetingInv, Known
  <2>5. AnsweredInv'
    BY <1>1, <2>2 DEF GreetInv, AnsweredInv, Known
  <2> QED  BY <1>2, <2>4, <2>5 DEF GreetInv
<1> QED  BY <1>3, <1>4 DEF ClientStep

LEMMA AcceptorKeepsGreeting ==
  ASSUME TypeInv, GreetInv, AcceptorStep
  PROVE  GreetInv'
<1> DEFINE c == acceptor.conn
<1>1. UNCHANGED <<slots, server, peer>>
  BY DEF AcceptorStep, Accept, HandshakeReadFails, ReadInit, ReadSend,
         PublishConnected, connVars, clientVars, handlerVars, serverVars
<1>2. /\ acceptor.pc # "accept" => c \in Conns
      /\ \A i \in 1 .. Len(backlog) : backlog[i] \in Conns
      /\ sock \in [Conns -> {"none", "open", "closed"}]
      /\ outbox \in [Conns -> Seq(Packet)]
      /\ acceptor \in AcceptorState
  BY ElementOfSeq DEF TypeInv, TypeOK, AcceptorInv
<1>3. ASSUME UNCHANGED service
      PROVE  RefInv'
  BY <1>1, <1>3 DEF GreetInv, RefInv, TableInv, TargetInv, Known
<1>4. CASE Accept
  <2> DEFINE b == Head(backlog)
  <2>1. /\ b \in Conns /\ b = backlog[1]
        /\ Len(backlog) \in Nat /\ Len(backlog) >= 1
        /\ Len(backlog') = Len(backlog) - 1
        /\ \A i \in 1 .. Len(backlog) - 1 : backlog'[i] = backlog[i + 1]
    BY <1>4, HeadAndTail, LenProperties DEF Accept, TypeInv, TypeOK
  <2>2. /\ sock' = [sock EXCEPT ![b] = "open"]
        /\ acceptor' = [pc |-> "init", conn |-> b]
        /\ UNCHANGED <<outbox, service>>
    BY <1>4 DEF Accept
  <2>3. sock[b] = "none" /\ peer[b] # "absent" /\ ~Known(b) /\ outbox[b] = <<>>
    BY <2>1 DEF GreetInv, ConnInv, BacklogInv, FreshInv
  <2>4. \A i \in 1 .. Len(backlog) - 1 : backlog[i + 1] # b
    BY <2>1 DEF GreetInv, ConnInv, BacklogInv
  <2>5. BacklogInv'
    <3>1. \A i, j \in 1 .. Len(backlog') : backlog'[i] = backlog'[j] => i = j
      BY <2>1 DEF GreetInv, ConnInv, BacklogInv
    <3>2. \A i \in 1 .. Len(backlog') : /\ sock'[backlog'[i]] = "none"
                                        /\ peer'[backlog'[i]] # "absent"
      <4> TAKE i \in 1 .. Len(backlog')
      <4>1. /\ i + 1 \in 1 .. Len(backlog) /\ backlog'[i] = backlog[i + 1]
            /\ backlog[i + 1] # b
        BY <2>1, <2>4
      <4> QED  BY <1>1, <1>2, <2>2, <4>1 DEF GreetInv, ConnInv, BacklogInv
    <3> QED  BY <3>1, <3>2 DEF BacklogInv
  <2>6. FreshInv'
    BY <1>1, <1>2, <2>1, <2>2, <2>3 DEF GreetInv, ConnInv, FreshInv, Known
  <2>7. GreetingInv'
    BY <1>2, <2>1, <2>2, <2>3 DEF GreetingInv, Known
  <2>8. AnsweredInv' /\ AcceptFirst'
    BY <1>1, <2>2, QuietKeepsAnswers DEF GreetInv
  <2> QED  BY <1>3, <2>2, <2>5, <2>6, <2>7, <2>8 DEF GreetInv, ConnInv
<1>5. ASSUME acceptor.pc \in {"init", "send"}, Reject(c),
             UNCHANGED <<backlog, service>>,
             \/ UNCHANGED outbox
             \/ /\ outbox' = [outbox EXCEPT ![c] = Append(@, AcceptPacket)]
                /\ outbox[c] = <<>>
      PROVE  GreetInv'
  <2>1. /\ sock' = [sock EXCEPT ![c] = "closed"] /\ acceptor'.pc = "accept"
        /\ c \in Conns /\ sock[c] # "none"
    BY <1>2, <1>5 DEF Reject, AcceptorIdle, GreetInv, ConnInv, GreetingInv
  <2>2. \A d \in Conns : (sock'[d] = "none") <=> (sock[d] = "none")
    BY <1>2, <2>1
  <2>3. \A d \in Conns : d # c => outbox'[d] = outbox[d]
    BY <1>2, <1>5
  <2>4. outbox'[c] = outbox[c] \/ outbox'[c] = Append(<<>>, AcceptPacket)
    BY <1>2, <1>5, <2>1
  <2>5. /\ Append(<<>>, AcceptPacket) # <<>>
        /\ DOMAIN Append(<<>>, AcceptPacket) = {1}
        /\ Append(<<>>, AcceptPacket)[1] = AcceptPacket
    BY EmptySeq, AppendProperties, BuiltPackets
  <2>6. BacklogInv'
    BY <1>1, <1>2, <1>5, <2>2 DEF GreetInv, ConnInv, BacklogInv
  <2>7. FreshInv'
    BY <1>1, <1>5, <2>1, <2>2, <2>3 DEF GreetInv, ConnInv, FreshInv, Known
  <2>8. GreetingInv'
    BY <2>1 DEF GreetingInv
  <2>9. AnsweredInv'
    BY <1>1, <1>5, <2>3, <2>4, <2>5 DEF GreetInv, AnsweredInv, Known
  <2>10. AcceptFirst'
    BY <2>3, <2>4, <2>5 DEF GreetInv, AcceptFirst
  <2> QED
    BY <1>3, <1>5, <2>6, <2>7, <2>8, <2>9, <2>10 DEF GreetInv, ConnInv
<1>6. CASE HandshakeReadFails
  BY <1>5, <1>6 DEF HandshakeReadFails, AcceptorAt
<1>7. CASE ReadInit
  <2>1. acceptor.pc = "init" /\ UNCHANGED <<outbox, backlog, service>>
    BY <1>7 DEF ReadInit, AcceptorAt
  <2>2. CASE Reject(c)
    BY <1>5, <2>1, <2>2
  <2>3. CASE acceptor' = [acceptor EXCEPT !.pc = "send"] /\ UNCHANGED sock
    <3>1. acceptor'.conn = c /\ acceptor'.pc = "send"
      BY <1>2, <2>3 DEF AcceptorState
    <3>2. ConnInv'
      BY <1>1, <2>1, <2>3, <3>1
      DEF GreetInv, ConnInv, BacklogInv, FreshInv, GreetingInv, Known
    <3>3. AnsweredInv' /\ AcceptFirst'
      BY <1>1, <2>1, QuietKeepsAnswers DEF GreetInv
    <3> QED  BY <1>3, <2>1, <3>2, <3>3 DEF GreetInv
  <2> QED  BY <1>7, <2>2, <2>3 DEF ReadInit
<1>8. CASE ReadSend
  <2> DEFINE f == Head(inbox[c])
  <2>1. /\ acceptor.pc = "send" /\ c \in Conns /\ UNCHANGED backlog
        /\ ~Known(c) /\ outbox[c] = <<>> /\ sock[c] # "none"
    BY <1>2, <1>8
    DEF ReadSend, AcceptorAt, GreetInv, ConnInv, GreetingInv
  <2>2. \/ UNCHANGED outbox
        \/ outbox' = [outbox EXCEPT ![c] = Append(@, AcceptPacket)]
    BY <1>8 DEF ReadSend, Answer
  <2>3. CASE Reject(c) /\ UNCHANGED service
    BY <1>5, <2>1, <2>2, <2>3
  <2>4. CASE /\ acceptor' = [acceptor EXCEPT !.pc = "publish"]
             /\ service' = [service EXCEPT ![c] = f.payload[2]]
             /\ SenderIsValid(c, f.payload[2])
             /\ peer[c] = "open" =>
                  outbox' = [outbox EXCEPT ![c] = Append(@, AcceptPacket)]
             /\ UNCHANGED sock
    <3>1. f.payload[2] # NoService
      BY <2>4, ServicesAssumption DEF SenderIsValid
    <3>2. /\ \A d \in Conns : d = c => Known(d)'
          /\ \A d \in Conns : d # c => (Known(d)' <=> Known(d))
      BY <2>1, <2>4, <3>1 DEF Known, TypeInv, TypeOK
    <3>3. /\ \A d \in Conns : d # c => outbox'[d] = outbox[d]
          /\ \/ outbox'[c] = outbox[c]
             \/ outbox'[c] = Append(<<>>, AcceptPacket)
          /\ peer[c] = "open" => outbox'[c] = Append(<<>>, AcceptPacket)
      BY <1>2, <2>1, <2>2, <2>4
    <3>4. /\ Append(<<>>, AcceptPacket) # <<>>
          /\ DOMAIN Append(<<>>, AcceptPacket) = {1}
          /\ Append(<<>>, AcceptPacket)[1] = AcceptPacket
      BY EmptySeq, AppendProperties, BuiltPackets
    <3>5. acceptor'.pc = "publish"
      BY <1>2, <2>4 DEF AcceptorState
    <3>6. ConnInv'
      BY <1>1, <2>1, <2>4, <3>2, <3>3, <3>5
      DEF GreetInv, ConnInv, BacklogInv, FreshInv, GreetingInv
    <3>7. AnsweredInv'
      BY <1>1, <3>2, <3>3, <3>4 DEF GreetInv, AnsweredInv
    <3>8. AcceptFirst'
      BY <3>3, <3>4 DEF GreetInv, AcceptFirst
    <3>9. RefInv'
      <4>1. /\ \A i \in 1 .. Len(slots) : slots[i].conn \in Conns \cup {NoConn}
            /\ \A d \in Conns : server[d].target \in Conns \cup {NoConn}
        BY ReferredConns DEF TypeInv
      <4>2. \A d \in Conns : Known(d) => Known(d)'
        BY <3>2
      <4>3. TableInv'
        BY <1>1, <4>1, <4>2 DEF GreetInv, RefInv, TableInv, Known
      <4>4. TargetInv'
        BY <1>1, <4>1, <4>2 DEF GreetInv, RefInv, TargetInv, Known
      <4> QED  BY <4>3, <4>4 DEF RefInv
    <3> QED  BY <3>6, <3>7, <3>8, <3>9 DEF GreetInv
  <2> QED
    <3>1. \/ Reject(c) /\ UNCHANGED service
          \/ /\ acceptor' = [acceptor EXCEPT !.pc = "publish"]
             /\ service' = [service EXCEPT ![c] = f.payload[2]]
             /\ SenderIsValid(c, f.payload[2])
             /\ outbox' = Answer(c)
             /\ UNCHANGED sock
      BY <1>8 DEF ReadSend
    <3>2. outbox' = Answer(c) /\ peer[c] = "open"
            => outbox' = [outbox EXCEPT ![c] = Append(@, AcceptPacket)]
      BY DEF Answer
    <3> QED  BY <2>3, <2>4, <3>1, <3>2
<1>9. CASE PublishConnected
  <2>1. UNCHANGED <<outbox, backlog, service, sock>> /\ acceptor'.pc = "accept"
    BY <1>9 DEF PublishConnected, AcceptorIdle, connVars
  <2>2. ConnInv'
    BY <1>1, <2>1
    DEF GreetInv, ConnInv, BacklogInv, FreshInv, GreetingInv, Known
  <2>3. AnsweredInv' /\ AcceptFirst'
    BY <1>1, <2>1, QuietKeepsAnswers DEF GreetInv
  <2> QED  BY <1>3, <2>1, <2>2, <2>3 DEF GreetInv
<1> QED  BY <1>4, <1>6, <1>7, <1>8, <1>9 DEF AcceptorStep

LEMMA HandlerKeepsGreeting ==
  ASSUME TypeInv, GreetInv, HandlerStep
  PROVE  GreetInv'
<1>1. /\ slots \in Seq(Entry) /\ Len(slots) \in Nat /\ len \in 0 .. Len(slots)
      /\ \A i \in 1 .. Len(slots) : slots[i] \in Entry
  BY ElementOfSeq, LenProperties DEF TypeInv, TypeOK
<1>2. UNCHANGED <<peer, service, outbox, backlog, acceptor>>
  BY DEF HandlerStep, ReceiveConnected, PutId, PutConn, ReceiveDisconnected,
         MoveId, MoveConn, ClearId, ClearConn, WriteField, StoreTable, connVars,
         clientVars, acceptorVars
<1>3. AnsweredInv' /\ AcceptFirst'
  BY <1>2, QuietKeepsAnswers DEF GreetInv
<1>4. ASSUME UNCHANGED sock
      PROVE  ConnInv'
  BY <1>2, <1>4, QuietKeepsConnInv DEF GreetInv
<1>5. ASSUME NEW c \in Conns, Known(c),
             sock' = sock \/ sock' = [sock EXCEPT ![c] = "closed"]
      PROVE  ConnInv'
  <2>1. sock[c] # "none"
    BY <1>5 DEF GreetInv, ConnInv, FreshInv
  <2> QED  BY <1>2, <1>5, <2>1, ClosingKeepsConnInv DEF GreetInv
<1>6. ASSUME NEW i \in 1 .. len, NEW e \in Entry,
             slots' = [slots EXCEPT ![i] = e],
             e.conn # NoConn => Known(e.conn)
      PROVE  TableInv'
  <2>1. /\ Len(slots') = Len(slots)
        /\ \A j \in 1 .. Len(slots) : slots'[j] = IF j = i THEN e ELSE slots[j]
    BY <1>1, <1>6, ExceptSeq
  <2> QED  BY <1>2, <1>6, <2>1 DEF GreetInv, RefInv, TableInv, Known
<1>7. ASSUME UNCHANGED server
      PROVE  TargetInv'
  BY <1>2, <1>7 DEF GreetInv, RefInv, TargetInv, Known
<1>8. ASSUME UNCHANGED slots
      PROVE  TableInv'
  BY <1>2, <1>8 DEF GreetInv, RefInv, TableInv, Known
<1>9. CASE ReceiveConnected
  <2>1. slots' = Grown /\ UNCHANGED <<server, sock>>
    BY <1>9 DEF ReceiveConnected, serverVars, connVars
  <2>2. TableInv'
    <3>1. ZeroEntry \in Entry /\ ZeroEntry.conn = NoConn
      BY DEF ZeroEntry, Entry, Byte
    <3>2. CASE slots' = Append(slots, ZeroEntry)
      <4>1. /\ Len(slots') = Len(slots) + 1
            /\ \A i \in 1 .. Len(slots) : slots'[i] = slots[i]
            /\ slots'[Len(slots) + 1] = ZeroEntry
        BY <1>1, <3>1, <3>2, AppendProperties
      <4> QED  BY <1>1, <1>2, <3>1, <4>1 DEF GreetInv, RefInv, TableInv, Known
    <3> QED  BY <1>8, <2>1, <3>2 DEF Grown
  <2> QED  BY <1>3, <1>4, <1>7, <2>1, <2>2 DEF GreetInv, RefInv
<1>10. CASE PutId
  <2> DEFINE e == [slots[handler.at] EXCEPT !.service = service[handler.conn]]
  <2>1. /\ handler.conn \in Conns /\ Known(handler.conn) /\ handler.at \in 1 .. len
        /\ slots' = [slots EXCEPT ![handler.at] = e]
        /\ UNCHANGED <<server, sock>>
    BY <1>10
    DEF PutId, HandlerAt, TypeInv, HandlerInv, serverVars, connVars
  <2>2. e \in Entry /\ e.conn = slots[handler.at].conn
    <3>1. service[handler.conn] \in Byte
      BY <2>1, ServicesAssumption DEF Known, TypeInv, TypeOK
    <3> QED  BY <1>1, <2>1, <3>1 DEF Entry
  <2>3. TableInv'
    <3>1. e.conn # NoConn => Known(e.conn)
      BY <1>1, <2>1, <2>2 DEF GreetInv, RefInv, TableInv
    <3> HIDE DEF e
    <3> QED  BY <1>6, <2>1, <2>2, <3>1
  <2> QED  BY <1>3, <1>4, <1>7, <2>1, <2>3 DEF GreetInv, RefInv
<1>11. CASE PutConn
  <2> DEFINE e == [slots[handler.at] EXCEPT !.conn = handler.conn]
  <2>1. /\ handler.conn \in Conns /\ Known(handler.conn) /\ handler.at \in 1 .. len
        /\ slots' = [slots EXCEPT ![handler.at] = e]
        /\ server' = [server EXCEPT ![handler.conn] = ServerIdle("read")]
        /\ UNCHANGED sock
    BY <1>11 DEF PutConn, HandlerAt, TypeInv, HandlerInv, connVars
  <2>2. e \in Entry /\ e.conn = handler.conn
    BY <1>1, <2>1 DEF Entry
  <2>3. TableInv'
    <3> HIDE DEF e
    <3> QED  BY <1>6, <2>1, <2>2
  <2>4. TargetInv'
    BY <1>2, <2>1
    DEF GreetInv, RefInv, TargetInv, Known, ServerIdle, TypeInv, TypeOK
  <2> QED  BY <1>3, <1>4, <2>1, <2>3, <2>4 DEF GreetInv, RefInv
<1>12. CASE ReceiveDisconnected
  <2> DEFINE c == Head(events).conn
  <2>1. /\ sock' = sock \/ sock' = [sock EXCEPT ![c] = "closed"]
        /\ UNCHANGED <<slots, server>> /\ events # <<>>
    BY <1>12 DEF ReceiveDisconnected, serverVars
  <2>2. c \in Conns /\ Known(c)
    <3>1. Head(events) = events[1] /\ Len(events) >= 1 /\ Len(events) \in Nat
      BY <2>1, HeadAndTail, LenProperties DEF TypeInv, TypeOK
    <3> QED  BY <3>1, EventFields DEF TypeInv, EventsInv
  <2> QED
    BY <1>3, <1>5, <1>7, <1>8, <2>1, <2>2 DEF GreetInv, RefInv
<1>13. ASSUME NEW e \in Entry, NEW pc, NEW nextPc, NEW nextAt,
              WriteField(pc, e, nextPc, nextAt), pc # "receive",
              e.conn # NoConn => Known(e.conn)
       PROVE  GreetInv'
  <2>1. /\ handler.at \in 1 .. len
        /\ slots' = [slots EXCEPT ![handler.at] = e]
        /\ UNCHANGED <<server, sock>>
    BY <1>13
    DEF WriteField, HandlerAt, TypeInv, HandlerInv, serverVars, connVars
  <2> QED
    BY <1>3, <1>4, <1>6, <1>7, <1>13, <2>1 DEF GreetInv, RefInv
<1>14. CASE MoveId \/ MoveConn
  <2> DEFINE here == slots[handler.at]
             next == slots[handler.at + 1]
  <2>1. /\ handler.at \in 1 .. len /\ handler.at < len
        /\ here \in Entry /\ next \in Entry
        /\ here.conn # NoConn => Known(here.conn)
        /\ next.conn # NoConn => Known(next.conn)
    BY <1>1, <1>14
    DEF MoveId, MoveConn, WriteField, HandlerAt, TypeInv, HandlerInv, GreetInv,
        RefInv, TableInv
  <2>2. /\ [here EXCEPT !.service = next.service] \in Entry
        /\ [here EXCEPT !.service = next.service].conn = here.conn
        /\ [here EXCEPT !.conn = next.conn] \in Entry
        /\ [here EXCEPT !.conn = next.conn].conn = next.conn
    BY <2>1 DEF Entry
  <2>3. CASE MoveId
    BY <1>13, <2>1, <2>2, <2>3 DEF MoveId
  <2>4. CASE MoveConn
    BY <1>13, <2>1, <2>2, <2>4 DEF MoveConn
  <2> QED  BY <1>14, <2>3, <2>4
<1>15. CASE ClearId \/ ClearConn
  <2> DEFINE here == slots[handler.at]
  <2>1. /\ handler.at \in 1 .. len /\ here \in Entry
        /\ here.conn # NoConn => Known(here.conn)
    BY <1>1, <1>15
    DEF ClearId, ClearConn, WriteField, HandlerAt, TypeInv, HandlerInv,
        GreetInv, RefInv, TableInv
  <2>2. /\ [here EXCEPT !.service = 0] \in Entry
        /\ [here EXCEPT !.service = 0].conn = here.conn
        /\ [here EXCEPT !.conn = NoConn] \in Entry
        /\ [here EXCEPT !.conn = NoConn].conn = NoConn
    <3>1. 0 \in Byte
      BY DEF Byte
    <3> QED  BY <2>1, <3>1 DEF Entry
  <2>3. CASE ClearId
    BY <1>13, <2>1, <2>2, <2>3 DEF ClearId
  <2>4. CASE ClearConn
    BY <1>13, <2>1, <2>2, <2>4 DEF ClearConn
  <2> QED  BY <1>15, <2>3, <2>4
<1>16. CASE StoreTable
  <2>1. /\ handler.conn \in Conns /\ Known(handler.conn)
        /\ sock' = [sock EXCEPT ![handler.conn] = "closed"]
        /\ UNCHANGED <<slots, server>>
    BY <1>16 DEF StoreTable, HandlerAt, TypeInv, HandlerInv, serverVars
  <2> QED
    BY <1>3, <1>5, <1>7, <1>8, <2>1 DEF GreetInv, RefInv
<1> QED
  BY <1>9, <1>10, <1>11, <1>12, <1>14, <1>15, <1>16 DEF HandlerStep

LEMMA ServerKeepsGreeting ==
  ASSUME TypeInv, GreetInv, NEW c \in Conns, ServerStep(c)
  PROVE  GreetInv'
<1> DEFINE s == server[c]
<1>1. UNCHANGED <<sock, service, acceptor, slots>>
  BY DEF ServerStep, ServeRead, ServeEOF, PublishDisconnected, ServeScan,
         ServeTake, ServeWrite, Written, ServeDial, ServeSelf, connVars, acceptorVars,
         handlerVars
<1>2. /\ s \in ServerState
      /\ s.packet = ZeroPacket \/ s.packet.type \in {TypePing, TypeSend}
  BY DEF TypeInv, TypeOK, GreetInv, RefInv, TargetInv
<1>3. TableInv'
  BY <1>1 DEF GreetInv, RefInv, TableInv, Known
<1>4. ASSUME NEW t, server' = [server EXCEPT ![c] = t],
             t.pc = "write" /\ t.target # NoConn => Known(t.target),
             t.packet = ZeroPacket \/ t.packet.type \in {TypePing, TypeSend}
      PROVE  TargetInv'
  BY <1>1, <1>4 DEF GreetInv, RefInv, TargetInv, Known, TypeInv, TypeOK
<1>5. ASSUME UNCHANGED <<peer, backlog, outbox>>
      PROVE  ConnInv' /\ AnsweredInv' /\ AcceptFirst'
  BY <1>1, <1>5, QuietKeepsConnInv, QuietKeepsAnswers DEF GreetInv
<1>6. ASSUME server' = server
      PROVE  TargetInv'
  BY <1>1, <1>6 DEF GreetInv, RefInv, TargetInv, Known
<1>7. \A pc : /\ ServerIdle(pc).pc = pc /\ ServerIdle(pc).target = NoConn
              /\ ServerIdle(pc).packet = ZeroPacket
  BY DEF ServerIdle
<1>8. CASE ServeRead(c)
  <2> DEFINE f == Head(inbox[c])
             scan == [pc |-> "scan", packet |-> Forwarded(f),
                      to |-> f.payload[1], at |-> 1, n |-> len,
                      target |-> NoConn]
  <2>1. UNCHANGED <<peer, backlog, outbox>>
    BY <1>8 DEF ServeRead, acceptorVars
  <2>2. ASSUME server' = [server EXCEPT ![c] = scan]
        PROVE  TargetInv'
    <3>1. /\ scan.pc = "scan"
          /\ scan.packet = ZeroPacket \/ scan.packet.type \in {TypePing, TypeSend}
      BY ForwardedTraffic
    <3> HIDE DEF scan
    <3> QED  BY <1>4, <2>2, <3>1
  <2>3. ASSUME server' = server
        PROVE  TargetInv'
    BY <1>6, <2>3
  <2>4. TargetInv'
    BY <1>8, <2>2, <2>3 DEF ServeRead
  <2> QED  BY <1>3, <1>5, <2>1, <2>4 DEF GreetInv, RefInv
<1>9. CASE ServeEOF(c)
  <2>1. UNCHANGED <<backlog, outbox>>
    BY <1>9 DEF ServeEOF, acceptorVars
  <2>2. CASE peer' = [peer EXCEPT ![c] = "eof"] /\ server' = server
    <3>1. \A d \in Conns : /\ peer'[d] = "absent" => peer[d] = "absent"
                           /\ peer'[d] = "open" => peer[d] = "open"
      BY <2>2 DEF TypeInv, TypeOK
    <3>2. \A i \in 1 .. Len(backlog) : backlog[i] \in Conns
      BY ElementOfSeq DEF TypeInv, TypeOK
    <3>3. ConnInv'
      BY <1>1, <2>1, <3>1, <3>2
      DEF GreetInv, ConnInv, BacklogInv, FreshInv, GreetingInv, Known
    <3>4. AnsweredInv' /\ AcceptFirst'
      BY <1>1, <2>1, <3>1 DEF GreetInv, AnsweredInv, AcceptFirst, Known
    <3> QED  BY <1>3, <1>6, <2>2, <3>3, <3>4 DEF GreetInv, RefInv
  <2>3. CASE server' = [server EXCEPT ![c].pc = "publish"] /\ peer' = peer
    <3> DEFINE t == [s EXCEPT !.pc = "publish"]
    <3>1. /\ server' = [server EXCEPT ![c] = t]
          /\ t.pc = "publish" /\ t.packet = s.packet
      BY <1>2, <2>3 DEF ServerState
    <3>2. TargetInv'
      <4> HIDE DEF t
      <4> QED  BY <1>2, <1>4, <3>1
    <3> QED  BY <1>3, <1>5, <2>1, <2>3, <3>2 DEF GreetInv, RefInv
  <2> QED  BY <1>9, <2>2, <2>3 DEF ServeEOF
<1>10. CASE PublishDisconnected(c)
  <2>1. /\ server' = [server EXCEPT ![c] = ServerIdle("done")]
        /\ UNCHANGED <<peer, backlog, outbox>>
    BY <1>10 DEF PublishDisconnected, connVars, clientVars, acceptorVars
  <2>2. TargetInv'
    BY <1>4, <1>7, <2>1
  <2> QED  BY <1>3, <1>5, <2>1, <2>2 DEF GreetInv, RefInv
<1>11. CASE ServeScan(c)
  <2> DEFINE t == IF s.at > s.n THEN [s EXCEPT !.pc = "dial"]
                  ELSE IF slots[s.at].service = s.to THEN [s EXCEPT !.pc = "take"]
                  ELSE [s EXCEPT !.at = s.at + 1]
  <2>1. /\ server' = [server EXCEPT ![c] = t]
        /\ UNCHANGED <<peer, backlog, outbox>> /\ s.pc = "scan"
    BY <1>11 DEF ServeScan, ServerAt, connVars, clientVars, acceptorVars
  <2>2. t.packet = s.packet /\ t.pc # "write"
    BY <1>2, <2>1 DEF ServerState
  <2>3. TargetInv'
    <3> HIDE DEF t
    <3> QED  BY <1>2, <1>4, <2>1, <2>2
  <2> QED  BY <1>3, <1>5, <2>1, <2>3 DEF GreetInv, RefInv
<1>12. CASE ServeTake(c)
  <2> DEFINE t == [s EXCEPT !.pc = "write", !.target = slots[s.at].conn]
  <2>1. /\ server' = [server EXCEPT ![c] = t]
        /\ UNCHANGED <<peer, backlog, outbox>>
        /\ s.at \in 1 .. Len(slots)
    BY <1>12
    DEF ServeTake, ServerAt, connVars, clientVars, acceptorVars, TypeInv,
        TypeOK, ServerInv
  <2>2. t.packet = s.packet /\ t.target = slots[s.at].conn
    BY <1>2 DEF ServerState
  <2>3. TargetInv'
    <3> HIDE DEF t
    <3> QED  BY <1>2, <1>4, <2>1, <2>2 DEF GreetInv, RefInv, TableInv
  <2> QED  BY <1>3, <1>5, <2>1, <2>3 DEF GreetInv, RefInv
<1>13. CASE ServeWrite(c)
  <2> DEFINE d == s.target
             longer == Append(outbox[d], s.packet)
  <2>1. /\ server' = [server EXCEPT ![c] = ServerIdle("read")]
        /\ UNCHANGED <<peer, backlog>> /\ s.pc = "write"
    BY <1>13 DEF ServeWrite, Written, ServerAt, clientVars, acceptorVars
  <2>2. RefInv'
    BY <1>3, <1>4, <1>7, <2>1 DEF RefInv
  <2>3. CASE outbox' = outbox
    BY <1>5, <2>1, <2>2, <2>3 DEF GreetInv
  <2>4. CASE /\ outbox' = [outbox EXCEPT ![d] = longer]
             /\ Serializable(s.packet) /\ d # NoConn
             /\ sock[d] = "open" /\ peer[d] = "open"
    <3>1. d \in Conns /\ Known(d)
      BY <1>2, <2>1, <2>4 DEF ServerState, GreetInv, RefInv, TargetInv
    <3>2. outbox[d] # <<>> /\ outbox[d] \in Seq(Packet)
      BY <2>4, <3>1 DEF GreetInv, AnsweredInv, TypeInv, TypeOK
    <3>3. s.packet.type \in {TypePing, TypeSend} /\ s.packet \in Packet
      BY <1>2, <2>4, Traffic DEF GreetInv, ServerState
    <3>4. /\ longer # <<>>
          /\ Len(outbox[d]) \in Nat /\ Len(outbox[d]) >= 1
          /\ DOMAIN outbox[d] = 1 .. Len(outbox[d])
          /\ DOMAIN longer = 1 .. Len(outbox[d]) + 1
          /\ \A i \in 1 .. Len(outbox[d]) : longer[i] = outbox[d][i]
          /\ longer[Len(outbox[d]) + 1] = s.packet
      BY <3>2, <3>3, AppendProperties, LenProperties, EmptySeq
    <3>5. /\ outbox'[d] = longer
          /\ \A e \in Conns : e # d => outbox'[e] = outbox[e]
      BY <2>4, <3>1 DEF TypeInv, TypeOK
    <3> HIDE DEF longer
    <3>6. ConnInv'
      <4>1. sock[d] # "none" /\ (acceptor.pc \in {"init", "send"} => acceptor.conn # d)
        BY <2>4, <3>1 DEF GreetInv, ConnInv, GreetingInv
      <4>2. acceptor.pc \in {"init", "send"} => acceptor.conn \in Conns
        BY DEF TypeInv, AcceptorInv
      <4> QED
        BY <1>1, <2>1, <3>5, <4>1, <4>2
        DEF GreetInv, ConnInv, BacklogInv, FreshInv, GreetingInv, Known
    <3>7. AnsweredInv'
      BY <1>1, <2>1, <3>4, <3>5 DEF GreetInv, AnsweredInv, Known
    <3>8. AcceptFirst'
      <4> SUFFICES ASSUME NEW e \in Conns, NEW i \in DOMAIN outbox'[e]
                   PROVE  IF i = 1 THEN outbox'[e][i] = AcceptPacket
                          ELSE outbox'[e][i].type \in {TypePing, TypeSend}
        BY DEF AcceptFirst
      <4>1. CASE e # d
        BY <3>5, <4>1 DEF GreetInv, AcceptFirst
      <4>2. CASE e = d
        <5>1. i \in 1 .. Len(outbox[d]) + 1 /\ Len(outbox[d]) \in Nat
          BY <3>4, <3>5, <4>2
        <5>2. CASE i = Len(outbox[d]) + 1
          BY <3>3, <3>4, <3>5, <4>2, <5>2
        <5>3. CASE i \in 1 .. Len(outbox[d])
          BY <3>1, <3>4, <3>5, <4>2, <5>3 DEF GreetInv, AcceptFirst
        <5>4. i = Len(outbox[d]) + 1 \/ i \in 1 .. Len(outbox[d])
          BY <5>1
        <5> QED  BY <5>2, <5>3, <5>4
      <4> QED  BY <4>1, <4>2
    <3> QED  BY <2>2, <3>6, <3>7, <3>8 DEF GreetInv
  <2> QED  BY <1>13, <2>3, <2>4 DEF ServeWrite, Written
<1>14. CASE ServeDial(c)
  <2>1. UNCHANGED outbox
    BY <1>14 DEF ServeDial
  <2>2. CASE /\ server' = [server EXCEPT ![c] = ServerIdle("read")]
             /\ UNCHANGED <<peer, backlog>>
    <3>1. TargetInv'
      BY <1>4, <1>7, <2>2
    <3> QED  BY <1>3, <1>5, <2>1, <2>2, <3>1 DEF GreetInv, RefInv
  <2>3. ASSUME NEW d \in SelfConns, peer[d] = "absent",
               peer' = [peer EXCEPT ![d] = "open"],
               backlog' = Append(backlog, d),
               server' = [server EXCEPT ![c].pc = "self", ![c].target = d]
        PROVE  GreetInv'
    <3> DEFINE t == [s EXCEPT !.pc = "self", !.target = d]
    <3>1. d \in Conns
      BY ConnsAssumption
    <3>2. server' = [server EXCEPT ![c] = t] /\ t.pc = "self" /\ t.packet = s.packet
      BY <1>2, <2>3 DEF ServerState, TypeInv, TypeOK
    <3>3. TargetInv'
      <4> HIDE DEF t
      <4> QED  BY <1>2, <1>4, <3>2
    <3>4. ConnInv' /\ sock[d] = "none"
      BY <1>1, <2>1, <2>3, <3>1, QueueKeepsConnInv DEF GreetInv
    <3>5. \A e \in Conns : e # d => peer'[e] = peer[e]
      BY <2>3 DEF TypeInv, TypeOK
    <3>6. AnsweredInv' /\ AcceptFirst'
      BY <1>1, <2>1, <3>1, <3>4, <3>5
      DEF GreetInv, ConnInv, FreshInv, AnsweredInv, AcceptFirst, Known
    <3> QED  BY <1>3, <3>3, <3>4, <3>6 DEF GreetInv, RefInv
  <2> QED  BY <1>14, <2>2, <2>3 DEF ServeDial
<1>15. CASE ServeSelf(c)
  <2>1. /\ server' = [server EXCEPT ![c] = ServerIdle("read")]
        /\ UNCHANGED <<peer, backlog, outbox>>
    BY <1>15 DEF ServeSelf, acceptorVars
  <2>2. TargetInv'
    BY <1>4, <1>7, <2>1
  <2> QED  BY <1>3, <1>5, <2>1, <2>2 DEF GreetInv, RefInv
<1> QED
  BY <1>8, <1>9, <1>10, <1>11, <1>12, <1>13, <1>14, <1>15 DEF ServerStep

LEMMA NextGreetInv == TypeInv /\ GreetInv /\ [Next]_vars => GreetInv'
<1> SUFFICES ASSUME TypeInv, GreetInv, [Next]_vars PROVE GreetInv'
  OBVIOUS
<1>1. CASE UNCHANGED vars
  <2>1. UNCHANGED <<backlog, peer, service, outbox, acceptor, sock, slots, server>>
    BY <1>1
    DEF vars, connVars, clientVars, sharedVars, acceptorVars, handlerVars,
        serverVars
  <2>2. RefInv'
    BY <2>1 DEF GreetInv, RefInv, TableInv, TargetInv, Known
  <2> QED
    BY <2>1, <2>2, QuietKeepsConnInv, QuietKeepsAnswers DEF GreetInv
<1> QED
  BY <1>1, ClientKeepsGreeting, AcceptorKeepsGreeting, HandlerKeepsGreeting,
     ServerKeepsGreeting
  DEF Next

\* The first packet on every connection is ACCEPT, written once, and only PING
\* and SEND follow, although servers read the table while the handler writes
\* it.
THEOREM AcceptFirstTheorem == Spec => []AcceptFirst
<1>1. GreetInv => AcceptFirst
  BY DEF GreetInv
<1> QED
  BY <1>1, InitGreetInv, NextGreetInv, TypeInvariant, PTL DEF Spec

\* What a server takes from the table, torn as it may be, is nil or a
\* connection whose handshake was accepted.
TargetsWereAccepted ==
  \A c \in Conns :
    server[c].pc = "write" /\ server[c].target # NoConn
      => service[server[c].target] # NoService

\* The theorem of that name, from the same invariant.
THEOREM TargetsWereAcceptedTheorem == Spec => []TargetsWereAccepted
<1>1. GreetInv => TargetsWereAccepted
  BY DEF GreetInv, RefInv, TargetInv, TargetsWereAccepted, Known
<1> QED
  BY <1>1, InitGreetInv, NextGreetInv, TypeInvariant, PTL DEF Spec
-----------------------------------------------------------------------------
(***************************************************************************)
(* OpenConnectionsAreOwned: a connection is handed from the acceptor to    *)
(* the channel, to the handler, to its server, to the channel and to the   *)
(* handler again, and is never dropped before it is closed.                *)
(*                                                                         *)
(* To be inductive it needs that whoever takes a connection has none in    *)
(* its hands (IdleInv): otherwise taking the next would drop the last.     *)
(***************************************************************************)

IdleInv ==
  /\ acceptor.pc = "accept" => acceptor.conn = NoConn
  /\ handler.pc = "receive" => handler.conn = NoConn

Owned(c) ==
  \/ acceptor.conn = c
  \/ handler.conn = c
  \/ server[c].pc \notin {"none", "done"}
  \/ InEvents(Connected(c)) \/ InEvents(Disconnected(c))

OwnInv == IdleInv /\ OpenConnectionsAreOwned

-----------------------------------------------------------------------------

\* Appending an event keeps the others, taking one keeps all but the first.
LEMMA EventsAfterAppend ==
  ASSUME TypeOK, NEW e \in Event, events' = Append(events, e)
  PROVE  /\ InEvents(e)'
         /\ \A c : InEvents(Connected(c)) => InEvents(Connected(c))'
         /\ \A c : InEvents(Disconnected(c)) => InEvents(Disconnected(c))'
<1>1. events \in Seq(Event) /\ Len(events) \in Nat /\ DOMAIN events = 1 .. Len(events)
  BY LenProperties DEF TypeOK
<1>2. /\ DOMAIN events' = 1 .. Len(events) + 1
      /\ \A i \in 1 .. Len(events) : events'[i] = events[i]
      /\ events'[Len(events) + 1] = e
  BY <1>1, AppendProperties, LenProperties
<1> QED  BY <1>1, <1>2 DEF InEvents

LEMMA EventsAfterTail ==
  ASSUME TypeOK, events # <<>>, events' = Tail(events)
  PROVE  \A e : e # Head(events) /\ InEvents(e) => InEvents(e)'
<1>1. events \in Seq(Event) /\ Len(events) \in Nat /\ DOMAIN events = 1 .. Len(events)
  BY LenProperties DEF TypeOK
<1>2. /\ Head(events) = events[1]
      /\ events' \in Seq(Event) /\ Len(events') = Len(events) - 1
      /\ Len(events) >= 1
      /\ \A i \in 1 .. Len(events) - 1 : events'[i] = events[i + 1]
  BY <1>1, HeadAndTail
<1>3. DOMAIN events' = 1 .. Len(events) - 1
  BY <1>2, LenProperties
<1> SUFFICES ASSUME NEW e, e # Head(events), InEvents(e)
             PROVE  InEvents(e)'
  OBVIOUS
<1>4. PICK i \in 1 .. Len(events) : events[i] = e
  BY <1>1 DEF InEvents
<1>5. i - 1 \in 1 .. Len(events) - 1 /\ events'[i - 1] = e
  BY <1>1, <1>2, <1>4
<1> QED  BY <1>3, <1>5 DEF InEvents

\* Owners change only where the connection does.
LEMMA SameOwners ==
  ASSUME OpenConnectionsAreOwned, UNCHANGED <<sock, events>>,
         acceptor'.conn = acceptor.conn, handler'.conn = handler.conn,
         \A c \in Conns : server[c].pc \notin {"none", "done"}
                            => server'[c].pc \notin {"none", "done"}
  PROVE  OpenConnectionsAreOwned'
BY DEF OpenConnectionsAreOwned, InEvents

LEMMA InitOwnInv == Init => OwnInv
BY DEF Init, OwnInv, IdleInv, OpenConnectionsAreOwned, AcceptorIdle, HandlerIdle

LEMMA AcceptorKeepsOwners ==
  ASSUME TypeInv, OwnInv, AcceptorStep
  PROVE  OwnInv'
<1> DEFINE c == acceptor.conn
<1>1. UNCHANGED <<handler, server>>
  BY DEF AcceptorStep, Accept, HandshakeReadFails, ReadInit, ReadSend,
         PublishConnected, handlerVars, serverVars
<1>2. /\ sock \in [Conns -> {"none", "open", "closed"}]
      /\ acceptor \in AcceptorState
      /\ acceptor.pc # "accept" => c \in Conns
  BY DEF TypeInv, TypeOK, AcceptorInv
<1>3. CASE Accept
  <2>1. Head(backlog) \in Conns
    BY <1>3, HeadAndTail DEF Accept, TypeInv, TypeOK
  <2>2. /\ acceptor' = [pc |-> "init", conn |-> Head(backlog)]
        /\ sock' = [sock EXCEPT ![Head(backlog)] = "open"]
        /\ UNCHANGED events /\ c = NoConn
    BY <1>3 DEF Accept, AcceptorAt, OwnInv, IdleInv
  <2>3. \A d \in Conns : d # Head(backlog) => sock'[d] = sock[d] /\ d # c
    BY <1>2, <2>1, <2>2, ConnsAssumption
  <2> QED
    BY <1>1, <2>2, <2>3 DEF OwnInv, IdleInv, OpenConnectionsAreOwned, InEvents
<1>4. ASSUME acceptor.pc # "accept", Reject(c), UNCHANGED events
      PROVE  OwnInv'
  <2>1. /\ sock'[c] = "closed" /\ acceptor' = AcceptorIdle
        /\ \A d \in Conns : d # c => sock'[d] = sock[d]
    BY <1>2, <1>4 DEF Reject
  <2> QED
    BY <1>1, <1>4, <2>1
    DEF OwnInv, IdleInv, OpenConnectionsAreOwned, InEvents, AcceptorIdle
<1>5. ASSUME NEW pc, pc # "accept", acceptor' = [acceptor EXCEPT !.pc = pc],
             UNCHANGED <<sock, events>>
      PROVE  OwnInv'
  <2>1. acceptor'.pc = pc /\ acceptor'.conn = acceptor.conn
    BY <1>2, <1>5 DEF AcceptorState
  <2> QED
    BY <1>1, <1>5, <2>1, SameOwners DEF OwnInv, IdleInv
<1>6. CASE HandshakeReadFails
  BY <1>4, <1>6 DEF HandshakeReadFails, AcceptorAt
<1>7. CASE ReadInit
  BY <1>4, <1>5, <1>7 DEF ReadInit, AcceptorAt
<1>8. CASE ReadSend
  <2>1. /\ acceptor.pc = "send" /\ UNCHANGED events
        /\ \/ Reject(c)
           \/ acceptor' = [acceptor EXCEPT !.pc = "publish"] /\ UNCHANGED sock
    BY <1>8 DEF ReadSend, AcceptorAt
  <2> QED  BY <1>4, <1>5, <2>1
<1>9. CASE PublishConnected
  <2>1. /\ events' = Append(events, Connected(c)) /\ acceptor' = AcceptorIdle
        /\ c \in Conns /\ UNCHANGED sock
    BY <1>2, <1>9 DEF PublishConnected, AcceptorAt, connVars
  <2>2. Connected(c) \in Event
    BY <2>1 DEF Connected, Event
  <2>3. \A d \in Conns : \/ InEvents(Connected(d)) \/ InEvents(Disconnected(d))
                         \/ d = c
                         => InEvents(Connected(d))' \/ InEvents(Disconnected(d))'
    <3> TAKE d \in Conns
    <3>1. CASE d = c
      <4>1. \E i \in DOMAIN events' : events'[i] = Connected(c)
        BY <2>1, <2>2, EventsAfterAppend DEF TypeInv, InEvents
      <4> QED  BY <3>1, <4>1 DEF InEvents, Connected
    <3>2. CASE d # c
      BY <2>1, <2>2, <3>2, EventsAfterAppend DEF TypeInv
    <3> QED  BY <3>1, <3>2
  <2> QED
    BY <1>1, <2>1, <2>3
    DEF OwnInv, IdleInv, OpenConnectionsAreOwned, AcceptorIdle
<1> QED  BY <1>3, <1>6, <1>7, <1>8, <1>9 DEF AcceptorStep

LEMMA HandlerKeepsOwners ==
  ASSUME TypeInv, OwnInv, HandlerStep
  PROVE  OwnInv'
<1>1. UNCHANGED acceptor
  BY DEF HandlerStep, ReceiveConnected, PutId, PutConn, ReceiveDisconnected,
         MoveId, MoveConn, ClearId, ClearConn, WriteField, StoreTable,
         acceptorVars
<1>2. /\ sock \in [Conns -> {"none", "open", "closed"}]
      /\ server \in [Conns -> ServerState] /\ handler \in HandlerState
      /\ handler.pc # "receive" => handler.conn \in Conns
  BY DEF TypeInv, TypeOK, HandlerInv
<1>3. ASSUME NEW h, handler' = h, h.pc # "receive", h.conn = Head(events).conn,
             handler.pc = "receive", events # <<>>, events' = Tail(events),
             UNCHANGED <<sock, server>>
      PROVE  OwnInv'
  <2>1. handler.conn = NoConn
    BY <1>3 DEF OwnInv, IdleInv
  <2>2. \A c \in Conns : c = Head(events).conn \/ c # Head(events).conn
    OBVIOUS
  <2>3. \A c \in Conns : c # Head(events).conn =>
          /\ InEvents(Connected(c)) => InEvents(Connected(c))'
          /\ InEvents(Disconnected(c)) => InEvents(Disconnected(c))'
    <3> TAKE c \in Conns
    <3> HAVE c # Head(events).conn
    <3>1. Connected(c) # Head(events) /\ Disconnected(c) # Head(events)
      BY DEF Connected, Disconnected
    <3>2. /\ Connected(c)' = Connected(c) /\ Disconnected(c)' = Disconnected(c)
      BY DEF Connected, Disconnected
    <3> QED  BY <1>3, <3>1, <3>2, EventsAfterTail DEF TypeInv, InEvents
  <2> QED
    BY <1>1, <1>3, <2>1, <2>3, ConnsAssumption
    DEF OwnInv, IdleInv, OpenConnectionsAreOwned
<1>4. CASE ReceiveConnected
  <2> DEFINE h == [pc |-> "putId", conn |-> Head(events).conn, at |-> len + 1]
  <2>1. /\ handler' = h /\ handler.pc = "receive" /\ events # <<>>
        /\ events' = Tail(events) /\ UNCHANGED <<sock, server>>
    BY <1>4 DEF ReceiveConnected, HandlerAt, connVars, serverVars
  <2>2. h.pc # "receive" /\ h.conn = Head(events).conn
    OBVIOUS
  <2> HIDE DEF h
  <2> QED  BY <1>3, <2>1, <2>2
<1>5. ASSUME NEW pc, NEW at, handler.pc # "receive", pc # "receive",
             handler' = [handler EXCEPT !.pc = pc, !.at = at],
             UNCHANGED <<sock, events, server>>
      PROVE  OwnInv'
  <2>1. handler'.pc = pc /\ handler'.conn = handler.conn
    BY <1>2, <1>5 DEF HandlerState
  <2> QED  BY <1>1, <1>5, <2>1, SameOwners DEF OwnInv, IdleInv
<1>6. CASE PutId
  <2>1. /\ handler.pc # "receive" /\ handler' = [handler EXCEPT !.pc = "putConn"]
        /\ UNCHANGED <<sock, events, server>>
    BY <1>6 DEF PutId, HandlerAt, connVars, serverVars
  <2>2. handler'.pc = "putConn" /\ handler'.conn = handler.conn
    BY <1>2, <2>1 DEF HandlerState
  <2> QED  BY <1>1, <2>1, <2>2, SameOwners DEF OwnInv, IdleInv
<1>7. CASE PutConn
  <2>1. /\ handler' = HandlerIdle /\ handler.conn \in Conns
        /\ server' = [server EXCEPT ![handler.conn] = ServerIdle("read")]
        /\ UNCHANGED <<sock, events>>
    BY <1>2, <1>7 DEF PutConn, HandlerAt, connVars
  <2>2. /\ server'[handler.conn].pc = "read"
        /\ \A c \in Conns : c # handler.conn => server'[c] = server[c]
    BY <1>2, <2>1 DEF ServerIdle
  <2> QED
    BY <1>1, <2>1, <2>2
    DEF OwnInv, IdleInv, OpenConnectionsAreOwned, InEvents, HandlerIdle
<1>8. CASE ReceiveDisconnected
  <2> DEFINE c == Head(events).conn
  <2>1. /\ handler.pc = "receive" /\ events # <<>> /\ events' = Tail(events)
        /\ UNCHANGED server
    BY <1>8 DEF ReceiveDisconnected, HandlerAt, serverVars
  <2>2. CASE sock' = [sock EXCEPT ![c] = "closed"] /\ UNCHANGED handler
    <3>1. \A d \in Conns : IF d = c THEN sock'[d] = "closed" ELSE sock'[d] = sock[d]
      BY <1>2, <2>2
    <3>2. \A d \in Conns : d # c =>
            /\ InEvents(Connected(d)) => InEvents(Connected(d))'
            /\ InEvents(Disconnected(d)) => InEvents(Disconnected(d))'
      <4> TAKE d \in Conns
      <4> HAVE d # c
      <4>1. Connected(d) # Head(events) /\ Disconnected(d) # Head(events)
        BY DEF Connected, Disconnected
      <4>2. /\ Connected(d)' = Connected(d) /\ Disconnected(d)' = Disconnected(d)
        BY DEF Connected, Disconnected
      <4> QED  BY <2>1, <4>1, <4>2, EventsAfterTail DEF TypeInv, InEvents
    <3> QED
      BY <1>1, <2>1, <2>2, <3>1, <3>2 DEF OwnInv, IdleInv, OpenConnectionsAreOwned
  <2>3. ASSUME NEW first, UNCHANGED sock,
               handler' = [pc |-> IF first < len THEN "moveId" ELSE "clearId",
                           conn |-> c, at |-> first]
        PROVE  OwnInv'
    <3> DEFINE h == [pc |-> IF first < len THEN "moveId" ELSE "clearId",
                     conn |-> c, at |-> first]
    <3>1. h.pc # "receive" /\ h.conn = c /\ handler' = h
      BY <2>3
    <3> HIDE DEF h
    <3> QED  BY <1>3, <2>1, <2>3, <3>1
  <2> QED  BY <1>8, <2>2, <2>3 DEF ReceiveDisconnected
<1>9. CASE MoveId \/ MoveConn \/ ClearId \/ ClearConn
  <2>1. handler.pc # "receive" /\ UNCHANGED <<sock, events, server>>
    BY <1>9
    DEF MoveId, MoveConn, ClearId, ClearConn, WriteField, HandlerAt, connVars,
        serverVars
  <2>2. CASE MoveId
    BY <1>5, <2>1, <2>2 DEF MoveId, WriteField
  <2>3. CASE MoveConn
    BY <1>5, <2>1, <2>3 DEF MoveConn, WriteField
  <2>4. CASE ClearId \/ ClearConn
    BY <1>5, <2>1, <2>4 DEF ClearId, ClearConn, WriteField
  <2> QED  BY <1>9, <2>2, <2>3, <2>4
<1>10. CASE StoreTable
  <2>1. /\ handler' = HandlerIdle /\ handler.conn \in Conns
        /\ sock' = [sock EXCEPT ![handler.conn] = "closed"]
        /\ UNCHANGED <<events, server>>
    BY <1>2, <1>10 DEF StoreTable, HandlerAt, serverVars
  <2>2. /\ sock'[handler.conn] = "closed"
        /\ \A c \in Conns : c # handler.conn => sock'[c] = sock[c]
    BY <1>2, <2>1
  <2> QED
    BY <1>1, <2>1, <2>2
    DEF OwnInv, IdleInv, OpenConnectionsAreOwned, InEvents, HandlerIdle
<1> QED
  BY <1>4, <1>6, <1>7, <1>8, <1>9, <1>10 DEF HandlerStep

LEMMA ServerKeepsOwners ==
  ASSUME TypeInv, OwnInv, NEW c \in Conns, ServerStep(c)
  PROVE  OwnInv'
<1>1. UNCHANGED <<sock, acceptor, handler>>
  BY DEF ServerStep, ServeRead, ServeEOF, PublishDisconnected, ServeScan,
         ServeTake, ServeWrite, Written, ServeDial, ServeSelf, connVars, acceptorVars,
         handlerVars
<1>2. IdleInv'
  BY <1>1 DEF OwnInv, IdleInv
<1>3. server \in [Conns -> ServerState]
  BY DEF TypeInv, TypeOK
<1>4. CASE PublishDisconnected(c)
  <2>1. /\ events' = Append(events, Disconnected(c))
        /\ server' = [server EXCEPT ![c] = ServerIdle("done")]
    BY <1>4 DEF PublishDisconnected
  <2>2. Disconnected(c) \in Event
    BY DEF Disconnected, Event
  <2>3. \A d \in Conns : \/ InEvents(Connected(d)) \/ InEvents(Disconnected(d))
                         \/ d = c
                         => InEvents(Connected(d))' \/ InEvents(Disconnected(d))'
    BY <2>1, <2>2, EventsAfterAppend DEF TypeInv
  <2>4. \A d \in Conns : d # c => server'[d] = server[d]
    BY <1>3, <2>1
  <2> QED
    BY <1>1, <1>2, <2>3, <2>4 DEF OwnInv, OpenConnectionsAreOwned
<1>5. CASE ~PublishDisconnected(c)
  <2>1. UNCHANGED events
    BY <1>5 DEF ServerStep, ServeRead, ServeEOF, ServeScan, ServeTake,
         ServeWrite, Written, ServeDial, ServeSelf
  <2>2. \A d \in Conns :
            \/ server'[d] = server[d]
            \/ d = c /\ server'[d].pc \notin {"none", "done"}
    <3> DEFINE Serves(t) == t.pc \notin {"none", "done"}
    <3>1. ASSUME NEW t, server' = [server EXCEPT ![c] = t], Serves(t)
          PROVE  \A d \in Conns :
            \/ server'[d] = server[d]
            \/ d = c /\ Serves(server'[d])
      BY <1>3, <3>1
    <3>2. server[c] \in ServerState
      BY <1>3
    <3>3. ServerIdle("read").pc = "read"
      BY DEF ServerIdle
    <3>4. CASE ServeWrite(c) \/ ServeSelf(c)
      BY <3>1, <3>3, <3>4 DEF ServeWrite, Written, ServeSelf
    <3>5. CASE ServeRead(c) \/ ServeEOF(c) \/ ServeTake(c)
      BY <1>3, <3>2, <3>5 DEF ServeRead, ServeEOF, ServeTake, ServerState
    <3>6. CASE ServeScan(c)
      BY <1>3, <3>2, <3>6 DEF ServeScan, ServerAt, ServerState
    <3>7. CASE ServeDial(c)
      <4>1. \/ server' = [server EXCEPT ![c] = ServerIdle("read")]
            \/ \E d \in SelfConns :
                 server' = [server EXCEPT ![c].pc = "self", ![c].target = d]
        BY <3>7 DEF ServeDial
      <4>2. ASSUME NEW d,
                   server' = [server EXCEPT ![c].pc = "self", ![c].target = d]
            PROVE  \A e \in Conns :
            \/ server'[e] = server[e]
            \/ e = c /\ server'[e].pc = "self"
        BY <1>3, <3>2, <4>2 DEF ServerState
      <4> QED  BY <3>1, <3>3, <4>1, <4>2
    <3> QED  BY <1>5, <3>4, <3>5, <3>6, <3>7 DEF ServerStep
  <2> QED
    BY <1>1, <1>2, <2>1, <2>2, SameOwners DEF OwnInv
<1> QED  BY <1>4, <1>5

LEMMA NextOwnInv == TypeInv /\ OwnInv /\ [Next]_vars => OwnInv'
<1> SUFFICES ASSUME TypeInv, OwnInv, [Next]_vars PROVE OwnInv'
  OBVIOUS
<1>1. ASSUME UNCHANGED <<sock, events, acceptor, handler, server>>
      PROVE  OwnInv'
  BY <1>1, SameOwners DEF OwnInv, IdleInv
<1>2. CASE UNCHANGED vars
  BY <1>1, <1>2
  DEF vars, connVars, sharedVars, acceptorVars, handlerVars, serverVars
<1>3. ASSUME NEW c \in Conns, ClientStep(c)
      PROVE  OwnInv'
  BY <1>1, <1>3
  DEF ClientStep, Connect, ClientSend, ClientLeave, Finalize, sharedVars,
      acceptorVars, handlerVars, serverVars
<1> QED
  BY <1>2, <1>3, AcceptorKeepsOwners, HandlerKeepsOwners, ServerKeepsOwners
  DEF Next

\* An open connection is always in somebody's hands: the acceptor's, the
\* handler's, its server's, or an event's.
THEOREM OwnersTheorem == Spec => []OpenConnectionsAreOwned
<1>1. OwnInv => OpenConnectionsAreOwned
  BY DEF OwnInv
<1> QED
  BY <1>1, InitOwnInv, NextOwnInv, TypeInvariant, PTL DEF Spec

-----------------------------------------------------------------------------
(* One owner *)

Started(c) == server[c].pc # "none"
Adding == {"putId", "putConn"}

\* Nobody else has the connection the acceptor has, and its server does not run.
AcceptorStage ==
  acceptor.pc # "accept" =>
    /\ sock[acceptor.conn] = "open" /\ ~Started(acceptor.conn)
    /\ acceptor.conn # handler.conn
    /\ \A i \in 1 .. Len(events) : events[i].conn # acceptor.conn

\* A connection has at most one event: CONNECTED before its server runs, and
\* DISCONNECTED after.  Until the event has been dealt with it is open.
EventStage ==
  /\ \A i, j \in 1 .. Len(events) : events[i].conn = events[j].conn => i = j
  /\ \A i \in 1 .. Len(events) :
       /\ sock[events[i].conn] = "open" /\ events[i].conn # handler.conn
       /\ server[events[i].conn].pc =
            IF events[i].type = "CONNECTED" THEN "none" ELSE "done"

HandlerStage ==
  IF handler.pc = "receive" THEN handler.conn = NoConn
  ELSE /\ sock[handler.conn] = "open"
       /\ server[handler.conn].pc = IF handler.pc \in Adding THEN "none" ELSE "done"

ServerStage ==
  \A c \in Conns : server[c].pc \notin {"none", "done"} => sock[c] = "open"

StageInv == AcceptorStage /\ EventStage /\ HandlerStage /\ ServerStage

-----------------------------------------------------------------------------

\* Who the stages speak of: connections.
LEMMA StagesOfConns ==
  ASSUME TypeInv
  PROVE  /\ acceptor.pc # "accept" => acceptor.conn \in Conns
         /\ handler.pc # "receive" => handler.conn \in Conns
         /\ events \in Seq(Event) /\ Len(events) \in Nat
         /\ \A i \in 1 .. Len(events) : /\ events[i].conn \in Conns
                                        /\ events[i].type \in {"CONNECTED", "DISCONNECTED"}
                                        /\ Known(events[i].conn)
         /\ server \in [Conns -> ServerState]
         /\ sock \in [Conns -> {"none", "open", "closed"}]
<1>1. events \in Seq(Event)
  BY DEF TypeInv, TypeOK
<1>2. \A i \in 1 .. Len(events) : events[i] \in Event
  BY <1>1, ElementOfSeq
<1> QED
  BY <1>1, <1>2, LenProperties
  DEF Event, TypeInv, TypeOK, AcceptorInv, EventsInv, HandlerInv

LEMMA InitStageInv == Init => StageInv
<1> SUFFICES ASSUME Init PROVE StageInv
  OBVIOUS
<1>1. Len(events) = 0
  BY EmptySeq DEF Init
<1> QED
  BY <1>1
  DEF Init, StageInv, AcceptorStage, EventStage, HandlerStage, ServerStage,
      AcceptorIdle, HandlerIdle, ServerIdle

\* A step that moves a running server on, and touches nothing else.
LEMMA SameStages ==
  ASSUME TypeInv, StageInv, UNCHANGED <<sock, events, acceptor, handler>>,
         \A c \in Conns :
           \/ server'[c].pc = server[c].pc
           \/ {server[c].pc, server'[c].pc} \cap {"none", "done"} = {}
  PROVE  StageInv'
<1>1. /\ AcceptorStage' /\ ServerStage'
  BY StagesOfConns DEF StageInv, AcceptorStage, ServerStage, Started
<1>2. EventStage'
  BY StagesOfConns DEF StageInv, EventStage
<1>3. HandlerStage'
  BY StagesOfConns DEF StageInv, HandlerStage
<1> QED  BY <1>1, <1>2, <1>3 DEF StageInv

LEMMA AcceptorKeepsStages ==
  ASSUME TypeInv, GreetInv, StageInv, AcceptorStep
  PROVE  StageInv'
<1> DEFINE c == acceptor.conn
<1>1. UNCHANGED <<handler, server>>
  BY DEF AcceptorStep, Accept, HandshakeReadFails, ReadInit, ReadSend,
         PublishConnected, handlerVars, serverVars
<1>2. acceptor \in AcceptorState
  BY DEF TypeInv, TypeOK
<1>3. CASE Accept
  <2> DEFINE b == Head(backlog)
  <2>1. /\ acceptor' = [pc |-> "init", conn |-> b]
        /\ sock' = [sock EXCEPT ![b] = "open"]
        /\ UNCHANGED events /\ backlog # <<>>
    BY <1>3 DEF Accept
  <2>2. b \in Conns /\ sock[b] = "none" /\ ~Known(b)
    BY <2>1, HeadAndTail, LenProperties
    DEF TypeInv, TypeOK, GreetInv, ConnInv, BacklogInv, FreshInv
  <2> HIDE DEF b
  <2>3. /\ sock'[b] = "open" /\ \A d \in Conns : d # b => sock'[d] = sock[d]
        /\ acceptor'.conn = b /\ acceptor'.pc = "init"
    BY <2>1, <2>2, StagesOfConns
  <2>4. /\ ~Started(b) /\ b # handler.conn
        /\ \A i \in 1 .. Len(events) : events[i].conn # b
    BY <2>2, StagesOfConns, ConnsAssumption
    DEF Started, TypeInv, ServerInv, StageInv, EventStage, HandlerStage
  <2>5. AcceptorStage'
    BY <1>1, <2>1, <2>3, <2>4 DEF AcceptorStage, Started
  <2>6. EventStage' /\ ServerStage'
    BY <1>1, <2>1, <2>3, StagesOfConns DEF StageInv, EventStage, ServerStage
  <2>7. HandlerStage'
    BY <1>1, <2>3, StagesOfConns DEF StageInv, HandlerStage
  <2> QED  BY <2>5, <2>6, <2>7 DEF StageInv
<1>4. ASSUME acceptor.pc # "accept", Reject(c), UNCHANGED events
      PROVE  StageInv'
  <2>1. /\ sock' = [sock EXCEPT ![c] = "closed"] /\ acceptor'.pc = "accept"
        /\ c \in Conns
    BY <1>4, StagesOfConns DEF Reject, AcceptorIdle
  <2>2. \A d \in Conns : d # c => sock'[d] = sock[d]
    BY <2>1, StagesOfConns
  <2>3. /\ server[c].pc = "none" /\ handler.conn # c
        /\ \A i \in 1 .. Len(events) : events[i].conn # c
    BY <1>4 DEF StageInv, AcceptorStage, Started
  <2>4. AcceptorStage' /\ ServerStage'
    BY <1>1, <2>1, <2>2, <2>3 DEF StageInv, AcceptorStage, ServerStage
  <2>5. EventStage'
    BY <1>1, <1>4, <2>2, <2>3, StagesOfConns DEF StageInv, EventStage
  <2>6. HandlerStage'
    BY <1>1, <2>2, <2>3, StagesOfConns DEF StageInv, HandlerStage
  <2> QED  BY <2>4, <2>5, <2>6 DEF StageInv
<1>5. ASSUME NEW pc, acceptor.pc # "accept",
             acceptor' = [acceptor EXCEPT !.pc = pc], UNCHANGED <<sock, events>>
      PROVE  StageInv'
  <2>1. acceptor'.conn = c
    BY <1>2, <1>5 DEF AcceptorState
  <2> QED
    BY <1>1, <1>5, <2>1
    DEF StageInv, AcceptorStage, EventStage, HandlerStage, ServerStage, Started
<1>6. CASE HandshakeReadFails
  BY <1>4, <1>6 DEF HandshakeReadFails, AcceptorAt
<1>7. CASE ReadInit
  BY <1>4, <1>5, <1>7 DEF ReadInit, AcceptorAt
<1>8. CASE ReadSend
  <2>1. /\ acceptor.pc # "accept" /\ UNCHANGED events
        /\ \/ Reject(c)
           \/ acceptor' = [acceptor EXCEPT !.pc = "publish"] /\ UNCHANGED sock
    BY <1>8 DEF ReadSend, AcceptorAt
  <2> QED  BY <1>4, <1>5, <2>1
<1>9. CASE PublishConnected
  <2>1. /\ acceptor.pc = "publish" /\ events' = Append(events, Connected(c))
        /\ acceptor'.pc = "accept" /\ UNCHANGED sock
    BY <1>9 DEF PublishConnected, AcceptorAt, AcceptorIdle, connVars
  <2>2. /\ c \in Conns /\ sock[c] = "open" /\ server[c].pc = "none"
        /\ c # handler.conn /\ \A i \in 1 .. Len(events) : events[i].conn # c
    BY <2>1, StagesOfConns DEF StageInv, AcceptorStage, Started
  <2>3. Connected(c) \in Event /\ Connected(c).conn = c /\ Connected(c).type = "CONNECTED"
    BY <2>2 DEF Connected, Event
  <2>4. /\ Len(events') = Len(events) + 1 /\ Len(events) \in Nat
        /\ \A i \in 1 .. Len(events) : events'[i] = events[i]
        /\ events'[Len(events) + 1] = Connected(c)
    BY <2>1, <2>3, StagesOfConns, AppendProperties
  <2>5. EventStage'
    BY <1>1, <2>1, <2>2, <2>3, <2>4 DEF StageInv, EventStage
  <2> QED
    BY <1>1, <2>1, <2>5 DEF StageInv, AcceptorStage, HandlerStage, ServerStage
<1> QED  BY <1>3, <1>6, <1>7, <1>8, <1>9 DEF AcceptorStep

\* The handler takes an event.
LEMMA TakingEventKeepsStages ==
  ASSUME TypeInv, StageInv, handler.pc = "receive", events # <<>>,
         events' = Tail(events), UNCHANGED <<acceptor, server, sock>>,
         handler'.pc # "receive", handler'.conn = Head(events).conn,
         (handler'.pc \in Adding) <=> (Head(events).type = "CONNECTED")
  PROVE  StageInv'
<1>1. /\ Head(events) = events[1] /\ Len(events) >= 1
      /\ Len(events') = Len(events) - 1
      /\ \A i \in 1 .. Len(events) - 1 : events'[i] = events[i + 1]
  BY HeadAndTail, StagesOfConns
<1>2. /\ sock[events[1].conn] = "open"
      /\ server[events[1].conn].pc =
           IF events[1].type = "CONNECTED" THEN "none" ELSE "done"
      /\ \A i \in 2 .. Len(events) : events[i].conn # events[1].conn
  BY <1>1, StagesOfConns DEF StageInv, EventStage
<1>3. HandlerStage'
  BY <1>1, <1>2 DEF HandlerStage
<1>4. EventStage'
  <2>1. \A i \in 1 .. Len(events') : i + 1 \in 2 .. Len(events) /\ i + 1 \in 1 .. Len(events)
                                     /\ events'[i] = events[i + 1]
    BY <1>1, StagesOfConns
  <2>2. \A i, j \in 1 .. Len(events') : events'[i].conn = events'[j].conn => i = j
    <3> TAKE i, j \in 1 .. Len(events')
    <3> HAVE events'[i].conn = events'[j].conn
    <3>1. i + 1 = j + 1
      BY <2>1 DEF StageInv, EventStage
    <3> QED  BY <3>1, <1>1, StagesOfConns
  <2> QED  BY <1>1, <1>2, <2>1, <2>2 DEF StageInv, EventStage
<1>5. AcceptorStage'
  <2>1. ASSUME acceptor.pc # "accept"
        PROVE  \A i \in 1 .. Len(events) : events[i].conn # acceptor.conn
    BY <2>1 DEF StageInv, AcceptorStage
  <2>2. 1 \in 1 .. Len(events)
        /\ \A i \in 1 .. Len(events') : i + 1 \in 1 .. Len(events)
    BY <1>1, StagesOfConns
  <2> QED  BY <1>1, <2>1, <2>2 DEF StageInv, AcceptorStage, Started
<1>6. ServerStage'
  BY DEF StageInv, ServerStage
<1> QED  BY <1>3, <1>4, <1>5, <1>6 DEF StageInv

\* The handler closes a connection whose server has ended.
LEMMA ClosingKeepsStages ==
  ASSUME TypeInv, StageInv, NEW c \in Conns, server[c].pc = "done",
         sock' = [sock EXCEPT ![c] = "closed"], UNCHANGED <<acceptor, server>>,
         handler'.pc = "receive", handler'.conn = NoConn,
         \A i \in 1 .. Len(events') :
           /\ events'[i].conn # c
           /\ \E j \in 1 .. Len(events) : events'[i] = events[j],
         \A i, j \in 1 .. Len(events') : events'[i].conn = events'[j].conn => i = j
  PROVE  StageInv'
<1>1. \A d \in Conns : d # c => sock'[d] = sock[d]
  BY StagesOfConns
<1>2. HandlerStage' /\ ServerStage'
  BY <1>1 DEF HandlerStage, StageInv, ServerStage
<1>3. AcceptorStage'
  <2> SUFFICES ASSUME acceptor.pc # "accept"
               PROVE  /\ sock'[acceptor.conn] = "open"
                      /\ server[acceptor.conn].pc = "none"
                      /\ acceptor.conn # NoConn
                      /\ \A i \in 1 .. Len(events') : events'[i].conn # acceptor.conn
    BY DEF AcceptorStage, Started
  <2>1. /\ acceptor.conn \in Conns /\ sock[acceptor.conn] = "open"
        /\ server[acceptor.conn].pc = "none"
        /\ \A i \in 1 .. Len(events) : events[i].conn # acceptor.conn
    BY StagesOfConns DEF StageInv, AcceptorStage, Started
  <2> QED  BY <1>1, <2>1, ConnsAssumption
<1>4. EventStage'
  BY <1>1, StagesOfConns, ConnsAssumption DEF StageInv, EventStage
<1> QED  BY <1>2, <1>3, <1>4 DEF StageInv

LEMMA HandlerKeepsStages ==
  ASSUME TypeInv, StageInv, HandlerStep
  PROVE  StageInv'
<1> DEFINE c == handler.conn
<1>1. UNCHANGED acceptor
  BY DEF HandlerStep, ReceiveConnected, PutId, PutConn, ReceiveDisconnected,
         MoveId, MoveConn, ClearId, ClearConn, WriteField, StoreTable,
         acceptorVars
<1>2. handler \in HandlerState
  BY DEF TypeInv, TypeOK
<1>3. CASE ReceiveConnected
  <2>1. /\ handler.pc = "receive" /\ events # <<>> /\ events' = Tail(events)
        /\ Head(events).type = "CONNECTED" /\ UNCHANGED <<sock, server>>
        /\ handler' = [pc |-> "putId", conn |-> Head(events).conn, at |-> len + 1]
    BY <1>3 DEF ReceiveConnected, HandlerAt, connVars, serverVars
  <2>2. /\ handler'.pc \in Adding /\ handler'.conn = Head(events).conn
        /\ handler'.pc # "receive"
    BY <2>1 DEF Adding
  <2> QED  BY <1>1, <2>1, <2>2, TakingEventKeepsStages
\* The steps that only go on with the same connection.
<1>4. ASSUME NEW pc, NEW at, handler.pc # "receive", pc # "receive",
             (pc \in Adding) <=> (handler.pc \in Adding),
             handler' = [handler EXCEPT !.pc = pc, !.at = at],
             UNCHANGED <<sock, server, events>>
      PROVE  StageInv'
  <2>1. handler'.pc = pc /\ handler'.conn = c
    BY <1>2, <1>4 DEF HandlerState
  <2> QED
    BY <1>1, <1>4, <2>1
    DEF StageInv, AcceptorStage, EventStage, HandlerStage, ServerStage, Started
<1>5. CASE PutId
  <2>1. /\ handler.pc = "putId" /\ handler' = [handler EXCEPT !.pc = "putConn"]
        /\ UNCHANGED <<sock, server, events>>
    BY <1>5 DEF PutId, HandlerAt, connVars, serverVars
  <2>2. handler'.pc = "putConn" /\ handler'.conn = c
    BY <1>2, <2>1 DEF HandlerState
  <2> QED
    BY <1>1, <2>1, <2>2
    DEF StageInv, AcceptorStage, EventStage, HandlerStage, ServerStage, Started,
        Adding
<1>6. CASE PutConn
  <2>1. /\ handler.pc = "putConn" /\ handler'.pc = "receive" /\ handler'.conn = NoConn
        /\ server' = [server EXCEPT ![c] = ServerIdle("read")]
        /\ UNCHANGED <<sock, events>> /\ c \in Conns
    BY <1>6, StagesOfConns DEF PutConn, HandlerAt, HandlerIdle, connVars
  <2>2. /\ server'[c].pc = "read"
        /\ \A d \in Conns : d # c => server'[d] = server[d]
    BY <2>1, StagesOfConns DEF ServerIdle
  <2>3. sock[c] = "open" /\ \A i \in 1 .. Len(events) : events[i].conn # c
    BY <2>1 DEF StageInv, HandlerStage, EventStage
  <2>4. HandlerStage' /\ ServerStage'
    BY <2>1, <2>2, <2>3 DEF HandlerStage, StageInv, ServerStage
  <2>5. EventStage'
    BY <2>1, <2>2, <2>3, StagesOfConns, ConnsAssumption DEF StageInv, EventStage
  <2>6. AcceptorStage'
    BY <1>1, <2>1, <2>2, StagesOfConns, ConnsAssumption
    DEF StageInv, AcceptorStage, Started
  <2> QED  BY <2>4, <2>5, <2>6 DEF StageInv
<1>7. CASE ReceiveDisconnected
  <2> DEFINE d == Head(events).conn
  <2>1. /\ handler.pc = "receive" /\ events # <<>> /\ events' = Tail(events)
        /\ Head(events).type = "DISCONNECTED" /\ UNCHANGED server
    BY <1>7 DEF ReceiveDisconnected, HandlerAt, serverVars
  <2>2. CASE sock' = [sock EXCEPT ![d] = "closed"] /\ UNCHANGED handler
    <3>1. /\ Head(events) = events[1] /\ Len(events) >= 1
          /\ Len(events') = Len(events) - 1
          /\ \A i \in 1 .. Len(events) - 1 : events'[i] = events[i + 1]
      BY <2>1, HeadAndTail, StagesOfConns
    <3>2. \A i \in 1 .. Len(events') : i + 1 \in 2 .. Len(events) /\ i + 1 \in 1 .. Len(events)
                                       /\ events'[i] = events[i + 1]
      BY <3>1, StagesOfConns
    <3>3. \A i, j \in 1 .. Len(events') : events'[i].conn = events'[j].conn => i = j
      <4> TAKE i, j \in 1 .. Len(events')
      <4> HAVE events'[i].conn = events'[j].conn
      <4>1. i + 1 = j + 1
        BY <3>2 DEF StageInv, EventStage
      <4> QED  BY <3>1, <4>1, StagesOfConns
    <3>4. /\ d \in Conns /\ server[d].pc = "done"
          /\ \A i \in 2 .. Len(events) : events[i].conn # d
      BY <2>1, <3>1, StagesOfConns DEF StageInv, EventStage
    <3>5. \A i \in 1 .. Len(events') :
            /\ events'[i].conn # d
            /\ \E j \in 1 .. Len(events) : events'[i] = events[j]
      BY <3>2, <3>4
    <3>6. handler'.pc = "receive" /\ handler'.conn = NoConn
      BY <2>1, <2>2 DEF StageInv, HandlerStage
    <3> HIDE DEF d
    <3> QED  BY <1>1, <2>1, <2>2, <3>3, <3>4, <3>5, <3>6, ClosingKeepsStages
  <2>3. ASSUME NEW first, UNCHANGED sock,
               handler' = [pc |-> IF first < len THEN "moveId" ELSE "clearId",
                           conn |-> d, at |-> first]
        PROVE  StageInv'
    <3>1. /\ handler'.pc \in {"moveId", "clearId"} /\ handler'.conn = d
      BY <2>3
    <3>2. handler'.pc # "receive" /\ handler'.pc \notin Adding
      BY <3>1 DEF Adding
    <3> QED  BY <1>1, <2>1, <2>3, <3>1, <3>2, TakingEventKeepsStages
  <2> QED  BY <1>7, <2>2, <2>3 DEF ReceiveDisconnected
<1>8. CASE MoveId \/ MoveConn \/ ClearId \/ ClearConn
  <2>1. /\ handler.pc \in {"moveId", "moveConn", "clearId", "clearConn"}
        /\ UNCHANGED <<sock, events, server>>
    BY <1>8
    DEF MoveId, MoveConn, ClearId, ClearConn, WriteField, HandlerAt, connVars,
        serverVars
  <2>2. /\ \A pc \in {"moveId", "moveConn", "clearId", "clearConn", "store"} :
             pc # "receive" /\ pc \notin Adding
    BY DEF Adding
  <2>3. CASE MoveId
    BY <1>4, <2>1, <2>2, <2>3 DEF MoveId, WriteField
  <2>4. CASE MoveConn
    BY <1>4, <2>1, <2>2, <2>4 DEF MoveConn, WriteField
  <2>5. CASE ClearId
    BY <1>4, <2>1, <2>2, <2>5 DEF ClearId, WriteField
  <2>6. CASE ClearConn
    BY <1>4, <2>1, <2>2, <2>6 DEF ClearConn, WriteField
  <2> QED  BY <1>8, <2>3, <2>4, <2>5, <2>6
<1>9. CASE StoreTable
  <2>1. /\ handler.pc = "store" /\ handler'.pc = "receive" /\ handler'.conn = NoConn
        /\ sock' = [sock EXCEPT ![c] = "closed"] /\ c \in Conns
        /\ UNCHANGED <<events, server>>
    BY <1>9, StagesOfConns DEF StoreTable, HandlerAt, HandlerIdle, serverVars
  <2>2. server[c].pc = "done" /\ \A i \in 1 .. Len(events) : events[i].conn # c
    BY <2>1 DEF StageInv, HandlerStage, EventStage, Adding
  <2>3. \A i, j \in 1 .. Len(events) : events[i].conn = events[j].conn => i = j
    BY DEF StageInv, EventStage
  <2> QED  BY <1>1, <2>1, <2>2, <2>3, ClosingKeepsStages
<1> QED
  BY <1>3, <1>5, <1>6, <1>7, <1>8, <1>9 DEF HandlerStep

\* What a step of a server does to the stages of its connection.
LEMMA ServerMovesOn ==
  ASSUME TypeInv, NEW c \in Conns, ServerStep(c), ~PublishDisconnected(c)
  PROVE  /\ UNCHANGED <<sock, events, acceptor, handler>>
         /\ server[c].pc \notin {"none", "done"}
         /\ server'[c].pc \notin {"none", "done"}
         /\ \A d \in Conns : d # c => server'[d] = server[d]
<1> DEFINE Runs(t) == t.pc \notin {"none", "done"}
<1>1. /\ UNCHANGED <<sock, events, acceptor, handler>> /\ Runs(server[c])
  BY DEF ServerStep, ServeRead, ServeEOF, ServeScan, ServeTake, ServeWrite, Written,
         ServeDial, ServeSelf, connVars, acceptorVars, handlerVars, ServerAt
<1>2. server \in [Conns -> ServerState] /\ server[c] \in ServerState
  BY DEF TypeInv, TypeOK
<1>3. ASSUME NEW t, server' = [server EXCEPT ![c] = t], Runs(t)
      PROVE  Runs(server'[c]) /\ \A d \in Conns : d # c => server'[d] = server[d]
  BY <1>2, <1>3
<1>4. ServerIdle("read").pc = "read"
  BY DEF ServerIdle
<1>5. CASE ServeWrite(c) \/ ServeSelf(c)
  BY <1>1, <1>3, <1>4, <1>5 DEF ServeWrite, Written, ServeSelf
<1>6. CASE ServeRead(c)
  BY <1>1, <1>2, <1>6 DEF ServeRead
<1>7. CASE ServeEOF(c)
  BY <1>1, <1>2, <1>7 DEF ServeEOF, ServerState
<1>8. CASE ServeTake(c)
  BY <1>1, <1>2, <1>8 DEF ServeTake, ServerState
<1>9. CASE ServeScan(c)
  BY <1>1, <1>2, <1>9 DEF ServeScan, ServerAt, ServerState
<1>10. CASE ServeDial(c)
  <2>1. CASE server' = [server EXCEPT ![c] = ServerIdle("read")]
    BY <1>1, <1>3, <1>4, <2>1
  <2>2. ASSUME NEW d, server' = [server EXCEPT ![c].pc = "self", ![c].target = d]
        PROVE  server'[c].pc = "self" /\ \A e \in Conns : e # c => server'[e] = server[e]
    BY <1>2, <2>2 DEF ServerState
  <2> QED  BY <1>1, <1>10, <2>1, <2>2 DEF ServeDial
<1> QED
  BY <1>5, <1>6, <1>7, <1>8, <1>9, <1>10 DEF ServerStep

LEMMA ServerKeepsStages ==
  ASSUME TypeInv, StageInv, NEW c \in Conns, ServerStep(c)
  PROVE  StageInv'
<1>1. UNCHANGED <<sock, acceptor, handler>>
  BY DEF ServerStep, ServeRead, ServeEOF, PublishDisconnected, ServeScan,
         ServeTake, ServeWrite, Written, ServeDial, ServeSelf, connVars, acceptorVars,
         handlerVars
<1>2. CASE ~PublishDisconnected(c)
  <2>1. \A d \in Conns :
           \/ server'[d].pc = server[d].pc
           \/ {server[d].pc, server'[d].pc} \cap {"none", "done"} = {}
    <3> TAKE d \in Conns
    <3>1. CASE d = c
      BY <1>2, <3>1, ServerMovesOn
    <3>2. CASE d # c
      BY <1>2, <3>2, ServerMovesOn
    <3> QED  BY <3>1, <3>2
  <2> QED  BY <1>1, <1>2, <2>1, ServerMovesOn, SameStages
<1>3. CASE PublishDisconnected(c)
  <2>1. /\ server[c].pc = "publish" /\ events' = Append(events, Disconnected(c))
        /\ server' = [server EXCEPT ![c] = ServerIdle("done")]
    BY <1>3 DEF PublishDisconnected, ServerAt
  <2>2. server'[c].pc = "done" /\ \A d \in Conns : d # c => server'[d] = server[d]
    BY <2>1, StagesOfConns DEF ServerIdle
  <2>3. /\ sock[c] = "open" /\ c # handler.conn
        /\ acceptor.pc # "accept" => acceptor.conn # c
        /\ \A i \in 1 .. Len(events) : events[i].conn # c
    BY <2>1, StagesOfConns, ConnsAssumption
    DEF StageInv, ServerStage, HandlerStage, AcceptorStage, EventStage, Started
  <2>4. /\ Disconnected(c) \in Event /\ Disconnected(c).conn = c
        /\ Disconnected(c).type = "DISCONNECTED"
    BY DEF Disconnected, Event
  <2>5. /\ Len(events') = Len(events) + 1 /\ Len(events) \in Nat
        /\ \A i \in 1 .. Len(events) : events'[i] = events[i]
        /\ events'[Len(events) + 1] = Disconnected(c)
    BY <2>1, <2>4, StagesOfConns, AppendProperties
  <2>6. EventStage'
    BY <1>1, <2>2, <2>3, <2>4, <2>5, StagesOfConns DEF StageInv, EventStage
  <2>7. AcceptorStage'
    BY <1>1, <2>2, <2>3, <2>4, <2>5, StagesOfConns
    DEF StageInv, AcceptorStage, Started
  <2>8. HandlerStage' /\ ServerStage'
    BY <1>1, <2>2, <2>3, StagesOfConns DEF StageInv, HandlerStage, ServerStage
  <2> QED  BY <2>6, <2>7, <2>8 DEF StageInv
<1> QED  BY <1>2, <1>3

LEMMA NextStageInv == TypeInv /\ GreetInv /\ StageInv /\ [Next]_vars => StageInv'
<1> SUFFICES ASSUME TypeInv, GreetInv, StageInv, [Next]_vars PROVE StageInv'
  OBVIOUS
<1>1. ASSUME UNCHANGED <<sock, events, acceptor, handler, server>>
      PROVE  StageInv'
  BY <1>1, SameStages
<1>2. CASE UNCHANGED vars
  BY <1>1, <1>2
  DEF vars, connVars, sharedVars, acceptorVars, handlerVars, serverVars
<1>3. ASSUME NEW c \in Conns, ClientStep(c)
      PROVE  StageInv'
  BY <1>1, <1>3
  DEF ClientStep, Connect, ClientSend, ClientLeave, Finalize, sharedVars,
      acceptorVars, handlerVars, serverVars
<1> QED
  BY <1>2, <1>3, AcceptorKeepsStages, HandlerKeepsStages, ServerKeepsStages
  DEF Next

-----------------------------------------------------------------------------
(***************************************************************************)
(* TableMatchesServers: the handler deletes the first entry of a service   *)
(* and not the entry of the connection that left, one element and one      *)
(* field at a time, and the counts of entries and of registered            *)
(* connections still agree for every service.                              *)
(*                                                                         *)
(* While the handler works, one element (the hole) may be torn and one     *)
(* connection is neither in nor out.  LiveInv says that the other elements *)
(* are sound entries of different connections, CountInv that their         *)
(* services are those of the other registered connections, and HoleInv     *)
(* what has been written into the hole.  That a connection is added or     *)
(* removed only once is StageInv: its owners are never two.                *)
(***************************************************************************)

\* The element the handler is working on, whose fields may be torn; the others
\* are the entries that will be there when it has finished.
Hole == IF handler.pc = "receive" THEN {} ELSE {handler.at}
Live == (1 .. len) \ Hole
InTable == {slots[i].conn : i \in Live}

\* The registered connections but the one the handler is removing.
Held == {c \in Conns : Registered(c) /\ c # handler.conn}

Of(S, s) == {c \in S : service[c] = s}

\* What the handler has already written into the hole.
HoleInv ==
  /\ handler.pc \notin {"receive", "moveId", "moveConn"} => handler.at = len
  /\ handler.pc = "putConn" => slots[handler.at].service = service[handler.conn]
  /\ handler.pc = "moveConn" =>
       slots[handler.at].service = slots[handler.at + 1].service

LiveInv ==
  /\ \A i \in Live : /\ slots[i].conn \in Conns /\ Started(slots[i].conn)
                     /\ slots[i].service = service[slots[i].conn]
  /\ \A i, j \in Live : slots[i].conn = slots[j].conn => i = j

CountInv ==
  /\ IsFiniteSet(Held)
  /\ \A s \in Services : Cardinality(Of(InTable, s)) = Cardinality(Of(Held, s))

EntryInv == HoleInv /\ LiveInv /\ CountInv

-----------------------------------------------------------------------------

LEMMA LiveSlots ==
  ASSUME TypeInv
  PROVE  /\ slots \in Seq(Entry) /\ Len(slots) \in Nat /\ len \in Nat
         /\ len <= Len(slots) /\ Live \subseteq 1 .. len
         /\ \A i \in 1 .. Len(slots) : slots[i] \in Entry
         /\ handler.pc # "receive" => handler.at \in 1 .. len
         /\ handler.pc \in {"moveId", "moveConn"} => handler.at + 1 \in 1 .. len
<1>1. slots \in Seq(Entry) /\ Len(slots) \in Nat /\ len \in 0 .. Len(slots)
  BY LenProperties DEF TypeInv, TypeOK
<1>2. \A i \in 1 .. Len(slots) : slots[i] \in Entry
  BY <1>1, ElementOfSeq
<1>3. /\ handler.pc # "receive" => handler.at \in 1 .. len
      /\ handler.pc \in {"moveId", "moveConn"} => handler.at < len
  BY DEF TypeInv, HandlerInv
<1> QED  BY <1>1, <1>2, <1>3 DEF Live

\* A started server belongs to a connection whose service is known.
LEMMA StartedAreKnown ==
  ASSUME TypeInv
  PROVE  /\ \A c \in Conns : Started(c) => Known(c) /\ service[c] \in Services
         /\ \A c \in Held : c \in Conns /\ Started(c)
         /\ LiveInv => \A c \in InTable : c \in Conns /\ Started(c)
BY DEF TypeInv, TypeOK, ServerInv, Started, Known, Held, Registered, LiveInv,
       InTable

LEMMA InTableIsFinite ==
  ASSUME TypeInv, LiveInv
  PROVE  IsFiniteSet(InTable) /\ Cardinality(InTable) = Cardinality(Live)
<1> DEFINE f == [i \in Live |-> slots[i].conn]
<1>1. IsFiniteSet(Live)
  <2>1. IsFiniteSet(1 .. len)
    BY LiveSlots, FS_Interval
  <2> QED  BY <2>1, LiveSlots, FS_Subset
<1>2. f \in Surjection(Live, InTable)
  BY DEF Surjection, InTable
<1>3. f \in Injection(Live, InTable)
  BY DEF Injection, IsInjective, InTable, LiveInv
<1> HIDE DEF f
<1> QED  BY <1>1, <1>2, <1>3, FS_Surjection

\* Adding a connection to two sets, and removing from each one of one service,
\* keeps the equality of their counts.
LEMMA AddToBoth ==
  ASSUME NEW S, NEW T, NEW c, c \notin S, c \notin T, NEW s,
         IsFiniteSet(S), IsFiniteSet(T),
         Cardinality(Of(S, s)) = Cardinality(Of(T, s))
  PROVE  Cardinality(Of(S \cup {c}, s)) = Cardinality(Of(T \cup {c}, s))
<1>1. IsFiniteSet(Of(S, s)) /\ IsFiniteSet(Of(T, s))
  BY FS_Subset DEF Of
<1>2. CASE service[c] = s
  <2>1. Of(S \cup {c}, s) = Of(S, s) \cup {c} /\ c \notin Of(S, s)
    BY <1>2 DEF Of
  <2>2. Of(T \cup {c}, s) = Of(T, s) \cup {c} /\ c \notin Of(T, s)
    BY <1>2 DEF Of
  <2>3. /\ Cardinality(Of(S, s) \cup {c}) = Cardinality(Of(S, s)) + 1
        /\ Cardinality(Of(T, s) \cup {c}) = Cardinality(Of(T, s)) + 1
    BY <1>1, <2>1, <2>2, FS_AddElement
  <2> QED  BY <2>1, <2>2, <2>3
<1>3. CASE service[c] # s
  <2>1. Of(S \cup {c}, s) = Of(S, s) /\ Of(T \cup {c}, s) = Of(T, s)
    BY <1>3 DEF Of
  <2> QED  BY <2>1
<1> QED  BY <1>2, <1>3

LEMMA RemoveFromBoth ==
  ASSUME NEW S, NEW T, NEW c \in S, NEW d \in T, service[c] = service[d], NEW s,
         IsFiniteSet(S), IsFiniteSet(T),
         Cardinality(Of(S, s)) = Cardinality(Of(T, s))
  PROVE  Cardinality(Of(S \ {c}, s)) = Cardinality(Of(T \ {d}, s))
<1>1. IsFiniteSet(Of(S, s)) /\ IsFiniteSet(Of(T, s))
  BY FS_Subset DEF Of
<1>2. CASE service[c] = s
  <2>1. Of(S \ {c}, s) = Of(S, s) \ {c} /\ c \in Of(S, s)
    BY <1>2 DEF Of
  <2>2. Of(T \ {d}, s) = Of(T, s) \ {d} /\ d \in Of(T, s)
    BY <1>2 DEF Of
  <2>3. /\ Cardinality(Of(S, s) \ {c}) = Cardinality(Of(S, s)) - 1
        /\ Cardinality(Of(T, s) \ {d}) = Cardinality(Of(T, s)) - 1
    BY <1>1, <2>1, <2>2, FS_RemoveElement
  <2> QED  BY <2>1, <2>2, <2>3
<1>3. CASE service[c] # s
  <2>1. Of(S \ {c}, s) = Of(S, s) /\ Of(T \ {d}, s) = Of(T, s)
    BY <1>3 DEF Of
  <2> QED  BY <2>1
<1> QED  BY <1>2, <1>3

\* A connection of the one set has one of its service in the other.
LEMMA Counterpart ==
  ASSUME NEW S, NEW T, NEW c \in S, IsFiniteSet(S), IsFiniteSet(T),
         Cardinality(Of(S, service[c])) = Cardinality(Of(T, service[c]))
  PROVE  \E d \in T : service[d] = service[c]
<1>1. IsFiniteSet(Of(S, service[c])) /\ IsFiniteSet(Of(T, service[c]))
  BY FS_Subset DEF Of
<1>2. Of(S, service[c]) # {}
  BY DEF Of
<1>3. Of(T, service[c]) # {}
  BY <1>1, <1>2, FS_EmptySet
<1> QED  BY <1>3 DEF Of

-----------------------------------------------------------------------------

LEMMA InitEntryInv == Init => EntryInv
<1> SUFFICES ASSUME Init PROVE EntryInv
  OBVIOUS
<1>1. handler.pc = "receive" /\ len = 0 /\ \A c \in Conns : server[c].pc = "none"
  BY DEF Init, HandlerIdle, ServerIdle
<1>2. Live = {} /\ Held = {} /\ InTable = {}
  BY <1>1 DEF Live, Held, InTable, Registered
<1>3. \A s : Of({}, s) = {}
  BY DEF Of
<1> QED
  BY <1>1, <1>2, <1>3, FS_EmptySet DEF EntryInv, HoleInv, LiveInv, CountInv

\* A step after which the complete entries are those of before, perhaps in
\* other places.
LEMMA SameEntries ==
  ASSUME TypeInv, LiveInv, CountInv, Held' = Held,
         \A c \in Conns : Started(c) => Started(c)' /\ service'[c] = service[c],
         \A i \in Live' : \E j \in Live : /\ slots'[i].conn = slots[j].conn
                                          /\ slots'[i].service = slots[j].service,
         \A j \in Live : \E i \in Live' : slots'[i].conn = slots[j].conn,
         \A i, j \in Live' : slots'[i].conn = slots'[j].conn => i = j
  PROVE  LiveInv' /\ CountInv'
<1>1. LiveInv'
  BY DEF LiveInv
<1>2. InTable' = InTable
  <2>1. \A c : c \in InTable' <=> c \in InTable
    BY DEF InTable
  <2> QED  BY <2>1
<1>3. \A s : /\ Of(InTable, s)' = Of(InTable, s)
             /\ Of(Held, s)' = Of(Held, s)
  BY <1>2, StartedAreKnown DEF Of
<1> QED  BY <1>1, <1>3 DEF CountInv

\* A step of the others: servers that run go on running, and the table and the
\* handler are left alone.
LEMMA SameTable ==
  ASSUME TypeInv, EntryInv, UNCHANGED <<slots, len, handler>>,
         \A c \in Conns : Started(c)' <=> Started(c),
         \A c \in Conns : Started(c) => sock'[c] = sock[c],
         \A c \in Conns : Known(c) => service'[c] = service[c]
  PROVE  EntryInv'
<1>1. Live' = Live
  BY DEF Live, Hole
<1>2. Held' = Held
  BY DEF Held, Registered, Started
<1>3. LiveInv' /\ CountInv'
  <2>1. \A c \in Conns : Started(c) => Started(c)' /\ service'[c] = service[c]
    BY StartedAreKnown
  <2> QED  BY <1>1, <1>2, <2>1, SameEntries DEF EntryInv, LiveInv
<1>4. HoleInv'
  <2>1. handler.pc = "putConn" => service'[handler.conn] = service[handler.conn]
    BY DEF TypeInv, HandlerInv
  <2> QED  BY <2>1 DEF EntryInv, HoleInv
<1> QED  BY <1>3, <1>4 DEF EntryInv

LEMMA AcceptorKeepsEntries ==
  ASSUME TypeInv, GreetInv, StageInv, EntryInv, AcceptorStep
  PROVE  EntryInv'
<1> DEFINE c == acceptor.conn
<1>1. UNCHANGED <<slots, len, handler, server>>
  BY DEF AcceptorStep, Accept, HandshakeReadFails, ReadInit, ReadSend,
         PublishConnected, handlerVars, serverVars
<1>2. \A d \in Conns : Started(d)' <=> Started(d)
  BY <1>1 DEF Started
<1>3. \A d \in Conns : Started(d) => Known(d) /\ sock[d] # "none"
  BY StartedAreKnown DEF GreetInv, ConnInv, FreshInv
<1>4. ASSUME acceptor.pc # "accept", Reject(c), UNCHANGED service
      PROVE  EntryInv'
  <2>1. c \in Conns /\ ~Started(c) /\ sock' = [sock EXCEPT ![c] = "closed"]
    BY <1>4, StagesOfConns DEF StageInv, AcceptorStage, Reject
  <2>2. \A d \in Conns : Started(d) => sock'[d] = sock[d]
    BY <2>1, StagesOfConns
  <2> QED  BY <1>1, <1>2, <1>4, <2>2, SameTable
<1>5. CASE Accept
  <2>1. /\ backlog # <<>> /\ sock' = [sock EXCEPT ![Head(backlog)] = "open"]
        /\ UNCHANGED service
    BY <1>5 DEF Accept
  <2>2. Head(backlog) \in Conns /\ sock[Head(backlog)] = "none"
    BY <2>1, HeadAndTail, LenProperties
    DEF TypeInv, TypeOK, GreetInv, ConnInv, BacklogInv
  <2>3. \A d \in Conns : Started(d) => sock'[d] = sock[d]
    BY <1>3, <2>1, <2>2, StagesOfConns
  <2> QED  BY <1>1, <1>2, <2>1, <2>3, SameTable
<1>6. CASE HandshakeReadFails
  BY <1>4, <1>6 DEF HandshakeReadFails, AcceptorAt
<1>7. CASE ReadInit
  BY <1>1, <1>2, <1>4, <1>7, SameTable DEF ReadInit, AcceptorAt
<1>8. CASE ReadSend
  <2>1. /\ acceptor.pc = "send"
        /\ \/ Reject(c) /\ UNCHANGED service
           \/ /\ service' = [service EXCEPT ![c] = Head(inbox[c]).payload[2]]
              /\ UNCHANGED sock
    BY <1>8 DEF ReadSend, AcceptorAt
  <2>2. ~Known(c) /\ service \in [Conns -> Services \cup {NoService}]
    BY <2>1 DEF GreetInv, ConnInv, GreetingInv, TypeInv, TypeOK
  <2>3. CASE /\ service' = [service EXCEPT ![c] = Head(inbox[c]).payload[2]]
             /\ UNCHANGED sock
    <3>1. \A d \in Conns : Known(d) => service'[d] = service[d]
      BY <2>2, <2>3
    <3> QED  BY <1>1, <1>2, <2>3, <3>1, SameTable
  <2> QED  BY <1>4, <2>1, <2>3
<1>9. CASE PublishConnected
  BY <1>1, <1>2, <1>9, SameTable DEF PublishConnected, connVars
<1> QED  BY <1>5, <1>6, <1>7, <1>8, <1>9 DEF AcceptorStep

LEMMA ServerKeepsEntries ==
  ASSUME TypeInv, EntryInv, NEW c \in Conns, ServerStep(c)
  PROVE  EntryInv'
<1>1. UNCHANGED <<sock, service, slots, len, handler>>
  BY DEF ServerStep, ServeRead, ServeEOF, PublishDisconnected, ServeScan,
         ServeTake, ServeWrite, Written, ServeDial, ServeSelf, connVars, acceptorVars,
         handlerVars
<1>2. \A d \in Conns : Started(d)' <=> Started(d)
  <2>1. CASE PublishDisconnected(c)
    <3>1. server[c].pc = "publish" /\ server' = [server EXCEPT ![c] = ServerIdle("done")]
      BY <2>1 DEF PublishDisconnected, ServerAt
    <3>2. server'[c].pc = "done" /\ \A d \in Conns : d # c => server'[d] = server[d]
      BY <3>1, StagesOfConns DEF ServerIdle
    <3> QED  BY <3>1, <3>2 DEF Started
  <2>2. CASE ~PublishDisconnected(c)
    BY <2>2, ServerMovesOn DEF Started
  <2> QED  BY <2>1, <2>2
<1> QED  BY <1>1, <1>2, SameTable

\* The handler writes into the element it is working on.
LEMMA WritingTheHole ==
  ASSUME TypeInv, EntryInv, handler.pc # "receive", handler'.pc # "receive",
         handler'.conn = handler.conn, handler'.at = handler.at, NEW v \in Entry,
         slots' = [slots EXCEPT ![handler.at] = v],
         UNCHANGED <<len, server, sock, service>>
  PROVE  /\ LiveInv' /\ CountInv'
         /\ slots'[handler.at] = v
         /\ \A i \in 1 .. Len(slots) : i # handler.at => slots'[i] = slots[i]
<1>1. Live' = Live /\ Held' = Held
  BY DEF Live, Hole, Held, Registered
<1>2. handler.at \in 1 .. Len(slots)
  BY LiveSlots
<1>3. /\ slots'[handler.at] = v
      /\ \A i \in 1 .. Len(slots) : i # handler.at => slots'[i] = slots[i]
  BY <1>2, LiveSlots, ExceptSeq
<1>4. \A i \in Live : slots'[i] = slots[i]
  BY <1>3, LiveSlots DEF Live, Hole
<1>5. \A c \in Conns : Started(c) => Started(c)' /\ service'[c] = service[c]
  BY DEF Started
<1> QED
  BY <1>1, <1>3, <1>4, <1>5, SameEntries DEF EntryInv, LiveInv

LEMMA AddingKeepsEntries ==
  ASSUME TypeInv, StageInv, EntryInv, ReceiveConnected \/ PutId \/ PutConn
  PROVE  EntryInv'
<1> DEFINE c == handler.conn
<1>1. UNCHANGED <<sock, service>>
  BY DEF ReceiveConnected, PutId, PutConn, connVars, acceptorVars
<1>2. CASE ReceiveConnected
  <2> DEFINE d == Head(events).conn
  <2>1. /\ handler.pc = "receive" /\ events # <<>> /\ slots' = Grown
        /\ Head(events).type = "CONNECTED" /\ len' = len + 1 /\ UNCHANGED server
        /\ handler' = [pc |-> "putId", conn |-> d, at |-> len + 1]
    BY <1>2 DEF ReceiveConnected, HandlerAt, serverVars
  <2>2. \A i \in 1 .. len : slots'[i] = slots[i]
    BY <2>1, LiveSlots, AppendProperties DEF Grown, ZeroEntry, Entry, Byte
  <2>3. Live' = Live
    <3>1. \A n \in Nat : (1 .. n + 1) \ {n + 1} = (1 .. n) \ {}
      OBVIOUS
    <3> QED  BY <2>1, <3>1, LiveSlots DEF Live, Hole
  <2>4. d \in Conns /\ ~Started(d) /\ c = NoConn
    BY <2>1, HeadAndTail, StagesOfConns
    DEF StageInv, EventStage, HandlerStage, Started
  <2>5. Held' = Held
    BY <1>1, <2>1, <2>4, ConnsAssumption DEF Held, Registered, Started
  <2>6. \A e \in Conns : Started(e) => Started(e)' /\ service'[e] = service[e]
    BY <1>1, <2>1 DEF Started
  <2>7. LiveInv' /\ CountInv'
    BY <2>2, <2>3, <2>5, <2>6, LiveSlots, SameEntries DEF EntryInv, LiveInv
  <2>8. HoleInv'
    BY <2>1 DEF HoleInv
  <2> QED  BY <2>7, <2>8 DEF EntryInv
<1>3. CASE PutId
  <2> DEFINE v == [slots[handler.at] EXCEPT !.service = service[c]]
  <2>1. /\ handler.pc = "putId" /\ handler' = [handler EXCEPT !.pc = "putConn"]
        /\ slots' = [slots EXCEPT ![handler.at].service = service[c]]
        /\ UNCHANGED <<len, server>>
    BY <1>3 DEF PutId, HandlerAt, serverVars
  <2>2. handler \in HandlerState
    BY DEF TypeInv, TypeOK
  <2>3. handler'.pc = "putConn" /\ handler'.conn = c /\ handler'.at = handler.at
    BY <2>1, <2>2 DEF HandlerState
  <2>4. handler.at \in 1 .. Len(slots) /\ handler.at = len
    BY <2>1, LiveSlots DEF EntryInv, HoleInv
  <2>5. slots[handler.at] \in Entry /\ service[c] \in Byte
    BY <2>1, <2>4, LiveSlots, StagesOfConns, ServicesAssumption
    DEF TypeInv, TypeOK, HandlerInv, Known
  <2>6. v \in Entry /\ v.service = service[c]
    BY <2>5 DEF Entry
  <2>7. slots' = [slots EXCEPT ![handler.at] = v]
    BY <2>1
  <2> HIDE DEF v
  <2>8. LiveInv' /\ CountInv' /\ slots'[handler.at] = v
    BY <1>1, <2>1, <2>3, <2>6, <2>7, WritingTheHole
  <2>9. HoleInv'
    BY <1>1, <2>1, <2>3, <2>4, <2>6, <2>8 DEF HoleInv
  <2> QED  BY <2>8, <2>9 DEF EntryInv
<1>4. CASE PutConn
  <2>0. handler.pc = "putConn"
    BY <1>4 DEF PutConn, HandlerAt
  <2> PICK d \in Conns : d = handler.conn
    BY <2>0, StagesOfConns
  <2> DEFINE v == [slots[handler.at] EXCEPT !.conn = d]
  <2>1. /\ handler.pc = "putConn" /\ handler' = HandlerIdle /\ handler.conn = d
        /\ slots' = [slots EXCEPT ![handler.at].conn = d]
        /\ server' = [server EXCEPT ![d] = ServerIdle("read")] /\ UNCHANGED len
    BY <2>0, <1>4 DEF PutConn
  <2>2. /\ handler.at \in 1 .. len /\ handler.at \in 1 .. Len(slots)
        /\ handler.at = len /\ slots[handler.at].service = service[d]
        /\ slots[handler.at] \in Entry
    BY <2>1, LiveSlots DEF EntryInv, HoleInv
  <2>3. v \in Entry /\ v.service = service[d] /\ v.conn = d
    BY <2>1, <2>2 DEF Entry
  <2>4. slots' = [slots EXCEPT ![handler.at] = v]
    BY <2>1
  <2> HIDE DEF v
  <2>5. /\ slots'[len] = v
        /\ \A i \in 1 .. Len(slots) : i # len => slots'[i] = slots[i]
    BY <2>2, <2>3, <2>4, LiveSlots, ExceptSeq
  <2>6. /\ server'[d].pc # "none" /\ ~Started(d) /\ sock[d] = "open"
        /\ \A e \in Conns : e # d => server'[e] = server[e]
    <3>1. server[d].pc = "none" /\ sock[d] = "open"
      BY <2>1 DEF StageInv, HandlerStage, Adding
    <3>2. /\ server'[d] = ServerIdle("read")
          /\ \A e \in Conns : e # d => server'[e] = server[e]
      BY <2>1, StagesOfConns
    <3> QED  BY <3>1, <3>2 DEF Started, ServerIdle
  <2>7. /\ Live' = Live \cup {len} /\ len \notin Live
        /\ \A i \in Live : slots'[i] = slots[i]
    BY <2>1, <2>2, <2>5, LiveSlots DEF Live, Hole, HandlerIdle
  <2>8. d \notin InTable /\ d \notin Held
    BY <2>6, StartedAreKnown DEF EntryInv
  <2>9. InTable' = InTable \cup {d}
    <3>1. \A e : e \in InTable' <=> e \in InTable \cup {d}
      BY <2>3, <2>5, <2>7 DEF InTable
    <3> QED  BY <3>1
  <2>10. Held' = Held \cup {d}
    <3>1. handler'.conn = NoConn
      BY <2>1 DEF HandlerIdle
    <3>2. \A e \in Conns : e # d => (Registered(e)' <=> Registered(e))
      BY <1>1, <2>6 DEF Registered
    <3>3. Registered(d)' /\ d # NoConn
      BY <1>1, <2>1, <2>6, ConnsAssumption DEF Registered, Started
    <3>4. \A e : e \in Held' <=> e \in Held \cup {d}
      BY <2>1, <3>1, <3>2, <3>3, ConnsAssumption DEF Held
    <3> QED  BY <3>4
  <2>11. LiveInv'
    <3>1. \A i \in Live : /\ slots'[i].conn \in Conns /\ slots'[i].conn # d
                          /\ server'[slots'[i].conn].pc # "none"
                          /\ slots'[i].service = service[slots'[i].conn]
      <4>1. \A i \in Live : /\ slots[i].conn \in Conns /\ slots[i].conn # d
                            /\ Started(slots[i].conn)
                            /\ slots[i].service = service[slots[i].conn]
        BY <2>6 DEF EntryInv, LiveInv
      <4>2. \A e \in Conns : e # d /\ Started(e) => server'[e].pc # "none"
        BY <2>6 DEF Started
      <4> QED  BY <2>7, <4>1, <4>2 DEF Started
    <3>2. /\ slots'[len].conn \in Conns /\ slots'[len].conn = d
          /\ server'[slots'[len].conn].pc # "none"
          /\ slots'[len].service = service[slots'[len].conn]
      BY <2>1, <2>3, <2>5, <2>6 DEF Started
    <3>3. \A i, j \in Live' : slots'[i].conn = slots'[j].conn => i = j
      BY <2>7, <3>1, <3>2 DEF EntryInv, LiveInv
    <3>4. \A i \in Live' : /\ slots'[i].conn \in Conns /\ server'[slots'[i].conn].pc # "none"
                           /\ slots'[i].service = service'[slots'[i].conn]
      BY <1>1, <2>7, <3>1, <3>2
    <3> QED  BY <3>3, <3>4 DEF LiveInv, Started
  <2>12. CountInv'
    <3>1. IsFiniteSet(Held) /\ IsFiniteSet(InTable)
      BY InTableIsFinite DEF EntryInv, CountInv
    <3>2. IsFiniteSet(Held')
      BY <2>10, <3>1, FS_AddElement
    <3>3. \A s \in Services : Cardinality(Of(InTable \cup {d}, s))
                                = Cardinality(Of(Held \cup {d}, s))
      BY <2>8, <3>1, AddToBoth DEF EntryInv, CountInv
    <3>4. \A s : /\ Of(InTable, s)' = Of(InTable \cup {d}, s)
                 /\ Of(Held, s)' = Of(Held \cup {d}, s)
      BY <1>1, <2>9, <2>10 DEF Of
    <3> QED  BY <3>2, <3>3, <3>4 DEF CountInv
  <2>13. HoleInv'
    BY <2>1 DEF HoleInv, HandlerIdle
  <2> QED  BY <2>11, <2>12, <2>13 DEF EntryInv
<1> QED  BY <1>2, <1>3, <1>4

LEMMA RemovalKeepsEntries ==
  ASSUME TypeInv, StageInv, EntryInv, ReceiveDisconnected
  PROVE  EntryInv'
<1>1. /\ handler.pc = "receive" /\ events # <<>>
      /\ Head(events).type = "DISCONNECTED" /\ UNCHANGED <<slots, len, server, service>>
  BY DEF ReceiveDisconnected, HandlerAt, acceptorVars, serverVars
<1> PICK d \in Conns : d = Head(events).conn
  BY <1>1, HeadAndTail, StagesOfConns
<1>2. /\ sock[d] = "open" /\ server[d].pc = "done" /\ service[d] \in Services
      /\ handler.conn = NoConn
  BY <1>1, HeadAndTail, StagesOfConns, StartedAreKnown
  DEF StageInv, EventStage, HandlerStage, Started
<1>3. d \in Held /\ Live = 1 .. len
  BY <1>1, <1>2, ConnsAssumption DEF Held, Registered, Live, Hole
<1>4. IsFiniteSet(Held) /\ IsFiniteSet(InTable)
  BY InTableIsFinite DEF EntryInv, CountInv
<1>5. EntriesFor(d) # {}
  <2>1. PICK e \in InTable : service[e] = service[d]
    BY <1>2, <1>3, <1>4, Counterpart DEF EntryInv, CountInv
  <2>2. PICK i \in Live : slots[i].conn = e
    BY DEF InTable
  <2>3. slots[i].service = service[d]
    BY <2>1, <2>2 DEF EntryInv, LiveInv
  <2> QED  BY <1>3, <2>3 DEF EntriesFor
<1>6. PICK first \in EntriesFor(d) :
        handler' = [pc |-> IF first < len THEN "moveId" ELSE "clearId",
                    conn |-> d, at |-> first] /\ UNCHANGED sock
  BY <1>5 DEF ReceiveDisconnected
<1>7. /\ first \in Live /\ slots[first].service = service[d]
      /\ handler'.pc \in {"moveId", "clearId"} /\ handler'.conn = d
      /\ handler'.at = first /\ (handler'.pc = "clearId" => first = len)
  <2>1. first \in 1 .. len /\ slots[first].service = service[d]
    BY DEF EntriesFor
  <2>2. ~(first < len) => first = len
    BY <2>1, LiveSlots
  <2> QED  BY <1>3, <1>6, <2>1, <2>2
<1> DEFINE e == slots[first].conn
<1>8. e \in InTable /\ service[e] = service[d]
  BY <1>7 DEF InTable, EntryInv, LiveInv
<1>9. Live' = Live \ {first} /\ Held' = Held \ {d}
  <2>1. Live' = Live \ {first}
    BY <1>1, <1>3, <1>7 DEF Live, Hole
  <2>2. \A x \in Conns : Registered(x)' <=> Registered(x)
    BY <1>1, <1>6 DEF Registered
  <2>3. Held' = Held \ {d}
    BY <1>2, <1>7, <2>2, ConnsAssumption DEF Held
  <2> QED  BY <2>1, <2>3
<1>10. InTable' = InTable \ {e}
  <2>1. \A x : x \in InTable' <=> x \in InTable \ {e}
    BY <1>1, <1>7, <1>9 DEF InTable, EntryInv, LiveInv
  <2> QED  BY <2>1
<1>11. LiveInv'
  BY <1>1, <1>9 DEF EntryInv, LiveInv, Started
<1>12. CountInv'
  <2>1. \A s \in Services : Cardinality(Of(InTable \ {e}, s))
                              = Cardinality(Of(Held \ {d}, s))
    BY <1>3, <1>4, <1>8, RemoveFromBoth DEF EntryInv, CountInv
  <2>2. \A s : /\ Of(InTable, s)' = Of(InTable \ {e}, s)
               /\ Of(Held, s)' = Of(Held \ {d}, s)
    BY <1>1, <1>9, <1>10 DEF Of
  <2>3. IsFiniteSet(Held')
    BY <1>4, <1>9, FS_RemoveElement
  <2> QED  BY <2>1, <2>2, <2>3 DEF CountInv
<1>13. HoleInv'
  BY <1>1, <1>7 DEF HoleInv
<1> QED  BY <1>11, <1>12, <1>13 DEF EntryInv

LEMMA MovingKeepsEntries ==
  ASSUME TypeInv, StageInv, EntryInv,
         MoveId \/ MoveConn \/ ClearId \/ ClearConn
  PROVE  EntryInv'
<1> DEFINE k == handler.at
<1>1. /\ handler.pc \in {"moveId", "moveConn", "clearId", "clearConn"}
      /\ UNCHANGED <<sock, service, server, len>>
  BY DEF MoveId, MoveConn, ClearId, ClearConn, WriteField, HandlerAt, connVars,
         acceptorVars, serverVars
<1>2. /\ k \in 1 .. len /\ k \in 1 .. Len(slots) /\ slots[k] \in Entry
      /\ handler \in HandlerState
      /\ handler.pc \in {"moveId", "moveConn"} =>
           k + 1 \in 1 .. len /\ k + 1 # k /\ slots[k + 1] \in Entry
  BY <1>1, LiveSlots DEF TypeInv, TypeOK
<1>3. ASSUME NEW pc, pc \notin {"receive", "moveId", "putConn"}, NEW v \in Entry,
             pc = "moveConn" => k + 1 \in 1 .. len /\ v.service = slots[k + 1].service,
             pc # "moveConn" => k = len,
             slots' = [slots EXCEPT ![k] = v],
             handler' = [handler EXCEPT !.pc = pc, !.at = k]
      PROVE  EntryInv'
  <2>1. handler'.pc = pc /\ handler'.conn = handler.conn /\ handler'.at = k
    BY <1>2, <1>3 DEF HandlerState
  <2>2. /\ LiveInv' /\ CountInv' /\ slots'[k] = v
        /\ \A i \in 1 .. Len(slots) : i # k => slots'[i] = slots[i]
    BY <1>1, <1>3, <2>1, WritingTheHole
  <2>3. pc = "moveConn" => slots'[k + 1] = slots[k + 1]
    BY <1>2, <1>3, <2>2, LiveSlots
  <2>4. HoleInv'
    BY <1>1, <1>3, <2>1, <2>2, <2>3 DEF HoleInv
  <2> QED  BY <2>2, <2>4 DEF EntryInv
<1>4. CASE MoveId
  <2> DEFINE v == [slots[k] EXCEPT !.service = slots[k + 1].service]
  <2>1. /\ handler.pc = "moveId" /\ slots' = [slots EXCEPT ![k] = v]
        /\ handler' = [handler EXCEPT !.pc = "moveConn", !.at = k]
    BY <1>4 DEF MoveId, WriteField, HandlerAt
  <2>2. v \in Entry /\ v.service = slots[k + 1].service
    BY <1>2, <2>1 DEF Entry
  <2> HIDE DEF v
  <2> QED  BY <1>2, <1>3, <2>1, <2>2
<1>5. CASE ClearId
  <2> DEFINE v == [slots[k] EXCEPT !.service = 0]
  <2>1. /\ handler.pc = "clearId" /\ slots' = [slots EXCEPT ![k] = v]
        /\ handler' = [handler EXCEPT !.pc = "clearConn", !.at = k]
    BY <1>5 DEF ClearId, WriteField, HandlerAt
  <2>2. v \in Entry /\ k = len
    BY <1>2, <2>1 DEF Entry, Byte, EntryInv, HoleInv
  <2> HIDE DEF v
  <2> QED  BY <1>3, <2>1, <2>2
<1>6. CASE ClearConn
  <2> DEFINE v == [slots[k] EXCEPT !.conn = NoConn]
  <2>1. /\ handler.pc = "clearConn" /\ slots' = [slots EXCEPT ![k] = v]
        /\ handler' = [handler EXCEPT !.pc = "store", !.at = k]
    BY <1>6 DEF ClearConn, WriteField, HandlerAt
  <2>2. v \in Entry /\ k = len
    BY <1>2, <2>1 DEF Entry, EntryInv, HoleInv
  <2> HIDE DEF v
  <2> QED  BY <1>3, <2>1, <2>2
<1>7. CASE MoveConn
  <2> DEFINE v == [slots[k] EXCEPT !.conn = slots[k + 1].conn]
             pc == IF k + 1 < len THEN "moveId" ELSE "clearId"
  <2>1. /\ handler.pc = "moveConn" /\ slots' = [slots EXCEPT ![k] = v]
        /\ handler' = [handler EXCEPT !.pc = pc, !.at = k + 1]
    BY <1>7 DEF MoveConn, WriteField, HandlerAt
  <2>2. v \in Entry /\ v = slots[k + 1]
    <3>1. slots[k].service = slots[k + 1].service
      BY <2>1 DEF EntryInv, HoleInv
    <3> QED  BY <1>2, <2>1, <3>1 DEF Entry
  <2>3. /\ pc \in {"moveId", "clearId"} /\ (pc = "clearId" => k + 1 = len)
        /\ handler'.pc = pc /\ handler'.conn = handler.conn /\ handler'.at = k + 1
    BY <1>2, <2>1, LiveSlots DEF HandlerState
  <2> HIDE DEF v, pc
  <2>4. /\ slots'[k] = slots[k + 1]
        /\ \A i \in 1 .. Len(slots) : i # k => slots'[i] = slots[i]
    BY <1>2, <2>1, <2>2, LiveSlots, ExceptSeq
  <2>5. /\ Live = (1 .. len) \ {k} /\ Live' = (1 .. len) \ {k + 1}
        /\ Held' = Held
    BY <1>1, <2>1, <2>3 DEF Live, Hole, Held, Registered
  <2>6. /\ \A i \in Live' : IF i = k THEN slots'[i] = slots[k + 1] /\ k + 1 \in Live
                            ELSE slots'[i] = slots[i] /\ i \in Live /\ i # k + 1
        /\ k \in Live' /\ \A i \in Live : i # k + 1 => i \in Live' /\ i # k
    BY <1>2, <2>1, <2>4, <2>5, LiveSlots
  <2>7. /\ \A i \in Live' : \E j \in Live : slots'[i] = slots[j]
        /\ \A j \in Live : \E i \in Live' : slots'[i] = slots[j]
    BY <2>6
  <2>8. \A i, j \in Live' : slots'[i].conn = slots'[j].conn => i = j
    BY <2>6 DEF EntryInv, LiveInv
  <2>9. \A c \in Conns : Started(c) => Started(c)' /\ service'[c] = service[c]
    BY <1>1 DEF Started
  <2>10. LiveInv' /\ CountInv'
    BY <2>5, <2>7, <2>8, <2>9, SameEntries DEF EntryInv
  <2>11. HoleInv'
    BY <1>1, <2>3 DEF HoleInv
  <2> QED  BY <2>10, <2>11 DEF EntryInv
<1> QED  BY <1>4, <1>5, <1>6, <1>7

LEMMA StoringKeepsEntries ==
  ASSUME TypeInv, StageInv, EntryInv, StoreTable
  PROVE  EntryInv'
<1>1. /\ handler.pc = "store" /\ handler' = HandlerIdle /\ len' = len - 1
      /\ sock' = [sock EXCEPT ![handler.conn] = "closed"]
      /\ UNCHANGED <<slots, server, service>>
  BY DEF StoreTable, HandlerAt, acceptorVars, serverVars
<1>2. handler.at = len /\ len \in 1 .. len
  BY <1>1, LiveSlots DEF EntryInv, HoleInv
<1>3. Live' = Live
  BY <1>1, <1>2, LiveSlots DEF Live, Hole, HandlerIdle
<1>4. Held' = Held
  <2>1. \A c \in Conns : Registered(c)' <=> Registered(c) /\ c # handler.conn
    BY <1>1, StagesOfConns DEF Registered
  <2> QED  BY <1>1, <2>1, ConnsAssumption DEF Held, HandlerIdle
<1>5. LiveInv' /\ CountInv'
  <2>1. \A c \in Conns : Started(c) => Started(c)' /\ service'[c] = service[c]
    BY <1>1 DEF Started
  <2> QED  BY <1>1, <1>3, <1>4, <2>1, SameEntries DEF EntryInv, LiveInv
<1>6. HoleInv'
  BY <1>1 DEF HoleInv, HandlerIdle
<1> QED  BY <1>5, <1>6 DEF EntryInv

LEMMA NextEntryInv ==
  TypeInv /\ GreetInv /\ StageInv /\ EntryInv /\ [Next]_vars => EntryInv'
<1> SUFFICES ASSUME TypeInv, GreetInv, StageInv, EntryInv, [Next]_vars
             PROVE  EntryInv'
  OBVIOUS
<1>1. ASSUME UNCHANGED <<sock, service, slots, len, handler, server>>
      PROVE  EntryInv'
  BY <1>1, SameTable DEF Started
<1>2. CASE UNCHANGED vars
  BY <1>1, <1>2
  DEF vars, connVars, sharedVars, acceptorVars, handlerVars, serverVars
<1>3. ASSUME NEW c \in Conns, ClientStep(c)
      PROVE  EntryInv'
  BY <1>1, <1>3
  DEF ClientStep, Connect, ClientSend, ClientLeave, Finalize, sharedVars,
      acceptorVars, handlerVars, serverVars
<1>4. CASE HandlerStep
  BY <1>4, AddingKeepsEntries, RemovalKeepsEntries, MovingKeepsEntries,
     StoringKeepsEntries
  DEF HandlerStep
<1> QED
  BY <1>2, <1>3, <1>4, AcceptorKeepsEntries, ServerKeepsEntries DEF Next

LEMMA EntriesMatch ==
  ASSUME TypeInv, StageInv, EntryInv
  PROVE  TableMatchesServers
<1> SUFFICES ASSUME handler.pc = "receive"
             PROVE  /\ \A i \in 1 .. len :
                         /\ slots[i].conn \in Conns
                         /\ slots[i].service = service[slots[i].conn]
                    /\ Cardinality(InTable) = len
                    /\ \A s \in Services : Cardinality(Of(InTable, s))
                                             = Cardinality(Of(Held, s))
                    /\ (\A c, d \in Conns : Known(c) /\ Known(d)
                          /\ service[c] = service[d] => c = d)
                         => InTable = Held
  <2>1. ASSUME handler.pc = "receive"
        PROVE  /\ InTable = {slots[i].conn : i \in 1 .. len}
               /\ Held = {c \in Conns : Registered(c)}
    BY <2>1, ConnsAssumption DEF InTable, Live, Hole, Held, StageInv, HandlerStage
  <2> QED  BY <2>1 DEF TableMatchesServers, Of, Known
<1>1. Live = 1 .. len
  BY DEF Live, Hole
<1>2. IsFiniteSet(Held) /\ IsFiniteSet(InTable)
  BY InTableIsFinite DEF EntryInv, CountInv
<1>3. Cardinality(InTable) = len
  BY <1>1, LiveSlots, InTableIsFinite, FS_Interval DEF EntryInv
<1>4. ASSUME \A c, d \in Conns : Known(c) /\ Known(d) /\ service[c] = service[d]
                                   => c = d
      PROVE  InTable = Held
  <2>1. /\ \A c \in InTable : c \in Conns /\ Known(c) /\ service[c] \in Services
        /\ \A c \in Held : c \in Conns /\ Known(c) /\ service[c] \in Services
    BY StartedAreKnown DEF EntryInv
  <2>2. ASSUME NEW c \in InTable PROVE c \in Held
    <3>1. PICK d \in Held : service[d] = service[c]
      BY <1>2, <2>1, Counterpart DEF EntryInv, CountInv
    <3> QED  BY <1>4, <2>1, <3>1
  <2>3. ASSUME NEW c \in Held PROVE c \in InTable
    <3>1. PICK d \in InTable : service[d] = service[c]
      BY <1>2, <2>1, Counterpart DEF EntryInv, CountInv
    <3> QED  BY <1>4, <2>1, <3>1
  <2> QED  BY <2>2, <2>3
<1> QED
  BY <1>1, <1>3, <1>4 DEF EntryInv, LiveInv, CountInv

\* Deleting the first entry of the service, and not the entry of the
\* connection, never loses count of the connections of any service, whatever
\* the clients do.
THEOREM TableMatchesServersTheorem == Spec => []TableMatchesServers
<1>1. Init => StageInv /\ EntryInv
  BY InitStageInv, InitEntryInv
<1>2. TypeInv /\ GreetInv /\ StageInv /\ EntryInv /\ [Next]_vars
        => StageInv' /\ EntryInv'
  BY NextStageInv, NextEntryInv
<1>3. TypeInv /\ StageInv /\ EntryInv => TableMatchesServers
  BY EntriesMatch
<1> QED
  BY <1>1, <1>2, <1>3, TypeInvariant, InitGreetInv, NextGreetInv, PTL DEF Spec

-----------------------------------------------------------------------------
(* The contract with the clients *)

\* Each step of Broker is a step of AdmiralClient for one client, or leaves the
\* links as they are.  That an answer comes only after two packets, that a
\* refused client is one the acceptor has in its hands, that packets are given
\* only to clients that are served and that a client that is served is closed
\* only when it has left are the parts of LinkInv.

Deleting == {"moveId", "moveConn", "clearId", "clearConn", "store"}

\* admiral reads no more than was sent.
ReadInv ==
  \A c \in Clients :
    /\ Len(inbox[c]) <= turn[c]
    /\ acceptor.conn = c /\ acceptor.pc = "send" => Len(inbox[c]) + 1 <= turn[c]

\* Where admiral is its own client, it is one of no other connection.
SelfInv ==
  \A c \in Conns : server[c].pc = "self" => server[c].target \in SelfConns

OpenInv ==
  acceptor.pc \in {"init", "send"} => sock[acceptor.conn] = "open"

\* What servers find in the table, however torn, is served.
StartedInv ==
  /\ \A i \in 1 .. Len(slots) : slots[i].conn # NoConn => Started(slots[i].conn)
  /\ \A c \in Conns : server[c].pc = "write" /\ server[c].target # NoConn
                        => Started(server[c].target)

\* What the handler removes has left.
LeavingInv ==
  /\ \A c \in Conns : server[c].pc = "publish" => Left(c)
  /\ \A i \in 1 .. Len(events) :
       events[i].type = "DISCONNECTED" => Left(events[i].conn) /\ Started(events[i].conn)
  /\ handler.pc \in Deleting => Left(handler.conn) /\ Started(handler.conn)

LinkInv == ReadInv /\ SelfInv /\ OpenInv /\ StartedInv /\ LeavingInv

-----------------------------------------------------------------------------

LEMMA InitLinkInv == Init => LinkInv
<1> SUFFICES ASSUME Init PROVE LinkInv
  OBVIOUS
<1>1. /\ Len(slots) = 0 /\ Len(events) = 0 /\ \A c \in Conns : Len(inbox[c]) = 0
  BY EmptySeq DEF Init
<1> QED
  BY <1>1
  DEF Init, LinkInv, ReadInv, SelfInv, OpenInv, StartedInv, LeavingInv, Clients,
      AcceptorIdle, HandlerIdle, ServerIdle, Deleting

\* Who has left stays away, and a server that has started has been started.
LEMMA LeavingIsKept ==
  ASSUME TypeInv, LeavingInv, UNCHANGED <<events, handler>>,
         \A c \in Conns : (Left(c) => Left(c)') /\ (Started(c) => Started(c)'),
         \A c \in Conns : server'[c].pc = "publish" => Left(c)'
  PROVE  LeavingInv'
<1>1. \A i \in 1 .. Len(events) : events[i].conn \in Conns
  BY EventFields DEF TypeInv
<1>2. handler.pc \in Deleting => handler.conn \in Conns
  BY DEF TypeInv, HandlerInv, Deleting
<1> QED  BY <1>1, <1>2 DEF LeavingInv

LEMMA ClientKeepsLinkInv ==
  ASSUME TypeInv, GreetInv, LinkInv, NEW c \in Conns, ClientStep(c)
  PROVE  LinkInv'
<1>1. UNCHANGED <<slots, server, sock, acceptor, events, handler>>
  BY DEF ClientStep, Connect, ClientSend, ClientLeave, Finalize, sharedVars,
         acceptorVars, handlerVars, serverVars
<1>2. SelfInv' /\ OpenInv' /\ StartedInv'
  BY <1>1 DEF LinkInv, SelfInv, OpenInv, StartedInv, Started
<1>3. \A d \in Conns : Left(d) => Left(d)'
  BY DEF ClientStep, Connect, ClientSend, ClientLeave, Finalize, ClientIs, Left,
         TypeInv, TypeOK
<1>4. LeavingInv'
  BY <1>1, <1>3, LeavingIsKept DEF LinkInv, LeavingInv, Started
<1>5. CASE ClientSend(c)
  <2>1. PICK f \in Menu[c][turn[c] + 1] :
          inbox' = [inbox EXCEPT ![c] = Append(inbox[c], f)]
    BY <1>5 DEF ClientSend
  <2>2. turn' = [turn EXCEPT ![c] = turn[c] + 1] /\ turn[c] \in Nat
        /\ turn[c] < Len(Menu[c]) /\ c \in Conns \ SelfConns
    BY <1>5 DEF ClientSend, ClientIs, TypeInv, TypeOK
  <2>3. f \in Incoming
    <3>1. turn[c] + 1 \in 1 .. Len(Menu[c])
      BY <2>2, MenuAssumption
    <3> QED  BY <2>1, <2>2, <3>1, MenuAssumption DEF Incoming
  <2>4. Len(Append(inbox[c], f)) = Len(inbox[c]) + 1 /\ Len(inbox[c]) \in Nat
    BY <2>3, AppendProperties, LenProperties DEF TypeInv, TypeOK
  <2>5. ReadInv'
    <3> SUFFICES ASSUME NEW d \in Clients
                 PROVE  /\ Len(inbox'[d]) <= turn'[d]
                        /\ acceptor.conn = d /\ acceptor.pc = "send"
                             => Len(inbox'[d]) + 1 <= turn'[d]
      BY <1>1 DEF ReadInv
    <3>1. CASE d = c
      <4>1. inbox'[d] = Append(inbox[c], f) /\ turn'[d] = turn[c] + 1
        BY <2>1, <2>2, <3>1 DEF TypeInv, TypeOK
      <4> QED  BY <2>2, <2>4, <3>1, <4>1 DEF LinkInv, ReadInv
    <3>2. CASE d # c
      <4>1. inbox'[d] = inbox[d] /\ turn'[d] = turn[d]
        BY <2>1, <2>2, <3>2 DEF TypeInv, TypeOK, Clients
      <4> QED  BY <4>1 DEF LinkInv, ReadInv
    <3> QED  BY <3>1, <3>2
  <2> QED  BY <1>2, <1>4, <2>5 DEF LinkInv
<1>6. CASE Connect(c) \/ ClientLeave(c) \/ Finalize(c)
  <2>1. UNCHANGED <<inbox, turn>>
    BY <1>6 DEF Connect, ClientLeave, Finalize
  <2> QED  BY <1>1, <1>2, <1>4, <2>1 DEF LinkInv, ReadInv
<1> QED  BY <1>5, <1>6 DEF ClientStep

LEMMA AcceptorKeepsLinkInv ==
  ASSUME TypeInv, GreetInv, LinkInv, AcceptorStep
  PROVE  LinkInv'
<1> DEFINE c == acceptor.conn
<1>1. UNCHANGED <<slots, len, server, peer, turn, handler>>
  BY DEF AcceptorStep, Accept, HandshakeReadFails, ReadInit, ReadSend,
         PublishConnected, connVars, clientVars, handlerVars, serverVars
<1>2. SelfInv' /\ StartedInv'
  BY <1>1 DEF LinkInv, SelfInv, StartedInv, Started
<1>3. /\ acceptor \in AcceptorState /\ sock \in [Conns -> {"none", "open", "closed"}]
      /\ acceptor.pc # "accept" => c \in Conns
      /\ inbox \in [Conns -> Seq(Incoming)] /\ turn \in [Conns -> Nat]
      /\ \A d \in Conns : Len(inbox[d]) \in Nat
  BY LenProperties DEF TypeInv, TypeOK, AcceptorInv
<1>4. ASSUME UNCHANGED events
      PROVE  LeavingInv'
  BY <1>1, <1>4 DEF LinkInv, LeavingInv, Left, Started
<1>5. ASSUME acceptor.pc # "accept", inbox[c] # <<>>,
             inbox' = [inbox EXCEPT ![c] = Tail(inbox[c])]
      PROVE  /\ \A d \in Conns : d # c => inbox'[d] = inbox[d]
             /\ Len(inbox'[c]) = Len(inbox[c]) - 1
  BY <1>3, <1>5, HeadAndTail
<1>6. CASE Accept
  <2>1. /\ acceptor' = [pc |-> "init", conn |-> Head(backlog)]
        /\ sock' = [sock EXCEPT ![Head(backlog)] = "open"]
        /\ Head(backlog) \in Conns /\ UNCHANGED <<inbox, events>>
    BY <1>6, HeadAndTail DEF Accept, clientVars, TypeInv, TypeOK
  <2>2. OpenInv'
    BY <1>3, <2>1 DEF OpenInv
  <2>3. ReadInv'
    BY <1>1, <2>1 DEF LinkInv, ReadInv
  <2> QED  BY <1>2, <1>4, <2>1, <2>2, <2>3 DEF LinkInv
<1>7. CASE HandshakeReadFails
  <2>1. acceptor'.pc = "accept" /\ UNCHANGED <<inbox, events>>
    BY <1>7 DEF HandshakeReadFails, Reject, AcceptorIdle, clientVars
  <2> QED
    BY <1>1, <1>2, <1>4, <2>1 DEF LinkInv, ReadInv, OpenInv
<1>8. CASE ReadInit
  <2>1. /\ acceptor.pc = "init" /\ inbox[c] # <<>> /\ UNCHANGED events
        /\ inbox' = [inbox EXCEPT ![c] = Tail(inbox[c])]
        /\ \/ acceptor' = [acceptor EXCEPT !.pc = "send"] /\ UNCHANGED sock
           \/ acceptor'.pc = "accept"
    BY <1>8 DEF ReadInit, AcceptorAt, Reject, AcceptorIdle
  <2>2. acceptor'.pc = "accept" \/ acceptor'.conn = c
    BY <1>3, <2>1 DEF AcceptorState
  <2>3. OpenInv'
    BY <1>3, <2>1, <2>2 DEF LinkInv, OpenInv
  <2>4. ReadInv'
    BY <1>1, <1>3, <1>5, <2>1, <2>2 DEF LinkInv, ReadInv, Clients
  <2> QED  BY <1>2, <1>4, <2>1, <2>3, <2>4 DEF LinkInv
<1>9. CASE ReadSend
  <2>1. /\ acceptor.pc = "send" /\ inbox[c] # <<>> /\ UNCHANGED events
        /\ inbox' = [inbox EXCEPT ![c] = Tail(inbox[c])]
        /\ \/ acceptor' = [acceptor EXCEPT !.pc = "publish"]
           \/ acceptor'.pc = "accept"
    BY <1>9 DEF ReadSend, AcceptorAt, Reject, AcceptorIdle
  <2>2. acceptor'.pc \in {"accept", "publish"}
    BY <1>3, <2>1 DEF AcceptorState
  <2>3. ReadInv'
    BY <1>1, <1>3, <1>5, <2>1, <2>2 DEF LinkInv, ReadInv, Clients
  <2> QED  BY <1>2, <1>4, <2>1, <2>2, <2>3 DEF LinkInv, OpenInv
<1>10. CASE PublishConnected
  <2>1. /\ acceptor'.pc = "accept" /\ UNCHANGED <<inbox, sock>> /\ c \in Conns
        /\ events' = Append(events, Connected(c))
    BY <1>3, <1>10
    DEF PublishConnected, AcceptorAt, AcceptorIdle, connVars, clientVars
  <2>2. Connected(c) \in Event /\ Connected(c).type = "CONNECTED"
    BY <2>1 DEF Connected, Event
  <2>3. /\ Len(events') = Len(events) + 1 /\ Len(events) \in Nat
        /\ \A i \in 1 .. Len(events) : events'[i] = events[i]
        /\ events'[Len(events) + 1] = Connected(c)
    BY <2>1, <2>2, AppendProperties, LenProperties DEF TypeInv, TypeOK
  <2>4. LeavingInv'
    BY <1>1, <2>2, <2>3 DEF LinkInv, LeavingInv, Left, Started
  <2> QED  BY <1>1, <1>2, <2>1, <2>4 DEF LinkInv, ReadInv, OpenInv
<1> QED
  BY <1>6, <1>7, <1>8, <1>9, <1>10 DEF AcceptorStep

LEMMA HandlerKeepsLinkInv ==
  ASSUME TypeInv, GreetInv, LinkInv, HandlerStep
  PROVE  LinkInv'
<1>1. /\ slots \in Seq(Entry) /\ Len(slots) \in Nat /\ len \in 0 .. Len(slots)
      /\ \A i \in 1 .. Len(slots) : slots[i] \in Entry
      /\ handler \in HandlerState
  BY ElementOfSeq, LenProperties DEF TypeInv, TypeOK
<1>2. UNCHANGED <<peer, service, outbox, inbox, turn, backlog, acceptor>>
  BY DEF HandlerStep, ReceiveConnected, PutId, PutConn, ReceiveDisconnected,
         MoveId, MoveConn, ClearId, ClearConn, WriteField, StoreTable, connVars,
         clientVars, acceptorVars
<1>3. ReadInv'
  BY <1>2 DEF LinkInv, ReadInv
\* The handler closes accepted connections, the acceptor has one that is not.
<1>4. ASSUME NEW c \in Conns, Known(c),
             sock' = sock \/ sock' = [sock EXCEPT ![c] = "closed"]
      PROVE  OpenInv'
  <2>1. acceptor.pc \in {"init", "send"} => acceptor.conn \in Conns /\ acceptor.conn # c
    BY <1>4 DEF TypeInv, AcceptorInv, GreetInv, ConnInv, GreetingInv
  <2> QED  BY <1>2, <1>4, <2>1 DEF LinkInv, OpenInv, TypeInv, TypeOK
<1>5. ASSUME UNCHANGED sock
      PROVE  OpenInv'
  BY <1>2, <1>5 DEF LinkInv, OpenInv
<1>6. ASSUME UNCHANGED server
      PROVE  SelfInv'
  BY <1>6 DEF LinkInv, SelfInv
<1>7. ASSUME UNCHANGED <<slots, server>>
      PROVE  StartedInv'
  BY <1>7 DEF LinkInv, StartedInv, Started
<1>8. events # <<>> =>
        /\ Head(events) = events[1] /\ 1 \in 1 .. Len(events)
        /\ Head(events).conn \in Conns /\ Known(Head(events).conn)
        /\ Len(Tail(events)) = Len(events) - 1
        /\ \A i \in 1 .. Len(events) - 1 : Tail(events)[i] = events[i + 1]
        /\ Len(events) \in Nat
  BY HeadAndTail, LenProperties, EventFields DEF TypeInv, TypeOK, EventsInv
<1>9. ASSUME events # <<>>, events' = Tail(events), UNCHANGED server
      PROVE  /\ \A c \in Conns : server'[c].pc = "publish" => Left(c)
             /\ \A i \in 1 .. Len(events') :
                  events'[i].type = "DISCONNECTED" =>
                    Left(events'[i].conn) /\ Started(events'[i].conn)
  <2>1. \A i \in 1 .. Len(events') : /\ i + 1 \in 1 .. Len(events)
                                     /\ events'[i] = events[i + 1]
    BY <1>8, <1>9
  <2> QED  BY <1>9, <2>1 DEF LinkInv, LeavingInv
<1>10. CASE ReceiveConnected
  <2>1. /\ slots' = Grown /\ UNCHANGED <<server, sock>>
        /\ events # <<>> /\ events' = Tail(events) /\ handler'.pc = "putId"
    BY <1>10 DEF ReceiveConnected, serverVars, connVars
  <2>2. StartedInv'
    <3>1. ZeroEntry \in Entry /\ ZeroEntry.conn = NoConn
      BY DEF ZeroEntry, Entry, Byte
    <3>2. CASE slots' = Append(slots, ZeroEntry)
      <4>1. /\ Len(slots') = Len(slots) + 1
            /\ \A i \in 1 .. Len(slots) : slots'[i] = slots[i]
            /\ slots'[Len(slots) + 1] = ZeroEntry
        BY <1>1, <3>1, <3>2, AppendProperties
      <4> QED  BY <1>1, <2>1, <3>1, <4>1 DEF LinkInv, StartedInv, Started
    <3> QED  BY <1>7, <2>1, <3>2 DEF Grown
  <2>3. LeavingInv'
    BY <1>2, <1>9, <2>1 DEF LeavingInv, Left, Started, Deleting
  <2> QED  BY <1>3, <1>5, <1>6, <2>1, <2>2, <2>3 DEF LinkInv
<1>11. CASE ReceiveDisconnected
  <2> DEFINE c == Head(events).conn
  <2>1. /\ sock' = sock \/ sock' = [sock EXCEPT ![c] = "closed"]
        /\ UNCHANGED <<slots, server>>
        /\ events # <<>> /\ events' = Tail(events)
        /\ Head(events).type = "DISCONNECTED"
        /\ handler' = handler \/ handler'.conn = c
    BY <1>11 DEF ReceiveDisconnected, serverVars
  <2>2. Left(c) /\ Started(c)
    BY <1>8, <2>1 DEF LinkInv, LeavingInv
  <2>3. handler.pc = "receive"
    BY <1>11 DEF ReceiveDisconnected, HandlerAt
  <2>4. handler'.pc \in Deleting => Left(handler'.conn) /\ Started(handler'.conn)
    BY <2>1, <2>2, <2>3 DEF Deleting
  <2>5. LeavingInv'
    BY <1>2, <1>9, <2>1, <2>4 DEF LeavingInv, Left, Started
  <2> QED  BY <1>3, <1>4, <1>6, <1>7, <1>8, <2>1, <2>5 DEF LinkInv
<1>12. CASE StoreTable
  <2>1. /\ handler.conn \in Conns /\ Known(handler.conn)
        /\ sock' = [sock EXCEPT ![handler.conn] = "closed"]
        /\ UNCHANGED <<slots, server, events>> /\ handler'.pc = "receive"
    BY <1>12
    DEF StoreTable, HandlerAt, HandlerIdle, TypeInv, HandlerInv, serverVars
  <2>2. LeavingInv'
    BY <1>2, <2>1 DEF LinkInv, LeavingInv, Left, Started, Deleting
  <2> QED  BY <1>3, <1>4, <1>6, <1>7, <2>1, <2>2 DEF LinkInv
\* The steps that write one field of the table.
<1>13. ASSUME NEW i \in 1 .. len, NEW e \in Entry,
              slots' = [slots EXCEPT ![i] = e],
              e.conn # NoConn => server'[e.conn].pc # "none",
              \A c \in Conns : Started(c) => Started(c)',
              \A c \in Conns : server'[c].pc = "write" => server'[c] = server[c]
       PROVE  StartedInv'
  <2>1. /\ Len(slots') = Len(slots)
        /\ \A j \in 1 .. Len(slots) : slots'[j] = IF j = i THEN e ELSE slots[j]
    BY <1>1, <1>13, ExceptSeq
  <2>2. /\ \A j \in 1 .. Len(slots) : slots[j].conn \in Conns \cup {NoConn}
        /\ \A c \in Conns : server[c].target \in Conns \cup {NoConn}
    BY ReferredConns DEF TypeInv
  <2>3. \A j \in 1 .. Len(slots') :
          slots'[j].conn # NoConn => server'[slots'[j].conn].pc # "none"
    BY <1>13, <2>1, <2>2 DEF LinkInv, StartedInv, Started
  <2>4. \A c \in Conns : server'[c].pc = "write" /\ server'[c].target # NoConn
                           => server'[server'[c].target].pc # "none"
    BY <1>13, <2>2 DEF LinkInv, StartedInv, Started
  <2> QED  BY <2>3, <2>4 DEF StartedInv, Started
<1>14. CASE PutConn
  <2> DEFINE e == [slots[handler.at] EXCEPT !.conn = handler.conn]
  <2>1. /\ handler.conn \in Conns /\ handler.at \in 1 .. len
        /\ slots' = [slots EXCEPT ![handler.at] = e]
        /\ server' = [server EXCEPT ![handler.conn] = ServerIdle("read")]
        /\ UNCHANGED <<sock, events>> /\ handler'.pc = "receive"
    BY <1>14
    DEF PutConn, HandlerAt, HandlerIdle, TypeInv, HandlerInv, connVars
  <2>2. e \in Entry /\ e.conn = handler.conn
    BY <1>1, <2>1 DEF Entry
  <2>3. /\ server'[handler.conn] = ServerIdle("read")
        /\ ServerIdle("read").pc = "read"
        /\ \A c \in Conns : c # handler.conn => server'[c] = server[c]
    BY <2>1 DEF ServerIdle, TypeInv, TypeOK
  <2>4. StartedInv'
    <3>1. \A c \in Conns : Started(c) => Started(c)'
      BY <2>3 DEF Started
    <3>2. e.conn # NoConn => server'[e.conn].pc # "none"
      BY <2>2, <2>3
    <3> HIDE DEF e
    <3> QED  BY <1>13, <2>1, <2>2, <2>3, <3>1, <3>2
  <2>5. SelfInv'
    BY <2>3 DEF LinkInv, SelfInv
  <2>6. LeavingInv'
    <3>1. \A i \in 1 .. Len(events) : events[i].conn \in Conns
      BY EventFields DEF TypeInv
    <3> QED
      BY <1>2, <2>1, <2>3, <3>1 DEF LinkInv, LeavingInv, Left, Started, Deleting
  <2> QED  BY <1>3, <1>5, <2>1, <2>4, <2>5, <2>6 DEF LinkInv
<1>15. CASE PutId
  <2> DEFINE e == [slots[handler.at] EXCEPT !.service = service[handler.conn]]
  <2>1. /\ handler.conn \in Conns /\ Known(handler.conn) /\ handler.at \in 1 .. len
        /\ slots' = [slots EXCEPT ![handler.at] = e]
        /\ UNCHANGED <<server, sock, events>>
        /\ handler' = [handler EXCEPT !.pc = "putConn"]
    BY <1>15
    DEF PutId, HandlerAt, TypeInv, HandlerInv, serverVars, connVars
  <2>2. e \in Entry /\ e.conn = slots[handler.at].conn
    <3>1. service[handler.conn] \in Byte
      BY <2>1, ServicesAssumption DEF Known, TypeInv, TypeOK
    <3> QED  BY <1>1, <2>1, <3>1 DEF Entry
  <2>3. handler'.pc = "putConn"
    BY <1>1, <2>1 DEF HandlerState
  <2>4. e.conn # NoConn => server'[e.conn].pc # "none"
    BY <1>1, <2>1, <2>2 DEF LinkInv, StartedInv, Started
  <2>5. StartedInv'
    <3> HIDE DEF e
    <3> QED  BY <1>13, <2>1, <2>2, <2>4 DEF Started
  <2>6. LeavingInv'
    BY <1>2, <2>1, <2>3 DEF LinkInv, LeavingInv, Left, Started, Deleting
  <2> QED  BY <1>3, <1>5, <1>6, <2>1, <2>5, <2>6 DEF LinkInv
<1>16. ASSUME NEW e \in Entry, NEW pc \in Deleting, NEW nextPc, NEW nextAt,
              WriteField(pc, e, nextPc, nextAt),
              e.conn # NoConn => Started(e.conn)
       PROVE  LinkInv'
  <2>1. /\ handler.at \in 1 .. len /\ handler.pc = pc
        /\ slots' = [slots EXCEPT ![handler.at] = e]
        /\ UNCHANGED <<server, sock, events>>
        /\ handler' = [handler EXCEPT !.pc = nextPc, !.at = nextAt]
    BY <1>16
    DEF WriteField, HandlerAt, TypeInv, HandlerInv, Deleting, serverVars, connVars
  <2>2. handler'.conn = handler.conn
    BY <1>1, <2>1 DEF HandlerState
  <2>3. StartedInv'
    BY <1>13, <1>16, <2>1 DEF Started
  <2>4. LeavingInv'
    BY <1>2, <1>16, <2>1, <2>2 DEF LinkInv, LeavingInv, Left, Started
  <2> QED  BY <1>3, <1>5, <1>6, <2>1, <2>3, <2>4 DEF LinkInv
<1>17. CASE MoveId \/ MoveConn
  <2> DEFINE here == slots[handler.at]
             next == slots[handler.at + 1]
  <2>1. /\ handler.at \in 1 .. len /\ handler.at < len
        /\ here \in Entry /\ next \in Entry
        /\ here.conn # NoConn => Started(here.conn)
        /\ next.conn # NoConn => Started(next.conn)
    BY <1>1, <1>17
    DEF MoveId, MoveConn, WriteField, HandlerAt, TypeInv, HandlerInv, LinkInv,
        StartedInv
  <2>2. /\ [here EXCEPT !.service = next.service] \in Entry
        /\ [here EXCEPT !.service = next.service].conn = here.conn
        /\ [here EXCEPT !.conn = next.conn] \in Entry
        /\ [here EXCEPT !.conn = next.conn].conn = next.conn
    BY <2>1 DEF Entry
  <2>3. "moveId" \in Deleting /\ "moveConn" \in Deleting
    BY DEF Deleting
  <2>4. CASE MoveId
    BY <1>16, <2>1, <2>2, <2>3, <2>4 DEF MoveId
  <2>5. CASE MoveConn
    BY <1>16, <2>1, <2>2, <2>3, <2>5 DEF MoveConn
  <2> QED  BY <1>17, <2>4, <2>5
<1>18. CASE ClearId \/ ClearConn
  <2> DEFINE here == slots[handler.at]
  <2>1. /\ handler.at \in 1 .. len /\ here \in Entry
        /\ here.conn # NoConn => Started(here.conn)
    BY <1>1, <1>18
    DEF ClearId, ClearConn, WriteField, HandlerAt, TypeInv, HandlerInv, LinkInv,
        StartedInv
  <2>2. /\ [here EXCEPT !.service = 0] \in Entry
        /\ [here EXCEPT !.service = 0].conn = here.conn
        /\ [here EXCEPT !.conn = NoConn] \in Entry
        /\ [here EXCEPT !.conn = NoConn].conn = NoConn
    <3>1. 0 \in Byte
      BY DEF Byte
    <3> QED  BY <2>1, <3>1 DEF Entry
  <2>3. "clearId" \in Deleting /\ "clearConn" \in Deleting
    BY DEF Deleting
  <2>4. CASE ClearId
    BY <1>16, <2>1, <2>2, <2>3, <2>4 DEF ClearId
  <2>5. CASE ClearConn
    BY <1>16, <2>1, <2>2, <2>3, <2>5 DEF ClearConn
  <2> QED  BY <1>18, <2>4, <2>5
<1> QED
  BY <1>10, <1>11, <1>12, <1>14, <1>15, <1>17, <1>18 DEF HandlerStep

LEMMA ServerKeepsLinkInv ==
  ASSUME TypeInv, GreetInv, LinkInv, NEW c \in Conns, ServerStep(c)
  PROVE  LinkInv'
<1> DEFINE s == server[c]
<1>1. UNCHANGED <<sock, service, acceptor, slots, handler, turn>>
  BY DEF ServerStep, ServeRead, ServeEOF, PublishDisconnected, ServeScan,
         ServeTake, ServeWrite, Written, ServeDial, ServeSelf, connVars, clientVars,
         acceptorVars, handlerVars
<1>2. /\ s \in ServerState /\ s.pc # "none"
      /\ inbox \in [Conns -> Seq(Incoming)] /\ turn \in [Conns -> Nat]
      /\ \A d \in Conns : Len(inbox[d]) \in Nat
      /\ \A d \in Conns : server[d].target \in Conns \cup {NoConn}
      /\ \A i \in 1 .. Len(slots) : slots[i].conn \in Conns \cup {NoConn}
  BY LenProperties, ReferredConns
  DEF TypeInv, TypeOK, ServerStep, ServerAt, ServeRead, ServeEOF,
      PublishDisconnected, ServeScan, ServeTake, ServeWrite, Written, ServeDial, ServeSelf
<1>3. OpenInv'
  BY <1>1 DEF LinkInv, OpenInv
<1>4. ASSUME NEW t, server' = [server EXCEPT ![c] = t], t.pc # "none",
             t.pc = "self" => t.target \in SelfConns,
             t.pc = "write" /\ t.target # NoConn =>
               t.target \in Conns /\ Started(t.target)
      PROVE  /\ SelfInv' /\ StartedInv'
             /\ \A d \in Conns : Started(d) => Started(d)'
             /\ \A d \in Conns : d # c => server'[d] = server[d]
             /\ server'[c] = t
  <2>1. server'[c] = t /\ \A d \in Conns : d # c => server'[d] = server[d]
    BY <1>4 DEF TypeInv, TypeOK
  <2>2. \A d \in Conns : Started(d) => server'[d].pc # "none"
    BY <1>4, <2>1 DEF Started
  <2>3. SelfInv'
    BY <1>4, <2>1 DEF LinkInv, SelfInv
  <2>4. \A i \in 1 .. Len(slots') :
          slots'[i].conn # NoConn => server'[slots'[i].conn].pc # "none"
    BY <1>1, <1>2, <2>2 DEF LinkInv, StartedInv
  <2>5. \A d \in Conns : server'[d].pc = "write" /\ server'[d].target # NoConn
                           => server'[server'[d].target].pc # "none"
    BY <1>2, <1>4, <2>1, <2>2 DEF LinkInv, StartedInv
  <2> QED  BY <2>1, <2>2, <2>3, <2>4, <2>5 DEF StartedInv, Started
<1>5. ASSUME NEW t, server' = [server EXCEPT ![c] = t], t.pc # "none",
             t.pc = "self" => t.target \in SelfConns,
             t.pc = "write" /\ t.target # NoConn =>
               t.target \in Conns /\ Started(t.target),
             t.pc # "publish", UNCHANGED events,
             \A d \in Conns : Left(d) => Left(d)'
      PROVE  SelfInv' /\ StartedInv' /\ LeavingInv'
  <2>1. /\ SelfInv' /\ StartedInv'
        /\ \A d \in Conns : Started(d) => Started(d)'
        /\ \A d \in Conns : d # c => server'[d] = server[d]
        /\ server'[c] = t
    BY <1>4, <1>5
  <2>2. \A d \in Conns : server'[d].pc = "publish" => Left(d)'
    BY <1>5, <2>1 DEF LinkInv, LeavingInv
  <2> QED  BY <1>1, <1>5, <2>1, <2>2, LeavingIsKept DEF LinkInv
<1>6. ASSUME UNCHANGED <<peer, events>>, server' = server
      PROVE  SelfInv' /\ StartedInv' /\ LeavingInv'
  BY <1>1, <1>6
  DEF LinkInv, SelfInv, StartedInv, LeavingInv, Left, Started
<1>7. ASSUME UNCHANGED inbox
      PROVE  ReadInv'
  BY <1>1, <1>7 DEF LinkInv, ReadInv
<1>8. ASSUME UNCHANGED peer
      PROVE  \A d \in Conns : Left(d) => Left(d)'
  BY <1>8 DEF Left
<1>9. \A pc : ServerIdle(pc).pc = pc
  BY DEF ServerIdle
<1>10. ASSUME server' = [server EXCEPT ![c] = ServerIdle("read")],
              UNCHANGED <<peer, events>>
       PROVE  SelfInv' /\ StartedInv' /\ LeavingInv'
  <2>1. \A d \in Conns : Left(d) => Left(d)'
    BY <1>8, <1>10
  <2> DEFINE t == ServerIdle("read")
  <2>2. server' = [server EXCEPT ![c] = t] /\ t.pc = "read"
    BY <1>9, <1>10
  <2> HIDE DEF t
  <2> QED  BY <1>5, <1>10, <2>1, <2>2
<1>11. CASE ServeRead(c)
  <2> DEFINE f == Head(inbox[c])
             scan == [pc |-> "scan", packet |-> Forwarded(f),
                      to |-> f.payload[1], at |-> 1, n |-> len,
                      target |-> NoConn]
  <2>1. /\ UNCHANGED <<peer, events>> /\ inbox[c] # <<>>
        /\ inbox' = [inbox EXCEPT ![c] = Tail(inbox[c])]
        /\ server' = server \/ server' = [server EXCEPT ![c] = scan]
    BY <1>11 DEF ServeRead
  <2>2. ReadInv'
    <3>1. /\ \A d \in Conns : d # c => inbox'[d] = inbox[d]
          /\ Len(inbox'[c]) = Len(inbox[c]) - 1
      BY <1>2, <2>1, HeadAndTail
    <3> QED  BY <1>1, <1>2, <3>1 DEF LinkInv, ReadInv, Clients
  <2>3. scan.pc = "scan"
    OBVIOUS
  <2>4. SelfInv' /\ StartedInv' /\ LeavingInv'
    <3> HIDE DEF scan
    <3> QED  BY <1>5, <1>6, <1>8, <2>1, <2>3
  <2> QED  BY <1>3, <2>2, <2>4 DEF LinkInv
<1>12. CASE ServeEOF(c)
  <2>1. UNCHANGED <<inbox, events>> /\ peer[c] # "open"
    BY <1>12 DEF ServeEOF
  <2>2. CASE peer' = [peer EXCEPT ![c] = "eof"] /\ server' = server
    <3>1. \A d \in Conns : Left(d) => Left(d)'
      BY <2>2 DEF Left, TypeInv, TypeOK
    <3>2. LeavingInv'
      BY <1>1, <2>1, <2>2, <3>1, LeavingIsKept DEF LinkInv, LeavingInv, Started
    <3>3. SelfInv' /\ StartedInv'
      BY <1>1, <2>2 DEF LinkInv, SelfInv, StartedInv, Started
    <3> QED  BY <1>3, <1>7, <2>1, <3>2, <3>3 DEF LinkInv
  <2>3. CASE server' = [server EXCEPT ![c].pc = "publish"] /\ peer' = peer /\ AtEOF(c)
    <3> DEFINE t == [s EXCEPT !.pc = "publish"]
    <3>1. server' = [server EXCEPT ![c] = t] /\ t.pc = "publish"
      BY <1>2, <2>3 DEF ServerState
    <3>2. /\ SelfInv' /\ StartedInv'
          /\ \A d \in Conns : Started(d) => Started(d)'
          /\ \A d \in Conns : d # c => server'[d] = server[d]
      <4> HIDE DEF t
      <4> QED  BY <1>4, <3>1
    <3>3. \A d \in Conns : server'[d].pc = "publish" => Left(d)'
      BY <2>3, <3>2 DEF AtEOF, Left, LinkInv, LeavingInv
    <3>4. LeavingInv'
      BY <1>1, <1>8, <2>1, <2>3, <3>2, <3>3, LeavingIsKept DEF LinkInv
    <3> QED  BY <1>3, <1>7, <2>1, <3>2, <3>4 DEF LinkInv
  <2> QED  BY <1>12, <2>2, <2>3 DEF ServeEOF
<1>13. CASE PublishDisconnected(c)
  <2>1. /\ s.pc = "publish" /\ UNCHANGED <<inbox, peer>>
        /\ events' = Append(events, Disconnected(c))
        /\ server' = [server EXCEPT ![c] = ServerIdle("done")]
    BY <1>13 DEF PublishDisconnected, ServerAt, connVars, clientVars
  <2>2. /\ SelfInv' /\ StartedInv'
        /\ \A d \in Conns : Started(d) => Started(d)'
        /\ \A d \in Conns : d # c => server'[d] = server[d]
        /\ server'[c] = ServerIdle("done")
    BY <1>4, <1>9, <2>1
  <2>3. Disconnected(c) \in Event /\ Disconnected(c).conn = c
    BY DEF Disconnected, Event
  <2>4. /\ Len(events') = Len(events) + 1 /\ Len(events) \in Nat
        /\ \A i \in 1 .. Len(events) : events'[i] = events[i]
        /\ events'[Len(events) + 1] = Disconnected(c)
    BY <2>1, <2>3, AppendProperties, LenProperties DEF TypeInv, TypeOK
  <2>5. Left(c) /\ Started(c)
    BY <2>1 DEF LinkInv, LeavingInv, Started
  <2>6. \A d \in Conns : Started(d) => server'[d].pc # "none"
    BY <2>2 DEF Started
  <2>7. \A i \in 1 .. Len(events') :
          events'[i].type = "DISCONNECTED" =>
            Left(events'[i].conn) /\ server'[events'[i].conn].pc # "none"
    <3>1. \A i \in 1 .. Len(events) : events[i].conn \in Conns
      BY EventFields DEF TypeInv
    <3>2. \A i \in 1 .. Len(events) :
            events[i].type = "DISCONNECTED" =>
              Left(events[i].conn) /\ server'[events[i].conn].pc # "none"
      BY <2>6, <3>1 DEF LinkInv, LeavingInv
    <3> QED  BY <2>3, <2>4, <2>5, <2>6, <3>2
  <2>8. handler'.pc \in Deleting =>
          Left(handler'.conn) /\ server'[handler'.conn].pc # "none"
    <3>1. handler.pc \in Deleting => handler.conn \in Conns
      BY DEF TypeInv, HandlerInv, Deleting
    <3> QED  BY <1>1, <2>6, <3>1 DEF LinkInv, LeavingInv
  <2>9. \A d \in Conns : server'[d].pc = "publish" => Left(d)
    BY <2>2, <2>5 DEF LinkInv, LeavingInv
  <2>10. LeavingInv'
    BY <2>1, <2>7, <2>8, <2>9 DEF LeavingInv, Left, Started
  <2> QED  BY <1>3, <1>7, <2>1, <2>2, <2>10 DEF LinkInv
<1>14. CASE ServeScan(c)
  <2> DEFINE t == IF s.at > s.n THEN [s EXCEPT !.pc = "dial"]
                  ELSE IF slots[s.at].service = s.to THEN [s EXCEPT !.pc = "take"]
                  ELSE [s EXCEPT !.at = s.at + 1]
  <2>1. /\ server' = [server EXCEPT ![c] = t] /\ s.pc = "scan"
        /\ UNCHANGED <<peer, events, inbox>>
    BY <1>14 DEF ServeScan, ServerAt, connVars, clientVars
  <2>2. t.pc \in {"dial", "take", "scan"}
    BY <1>2, <2>1 DEF ServerState
  <2>3. SelfInv' /\ StartedInv' /\ LeavingInv'
    <3> HIDE DEF t
    <3> QED  BY <1>5, <1>8, <2>1, <2>2
  <2> QED  BY <1>3, <1>7, <2>1, <2>3 DEF LinkInv
<1>15. CASE ServeTake(c)
  <2> DEFINE t == [s EXCEPT !.pc = "write", !.target = slots[s.at].conn]
  <2>1. /\ server' = [server EXCEPT ![c] = t] /\ s.at \in 1 .. Len(slots)
        /\ UNCHANGED <<peer, events, inbox>>
    BY <1>15
    DEF ServeTake, ServerAt, connVars, clientVars, TypeInv, TypeOK, ServerInv
  <2>2. t.pc = "write" /\ t.target = slots[s.at].conn
    BY <1>2 DEF ServerState
  <2>3. slots[s.at].conn # NoConn =>
          slots[s.at].conn \in Conns /\ Started(slots[s.at].conn)
    BY <1>2, <2>1 DEF LinkInv, StartedInv
  <2>4. SelfInv' /\ StartedInv' /\ LeavingInv'
    <3> HIDE DEF t
    <3> QED  BY <1>5, <1>8, <2>1, <2>2, <2>3
  <2> QED  BY <1>3, <1>7, <2>1, <2>4 DEF LinkInv
<1>16. CASE ServeWrite(c)
  <2>1. /\ server' = [server EXCEPT ![c] = ServerIdle("read")]
        /\ UNCHANGED <<peer, events, inbox>>
    BY <1>16 DEF ServeWrite, Written, clientVars
  <2> QED  BY <1>3, <1>7, <1>10, <2>1 DEF LinkInv
<1>17. CASE ServeDial(c)
  <2>1. UNCHANGED <<events, inbox>>
    BY <1>17 DEF ServeDial
  <2>2. CASE server' = [server EXCEPT ![c] = ServerIdle("read")] /\ UNCHANGED peer
    BY <1>3, <1>7, <1>10, <2>1, <2>2 DEF LinkInv
  <2>3. ASSUME NEW d \in SelfConns, peer[d] = "absent",
               peer' = [peer EXCEPT ![d] = "open"],
               server' = [server EXCEPT ![c].pc = "self", ![c].target = d]
        PROVE  LinkInv'
    <3> DEFINE t == [s EXCEPT !.pc = "self", !.target = d]
    <3>1. server' = [server EXCEPT ![c] = t] /\ t.pc = "self" /\ t.target = d
      BY <1>2, <2>3 DEF ServerState, TypeInv, TypeOK
    <3>2. \A e \in Conns : Left(e) => Left(e)'
      BY <2>3 DEF Left, TypeInv, TypeOK
    <3>3. SelfInv' /\ StartedInv' /\ LeavingInv'
      <4> HIDE DEF t
      <4> QED  BY <1>5, <2>1, <3>1, <3>2
    <3> QED  BY <1>3, <1>7, <2>1, <3>3 DEF LinkInv
  <2> QED  BY <1>17, <2>2, <2>3 DEF ServeDial
<1>18. CASE ServeSelf(c)
  <2>1. /\ s.pc = "self" /\ UNCHANGED <<peer, events>>
        /\ server' = [server EXCEPT ![c] = ServerIdle("read")]
        /\ \/ UNCHANGED inbox
           \/ inbox' = [inbox EXCEPT ![s.target] = Append(@, Arriving(s.packet))]
    BY <1>18 DEF ServeSelf, ServerAt
  <2>2. s.target \in SelfConns
    BY <2>1 DEF LinkInv, SelfInv
  <2>3. \A d \in Clients : inbox'[d] = inbox[d]
    BY <1>2, <2>1, <2>2 DEF Clients
  <2>4. ReadInv'
    BY <1>1, <2>3 DEF LinkInv, ReadInv
  <2> QED  BY <1>3, <1>10, <2>1, <2>4 DEF LinkInv
<1> QED
  BY <1>11, <1>12, <1>13, <1>14, <1>15, <1>16, <1>17, <1>18 DEF ServerStep

LEMMA NextLinkInv == TypeInv /\ GreetInv /\ LinkInv /\ [Next]_vars => LinkInv'
<1> SUFFICES ASSUME TypeInv, GreetInv, LinkInv, [Next]_vars PROVE LinkInv'
  OBVIOUS
<1>1. CASE UNCHANGED vars
  BY <1>1
  DEF vars, connVars, clientVars, sharedVars, acceptorVars, handlerVars,
      serverVars, LinkInv, ReadInv, SelfInv, OpenInv, StartedInv, LeavingInv,
      Left, Started
<1> QED
  BY <1>1, ClientKeepsLinkInv, AcceptorKeepsLinkInv, HandlerKeepsLinkInv,
     ServerKeepsLinkInv
  DEF Next

-----------------------------------------------------------------------------
(* Broker's steps as steps of AdmiralClient *)

\* What happens to the links in a step that changes no more than one of them.
Answered == [Contract!LinkNext]_<<Links, crashed>>

\* A link is what it is made of.
LEMMA LinkParts ==
  \A c \in Clients :
    /\ c \in Conns /\ c \notin SelfConns
    /\ Links[c] = [state |-> LinkState(c), sent |-> turn[c],
                   heard |-> Heard(c), left |-> Left(c)]
    /\ Links[c].state = LinkState(c) /\ Links[c].sent = turn[c]
    /\ Links[c].heard = Heard(c) /\ Links[c].left = Left(c)
BY DEF Links, LinkOf, Clients

LEMMA SameLink ==
  ASSUME NEW c \in Conns,
         (peer'[c] = "absent") <=> (peer[c] = "absent"),
         Left(c)' <=> Left(c),
         sock'[c] = sock[c], turn'[c] = turn[c], outbox'[c] = outbox[c],
         Started(c)' <=> Started(c)
  PROVE  LinkOf(c)' = LinkOf(c)
<1>1. LinkState(c)' = LinkState(c)
  BY DEF LinkState, Started
<1>2. Left(c)' = Left(c)
  BY DEF Left
<1>3. Heard(c)' = Heard(c)
  BY DEF Heard
<1> QED  BY <1>1, <1>2, <1>3 DEF LinkOf

LEMMA SameLinks ==
  ASSUME \A c \in Clients : LinkOf(c)' = LinkOf(c)
  PROVE  Links' = Links
BY DEF Links, Clients

\* One client's link changes.
LEMMA OneLinkChanges ==
  ASSUME NEW c \in Clients,
         \A d \in Clients : d # c => LinkOf(d)' = LinkOf(d)
  PROVE  Links' = [Links EXCEPT ![c] =
                     [state |-> LinkState(c)', sent |-> turn'[c],
                      heard |-> Heard(c)', left |-> Left(c)']]
<1>1. Links' = [d \in Clients |-> LinkOf(d)']
  BY DEF Links, Clients
<1>2. LinkOf(c)' = [state |-> LinkState(c)', sent |-> turn'[c],
                    heard |-> Heard(c)', left |-> Left(c)']
  BY DEF LinkOf
<1> QED  BY <1>1, <1>2 DEF Links

\* A link one part of which is new.
LEMMA UpdatedLink ==
  ASSUME NEW c \in Clients, NEW new
  PROVE  /\ [Links[c] EXCEPT !.state = new] =
              [state |-> new, sent |-> turn[c], heard |-> Heard(c), left |-> Left(c)]
         /\ [Links[c] EXCEPT !.sent = new] =
              [state |-> LinkState(c), sent |-> new, heard |-> Heard(c), left |-> Left(c)]
         /\ [Links[c] EXCEPT !.heard = new] =
              [state |-> LinkState(c), sent |-> turn[c], heard |-> new, left |-> Left(c)]
         /\ [Links[c] EXCEPT !.left = new] =
              [state |-> LinkState(c), sent |-> turn[c], heard |-> Heard(c), left |-> new]
<1> DEFINE r == Links[c]
<1>1. r = [state |-> LinkState(c), sent |-> turn[c],
           heard |-> Heard(c), left |-> Left(c)]
  BY LinkParts
<1> HIDE DEF r
<1>2. /\ [r EXCEPT !.state = new] =
           [state |-> new, sent |-> turn[c], heard |-> Heard(c), left |-> Left(c)]
      /\ [r EXCEPT !.sent = new] =
           [state |-> LinkState(c), sent |-> new, heard |-> Heard(c), left |-> Left(c)]
      /\ [r EXCEPT !.heard = new] =
           [state |-> LinkState(c), sent |-> turn[c], heard |-> new, left |-> Left(c)]
      /\ [r EXCEPT !.left = new] =
           [state |-> LinkState(c), sent |-> turn[c], heard |-> Heard(c), left |-> new]
  BY <1>1
<1> QED  BY <1>2 DEF r

\* The state of a client's link changes and nothing else.
LEMMA StateChanges ==
  ASSUME NEW c \in Clients,
         \A d \in Clients : d # c => LinkOf(d)' = LinkOf(d),
         turn'[c] = turn[c], Heard(c)' = Heard(c), Left(c)' = Left(c)
  PROVE  Links' = [Links EXCEPT ![c].state = LinkState(c)']
<1>1. Links' = [Links EXCEPT ![c] =
                  [state |-> LinkState(c)', sent |-> turn[c],
                   heard |-> Heard(c), left |-> Left(c)]]
  BY OneLinkChanges
<1> QED  BY <1>1, UpdatedLink

LEMMA ClientAnswered ==
  ASSUME TypeInv, GreetInv, LinkInv, NEW c \in Conns, ClientStep(c)
  PROVE  Answered
<1>1. UNCHANGED <<server, sock, outbox, crashed>> /\ ~crashed
  BY DEF ClientStep, Connect, ClientSend, ClientLeave, Finalize, ClientIs,
         sharedVars, serverVars
<1>2. /\ peer \in [Conns -> {"absent", "open", "eof", "reset"}]
      /\ turn \in [Conns -> Nat]
  BY DEF TypeInv, TypeOK
<1>3. \A d \in Conns : Heard(d)' = Heard(d) /\ (Started(d)' <=> Started(d))
  BY <1>1 DEF Heard, Started
<1>4. ASSUME NEW d \in Conns, peer'[d] = peer[d], turn'[d] = turn[d]
      PROVE  LinkOf(d)' = LinkOf(d)
  BY <1>1, <1>3, <1>4, SameLink DEF Left
<1>5. CASE Finalize(c)
  <2>1. /\ c \in SelfConns /\ turn' = turn
        /\ peer' = [peer EXCEPT ![c] = "eof"]
    BY <1>5 DEF Finalize
  <2>2. \A d \in Clients : LinkOf(d)' = LinkOf(d)
    BY <1>2, <1>4, <2>1 DEF Clients
  <2> QED  BY <1>1, <2>2, SameLinks DEF Answered
<1>6. CASE Connect(c)
  <2>1. /\ c \in Clients /\ peer[c] = "absent" /\ turn' = turn
        /\ peer' = [peer EXCEPT ![c] = "open"]
    BY <1>6 DEF Connect, ClientIs, Clients
  <2>2. sock[c] = "none"
    BY <2>1 DEF GreetInv, ConnInv, FreshInv
  <2>3. /\ LinkState(c) = "off" /\ LinkState(c)' = "waiting"
        /\ Left(c)' = Left(c)
    BY <1>1, <1>2, <2>1, <2>2 DEF LinkState, Left
  <2>4. \A d \in Clients : d # c => LinkOf(d)' = LinkOf(d)
    BY <1>2, <1>4, <2>1 DEF Clients
  <2>5. Links' = [Links EXCEPT ![c].state = "waiting"]
    BY <1>3, <2>1, <2>3, <2>4, StateChanges DEF Clients
  <2>6. Contract!LinkConnect(c)
    BY <1>1, <2>1, <2>3, <2>5, LinkParts
    DEF Contract!LinkConnect, Contract!LinkIs, Contract!LinkTo
  <2> QED
    BY <2>1, <2>6 DEF Answered, Contract!LinkNext, Contract!ClientSide
<1>7. CASE ClientSend(c) \/ ClientLeave(c)
  <2>1. c \in Clients /\ peer[c] = "open"
    BY <1>7 DEF ClientSend, ClientLeave, ClientIs, Clients
  <2>2. \A d \in Clients : d # c => LinkOf(d)' = LinkOf(d)
    <3>1. \A d \in Conns : d # c => peer'[d] = peer[d] /\ turn'[d] = turn[d]
      BY <1>2, <1>7 DEF ClientSend, ClientLeave
    <3> QED  BY <1>4, <3>1 DEF Clients
  <2>3. LinkState(c) \in {"waiting", "open", "served", "closed"} /\ Left(c) = FALSE
    BY <2>1 DEF LinkState, Left
  <2>4. Contract!Connected(c)
    BY <1>1, <2>1, <2>3, LinkParts DEF Contract!Connected, Contract!LinkIs
  <2>5. CASE ClientSend(c)
    <3>1. turn'[c] = turn[c] + 1 /\ peer' = peer
      BY <1>2, <2>5 DEF ClientSend
    <3>2. LinkState(c)' = LinkState(c) /\ Left(c)' = Left(c)
      BY <1>1, <3>1 DEF LinkState, Left
    <3>3. Links' = [Links EXCEPT ![c] =
                      [state |-> LinkState(c), sent |-> turn[c] + 1,
                       heard |-> Heard(c), left |-> Left(c)]]
      BY <1>3, <2>1, <2>2, <3>1, <3>2, OneLinkChanges DEF Clients
    <3>4. [Links[c] EXCEPT !.sent = turn[c] + 1] =
            [state |-> LinkState(c), sent |-> turn[c] + 1,
             heard |-> Heard(c), left |-> Left(c)]
      BY <2>1, UpdatedLink
    <3>5. Contract!LinkSend(c)
      BY <1>1, <2>1, <2>4, <3>3, <3>4, LinkParts DEF Contract!LinkSend
    <3> QED  BY <2>1, <3>5 DEF Answered, Contract!LinkNext, Contract!ClientSide
  <2>6. CASE ClientLeave(c)
    <3>1. turn' = turn /\ peer'[c] \in {"eof", "reset"}
      BY <1>2, <2>6 DEF ClientLeave
    <3>2. LinkState(c)' = LinkState(c) /\ Left(c)' = TRUE
      BY <1>1, <2>1, <3>1 DEF LinkState, Left
    <3>3. Links' = [Links EXCEPT ![c] =
                      [state |-> LinkState(c), sent |-> turn[c],
                       heard |-> Heard(c), left |-> TRUE]]
      BY <1>3, <2>1, <2>2, <3>1, <3>2, OneLinkChanges DEF Clients
    <3>4. [Links[c] EXCEPT !.left = TRUE] =
            [state |-> LinkState(c), sent |-> turn[c],
             heard |-> Heard(c), left |-> TRUE]
      BY <2>1, UpdatedLink
    <3>5. Contract!LinkLeave(c)
      BY <1>1, <2>1, <2>4, <3>3, <3>4, LinkParts DEF Contract!LinkLeave
    <3> QED  BY <2>1, <3>5 DEF Answered, Contract!LinkNext, Contract!ClientSide
  <2> QED  BY <1>7, <2>5, <2>6
<1> QED  BY <1>5, <1>6, <1>7 DEF ClientStep

\* Steps that no client sees, unless admiral goes down in them.
LEMMA UnseenStep ==
  ASSUME Links' = Links, crashed = FALSE, crashed' \in BOOLEAN
  PROVE  Answered
<1>1. CASE crashed' = TRUE
  BY <1>1 DEF Answered, Contract!LinkNext, Contract!LinkDown
<1>2. CASE crashed' = FALSE
  BY <1>2 DEF Answered
<1> QED  BY <1>1, <1>2

\* A step in which the connections stay and the servers only go on.
LEMMA QuietStep ==
  ASSUME crashed = FALSE, crashed' \in BOOLEAN,
         UNCHANGED <<outbox, sock, turn>>,
         \A c \in Clients : /\ (peer'[c] = "absent") <=> (peer[c] = "absent")
                            /\ Left(c)' <=> Left(c)
                            /\ Started(c)' <=> Started(c)
  PROVE  Answered
<1>1. \A c \in Clients : LinkOf(c)' = LinkOf(c)
  BY SameLink DEF Clients
<1> QED  BY <1>1, SameLinks, UnseenStep

\* What was heard on a connection that was written nothing, and on others.
LEMMA HeardNothing ==
  ASSUME NEW c \in Conns, outbox \in [Conns -> Seq(Packet)]
  PROVE  /\ outbox[c] = <<>> => Heard(c) = <<>>
         /\ outbox[c] # <<>> => Heard(c) # <<>>
<1>1. CASE outbox[c] = <<>>
  BY <1>1 DEF Heard
<1>2. CASE outbox[c] # <<>>
  <2>1. 1 \in DOMAIN outbox[c]
    BY <1>2, EmptySeq, LenProperties
  <2>2. 1 \in DOMAIN Heard(c)
    BY <2>1 DEF Heard
  <2>3. DOMAIN <<>> = {}
    OBVIOUS
  <2> QED  BY <1>2, <2>2, <2>3
<1> QED  BY <1>1, <1>2

\* One packet more is one kind more.
LEMMA HeardMore ==
  ASSUME NEW c \in Conns, outbox \in [Conns -> Seq(Packet)], NEW p \in Packet,
         outbox'[c] = Append(outbox[c], p)
  PROVE  Heard(c)' = Append(Heard(c), Kind(p))
<1>1. /\ Len(outbox[c]) \in Nat /\ DOMAIN outbox[c] = 1 .. Len(outbox[c])
      /\ DOMAIN outbox'[c] = 1 .. Len(outbox[c]) + 1
      /\ \A i \in 1 .. Len(outbox[c]) : outbox'[c][i] = outbox[c][i]
      /\ outbox'[c][Len(outbox[c]) + 1] = p
  BY AppendProperties, LenProperties
<1> DEFINE n == Len(outbox[c])
           h == Heard(c)
           next == Heard(c)'
           AllKinds == {"ACCEPT", "PING", "SEND", "OTHER"}
<1>2. \A q : Kind(q) \in AllKinds
  BY DEF Kind
<1>3. /\ h = [i \in 1 .. n |-> Kind(outbox[c][i])] /\ n \in Nat
      /\ next = [i \in 1 .. n + 1 |-> Kind(outbox'[c][i])]
  BY <1>1 DEF Heard, Kind
<1> HIDE DEF AllKinds
<1>4. h \in Seq(AllKinds) /\ next \in Seq(AllKinds)
  <2>1. h \in [1 .. n -> AllKinds] /\ next \in [1 .. n + 1 -> AllKinds]
    BY <1>2, <1>3
  <2>2. n \in Nat /\ n + 1 \in Nat
    BY <1>1
  <2> HIDE DEF h, next, n
  <2> QED  BY <2>1, <2>2, SeqDef
<1>5. Len(h) = n /\ Len(next) = n + 1
  BY <1>3, <1>4, LenProperties
<1>6. /\ \A i \in 1 .. n : next[i] = h[i]
      /\ next[n + 1] = Kind(p)
  BY <1>1, <1>3
<1> HIDE DEF h, next
<1>7. next = Append(h, Kind(p))
  <2>1. /\ Append(h, Kind(p)) \in Seq(AllKinds)
        /\ Len(Append(h, Kind(p))) = n + 1
        /\ \A i \in 1 .. n : Append(h, Kind(p))[i] = h[i]
        /\ Append(h, Kind(p))[n + 1] = Kind(p)
    BY <1>2, <1>4, <1>5, AppendProperties
  <2>2. \A i \in 1 .. n + 1 : next[i] = Append(h, Kind(p))[i]
    BY <1>3, <1>6, <2>1
  <2> QED  BY <1>4, <1>5, <2>1, <2>2, SeqEqual
<1> QED  BY <1>7 DEF h, next

LEMMA AcceptorAnswered ==
  ASSUME TypeInv, GreetInv, LinkInv, AcceptorStep
  PROVE  Answered
<1> SUFFICES ASSUME NEW c, c = acceptor.conn
             PROVE  Answered
  OBVIOUS
<1>1. /\ UNCHANGED <<server, peer, turn>> /\ crashed = FALSE
  BY DEF AcceptorStep, Accept, HandshakeReadFails, ReadInit, ReadSend, AcceptorAt,
         PublishConnected, connVars, clientVars, handlerVars, serverVars,
         TypeInv, TypeOK
<1>2. /\ peer \in [Conns -> {"absent", "open", "eof", "reset"}]
      /\ sock \in [Conns -> {"none", "open", "closed"}]
      /\ outbox \in [Conns -> Seq(Packet)] /\ turn \in [Conns -> Nat]
      /\ acceptor \in AcceptorState /\ (acceptor.pc # "accept" => c \in Conns)
  BY DEF TypeInv, TypeOK, AcceptorInv
<1>3. \A d \in Conns : (Left(d)' <=> Left(d)) /\ (Started(d)' <=> Started(d))
                       /\ Left(d)' = Left(d)
  BY <1>1 DEF Left, Started
<1>4. ASSUME NEW d \in Conns, sock'[d] = sock[d], outbox'[d] = outbox[d]
      PROVE  LinkOf(d)' = LinkOf(d)
  BY <1>1, <1>3, <1>4, SameLink
<1>5. ASSUME UNCHANGED <<outbox, sock, crashed>>
      PROVE  Answered
  <2>1. crashed' \in BOOLEAN
    BY <1>1, <1>5
  <2> QED  BY <1>1, <1>3, <1>5, <2>1, QuietStep DEF Clients
<1>6. acceptor.pc \in {"init", "send"} =>
        /\ c \in Conns /\ LinkState(c) = "open" /\ Heard(c) = <<>>
        /\ peer[c] # "absent" /\ outbox[c] = <<>> /\ ~Started(c)
  <2> SUFFICES ASSUME acceptor.pc \in {"init", "send"}
               PROVE  /\ c \in Conns /\ LinkState(c) = "open" /\ Heard(c) = <<>>
                      /\ peer[c] # "absent" /\ outbox[c] = <<>> /\ ~Started(c)
    OBVIOUS
  <2>1. c \in Conns /\ sock[c] = "open" /\ outbox[c] = <<>> /\ ~Known(c)
    BY <1>2 DEF LinkInv, OpenInv, GreetInv, ConnInv, GreetingInv
  <2>2. peer[c] # "absent" /\ server[c].pc = "none"
    BY <2>1 DEF GreetInv, ConnInv, FreshInv, TypeInv, ServerInv
  <2> QED  BY <1>2, <2>1, <2>2, HeardNothing DEF LinkState, Started
\* A connection is closed in the handshake.
<1>7. ASSUME acceptor.pc \in {"init", "send"}, Reject(c), UNCHANGED outbox,
             crashed' \in BOOLEAN,
             c \in Clients => turn[c] >= 1 \/ Left(c)
      PROVE  Answered
  <2>1. /\ sock' = [sock EXCEPT ![c] = "closed"] /\ c \in Conns
        /\ \A d \in Conns : d # c => sock'[d] = sock[d]
    BY <1>2, <1>6, <1>7 DEF Reject
  <2>2. \A d \in Clients : d # c => LinkOf(d)' = LinkOf(d)
    BY <1>4, <1>7, <2>1 DEF Clients
  <2>3. CASE c \notin Clients
    BY <1>1, <1>7, <2>2, <2>3, SameLinks, UnseenStep
  <2>4. CASE c \in Clients
    <3>1. LinkState(c)' = "closed"
      BY <1>1, <1>2, <1>6, <1>7, <2>1 DEF LinkState
    <3>2. Heard(c)' = Heard(c)
      BY <1>7 DEF Heard
    <3>3. Links' = [Links EXCEPT ![c].state = "closed"]
      BY <1>1, <1>3, <2>1, <2>2, <2>4, <3>1, <3>2, StateChanges
    <3>4. Contract!LinkRefuse(c)
      BY <1>1, <1>6, <1>7, <2>4, <3>3, LinkParts
      DEF Contract!LinkRefuse, Contract!LinkIs, Contract!LinkTo
    <3> QED  BY <2>4, <3>4 DEF Answered, Contract!LinkNext, Contract!AdmiralSide
  <2> QED  BY <2>3, <2>4
<1>8. CASE Accept
  <2> DEFINE b == Head(backlog)
  <2>1. /\ b \in Conns /\ b = backlog[1] /\ 1 \in 1 .. Len(backlog)
        /\ sock' = [sock EXCEPT ![b] = "open"] /\ UNCHANGED <<outbox, crashed>>
    BY <1>8, HeadAndTail, LenProperties DEF Accept, TypeInv, TypeOK
  <2>2. sock[b] = "none" /\ peer[b] # "absent" /\ ~Known(b)
    BY <2>1 DEF GreetInv, ConnInv, BacklogInv, FreshInv
  <2>3. server[b].pc = "none"
    BY <2>1, <2>2 DEF TypeInv, ServerInv
  <2> HIDE DEF b
  <2>4. \A d \in Clients : d # b => LinkOf(d)' = LinkOf(d)
    <3>1. \A d \in Conns : d # b => sock'[d] = sock[d]
      BY <1>2, <2>1
    <3> QED  BY <1>4, <2>1, <3>1 DEF Clients
  <2>5. CASE b \notin Clients
    BY <1>1, <2>1, <2>4, <2>5, SameLinks, UnseenStep
  <2>6. CASE b \in Clients
    <3> SUFFICES ASSUME NEW d \in Clients, d = b PROVE Answered
      BY <2>6
    <3>1. LinkState(d) = "waiting" /\ LinkState(d)' = "open"
      BY <1>1, <1>2, <2>1, <2>2, <2>3 DEF LinkState
    <3>2. Heard(d)' = Heard(d)
      BY <2>1 DEF Heard
    <3>3. Links' = [Links EXCEPT ![d].state = "open"]
      BY <1>1, <1>3, <2>1, <2>4, <3>1, <3>2, StateChanges
    <3>4. Contract!LinkAccept(d)
      BY <1>1, <2>1, <3>1, <3>3, LinkParts
      DEF Contract!LinkAccept, Contract!LinkIs, Contract!LinkTo
    <3> QED  BY <3>4 DEF Answered, Contract!LinkNext, Contract!AdmiralSide
  <2> QED  BY <2>5, <2>6
<1>9. CASE HandshakeReadFails
  <2>1. /\ acceptor.pc \in {"init", "send"} /\ Reject(c) /\ peer[c] # "open"
        /\ UNCHANGED <<outbox, crashed>>
    BY <1>9 DEF HandshakeReadFails, AcceptorAt
  <2>2. Left(c)
    BY <1>2, <1>6, <2>1 DEF Left
  <2> QED  BY <1>1, <1>7, <2>1, <2>2
<1>10. inbox[c] # <<>> /\ c \in Clients => Len(inbox[c]) \in Nat /\ Len(inbox[c]) >= 1
  BY EmptySeq DEF Clients, TypeInv, TypeOK
<1>11. CASE ReadInit
  <2>1. /\ acceptor.pc = "init" /\ inbox[c] # <<>> /\ UNCHANGED <<outbox, crashed>>
        /\ Reject(c) \/ UNCHANGED sock
    BY <1>11 DEF ReadInit, AcceptorAt
  <2>2. c \in Clients => turn[c] >= 1
    BY <1>2, <1>10, <2>1 DEF LinkInv, ReadInv, Clients
  <2> QED  BY <1>1, <1>5, <1>7, <2>1, <2>2
<1>12. CASE PublishConnected
  BY <1>5, <1>12 DEF PublishConnected, connVars
<1>13. CASE ReadSend
  <2>1. /\ acceptor.pc = "send" /\ inbox[c] # <<>> /\ crashed' \in BOOLEAN
        /\ (sock' = sock /\ crashed' = FALSE) \/ Reject(c)
        /\ \/ UNCHANGED outbox
           \/ /\ peer[c] = "open"
              /\ outbox' = [outbox EXCEPT ![c] = Append(@, AcceptPacket)]
    BY <1>13 DEF ReadSend, AcceptorAt, Answer
  <2>2. c \in Clients => turn[c] >= 2 /\ turn[c] \in Nat
    BY <1>2, <1>10, <2>1 DEF LinkInv, ReadInv, Clients
  <2>3. CASE UNCHANGED outbox
    <3>1. CASE Reject(c)
      BY <1>7, <2>1, <2>2, <2>3, <3>1
    <3>2. CASE sock' = sock /\ crashed' = FALSE
      BY <1>1, <1>5, <2>3, <3>2
    <3> QED  BY <2>1, <3>1, <3>2
  <2>4. CASE /\ peer[c] = "open"
             /\ outbox' = [outbox EXCEPT ![c] = Append(@, AcceptPacket)]
    <3>1. /\ outbox'[c] = Append(outbox[c], AcceptPacket)
          /\ \A d \in Conns : d # c => outbox'[d] = outbox[d]
      BY <1>2, <1>6, <2>1, <2>4
    <3>2. /\ sock'[c] \in {"open", "closed"}
          /\ \A d \in Conns : d # c => sock'[d] = sock[d]
      <4>1. c \in Conns /\ sock[c] = "open"
        BY <1>2, <2>1 DEF LinkInv, OpenInv
      <4>2. sock' = sock \/ sock' = [sock EXCEPT ![c] = "closed"]
        BY <2>1 DEF Reject
      <4> QED  BY <1>2, <4>1, <4>2
    <3>3. \A d \in Clients : d # c => LinkOf(d)' = LinkOf(d)
      BY <1>4, <3>1, <3>2 DEF Clients
    <3>4. CASE c \notin Clients
      BY <1>1, <2>1, <3>3, <3>4, SameLinks, UnseenStep
    <3>5. CASE c \in Clients
      <4>1. Heard(c)' = Append(<<>>, "ACCEPT")
        <5>1. Kind(AcceptPacket) = "ACCEPT"
          BY DEF Kind
        <5>2. Heard(c)' = Append(Heard(c), Kind(AcceptPacket))
          BY <1>2, <2>1, <3>1, HeardMore, BuiltPackets
        <5> QED  BY <1>6, <2>1, <5>1, <5>2
      <4>2. LinkState(c)' \in {"open", "closed"}
        BY <1>1, <1>6, <2>1, <3>2 DEF LinkState, Started
      <4>3. Left(c) = FALSE
        BY <2>4 DEF Left
      <4>4. Links' = [Links EXCEPT ![c] =
                        [state |-> LinkState(c)', sent |-> turn[c],
                         heard |-> <<"ACCEPT">>, left |-> Left(c)]]
        <5>1. Append(<<>>, "ACCEPT") = <<"ACCEPT">>
          OBVIOUS
        <5> QED  BY <1>1, <1>2, <1>3, <2>1, <3>3, <3>5, <4>1, <5>1, OneLinkChanges
      <4>5. ASSUME NEW state \in {"open", "closed"}, state = LinkState(c)'
            PROVE  Contract!LinkAnswer(c)
        <5> DEFINE r == Links[c]
        <5>1. r = [state |-> LinkState(c), sent |-> turn[c],
                   heard |-> Heard(c), left |-> Left(c)]
          BY <3>5, LinkParts
        <5> HIDE DEF r
        <5>2. [r EXCEPT !.heard = <<"ACCEPT">>, !.state = state] =
                [state |-> state, sent |-> turn[c],
                 heard |-> <<"ACCEPT">>, left |-> Left(c)]
          <6> DEFINE q == [r EXCEPT !.heard = <<"ACCEPT">>]
          <6>1. q = [state |-> LinkState(c), sent |-> turn[c],
                     heard |-> <<"ACCEPT">>, left |-> Left(c)]
            BY <5>1
          <6>2. [r EXCEPT !.heard = <<"ACCEPT">>, !.state = state] =
                  [q EXCEPT !.state = state]
            OBVIOUS
          <6> HIDE DEF q
          <6>3. [q EXCEPT !.state = state] =
                  [state |-> state, sent |-> turn[c],
                   heard |-> <<"ACCEPT">>, left |-> Left(c)]
            BY <6>1
          <6> QED  BY <6>2, <6>3
        <5>3. Links' = [Links EXCEPT ![c].heard = <<"ACCEPT">>, ![c].state = state]
          <6>1. c \in DOMAIN Links
            BY <3>5 DEF Links
          <6>2. [Links EXCEPT ![c].heard = <<"ACCEPT">>, ![c].state = state] =
                  [Links EXCEPT ![c] =
                     [Links[c] EXCEPT !.heard = <<"ACCEPT">>, !.state = state]]
            BY <6>1
          <6> QED  BY <4>4, <4>5, <5>2, <6>2 DEF r
        <5> QED
          BY <1>1, <1>6, <2>1, <2>2, <3>5, <4>3, <5>3, LinkParts
          DEF Contract!LinkAnswer, Contract!LinkIs
      <4> QED
        BY <3>5, <4>2, <4>5 DEF Answered, Contract!LinkNext, Contract!AdmiralSide
    <3> QED  BY <3>4, <3>5
  <2> QED  BY <2>1, <2>3, <2>4
<1> QED  BY <1>8, <1>9, <1>11, <1>12, <1>13 DEF AcceptorStep

LEMMA HandlerAnswered ==
  ASSUME TypeInv, GreetInv, LinkInv, HandlerStep
  PROVE  Answered
<1>1. UNCHANGED <<peer, service, outbox, turn, crashed>> /\ crashed = FALSE
  BY DEF HandlerStep, ReceiveConnected, PutId, PutConn, ReceiveDisconnected,
         MoveId, MoveConn, ClearId, ClearConn, WriteField, StoreTable, HandlerAt,
         connVars, clientVars, acceptorVars, TypeInv, TypeOK
<1>2. /\ peer \in [Conns -> {"absent", "open", "eof", "reset"}]
      /\ sock \in [Conns -> {"none", "open", "closed"}]
      /\ outbox \in [Conns -> Seq(Packet)] /\ crashed' \in BOOLEAN
  BY <1>1 DEF TypeInv, TypeOK
<1>3. \A d \in Conns : Left(d)' = Left(d) /\ Heard(d)' = Heard(d)
  BY <1>1 DEF Left, Heard
<1>4. \A c \in Conns : Known(c) => sock[c] # "none" /\ peer[c] # "absent"
  BY DEF GreetInv, ConnInv, FreshInv
<1>5. ASSUME UNCHANGED <<sock, server>>
      PROVE  Answered
  BY <1>1, <1>2, <1>3, <1>5, QuietStep DEF Clients, Started
\* A client that has left is removed.
<1>6. ASSUME NEW c \in Conns, Known(c), Left(c), Started(c), UNCHANGED server,
             sock' = [sock EXCEPT ![c] = "closed"]
      PROVE  Answered
  <2>1. sock'[c] = "closed" /\ \A d \in Conns : d # c => sock'[d] = sock[d]
    BY <1>2, <1>6
  <2>2. \A d \in Clients : d # c => LinkOf(d)' = LinkOf(d)
    BY <1>1, <1>3, <1>6, <2>1, SameLink DEF Clients, Started
  <2>3. CASE c \notin Clients \/ sock[c] = "closed"
    <3>1. \A d \in Clients : LinkOf(d)' = LinkOf(d)
      BY <1>1, <1>3, <1>6, <2>1, <2>2, <2>3, SameLink DEF Clients, Started
    <3> QED  BY <1>1, <1>2, <3>1, SameLinks, UnseenStep
  <2>4. CASE c \in Clients /\ sock[c] # "closed"
    <3>1. LinkState(c) = "served" /\ LinkState(c)' = "closed"
      BY <1>1, <1>2, <1>4, <1>6, <2>1, <2>4 DEF LinkState, Started
    <3>2. Links' = [Links EXCEPT ![c].state = "closed"]
      BY <1>1, <1>3, <2>2, <2>4, <3>1, StateChanges
    <3>3. Contract!LinkClose(c)
      BY <1>1, <1>6, <2>4, <3>1, <3>2, LinkParts
      DEF Contract!LinkClose, Contract!LinkIs, Contract!LinkTo
    <3> QED  BY <2>4, <3>3 DEF Answered, Contract!LinkNext, Contract!AdmiralSide
  <2> QED  BY <2>3, <2>4
<1>7. CASE PutConn
  <2>1. UNCHANGED sock /\ handler.conn \in Conns /\ Known(handler.conn)
        /\ server' = [server EXCEPT ![handler.conn] = ServerIdle("read")]
    BY <1>7 DEF PutConn, HandlerAt, connVars, TypeInv, HandlerInv
  <2> SUFFICES ASSUME NEW c \in Conns, c = handler.conn
               PROVE  Answered
    BY <2>1
  <2>2. server'[c].pc = "read" /\ \A d \in Conns : d # c => server'[d] = server[d]
    BY <2>1 DEF ServerIdle, TypeInv, TypeOK
  <2>3. \A d \in Clients : d # c => LinkOf(d)' = LinkOf(d)
    BY <1>1, <1>3, <2>1, <2>2, SameLink DEF Clients, Started
  <2>4. CASE c \notin Clients
    BY <1>1, <1>2, <2>3, <2>4, SameLinks, UnseenStep
  <2>5. CASE c \in Clients
    <3>1. Links' = [Links EXCEPT ![c].state = LinkState(c)']
      BY <1>1, <1>3, <2>3, <2>5, StateChanges
    <3>2. CASE LinkState(c)' = LinkState(c)
      <4>1. LinkOf(c)' = LinkOf(c)
        BY <1>1, <1>3, <3>2 DEF LinkOf
      <4> QED  BY <1>1, <1>2, <2>3, <4>1, SameLinks, UnseenStep
    <3>3. CASE LinkState(c)' # LinkState(c)
      <4>1. LinkState(c) = "open" /\ LinkState(c)' = "served"
        BY <1>1, <1>2, <1>4, <2>1, <2>2, <3>3 DEF LinkState
      <4>2. Heard(c) # <<>> \/ Left(c)
        BY <1>2, <1>4, <2>1, HeardNothing DEF GreetInv, AnsweredInv, Left
      <4>3. Contract!LinkServe(c)
        BY <1>1, <2>5, <3>1, <4>1, <4>2, LinkParts
        DEF Contract!LinkServe, Contract!LinkIs, Contract!LinkTo, Contract!Greeted
      <4> QED
        BY <2>5, <4>3 DEF Answered, Contract!LinkNext, Contract!AdmiralSide
    <3> QED  BY <3>2, <3>3
  <2> QED  BY <2>4, <2>5
<1>8. CASE ReceiveDisconnected
  <2>1. /\ events # <<>> /\ Head(events).type = "DISCONNECTED" /\ UNCHANGED server
        /\ sock' = sock \/ sock' = [sock EXCEPT ![Head(events).conn] = "closed"]
    BY <1>8 DEF ReceiveDisconnected, serverVars
  <2>2. Head(events) = events[1] /\ 1 \in 1 .. Len(events)
    BY <2>1, HeadAndTail, LenProperties DEF TypeInv, TypeOK
  <2>3. /\ Head(events).conn \in Conns /\ Known(Head(events).conn)
        /\ Left(Head(events).conn) /\ Started(Head(events).conn)
    BY <2>1, <2>2, EventFields DEF TypeInv, EventsInv, LinkInv, LeavingInv
  <2> QED  BY <1>5, <1>6, <2>1, <2>3
<1>9. CASE StoreTable
  <2>1. /\ sock' = [sock EXCEPT ![handler.conn] = "closed"] /\ UNCHANGED server
        /\ handler.pc = "store"
    BY <1>9 DEF StoreTable, HandlerAt, serverVars
  <2>2. /\ handler.conn \in Conns /\ Known(handler.conn)
        /\ Left(handler.conn) /\ Started(handler.conn)
    BY <2>1 DEF TypeInv, HandlerInv, LinkInv, LeavingInv, Deleting
  <2> QED  BY <1>6, <2>1, <2>2
<1>10. CASE ReceiveConnected \/ PutId \/ MoveId \/ MoveConn \/ ClearId \/ ClearConn
  BY <1>5, <1>10
  DEF ReceiveConnected, PutId, MoveId, MoveConn, ClearId, ClearConn, WriteField,
      connVars, serverVars
<1> QED  BY <1>7, <1>8, <1>9, <1>10 DEF HandlerStep

LEMMA ServerAnswered ==
  ASSUME TypeInv, GreetInv, LinkInv, NEW c \in Conns, ServerStep(c)
  PROVE  Answered
<1> DEFINE s == server[c]
<1>1. /\ UNCHANGED <<sock, turn>> /\ crashed = FALSE /\ s.pc # "none" /\ Known(c)
  BY DEF ServerStep, ServeRead, ServeEOF, PublishDisconnected, ServeScan,
         ServeTake, ServeWrite, Written, ServeDial, ServeSelf, ServerAt, connVars,
         clientVars, TypeInv, TypeOK, ServerInv
<1>2. /\ peer \in [Conns -> {"absent", "open", "eof", "reset"}]
      /\ outbox \in [Conns -> Seq(Packet)] /\ s \in ServerState
  BY DEF TypeInv, TypeOK
<1>3. ASSUME NEW t, server' = [server EXCEPT ![c] = t] \/ server' = server,
             t.pc # "none"
      PROVE  \A d \in Conns : Started(d)' <=> Started(d)
  BY <1>1, <1>3 DEF Started, TypeInv, TypeOK
<1>4. ASSUME UNCHANGED <<peer, outbox>>, crashed' \in BOOLEAN,
             \A d \in Conns : Started(d)' <=> Started(d)
      PROVE  Answered
  BY <1>1, <1>4, QuietStep DEF Clients, Left
<1>5. CASE ServeRead(c)
  <2> DEFINE f == Head(inbox[c])
             scan == [pc |-> "scan", packet |-> Forwarded(f),
                      to |-> f.payload[1], at |-> 1, n |-> len,
                      target |-> NoConn]
  <2>1. /\ UNCHANGED <<peer, outbox>> /\ crashed' \in BOOLEAN
        /\ server' = [server EXCEPT ![c] = scan] \/ server' = server
    BY <1>5 DEF ServeRead
  <2>2. scan.pc # "none"
    OBVIOUS
  <2> HIDE DEF scan
  <2>3. \A d \in Conns : Started(d)' <=> Started(d)
    BY <1>3, <2>1, <2>2
  <2> QED  BY <1>4, <2>1, <2>3
<1>6. CASE ServeEOF(c)
  <2>1. /\ UNCHANGED <<outbox, crashed>> /\ peer[c] # "open"
        /\ peer' = peer \/ peer' = [peer EXCEPT ![c] = "eof"]
        /\ server' = server \/ server' = [server EXCEPT ![c].pc = "publish"]
    BY <1>6 DEF ServeEOF
  <2>2. peer[c] \in {"eof", "reset"}
    BY <1>1, <1>2, <2>1 DEF GreetInv, ConnInv, FreshInv
  <2>3. \A d \in Conns : /\ (peer'[d] = "absent") <=> (peer[d] = "absent")
                         /\ Left(d)' <=> Left(d)
    BY <1>2, <2>1, <2>2 DEF Left
  <2>4. \A d \in Conns : Started(d)' <=> Started(d)
    <3> DEFINE t == [s EXCEPT !.pc = "publish"]
    <3>1. t.pc = "publish" /\ (server' = [server EXCEPT ![c] = t] \/ server' = server)
      BY <1>2, <2>1 DEF ServerState
    <3> HIDE DEF t
    <3> QED  BY <1>3, <3>1
  <2>5. crashed' \in BOOLEAN
    BY <1>1, <2>1
  <2> QED  BY <1>1, <2>1, <2>3, <2>4, <2>5, QuietStep DEF Clients
<1>7. CASE ServeWrite(c)
  <2>1. /\ UNCHANGED peer /\ s.pc = "write" /\ crashed' \in BOOLEAN
        /\ server' = [server EXCEPT ![c] = ServerIdle("read")]
    BY <1>7 DEF ServeWrite, Written, ServerAt, clientVars
  <2>2. \A d \in Conns : Started(d)' <=> Started(d)
    BY <1>1, <2>1 DEF Started, ServerIdle, TypeInv, TypeOK
  <2>3. CASE outbox' = outbox
    BY <1>4, <2>1, <2>2, <2>3
  <2>4. CASE /\ Serializable(s.packet) /\ s.target # NoConn
             /\ sock[s.target] = "open" /\ peer[s.target] = "open"
             /\ outbox' = [outbox EXCEPT ![s.target] = Append(@, s.packet)]
             /\ crashed' = FALSE
    <3>1. s.target \in Conns /\ Started(s.target)
      BY <1>2, <2>1, <2>4 DEF LinkInv, StartedInv, ServerState
    <3> SUFFICES ASSUME NEW t \in Conns, t = s.target
                 PROVE  Answered
      BY <3>1
    <3>2. /\ outbox'[t] = Append(outbox[t], s.packet)
          /\ \A d \in Conns : d # t => outbox'[d] = outbox[d]
      BY <1>2, <2>4
    <3>3. \A d \in Clients : d # t => LinkOf(d)' = LinkOf(d)
      BY <1>1, <2>1, <2>2, <3>2, SameLink DEF Clients, Left
    <3>4. CASE t \notin Clients
      BY <1>1, <2>1, <3>3, <3>4, SameLinks, UnseenStep
    <3>5. CASE t \in Clients
      <4>1. s.packet \in Packet /\ s.packet.type \in {TypePing, TypeSend}
        BY <1>2, <2>4, Traffic DEF GreetInv, ServerState
      <4>2. Kind(s.packet) \in {"PING", "SEND"}
        <5>1. s.packet # AcceptPacket
          BY <4>1 DEF AcceptPacket, Build, TypeInit, TypePing, TypeSend
        <5> QED  BY <4>1, <5>1 DEF Kind
      <4>3. Heard(t)' = Append(Heard(t), Kind(s.packet))
        BY <1>2, <3>2, <4>1, HeardMore
      <4>4. LinkState(t) = "served" /\ LinkState(t)' = LinkState(t)
        BY <1>1, <2>1, <2>2, <2>4, <3>1 DEF LinkState, Started
      <4>5. Left(t) = FALSE /\ Left(t)' = Left(t)
        BY <2>1, <2>4 DEF Left
      <4>6. Links' = [Links EXCEPT ![t] =
                        [state |-> LinkState(t), sent |-> turn[t],
                         heard |-> Heard(t)', left |-> Left(t)]]
        BY <1>1, <3>3, <3>5, <4>4, <4>5, OneLinkChanges
      <4>7. [Links[t] EXCEPT !.heard = Heard(t)'] =
              [state |-> LinkState(t), sent |-> turn[t],
               heard |-> Heard(t)', left |-> Left(t)]
        BY <3>5, UpdatedLink
      <4>8. Links' = [Links EXCEPT ![t].heard = Append(Heard(t), Kind(s.packet))]
        BY <4>3, <4>6, <4>7
      <4>9. Contract!LinkDeliver(t)
        BY <1>1, <2>4, <3>5, <4>2, <4>4, <4>5, <4>8, LinkParts
        DEF Contract!LinkDeliver, Contract!LinkIs
      <4> QED
        BY <3>5, <4>9 DEF Answered, Contract!LinkNext, Contract!AdmiralSide
    <3> QED  BY <3>4, <3>5
  <2> QED  BY <1>7, <2>3, <2>4 DEF ServeWrite, Written
<1>8. CASE ServeDial(c)
  <2>1. UNCHANGED outbox /\ crashed' = FALSE
    BY <1>1, <1>8 DEF ServeDial
  <2>2. CASE server' = [server EXCEPT ![c] = ServerIdle("read")] /\ UNCHANGED peer
    <3>1. \A d \in Conns : Started(d)' <=> Started(d)
      BY <1>1, <2>2 DEF Started, ServerIdle, TypeInv, TypeOK
    <3> QED  BY <1>4, <2>1, <2>2, <3>1
  <2>3. ASSUME NEW d \in SelfConns,
               peer' = [peer EXCEPT ![d] = "open"],
               server' = [server EXCEPT ![c].pc = "self", ![c].target = d]
        PROVE  Answered
    <3>1. \A e \in Clients : peer'[e] = peer[e]
      BY <1>2, <2>3 DEF Clients
    <3>2. \A e \in Conns : Started(e)' <=> Started(e)
      BY <1>1, <2>3 DEF Started, TypeInv, TypeOK, ServerState
    <3> QED  BY <1>1, <2>1, <3>1, <3>2, QuietStep DEF Clients, Left
  <2> QED  BY <1>8, <2>2, <2>3 DEF ServeDial
<1>9. CASE PublishDisconnected(c) \/ ServeSelf(c)
  <2>1. UNCHANGED <<peer, outbox>> /\ crashed' = FALSE
    BY <1>1, <1>9 DEF PublishDisconnected, ServeSelf, connVars, clientVars
  <2>2. \/ server' = [server EXCEPT ![c] = ServerIdle("done")]
        \/ server' = [server EXCEPT ![c] = ServerIdle("read")]
    BY <1>9 DEF PublishDisconnected, ServeSelf
  <2>3. \A d \in Conns : Started(d)' <=> Started(d)
    <3>1. ServerIdle("done").pc = "done" /\ ServerIdle("read").pc = "read"
      BY DEF ServerIdle
    <3> QED  BY <1>1, <2>2, <3>1 DEF Started, TypeInv, TypeOK
  <2> QED  BY <1>4, <2>1, <2>3
<1>10. CASE ServeScan(c) \/ ServeTake(c)
  <2>1. UNCHANGED <<peer, outbox>> /\ crashed' = FALSE
    BY <1>1, <1>10 DEF ServeScan, ServeTake, connVars, clientVars
  <2>2. CASE ServeTake(c)
    <3> DEFINE t == [s EXCEPT !.pc = "write", !.target = slots[s.at].conn]
    <3>1. t.pc = "write" /\ server' = [server EXCEPT ![c] = t]
      BY <1>2, <2>2 DEF ServeTake, ServerState
    <3> HIDE DEF t
    <3> QED  BY <1>3, <1>4, <2>1, <3>1
  <2>3. CASE ServeScan(c)
    <3> DEFINE t == IF s.at > s.n THEN [s EXCEPT !.pc = "dial"]
                    ELSE IF slots[s.at].service = s.to THEN [s EXCEPT !.pc = "take"]
                    ELSE [s EXCEPT !.at = s.at + 1]
    <3>1. server' = [server EXCEPT ![c] = t]
      BY <2>3 DEF ServeScan
    <3>2. t.pc # "none"
      BY <1>1, <1>2 DEF ServerState
    <3> HIDE DEF t
    <3> QED  BY <1>3, <1>4, <2>1, <3>1, <3>2
  <2> QED  BY <1>10, <2>2, <2>3
<1> QED  BY <1>5, <1>6, <1>7, <1>8, <1>9, <1>10 DEF ServerStep

-----------------------------------------------------------------------------

LEMMA StepAnswered == TypeInv /\ GreetInv /\ LinkInv /\ [Next]_vars => Answered
<1> SUFFICES ASSUME TypeInv, GreetInv, LinkInv, [Next]_vars PROVE Answered
  OBVIOUS
<1>1. CASE UNCHANGED vars
  <2>1. /\ UNCHANGED <<peer, sock, turn, outbox, server, crashed>>
    BY <1>1
    DEF vars, connVars, clientVars, sharedVars, acceptorVars, serverVars
  <2>2. \A c \in Clients : LinkOf(c)' = LinkOf(c)
    BY <2>1, SameLink DEF Clients, Left, Started
  <2> QED  BY <2>1, <2>2, SameLinks DEF Answered
<1> QED
  BY <1>1, ClientAnswered, AcceptorAnswered, HandlerAnswered, ServerAnswered
  DEF Next

LEMMA InitAnswered == Init => Contract!LinkInit
<1> SUFFICES ASSUME Init PROVE Contract!LinkInit
  OBVIOUS
<1>1. \A c \in Clients :
        LinkOf(c) = [state |-> "off", sent |-> 0, heard |-> <<>>, left |-> FALSE]
  <2> SUFFICES ASSUME NEW c \in Conns
               PROVE  LinkOf(c) = [state |-> "off", sent |-> 0, heard |-> <<>>,
                                   left |-> FALSE]
    BY DEF Clients
  <2>1. Heard(c) = <<>>
    BY InitTypeInv, HeardNothing DEF Init, TypeInv, TypeOK
  <2>2. LinkState(c) = "off" /\ Left(c) = FALSE /\ turn[c] = 0
    BY DEF Init, LinkState, Left
  <2> QED  BY <2>1, <2>2 DEF LinkOf
<1> QED  BY <1>1 DEF Init, Contract!LinkInit, Links

\* What a server reads, answers and writes is bounded by what its client sent.
THEOREM LinkInvariant == Spec => [](TypeInv /\ GreetInv /\ LinkInv)
<1>1. Init => TypeInv /\ GreetInv /\ LinkInv
  BY InitTypeInv, InitGreetInv, InitLinkInv
<1>2. TypeInv /\ GreetInv /\ LinkInv /\ [Next]_vars
        => (TypeInv /\ GreetInv /\ LinkInv)'
  BY NextTypeInv, NextGreetInv, NextLinkInv
<1> QED  BY <1>1, <1>2, PTL DEF Spec

\* Broker implements AdmiralClient for each of its clients: nobody is answered
\* before it has sent two packets, served before it is answered, given a packet
\* while it is not served, or closed while it is served and stays.
THEOREM ContractTheorem == Spec => ContractIsKept
<1>1. Init => Contract!LinkInit
  BY InitAnswered
<1>2. TypeInv /\ GreetInv /\ LinkInv /\ [Next]_vars
        => [Contract!LinkNext]_<<Links, crashed>>
  BY StepAnswered DEF Answered
<1> QED
  BY <1>1, <1>2, LinkInvariant, PTL DEF Spec, ContractIsKept, Contract!LinkSpec

-----------------------------------------------------------------------------
(* What admiral hands on *)

BrokerInv == TypeInv /\ GreetInv /\ LinkInv

\* The server of c holds the packet it read last.
Busy(c) == server[c].pc \in {"scan", "take", "write", "dial"}

\* admiral has read this many of the packets of c, and has done with this many.
Consumed(c) == turn[c] - Len(inbox[c])
Finished(c) == IF Busy(c) THEN Consumed(c) - 1 ELSE Consumed(c)

\* A server that read f sends packet on to the service to.
Routed(f, to, packet) ==
  /\ f # BadFrame /\ Len(f.payload) >= 2 /\ f.payload[1] = to
  /\ packet = Forwarded(f)

\* admiral never accepts a connection to itself: it only sends PING and SEND
\* packets, and the handshake begins with INIT.
RefusedInv ==
  \A d \in SelfConns :
    /\ ~Known(d)
    /\ acceptor.conn = d => acceptor.pc \notin {"send", "publish"}
    /\ \A j \in 1 .. Len(inbox[d]) :
         inbox[d][j] # BadFrame => inbox[d][j].type # TypeInit

\* What a step does to a client: nothing to its packets, it sends one, or
\* admiral reads one.
Idles(c) ==
  /\ inbox'[c] = inbox[c] /\ turn'[c] = turn[c]
  /\ Busy(c)' => /\ Busy(c) /\ server'[c].to = server[c].to
                 /\ server'[c].packet = server[c].packet
Writes(c) ==
  /\ server'[c] = server[c]
  /\ peer[c] = "open" /\ turn[c] < Len(Menu[c]) /\ turn'[c] = turn[c] + 1
  /\ \E f \in Menu[c][turn[c] + 1] : inbox'[c] = Append(inbox[c], f)
Reads(c) ==
  /\ inbox[c] # <<>> /\ inbox'[c] = Tail(inbox[c]) /\ turn'[c] = turn[c]
  /\ ~Busy(c)
  /\ Busy(c)' => Known(c) /\ Routed(Head(inbox[c]), server'[c].to, server'[c].packet)

Moves == \A c \in Clients : Idles(c) \/ Writes(c) \/ Reads(c)

\* Nobody is forgotten, and who is new has claimed to be a configured service.
Lasting ==
  \A c \in Conns : /\ Known(c) => service'[c] = service[c]
                   /\ peer[c] # "absent" => peer'[c] # "absent"
Claims(c, f) ==
  /\ f # BadFrame /\ f.type = TypeSend /\ Len(f.payload) >= 2
  /\ f.payload[1] = Admiral /\ SenderIsValid(c, f.payload[2])
Admits ==
  \A c \in Conns : ~Known(c) /\ Known(c)' =>
    /\ c \notin SelfConns /\ acceptor.conn = c /\ acceptor.pc = "send"
    /\ inbox[c] # <<>> /\ inbox'[c] = Tail(inbox[c]) /\ turn'[c] = turn[c]
    /\ Claims(c, Head(inbox[c]))

\* What admiral has handed on stays as it is, or one server hands on, at the place
\* h and after everything there, the packet it holds.
Carried(packet) == IF Serializable(packet) THEN packet ELSE BadFrame
HandsOn(c, h) ==
  /\ Busy(c) /\ ~Busy(c)' /\ inbox'[c] = inbox[c] /\ turn'[c] = turn[c]
  /\ h[1] = "service" => server[c].to = h[2]
  /\ h \notin HandedOn /\ HandedOn' = HandedOn \cup {h}
  /\ Item(h)' = Carried(server[c].packet)
  /\ \A g \in HandedOn : /\ Item(g)' = Item(g)
                         /\ (g[1] = h[1] /\ g[2] = h[2]) => g[3] < h[3]
Rests == HandedOn' = HandedOn /\ \A g \in HandedOn : Item(g)' = Item(g)
Hands == Rests \/ \E c \in Conns : \E h \in HandedOn' : HandsOn(c, h)

-----------------------------------------------------------------------------

LEMMA ClientsMove ==
  ASSUME BrokerInv, NEW c \in Conns, ClientStep(c)
  PROVE  Moves /\ Lasting /\ UNCHANGED <<service, dialled, acceptor, server>>
<1>1. UNCHANGED <<service, dialled, acceptor, server>>
  BY DEF ClientStep, Connect, ClientSend, ClientLeave, Finalize, sharedVars,
         acceptorVars, handlerVars, serverVars
<1>2. Lasting
  BY <1>1 DEF ClientStep, Connect, ClientSend, ClientLeave, Finalize, ClientIs,
              Lasting, BrokerInv, TypeInv, TypeOK
<1>3. CASE ClientSend(c)
  <2>1. PICK f \in Menu[c][turn[c] + 1] :
          inbox' = [inbox EXCEPT ![c] = Append(inbox[c], f)]
    BY <1>3 DEF ClientSend
  <2>2. turn' = [turn EXCEPT ![c] = turn[c] + 1] /\ turn[c] < Len(Menu[c])
        /\ peer[c] = "open"
    BY <1>3 DEF ClientSend, ClientIs
  <2>3. inbox \in [Conns -> Seq(Incoming)] /\ turn \in [Conns -> Nat]
    BY DEF BrokerInv, TypeInv, TypeOK
  <2> SUFFICES ASSUME NEW d \in Clients PROVE Idles(d) \/ Writes(d)
    BY <1>1, <1>2 DEF Moves
  <2>4. CASE d = c
    <3>1. inbox'[c] = Append(inbox[c], f) /\ turn'[c] = turn[c] + 1
      BY <2>1, <2>2, <2>3
    <3> QED  BY <1>1, <2>1, <2>2, <2>4, <3>1 DEF Writes
  <2>5. CASE d # c
    <3>1. d \in Conns
      BY DEF Clients
    <3>2. inbox'[d] = inbox[d] /\ turn'[d] = turn[d]
      BY <2>1, <2>2, <2>3, <2>5, <3>1
    <3> QED  BY <1>1, <3>2 DEF Idles, Busy
  <2> QED  BY <2>4, <2>5
<1>4. CASE Connect(c) \/ ClientLeave(c) \/ Finalize(c)
  <2>1. UNCHANGED <<inbox, turn>>
    BY <1>4 DEF Connect, ClientLeave, Finalize
  <2> QED  BY <1>1, <1>2, <2>1 DEF Moves, Idles, Busy
<1> QED  BY <1>1, <1>2, <1>3, <1>4 DEF ClientStep

LEMMA AcceptorMoves ==
  ASSUME BrokerInv, RefusedInv, AcceptorStep
  PROVE  /\ Moves /\ Lasting /\ Admits /\ RefusedInv'
         /\ UNCHANGED <<peer, turn, dialled, server>>
<1> DEFINE c == acceptor.conn
<1>1. UNCHANGED <<peer, turn, dialled, server>>
  BY DEF AcceptorStep, Accept, HandshakeReadFails, ReadInit, ReadSend,
         PublishConnected, connVars, clientVars, handlerVars, serverVars
<1>2. inbox \in [Conns -> Seq(Incoming)] /\ service \in [Conns -> Services \cup {NoService}]
      /\ acceptor \in AcceptorState /\ NoConn \notin Conns /\ SelfConns \subseteq Conns
  BY ConnsAssumption DEF BrokerInv, TypeInv, TypeOK
<1>3. CASE UNCHANGED <<inbox, service>> /\ (Accept \/ HandshakeReadFails \/ PublishConnected)
  <2>1. Moves /\ Lasting /\ Admits
    BY <1>1, <1>3 DEF Moves, Idles, Busy, Lasting, Admits, Known
  <2>2. \A d \in SelfConns : acceptor'.conn = d => acceptor'.pc \notin {"send", "publish"}
    BY <1>2, <1>3
    DEF Accept, HandshakeReadFails, PublishConnected, Reject, AcceptorIdle
  <2>3. RefusedInv'
    BY <1>3, <2>2 DEF RefusedInv, Known
  <2> QED  BY <1>1, <2>1, <2>3
<1>4. CASE ReadInit \/ ReadSend
  <2>1. /\ c \in Conns /\ inbox[c] # <<>> /\ ~Known(c) /\ server[c].pc = "none"
        /\ inbox' = [inbox EXCEPT ![c] = Tail(inbox[c])]
    BY <1>4
    DEF ReadInit, ReadSend, AcceptorAt, BrokerInv, TypeInv, AcceptorInv, ServerInv,
        GreetInv, ConnInv, GreetingInv
  <2>2. /\ Head(inbox[c]) = inbox[c][1] /\ Len(inbox[c]) >= 1
        /\ Len(Tail(inbox[c])) = Len(inbox[c]) - 1 /\ Len(inbox[c]) \in Nat
        /\ \A i \in 1 .. Len(inbox[c]) - 1 : Tail(inbox[c])[i] = inbox[c][i + 1]
    <3>1. inbox[c] \in Seq(Incoming)
      BY <1>2, <2>1
    <3> QED  BY <2>1, <3>1, HeadAndTail, LenProperties
  <2>3. Moves
    <3> SUFFICES ASSUME NEW d \in Clients PROVE Idles(d) \/ Reads(d)
      BY DEF Moves
    <3>1. d \in Conns
      BY DEF Clients
    <3>2. CASE d = c
      BY <1>1, <1>2, <2>1, <3>2 DEF Reads, Busy
    <3>3. CASE d # c
      BY <1>1, <1>2, <2>1, <3>1, <3>3 DEF Idles, Busy
    <3> QED  BY <3>2, <3>3
  <2>4. CASE Reject(c) /\ UNCHANGED service
    <3>1. UNCHANGED service /\ acceptor'.conn = NoConn
      BY <2>4 DEF Reject, AcceptorIdle
    <3>2. RefusedInv'
      <4> SUFFICES ASSUME NEW d \in SelfConns
                   PROVE  \A j \in 1 .. Len(inbox'[d]) :
                            inbox'[d][j] # BadFrame => inbox'[d][j].type # TypeInit
        BY <1>2, <3>1 DEF RefusedInv, Known
      <4>1. CASE d = c
        BY <1>2, <2>1, <2>2, <4>1 DEF RefusedInv
      <4>2. CASE d # c
        BY <1>2, <2>1, <4>2 DEF RefusedInv
      <4> QED  BY <4>1, <4>2
    <3>3. Lasting /\ Admits
      BY <1>1, <3>1 DEF Lasting, Admits, Known
    <3> QED  BY <1>1, <2>3, <3>2, <3>3
  <2>5. CASE /\ ReadInit /\ acceptor' = [acceptor EXCEPT !.pc = "send"]
             /\ Head(inbox[c]) # BadFrame /\ Head(inbox[c]).type = TypeInit
    <3>1. UNCHANGED service
      BY <2>5 DEF ReadInit
    <3>2. c \notin SelfConns
      BY <2>2, <2>5 DEF RefusedInv
    <3>3. RefusedInv'
      <4>1. acceptor'.conn = c
        BY <1>2, <2>5 DEF AcceptorState
      <4>2. \A d \in SelfConns : inbox'[d] = inbox[d]
        BY <1>2, <2>1, <3>2
      <4> QED  BY <3>1, <3>2, <4>1, <4>2 DEF RefusedInv, Known
    <3>4. Lasting /\ Admits
      BY <1>1, <3>1 DEF Lasting, Admits, Known
    <3> QED  BY <1>1, <2>3, <3>3, <3>4
  <2>6. CASE /\ ReadSend /\ acceptor' = [acceptor EXCEPT !.pc = "publish"]
             /\ service' = [service EXCEPT ![c] = Head(inbox[c]).payload[2]]
             /\ acceptor.pc = "send" /\ Claims(c, Head(inbox[c]))
    <3>1. c \notin SelfConns
      BY <1>2, <2>6 DEF RefusedInv
    <3>2. RefusedInv'
      <4>1. acceptor'.conn = c
        BY <1>2, <2>6 DEF AcceptorState
      <4>2. \A d \in SelfConns : inbox'[d] = inbox[d] /\ service'[d] = service[d]
        BY <1>2, <2>1, <2>6, <3>1
      <4> QED  BY <3>1, <4>1, <4>2 DEF RefusedInv, Known
    <3>3. \A d \in Conns : d # c => service'[d] = service[d]
      BY <1>2, <2>6
    <3>4. Lasting
      BY <1>1, <2>1, <3>3 DEF Lasting, Known
    <3>5. inbox'[c] = Tail(inbox[c])
      BY <1>2, <2>1
    <3>6. Admits
      <4> SUFFICES ASSUME NEW d \in Conns, ~Known(d), Known(d)' PROVE d = c
        BY <1>1, <2>1, <2>6, <3>1, <3>5 DEF Admits
      <4> QED  BY <3>3 DEF Known
    <3> QED  BY <1>1, <2>3, <3>2, <3>4, <3>6
  <2>7. ReadSend =>
          \/ Reject(c) /\ UNCHANGED service
          \/ /\ acceptor' = [acceptor EXCEPT !.pc = "publish"]
             /\ service' = [service EXCEPT ![c] = Head(inbox[c]).payload[2]]
             /\ acceptor.pc = "send" /\ Claims(c, Head(inbox[c]))
    <3> SUFFICES ASSUME ReadSend, ~(Reject(c) /\ UNCHANGED service)
                 PROVE  /\ acceptor' = [acceptor EXCEPT !.pc = "publish"]
                        /\ service' = [service EXCEPT ![c] = Head(inbox[c]).payload[2]]
                        /\ acceptor.pc = "send" /\ Claims(c, Head(inbox[c]))
      OBVIOUS
    <3> DEFINE f == Head(inbox[c])
    <3>1. /\ f # BadFrame /\ f.type = TypeSend /\ ~(Len(f.payload) < 2)
          /\ f.payload[1] = Admiral /\ SenderIsValid(c, f.payload[2])
          /\ acceptor' = [acceptor EXCEPT !.pc = "publish"]
          /\ service' = [service EXCEPT ![c] = f.payload[2]]
          /\ acceptor.pc = "send"
      BY DEF ReadSend, AcceptorAt
    <3>2. Len(f.payload) \in Nat
      <4>1. f \in Incoming
        BY <1>2, <2>1, HeadAndTail
      <4> QED  BY <3>1, <4>1, LenProperties DEF Incoming, Packet
    <3> QED  BY <3>1, <3>2 DEF Claims
  <2>8. ReadInit => \/ Reject(c) /\ UNCHANGED service
                    \/ /\ acceptor' = [acceptor EXCEPT !.pc = "send"]
                       /\ Head(inbox[c]) # BadFrame /\ Head(inbox[c]).type = TypeInit
    BY DEF ReadInit
  <2> QED  BY <1>4, <2>4, <2>5, <2>6, <2>7, <2>8
<1>5. Accept \/ HandshakeReadFails \/ PublishConnected => UNCHANGED <<inbox, service>>
  BY DEF Accept, HandshakeReadFails, PublishConnected, connVars, clientVars
<1> QED  BY <1>3, <1>4, <1>5 DEF AcceptorStep

LEMMA HandlerMoves ==
  ASSUME BrokerInv, RefusedInv, HandlerStep
  PROVE  /\ Moves /\ Lasting /\ RefusedInv'
         /\ UNCHANGED <<peer, inbox, turn, dialled, acceptor, service>>
<1>1. UNCHANGED <<peer, inbox, turn, dialled, acceptor, service>>
  BY DEF HandlerStep, ReceiveConnected, PutId, PutConn, ReceiveDisconnected,
         MoveId, MoveConn, ClearId, ClearConn, WriteField, StoreTable, connVars,
         clientVars, acceptorVars, serverVars
<1>2. \A c \in Conns : server'[c] = server[c] \/ server'[c].pc = "read"
  <2>1. CASE PutConn
    BY <2>1 DEF PutConn, ServerIdle, BrokerInv, TypeInv, TypeOK
  <2>2. CASE ~PutConn
    <3>1. UNCHANGED server
      BY <2>2
      DEF HandlerStep, ReceiveConnected, PutId, ReceiveDisconnected, MoveId, MoveConn,
          ClearId, ClearConn, WriteField, StoreTable, serverVars
    <3> QED  BY <3>1
  <2> QED  BY <2>1, <2>2
<1>3. \A c \in Clients : Idles(c)
  BY <1>1, <1>2 DEF Idles, Busy, Clients
<1> QED  BY <1>1, <1>3 DEF Moves, Lasting, RefusedInv, Known

\* A server of a client is started, hence known.
LEMMA StartedIsClient ==
  ASSUME BrokerInv, RefusedInv, NEW c \in Conns, server[c].pc # "none"
  PROVE  c \in Clients
BY DEF BrokerInv, TypeInv, ServerInv, RefusedInv, Clients

LEMMA ServersMove ==
  ASSUME BrokerInv, RefusedInv, NEW c \in Conns, ServerStep(c)
  PROVE  /\ Moves /\ Lasting /\ RefusedInv'
         /\ UNCHANGED <<turn, acceptor, service>>
<1>1. UNCHANGED <<turn, acceptor, service>>
  BY DEF ServerStep, ServeRead, ServeEOF, PublishDisconnected, ServeScan, ServeTake,
         ServeWrite, Written, ServeDial, ServeSelf, connVars, clientVars, acceptorVars
<1>2. /\ peer \in [Conns -> {"absent", "open", "eof", "reset"}]
      /\ inbox \in [Conns -> Seq(Incoming)] /\ server \in [Conns -> ServerState]
      /\ dialled \in [Services -> Seq(Incoming)]
      /\ SelfConns \subseteq Conns
  BY ConnsAssumption DEF BrokerInv, TypeInv, TypeOK
<1>3. c \in Clients /\ c \notin SelfConns
  BY StartedIsClient
  DEF Clients, ServerStep, ServeRead, ServeEOF, PublishDisconnected, ServeScan,
      ServeTake, ServeWrite, Written, ServeDial, ServeSelf, ServerAt
<1>4. Lasting
  BY <1>1, <1>2
  DEF ServerStep, ServeRead, ServeEOF, PublishDisconnected, ServeScan, ServeTake,
      ServeWrite, Written, ServeDial, ServeSelf, connVars, clientVars, Lasting
<1>5. \A d \in Conns : d # c => server'[d] = server[d]
  BY <1>2
  DEF ServerStep, ServeRead, ServeEOF, PublishDisconnected, ServeScan, ServeTake,
      ServeWrite, Written, ServeDial, ServeSelf
<1>6. CASE ServeRead(c)
  <2> DEFINE f == Head(inbox[c])
  <2>1. /\ inbox[c] # <<>> /\ inbox' = [inbox EXCEPT ![c] = Tail(inbox[c])]
        /\ server[c].pc = "read" /\ UNCHANGED dialled
        /\ \/ server' = server
           \/ /\ f # BadFrame /\ ~(Len(f.payload) < 2)
              /\ server' = [server EXCEPT ![c] =
                   [pc |-> "scan", packet |-> Forwarded(f), to |-> f.payload[1],
                    at |-> 1, n |-> len, target |-> NoConn]]
    BY <1>6 DEF ServeRead, ServerAt
  <2>2. f # BadFrame => Len(f.payload) \in Nat
    <3>1. f \in Incoming
      BY <1>2, <2>1, HeadAndTail
    <3> QED  BY <3>1, LenProperties DEF Incoming, Packet
  <2>3. Busy(c)' => Routed(f, server'[c].to, server'[c].packet)
    BY <1>2, <2>1, <2>2 DEF Busy, Routed
  <2>4. Known(c)
    BY <2>1 DEF BrokerInv, TypeInv, ServerInv
  <2>5. Reads(c)
    BY <1>1, <1>2, <2>1, <2>3, <2>4 DEF Reads, Busy
  <2>6. \A d \in Conns : d # c => Idles(d)
    BY <1>1, <1>2, <1>5, <2>1 DEF Idles, Busy
  <2>7. RefusedInv'
    BY <1>1, <1>2, <1>3, <2>1 DEF RefusedInv, Known
  <2> QED  BY <1>1, <1>4, <2>1, <2>5, <2>6, <2>7 DEF Moves, Clients
<1>7. CASE ServeSelf(c)
  <2> DEFINE t == server[c].target
             p == server[c].packet
  <2>1. /\ server[c].pc = "self" /\ UNCHANGED dialled
        /\ server'[c].pc = "read"
        /\ \/ UNCHANGED inbox
           \/ /\ Serializable(p)
              /\ inbox' = [inbox EXCEPT ![t] = Append(inbox[t], Arriving(p))]
    BY <1>2, <1>7 DEF ServeSelf, ServerAt, ServerIdle
  <2>2. t \in SelfConns /\ p \in Packet
    BY <1>2, <2>1 DEF BrokerInv, LinkInv, SelfInv, ServerState
  <2>3. \A d \in Clients : Idles(d)
    <3>1. \A d \in Clients : inbox'[d] = inbox[d] /\ d \in Conns
      BY <1>2, <2>1, <2>2 DEF Clients
    <3> QED  BY <1>1, <1>5, <2>1, <3>1 DEF Idles, Busy
  <2>4. RefusedInv'
    <3> SUFFICES ASSUME NEW d \in SelfConns
                 PROVE  \A j \in 1 .. Len(inbox'[d]) :
                          inbox'[d][j] # BadFrame => inbox'[d][j].type # TypeInit
      BY <1>1 DEF RefusedInv, Known
    <3>1. CASE inbox'[d] = inbox[d]
      BY <3>1 DEF RefusedInv
    <3>2. CASE Serializable(p) /\ inbox'[d] = Append(inbox[d], Arriving(p))
      <4>1. p.type # TypeInit
        BY <3>2, Traffic DEF BrokerInv, GreetInv, TypePing, TypeSend, TypeInit
      <4>2. Arriving(p) \in Incoming /\ (Arriving(p) # BadFrame => Arriving(p) = p)
        BY <2>2 DEF Arriving, Incoming
      <4> DEFINE a == Arriving(p)
      <4>3. /\ Len(Append(inbox[d], a)) = Len(inbox[d]) + 1
            /\ \A i \in 1 .. Len(inbox[d]) : Append(inbox[d], a)[i] = inbox[d][i]
            /\ Append(inbox[d], a)[Len(inbox[d]) + 1] = a
            /\ Len(inbox[d]) \in Nat
        <5>1. inbox[d] \in Seq(Incoming) /\ a \in Incoming
          BY <1>2, <4>2
        <5> HIDE DEF a
        <5> QED  BY <5>1, AppendProperties, LenProperties
      <4> QED  BY <3>2, <4>1, <4>2, <4>3 DEF RefusedInv
    <3> QED  BY <1>2, <2>1, <2>2, <3>1, <3>2
  <2> QED  BY <1>1, <1>4, <2>1, <2>3, <2>4 DEF Moves
<1>8. CASE ServeDial(c)
  <2>1. UNCHANGED inbox /\ server[c].pc = "dial"
    BY <1>8 DEF ServeDial, ServerAt
  <2>2. server'[c].pc \in {"read", "self"}
    <3>1. \/ server' = [server EXCEPT ![c] = ServerIdle("read")]
          \/ \E d \in SelfConns :
               server' = [server EXCEPT ![c].pc = "self", ![c].target = d]
      BY <1>8 DEF ServeDial
    <3> QED  BY <1>2, <3>1 DEF ServerIdle, ServerState
  <2>3. Moves /\ RefusedInv'
    BY <1>1, <1>5, <2>1, <2>2 DEF Moves, Idles, Busy, RefusedInv, Clients, Known
  <2> QED  BY <1>1, <1>4, <2>3
<1>9. CASE \/ ServeEOF(c) \/ PublishDisconnected(c) \/ ServeScan(c)
           \/ ServeTake(c) \/ ServeWrite(c)
  <2>1. UNCHANGED <<inbox, dialled>>
    BY <1>9 DEF ServeEOF, PublishDisconnected, ServeScan, ServeTake, ServeWrite, Written,
                connVars, clientVars
  <2>2. Busy(c)' => /\ Busy(c) /\ server'[c].to = server[c].to
                    /\ server'[c].packet = server[c].packet
    <3>1. CASE PublishDisconnected(c) \/ ServeWrite(c)
      BY <1>2, <3>1
      DEF PublishDisconnected, ServeWrite, Written, Busy, ServerIdle
    <3>4. CASE ServeEOF(c)
      <4>1. \/ server' = server /\ server[c].pc = "read"
            \/ server' = [server EXCEPT ![c].pc = "publish"]
        BY <3>4 DEF ServeEOF, ServerAt
      <4> QED  BY <1>2, <4>1 DEF Busy, ServerState
    <3>2. CASE ServeScan(c)
      BY <1>2, <3>2 DEF ServeScan, ServerAt, Busy, ServerState
    <3>3. CASE ServeTake(c)
      BY <1>2, <3>3 DEF ServeTake, ServerAt, Busy, ServerState
    <3> QED  BY <1>9, <3>1, <3>2, <3>3, <3>4
  <2>3. Moves
    BY <1>1, <1>5, <2>1, <2>2 DEF Moves, Idles, Busy, Clients
  <2>4. RefusedInv'
    BY <1>1, <2>1 DEF RefusedInv, Known
  <2> QED  BY <1>1, <1>4, <2>3, <2>4
<1> QED  BY <1>6, <1>7, <1>8, <1>9 DEF ServerStep

LEMMA NextMoves ==
  ASSUME BrokerInv, RefusedInv, [Next]_vars
  PROVE  /\ BrokerInv' /\ RefusedInv'
         /\ Moves /\ Lasting /\ Admits
<1>1. BrokerInv'
  BY NextTypeInv, NextGreetInv, NextLinkInv DEF BrokerInv
<1>2. CASE UNCHANGED vars
  <2>1. UNCHANGED <<peer, inbox, turn, service, acceptor, server, dialled>>
    BY <1>2 DEF vars, connVars, clientVars, sharedVars, acceptorVars, serverVars
  <2>2. RefusedInv' /\ Moves
    BY <2>1 DEF RefusedInv, Known, Moves, Idles, Busy
  <2>3. Lasting /\ Admits
    BY <2>1 DEF Lasting, Admits, Known
  <2> QED  BY <1>1, <2>2, <2>3
<1>3. ASSUME NEW c \in Conns, ClientStep(c)
      PROVE  RefusedInv' /\ Moves /\ Lasting /\ Admits
  <2>1. Moves /\ Lasting /\ UNCHANGED <<service, dialled, acceptor, server>>
    BY <1>3, ClientsMove
  <2>2. \A d \in SelfConns : inbox'[d] = inbox[d]
    <3>1. inbox \in [Conns -> Seq(Incoming)] /\ SelfConns \subseteq Conns
      BY ConnsAssumption DEF BrokerInv, TypeInv, TypeOK
    <3>2. CASE ClientSend(c)
      <4>1. c \notin SelfConns
        BY <3>2 DEF ClientSend, ClientIs
      <4>2. PICK f \in Menu[c][turn[c] + 1] :
              inbox' = [inbox EXCEPT ![c] = Append(inbox[c], f)]
        BY <3>2 DEF ClientSend
      <4> QED  BY <3>1, <4>1, <4>2
    <3>3. CASE Connect(c) \/ ClientLeave(c) \/ Finalize(c)
      BY <3>3 DEF Connect, ClientLeave, Finalize
    <3> QED  BY <1>3, <3>2, <3>3 DEF ClientStep
  <2>3. RefusedInv'
    BY <2>1, <2>2 DEF RefusedInv, Known
  <2>4. Admits
    BY <2>1 DEF Admits, Known
  <2> QED  BY <2>1, <2>3, <2>4
<1>4. CASE AcceptorStep
  BY <1>1, <1>4, AcceptorMoves
<1>5. CASE HandlerStep
  BY <1>1, <1>5, HandlerMoves DEF Admits, Known
<1>6. ASSUME NEW c \in Conns, ServerStep(c)
      PROVE  RefusedInv' /\ Moves /\ Lasting /\ Admits
  BY <1>6, ServersMove DEF Admits, Known
<1> QED  BY <1>1, <1>2, <1>3, <1>4, <1>5, <1>6 DEF Next

-----------------------------------------------------------------------------
(* The places of what is handed on *)

\* g is a place of what was written to clients (wrote) or dialled (called).
Place(g, wrote, called) ==
  \/ \E c \in Conns : \E n \in 2 .. Len(wrote[c]) : g = <<"client", c, n>>
  \/ \E s \in Services : \E n \in DOMAIN called[s] : g = <<"service", s, n>>

LEMMA HandedOnPlaces ==
  /\ \A g : g \in HandedOn <=> Place(g, outbox, dialled)
  /\ \A g : g \in HandedOn' <=> Place(g, outbox', dialled')
<1>1. ASSUME NEW g PROVE g \in HandedOn <=> Place(g, outbox, dialled)
  <2>1. \A c : g \in {"client"} \X {c} \X (2 .. Len(outbox[c]))
                 <=> \E n \in 2 .. Len(outbox[c]) : g = <<"client", c, n>>
    OBVIOUS
  <2>2. \A s : g \in {"service"} \X {s} \X DOMAIN dialled[s]
                 <=> \E n \in DOMAIN dialled[s] : g = <<"service", s, n>>
    OBVIOUS
  <2> QED  BY <2>1, <2>2 DEF HandedOn, Place
<1>2. ASSUME NEW g PROVE g \in HandedOn' <=> Place(g, outbox', dialled')
  <2>1. \A c : g \in {"client"} \X {c} \X (2 .. Len(outbox'[c]))
                 <=> \E n \in 2 .. Len(outbox'[c]) : g = <<"client", c, n>>
    OBVIOUS
  <2>2. \A s : g \in {"service"} \X {s} \X DOMAIN dialled'[s]
                 <=> \E n \in DOMAIN dialled'[s] : g = <<"service", s, n>>
    OBVIOUS
  <2> QED  BY <2>1, <2>2 DEF HandedOn, Place
<1> QED  BY <1>1, <1>2

LEMMA PlaceNumbers ==
  ASSUME NEW wrote \in [Conns -> Seq(Packet)], NEW called \in [Services -> Seq(Incoming)],
         NEW g, Place(g, wrote, called)
  PROVE  g[3] \in Int
<1>1. CASE \E c \in Conns : \E n \in 2 .. Len(wrote[c]) : g = <<"client", c, n>>
  <2>1. PICK c \in Conns : \E n \in 2 .. Len(wrote[c]) : g = <<"client", c, n>>
    BY <1>1
  <2>2. Len(wrote[c]) \in Nat
    BY LenProperties
  <2> QED  BY <2>1, <2>2
<1>2. CASE \E s \in Services : \E n \in DOMAIN called[s] : g = <<"service", s, n>>
  <2>1. PICK s \in Services : \E n \in DOMAIN called[s] : g = <<"service", s, n>>
    BY <1>2
  <2>2. DOMAIN called[s] = 1 .. Len(called[s]) /\ Len(called[s]) \in Nat
    BY LenProperties
  <2> QED  BY <2>1, <2>2
<1> QED  BY <1>1, <1>2 DEF Place

LEMMA SameHandedOn ==
  ASSUME UNCHANGED <<outbox, dialled>>
  PROVE  Rests
BY DEF Rests, HandedOn, Item

\* ACCEPT is not handed on.
LEMMA AcceptRests ==
  ASSUME TypeOK, NEW t \in Conns, outbox[t] = <<>>,
         outbox' = [outbox EXCEPT ![t] = Append(@, AcceptPacket)],
         UNCHANGED dialled
  PROVE  Rests
<1>1. outbox \in [Conns -> Seq(Packet)]
  BY DEF TypeOK
<1>2. outbox'[t] = Append(<<>>, AcceptPacket) /\ Len(outbox'[t]) = 1 /\ Len(outbox[t]) = 0
  BY <1>1
<1>3. \A c \in Conns : c # t => outbox'[c] = outbox[c]
  BY <1>1
<1>4. \A g : Place(g, outbox', dialled') <=> Place(g, outbox, dialled)
  BY <1>2, <1>3 DEF Place
<1>5. HandedOn' = HandedOn
  BY <1>4, HandedOnPlaces
<1>6. ASSUME NEW g \in HandedOn PROVE Item(g)' = Item(g)
  <2>1. Place(g, outbox, dialled)
    BY HandedOnPlaces
  <2>2. CASE \E c \in Conns : \E n \in 2 .. Len(outbox[c]) : g = <<"client", c, n>>
    <3>1. PICK c \in Conns : \E n \in 2 .. Len(outbox[c]) : g = <<"client", c, n>>
      BY <2>2
    <3>2. c # t
      BY <1>2, <3>1
    <3> QED  BY <1>3, <3>1, <3>2 DEF Item
  <2>3. CASE \E s \in Services : \E n \in DOMAIN dialled[s] : g = <<"service", s, n>>
    BY <2>3 DEF Item
  <2> QED  BY <2>1, <2>2, <2>3 DEF Place
<1> QED  BY <1>5, <1>6 DEF Rests

\* A packet written to a client that has something is handed on behind the rest.
LEMMA WriteHands ==
  ASSUME TypeOK, NEW t \in Conns, NEW p \in Packet, outbox[t] # <<>>,
         outbox' = [outbox EXCEPT ![t] = Append(@, p)], UNCHANGED dialled,
         NEW h, h = <<"client", t, Len(outbox[t]) + 1>>
  PROVE  /\ h \notin HandedOn /\ HandedOn' = HandedOn \cup {h} /\ Item(h)' = p
         /\ \A g \in HandedOn : /\ Item(g)' = Item(g)
                                /\ (g[1] = h[1] /\ g[2] = h[2]) => g[3] < h[3]
<1> DEFINE n == Len(outbox[t])
<1>1. outbox \in [Conns -> Seq(Packet)]
  BY DEF TypeOK
<1>2. outbox[t] \in Seq(Packet) /\ outbox'[t] = Append(outbox[t], p)
  BY <1>1
<1>3. n \in Nat /\ n >= 1
  BY <1>2, LenProperties, EmptySeq
<1>4. /\ Len(outbox'[t]) = n + 1 /\ outbox'[t][n + 1] = p
      /\ \A i \in 1 .. n : outbox'[t][i] = outbox[t][i]
  BY <1>2, AppendProperties
<1>5. \A c \in Conns : c # t => outbox'[c] = outbox[c]
  BY <1>1
<1> HIDE DEF n
<1>6. \A i : i \in 2 .. n + 1 <=> i \in 2 .. n \/ i = n + 1
  BY <1>3
<1>7. h = <<"client", t, n + 1>>
  BY DEF n
<1>8. \A c \in Conns : \A i : i \in 2 .. Len(outbox'[c]) <=>
                            i \in 2 .. Len(outbox[c]) \/ (c = t /\ i = n + 1)
  BY <1>4, <1>5, <1>6 DEF n
<1>9. \A g : Place(g, outbox', dialled') <=> Place(g, outbox, dialled) \/ g = h
  BY <1>7, <1>8, <1>3 DEF Place
<1>10. HandedOn' = HandedOn \cup {h}
  BY <1>9, HandedOnPlaces
<1>11. ASSUME NEW g \in HandedOn
       PROVE  /\ g # h /\ Item(g)' = Item(g)
              /\ (g[1] = h[1] /\ g[2] = h[2]) => g[3] < h[3]
  <2>1. Place(g, outbox, dialled)
    BY HandedOnPlaces
  <2>2. ASSUME NEW c \in Conns, NEW i \in 2 .. Len(outbox[c]), g = <<"client", c, i>>
        PROVE  /\ g # h /\ Item(g)' = Item(g)
               /\ (g[1] = h[1] /\ g[2] = h[2]) => g[3] < h[3]
    <3>1. CASE c = t
      <4>1. i \in 2 .. n /\ i \in 1 .. n /\ i < n + 1
        BY <1>3, <2>2, <3>1 DEF n
      <4> QED  BY <1>4, <1>7, <2>2, <3>1, <4>1 DEF Item
    <3>2. CASE c # t
      BY <1>5, <1>7, <2>2, <3>2 DEF Item
    <3> QED  BY <3>1, <3>2
  <2>3. ASSUME NEW s \in Services, NEW i \in DOMAIN dialled[s], g = <<"service", s, i>>
        PROVE  g # h /\ Item(g)' = Item(g) /\ g[1] # h[1]
    BY <1>7, <2>3 DEF Item
  <2> QED  BY <2>1, <2>2, <2>3 DEF Place
<1>12. Item(h)' = p
  BY <1>4, <1>7 DEF Item
<1> QED  BY <1>10, <1>11, <1>12

\* So is the packet of one more dial.
LEMMA DialHands ==
  ASSUME TypeOK, NEW s \in Services, NEW p \in Incoming,
         dialled' = [dialled EXCEPT ![s] = Append(@, p)], UNCHANGED outbox,
         NEW h, h = <<"service", s, Len(dialled[s]) + 1>>
  PROVE  /\ h \notin HandedOn /\ HandedOn' = HandedOn \cup {h} /\ Item(h)' = p
         /\ \A g \in HandedOn : /\ Item(g)' = Item(g)
                                /\ (g[1] = h[1] /\ g[2] = h[2]) => g[3] < h[3]
<1> DEFINE n == Len(dialled[s])
<1>1. dialled \in [Services -> Seq(Incoming)]
  BY DEF TypeOK
<1>2. dialled[s] \in Seq(Incoming) /\ dialled'[s] = Append(dialled[s], p)
  BY <1>1
<1>3. n \in Nat /\ DOMAIN dialled[s] = 1 .. n
  BY <1>2, LenProperties
<1>4. /\ DOMAIN dialled'[s] = 1 .. n + 1 /\ dialled'[s][n + 1] = p
      /\ \A i \in 1 .. n : dialled'[s][i] = dialled[s][i]
  <2>1. /\ dialled'[s] \in Seq(Incoming)
        /\ Len(dialled'[s]) = n + 1 /\ dialled'[s][n + 1] = p
        /\ \A i \in 1 .. n : dialled'[s][i] = dialled[s][i]
    BY <1>2, AppendProperties
  <2> QED  BY <2>1, LenProperties
<1>5. \A r \in Services : r # s => dialled'[r] = dialled[r]
  BY <1>1
<1> HIDE DEF n
<1>6. \A i : i \in 1 .. n + 1 <=> i \in 1 .. n \/ i = n + 1
  BY <1>3
<1>7. h = <<"service", s, n + 1>>
  BY DEF n
<1>8. \A r \in Services : \A i : i \in DOMAIN dialled'[r] <=>
                               i \in DOMAIN dialled[r] \/ (r = s /\ i = n + 1)
  BY <1>3, <1>4, <1>5, <1>6
<1>9. \A g : Place(g, outbox', dialled') <=> Place(g, outbox, dialled) \/ g = h
  BY <1>7, <1>8 DEF Place
<1>10. HandedOn' = HandedOn \cup {h}
  BY <1>9, HandedOnPlaces
<1>11. ASSUME NEW g \in HandedOn
       PROVE  /\ g # h /\ Item(g)' = Item(g)
              /\ (g[1] = h[1] /\ g[2] = h[2]) => g[3] < h[3]
  <2>1. Place(g, outbox, dialled)
    BY HandedOnPlaces
  <2>2. ASSUME NEW r \in Services, NEW i \in DOMAIN dialled[r], g = <<"service", r, i>>
        PROVE  /\ g # h /\ Item(g)' = Item(g)
               /\ (g[1] = h[1] /\ g[2] = h[2]) => g[3] < h[3]
    <3>1. CASE r = s
      <4>1. i \in 1 .. n /\ i < n + 1
        BY <1>3, <2>2, <3>1
      <4> QED  BY <1>4, <1>7, <2>2, <3>1, <4>1 DEF Item
    <3>2. CASE r # s
      BY <1>5, <1>7, <2>2, <3>2 DEF Item
    <3> QED  BY <3>1, <3>2
  <2>3. ASSUME NEW c \in Conns, NEW i \in 2 .. Len(outbox[c]), g = <<"client", c, i>>
        PROVE  g # h /\ Item(g)' = Item(g) /\ g[1] # h[1]
    BY <1>7, <2>3 DEF Item
  <2> QED  BY <2>1, <2>2, <2>3 DEF Place
<1>12. Item(h)' = p
  BY <1>4, <1>7 DEF Item
<1> QED  BY <1>10, <1>11, <1>12

\* Every step of the broker leaves what it handed on alone, or is the step of one
\* server that hands on what it holds.
LEMMA StepHands ==
  ASSUME BrokerInv, RefusedInv, [Next]_vars
  PROVE  Hands
<1>1. TypeOK
  BY DEF BrokerInv, TypeInv
<1>2. ASSUME UNCHANGED <<outbox, dialled>> PROVE Hands
  BY <1>2, SameHandedOn DEF Hands
<1>3. CASE UNCHANGED vars
  BY <1>2, <1>3 DEF vars, connVars, sharedVars, serverVars
<1>4. ASSUME NEW c \in Conns, ClientStep(c) PROVE Hands
  BY <1>2, <1>4
  DEF ClientStep, Connect, ClientSend, ClientLeave, Finalize, sharedVars, serverVars
<1>5. CASE AcceptorStep
  <2>1. CASE Accept \/ HandshakeReadFails \/ ReadInit \/ PublishConnected
    BY <1>2, <2>1
    DEF Accept, HandshakeReadFails, ReadInit, PublishConnected, connVars, serverVars
  <2>2. CASE ReadSend
    <3>1. /\ acceptor.pc = "send" /\ UNCHANGED dialled
          /\ \/ outbox' = outbox
             \/ outbox' = [outbox EXCEPT ![acceptor.conn] = Append(@, AcceptPacket)]
      BY <2>2 DEF ReadSend, AcceptorAt, Answer, serverVars
    <3>2. outbox[acceptor.conn] = <<>> /\ acceptor.conn \in Conns
      BY <3>1 DEF BrokerInv, GreetInv, ConnInv, GreetingInv, TypeInv, AcceptorInv
    <3> QED  BY <1>1, <1>2, <3>1, <3>2, AcceptRests DEF Hands
  <2> QED  BY <1>5, <2>1, <2>2 DEF AcceptorStep
<1>6. CASE HandlerStep
  BY <1>2, <1>6
  DEF HandlerStep, ReceiveConnected, PutId, PutConn, ReceiveDisconnected, MoveId,
      MoveConn, ClearId, ClearConn, WriteField, StoreTable, connVars, serverVars
<1>7. ASSUME NEW c \in Conns, ServerStep(c) PROVE Hands
  <2> PICK p, t, s : p = server[c].packet /\ t = server[c].target /\ s = server[c].to
    OBVIOUS
  <2>1. server \in [Conns -> ServerState] /\ p \in Packet
    BY <1>1 DEF TypeOK, ServerState
  <2>2. CASE \/ ServeRead(c) \/ ServeEOF(c) \/ PublishDisconnected(c) \/ ServeScan(c)
             \/ ServeTake(c) \/ ServeSelf(c)
    BY <1>2, <2>2
    DEF ServeRead, ServeEOF, PublishDisconnected, ServeScan, ServeTake, ServeSelf,
        connVars
  <2>3. CASE ServeWrite(c)
    <3>1. /\ server[c].pc = "write" /\ UNCHANGED <<inbox, turn, dialled>>
          /\ server' = [server EXCEPT ![c] = ServerIdle("read")]
          /\ \/ outbox' = outbox
             \/ /\ Serializable(p) /\ t # NoConn /\ peer[t] = "open"
                /\ outbox' = [outbox EXCEPT ![t] = Append(@, p)]
      BY <2>3 DEF ServeWrite, Written, ServerAt, clientVars
    <3>2. CASE /\ Serializable(p) /\ t # NoConn /\ peer[t] = "open"
               /\ outbox' = [outbox EXCEPT ![t] = Append(@, p)]
      <4>1. t \in Conns /\ outbox[t] # <<>>
        BY <2>1, <3>1, <3>2 DEF BrokerInv, GreetInv, RefInv, TargetInv, AnsweredInv, ServerState
      <4>2. PICK h : h = <<"client", t, Len(outbox[t]) + 1>>
        OBVIOUS
      <4>3. /\ h \notin HandedOn /\ HandedOn' = HandedOn \cup {h} /\ Item(h)' = p
            /\ \A g \in HandedOn : /\ Item(g)' = Item(g)
                                   /\ (g[1] = h[1] /\ g[2] = h[2]) => g[3] < h[3]
        BY <1>1, <2>1, <3>1, <3>2, <4>1, <4>2, WriteHands
      <4>4. Busy(c) /\ ~Busy(c)'
        BY <2>1, <3>1 DEF Busy, ServerIdle
      <4>5. p = Carried(p) /\ h[1] # "service"
        BY <3>2, <4>2 DEF Carried
      <4>6. HandsOn(c, h) /\ h \in HandedOn'
        BY <3>1, <4>3, <4>4, <4>5 DEF HandsOn
      <4> QED  BY <4>6 DEF Hands
    <3> QED  BY <1>2, <3>1, <3>2
  <2>4. CASE ServeDial(c)
    <3>1. /\ server[c].pc = "dial" /\ UNCHANGED <<inbox, turn, outbox>>
          /\ \/ UNCHANGED dialled
             \/ /\ server' = [server EXCEPT ![c] = ServerIdle("read")]
                /\ dialled' = [dialled EXCEPT ![s] = Append(@, Carried(p))]
      BY <2>4 DEF ServeDial, ServerAt, Carried
    <3>2. CASE s \notin Services
      <4>1. dialled' = dialled
        BY <1>1, <3>1, <3>2 DEF TypeOK
      <4> QED  BY <1>2, <3>1, <4>1
    <3>3. CASE /\ s \in Services
               /\ server' = [server EXCEPT ![c] = ServerIdle("read")]
               /\ dialled' = [dialled EXCEPT ![s] = Append(@, Carried(p))]
      <4>1. Carried(p) \in Incoming
        BY <2>1 DEF Carried, Incoming
      <4>2. PICK h : h = <<"service", s, Len(dialled[s]) + 1>>
        OBVIOUS
      <4>3. /\ h \notin HandedOn /\ HandedOn' = HandedOn \cup {h} /\ Item(h)' = Carried(p)
            /\ \A g \in HandedOn : /\ Item(g)' = Item(g)
                                   /\ (g[1] = h[1] /\ g[2] = h[2]) => g[3] < h[3]
        <5>1. TypeOK /\ s \in Services /\ UNCHANGED outbox
          BY <1>1, <3>1, <3>3
        <5>2. PICK q : q = Carried(p)
          OBVIOUS
        <5>3. q \in Incoming /\ dialled' = [dialled EXCEPT ![s] = Append(@, q)]
          BY <3>3, <4>1, <5>2
        <5>4. /\ h \notin HandedOn /\ HandedOn' = HandedOn \cup {h} /\ Item(h)' = q
              /\ \A g \in HandedOn : /\ Item(g)' = Item(g)
                                     /\ (g[1] = h[1] /\ g[2] = h[2]) => g[3] < h[3]
          BY <4>2, <5>1, <5>3, DialHands
        <5> QED  BY <5>2, <5>4
      <4>4. Busy(c) /\ ~Busy(c)'
        BY <2>1, <3>1, <3>3 DEF Busy, ServerIdle
      <4>5. h[2] = s
        BY <4>2
      <4>6. HandsOn(c, h) /\ h \in HandedOn'
        BY <3>1, <4>3, <4>4, <4>5 DEF HandsOn
      <4> QED  BY <4>6 DEF Hands
    <3> QED  BY <1>2, <3>1, <3>2, <3>3
  <2> QED  BY <1>7, <2>2, <2>3, <2>4 DEF ServerStep
<1> QED  BY <1>3, <1>4, <1>5, <1>6, <1>7 DEF Next

-----------------------------------------------------------------------------
(* The packets of a client, in their places *)

\* S[c][i] holds what packet i of client c can have been, a part of its menu.
\* Every packet a client sent and admiral has not read is in its place, the
\* handshake takes the first two, and a server holds what came out of the one it
\* read last.
PlacesInv(S) ==
  \A c \in Clients :
    /\ turn[c] <= Len(Menu[c])
    /\ peer[c] = "absent" => turn[c] = 0
    /\ \A i \in 1 .. turn[c] : S[c][i] \subseteq Menu[c][i]
    /\ \A j \in 1 .. Len(inbox[c]) : inbox[c][j] \in S[c][Consumed(c) + j]
    /\ Known(c) => Consumed(c) >= 2
    /\ Busy(c) => /\ Consumed(c) >= 3
                  /\ \E f \in S[c][Consumed(c)] :
                       Routed(f, server[c].to, server[c].packet)

\* What a client has sent is not changed afterwards, and what a step adds is what
\* the client wrote.
Follows(S, S2) ==
  \A c \in Clients :
    /\ \A i \in 1 .. turn[c] : S2[c][i] = S[c][i]
    /\ Writes(c) => \E f \in Menu[c][turn[c] + 1] :
                      /\ inbox'[c] = Append(inbox[c], f)
                      /\ f \in S2[c][turn[c] + 1]
                      /\ S2[c][turn[c] + 1] \subseteq Menu[c][turn[c] + 1]

\* The counters of a client.
LEMMA Counters ==
  ASSUME BrokerInv, NEW c \in Clients
  PROVE  /\ turn[c] \in Nat /\ inbox[c] \in Seq(Incoming) /\ Len(inbox[c]) \in Nat
         /\ Len(inbox[c]) <= turn[c] /\ Len(Menu[c]) \in Nat /\ c \in Conns
         /\ Consumed(c) \in 0 .. turn[c] /\ Finished(c) \in Int /\ Finished(c) <= turn[c]
         /\ Finished(c) = IF Busy(c) THEN Consumed(c) - 1 ELSE Consumed(c)
<1>1. turn[c] \in Nat /\ inbox[c] \in Seq(Incoming) /\ Len(inbox[c]) <= turn[c]
  BY DEF BrokerInv, TypeInv, TypeOK, LinkInv, ReadInv, Clients
<1>2. Len(inbox[c]) \in Nat
  BY <1>1, LenProperties
<1>3. Len(Menu[c]) \in Nat /\ c \in Conns
  BY MenuAssumption DEF Clients
<1> QED  BY <1>1, <1>2, <1>3 DEF Consumed, Finished

\* What one step does to one client.
LEMMA KeepsPlaces ==
  ASSUME NEW S, NEW S2, BrokerInv, BrokerInv', PlacesInv(S), Follows(S, S2),
         NEW c \in Clients, Idles(c) \/ Writes(c) \/ Reads(c), Lasting, Admits
  PROVE  /\ turn'[c] <= Len(Menu[c])
         /\ peer'[c] = "absent" => turn'[c] = 0
         /\ \A i \in 1 .. turn'[c] : S2[c][i] \subseteq Menu[c][i]
         /\ \A j \in 1 .. Len(inbox'[c]) : inbox'[c][j] \in S2[c][Consumed(c)' + j]
         /\ Known(c)' => Consumed(c)' >= 2
         /\ Busy(c)' => /\ Consumed(c)' >= 3
                        /\ \E f \in S2[c][Consumed(c)'] :
                             Routed(f, server'[c].to, server'[c].packet)
         /\ Finished(c) <= Finished(c)' /\ turn[c] <= turn'[c]
<1> DEFINE n == turn[c]
           q == inbox[c]
<1>1. /\ n \in Nat /\ q \in Seq(Incoming) /\ Len(q) \in Nat /\ Len(q) <= n
      /\ n <= Len(Menu[c]) /\ Len(Menu[c]) \in Nat
      /\ Known(c) => n - Len(q) >= 2
      /\ Busy(c) => n - Len(q) >= 3
  BY Counters DEF PlacesInv, Consumed
\* What the step keeps of the packets that were sent before it.
<1>2. /\ \A i \in 1 .. n : S2[c][i] \subseteq Menu[c][i]
      /\ \A j \in 1 .. Len(q) : q[j] \in S2[c][n - Len(q) + j]
      /\ Busy(c) => \E f \in S2[c][n - Len(q)] :
                      Routed(f, server[c].to, server[c].packet)
  <2>1. \A i \in 1 .. n : S2[c][i] = S[c][i]
    BY DEF Follows
  <2>2. /\ \A j \in 1 .. Len(q) : n - Len(q) + j \in 1 .. n
        /\ Busy(c) => n - Len(q) \in 1 .. n
    BY <1>1
  <2> QED  BY <2>1, <2>2 DEF PlacesInv, Consumed
<1>3. peer'[c] = "absent" => peer[c] = "absent" /\ n = 0
  BY Counters DEF Lasting, PlacesInv
<1>4. \/ Known(c)' => Known(c)
      \/ /\ q # <<>> /\ inbox'[c] = Tail(q) /\ turn'[c] = n /\ Len(q) + 1 <= n
  BY Counters DEF Admits, BrokerInv, LinkInv, ReadInv
<1>5. CASE Idles(c)
  <2>1. inbox'[c] = q /\ turn'[c] = n
    BY <1>5 DEF Idles
  <2>2. Consumed(c)' = n - Len(q) /\ Consumed(c) = n - Len(q)
    BY <2>1 DEF Consumed
  <2>3. Busy(c)' => /\ Busy(c) /\ server'[c].to = server[c].to
                    /\ server'[c].packet = server[c].packet
    BY <1>5 DEF Idles
  <2>4. Known(c)' => Known(c)
    <3> SUFFICES ASSUME q # <<>>, inbox'[c] = Tail(q) PROVE FALSE
      BY <1>4
    <3>1. PICK r : r = Tail(q)
      OBVIOUS
    <3>2. Len(r) = Len(q) - 1 /\ Len(q) \in Nat
      BY <1>1, <3>1, HeadAndTail
    <3>3. r = q
      BY <2>1, <3>1
    <3> QED  BY <3>2, <3>3
  <2>5. /\ \A i \in 1 .. turn'[c] : S2[c][i] \subseteq Menu[c][i]
        /\ \A j \in 1 .. Len(inbox'[c]) : inbox'[c][j] \in S2[c][Consumed(c)' + j]
    BY <1>2, <2>1, <2>2
  <2>6. /\ Known(c)' => Consumed(c)' >= 2
        /\ Busy(c)' => Consumed(c)' >= 3
        /\ Finished(c) <= Finished(c)'
    BY <1>1, <2>2, <2>3, <2>4 DEF Finished
  <2>7. Busy(c)' => \E f \in S2[c][Consumed(c)'] :
                      Routed(f, server'[c].to, server'[c].packet)
    BY <1>2, <2>2, <2>3
  <2> QED  BY <1>1, <1>3, <2>1, <2>5, <2>6, <2>7
<1>6. CASE Writes(c)
  <2>1. PICK f \in Menu[c][n + 1] :
          /\ inbox'[c] = Append(q, f) /\ f \in S2[c][n + 1]
          /\ S2[c][n + 1] \subseteq Menu[c][n + 1]
    BY <1>6 DEF Follows
  <2>2. /\ turn'[c] = n + 1 /\ n < Len(Menu[c]) /\ server'[c] = server[c]
        /\ peer'[c] # "absent"
    BY <1>6 DEF Writes, Lasting, Clients
  <2>3. /\ Len(Append(q, f)) = Len(q) + 1 /\ Append(q, f)[Len(q) + 1] = f
        /\ \A j \in 1 .. Len(q) : Append(q, f)[j] = q[j]
    <3>1. q \in Seq(Incoming \cup {f}) /\ f \in Incoming \cup {f}
      BY <1>1, SeqMonotonic
    <3> QED  BY <3>1, AppendProperties
  <2>4. Consumed(c)' = n - Len(q) /\ Consumed(c) = n - Len(q)
    BY <1>1, <2>1, <2>2, <2>3 DEF Consumed
  <2>5. \A j \in 1 .. Len(inbox'[c]) : inbox'[c][j] \in S2[c][Consumed(c)' + j]
    <3> SUFFICES ASSUME NEW j \in 1 .. Len(q) + 1
                 PROVE  inbox'[c][j] \in S2[c][n - Len(q) + j]
      BY <2>1, <2>3, <2>4
    <3>1. CASE j = Len(q) + 1
      <4>1. n - Len(q) + j = n + 1
        BY <1>1, <3>1
      <4>2. inbox'[c][j] = f
        BY <2>1, <2>3, <3>1
      <4> QED  BY <2>1, <4>1, <4>2
    <3>2. CASE j \in 1 .. Len(q)
      BY <1>2, <2>1, <2>3, <3>2
    <3>3. Len(q) \in Nat
      BY <1>1
    <3> QED  BY <3>1, <3>2, <3>3
  <2>6. \A i \in 1 .. turn'[c] : S2[c][i] \subseteq Menu[c][i]
    <3> SUFFICES ASSUME NEW i \in 1 .. n + 1 PROVE S2[c][i] \subseteq Menu[c][i]
      BY <2>2
    <3>1. i = n + 1 \/ i \in 1 .. n
      BY <1>1
    <3> QED  BY <1>2, <2>1, <3>1
  <2>7. Busy(c)' <=> Busy(c)
    BY <2>2 DEF Busy
  <2>8. Known(c)' => Known(c)
    BY <1>1, <1>4, <2>2
  <2>9. /\ Known(c)' => Consumed(c)' >= 2
        /\ Busy(c)' => Consumed(c)' >= 3
        /\ Finished(c) <= Finished(c)'
        /\ turn'[c] <= Len(Menu[c]) /\ turn[c] <= turn'[c]
    BY <1>1, <2>2, <2>4, <2>7, <2>8 DEF Finished
  <2>10. Busy(c)' => \E g \in S2[c][Consumed(c)'] :
                       Routed(g, server'[c].to, server'[c].packet)
    BY <1>2, <2>2, <2>4, <2>7
  <2> QED  BY <2>2, <2>5, <2>6, <2>9, <2>10
<1>7. CASE Reads(c)
  <2>1. /\ q # <<>> /\ inbox'[c] = Tail(q) /\ turn'[c] = n /\ ~Busy(c)
        /\ Busy(c)' => Known(c) /\ Routed(Head(q), server'[c].to, server'[c].packet)
    BY <1>7 DEF Reads
  <2>2. /\ Head(q) = q[1] /\ Len(q) >= 1 /\ Len(Tail(q)) = Len(q) - 1
        /\ \A i \in 1 .. Len(q) - 1 : Tail(q)[i] = q[i + 1]
    BY <1>1, <2>1, HeadAndTail
  <2>3. Consumed(c)' = n - Len(q) + 1 /\ Consumed(c) = n - Len(q)
    BY <1>1, <2>1, <2>2 DEF Consumed
  <2>4. /\ Known(c)' => Consumed(c)' >= 2
        /\ Busy(c)' => Consumed(c)' >= 3
        /\ Finished(c) <= Finished(c)'
    BY <1>1, <1>4, <2>1, <2>3 DEF Finished
  <2>5. \A i \in 1 .. turn'[c] : S2[c][i] \subseteq Menu[c][i]
    BY <1>2, <2>1
  <2>6. \A j \in 1 .. Len(inbox'[c]) : inbox'[c][j] \in S2[c][Consumed(c)' + j]
    <3> SUFFICES ASSUME NEW j \in 1 .. Len(q) - 1
                 PROVE  inbox'[c][j] \in S2[c][n - Len(q) + 1 + j]
      BY <2>1, <2>2, <2>3
    <3>1. j + 1 \in 1 .. Len(q) /\ n - Len(q) + (j + 1) = n - Len(q) + 1 + j
      BY <1>1, <2>2
    <3> QED  BY <1>2, <2>1, <2>2, <3>1
  <2>7. Busy(c)' => \E f \in S2[c][Consumed(c)'] :
                      Routed(f, server'[c].to, server'[c].packet)
    <3>1. 1 \in 1 .. Len(q) /\ n - Len(q) + 1 \in Int
      BY <1>1, <2>2
    <3> QED  BY <1>2, <2>1, <2>2, <2>3, <3>1
  <2> QED  BY <1>1, <1>3, <2>1, <2>4, <2>5, <2>6, <2>7
<1> QED  BY <1>5, <1>6, <1>7

LEMMA StepPlacesInv ==
  ASSUME NEW S, NEW S2, BrokerInv, RefusedInv, PlacesInv(S), [Next]_vars, Follows(S, S2)
  PROVE  /\ PlacesInv(S2)'
         /\ \A c \in Clients : Finished(c) <= Finished(c)' /\ turn[c] <= turn'[c]
<1>1. BrokerInv' /\ Moves /\ Lasting /\ Admits
  BY NextMoves
<1>2. \A c \in Clients : Idles(c) \/ Writes(c) \/ Reads(c)
  BY <1>1 DEF Moves
<1>3. ASSUME NEW c \in Clients
      PROVE  /\ turn'[c] <= Len(Menu[c])
             /\ peer'[c] = "absent" => turn'[c] = 0
             /\ \A i \in 1 .. turn'[c] : S2[c][i] \subseteq Menu[c][i]
             /\ \A j \in 1 .. Len(inbox'[c]) : inbox'[c][j] \in S2[c][Consumed(c)' + j]
             /\ Known(c)' => Consumed(c)' >= 2
             /\ Busy(c)' => /\ Consumed(c)' >= 3
                            /\ \E f \in S2[c][Consumed(c)'] :
                                 Routed(f, server'[c].to, server'[c].packet)
             /\ Finished(c) <= Finished(c)' /\ turn[c] <= turn'[c]
  BY <1>1, <1>2, KeepsPlaces
<1> QED  BY <1>3 DEF PlacesInv

-----------------------------------------------------------------------------
(* Where what is handed on comes from *)

\* h holds what admiral made of packet i of client c, or nothing.
Origin(S, c, i, h) ==
  /\ Known(c) /\ i \in 3 .. Finished(c)
  /\ \E f \in S[c][i] :
       /\ f # BadFrame /\ Len(f.payload) >= 2
       /\ h[1] = "service" => f.payload[1] = h[2]
       /\ Item(h) # BadFrame => Serializable(Item(h)) /\ Item(h) = Forwarded(f)

\* The places of H at one destination, as far as they come from one client, are in
\* the order of its packets.
InOrder(of, H) ==
  \A g, h \in H :
    (g[1] = h[1] /\ g[2] = h[2] /\ g[3] < h[3] /\ of[g][1] = of[h][1])
      => of[g][2] < of[h][2]

\* No two places hold what came of the same packet.
HandInv(S) ==
  \E of \in Injection(HandedOn, Clients \X Nat) :
    /\ \A h \in HandedOn : Origin(S, of[h][1], of[h][2], h)
    /\ InOrder(of, HandedOn)

\* What admiral made of a packet stays so.
LEMMA OriginStays ==
  ASSUME NEW S, NEW S2, BrokerInv, RefusedInv, PlacesInv(S), [Next]_vars,
         Follows(S, S2), NEW c \in Clients, NEW i \in Nat, NEW h, Item(h)' = Item(h),
         Origin(S, c, i, h)
  PROVE  Origin(S2, c, i, h)'
<1>1. /\ Lasting /\ BrokerInv' /\ Finished(c) <= Finished(c)'
      /\ Finished(c) <= turn[c] /\ Finished(c) \in Int /\ turn[c] \in Nat /\ c \in Conns
  BY NextMoves, StepPlacesInv, Counters
<1>2. Finished(c)' \in Int
  <2>1. turn'[c] \in Nat /\ inbox'[c] \in Seq(Incoming)
    BY <1>1 DEF BrokerInv, TypeInv, TypeOK
  <2>2. Len(inbox'[c]) \in Nat
    BY <2>1, LenProperties
  <2> QED  BY <2>1, <2>2 DEF Finished, Consumed
<1>3. i \in 3 .. Finished(c)' /\ i \in 1 .. turn[c]
  BY <1>1, <1>2 DEF Origin
<1>4. S2[c][i] = S[c][i]
  BY <1>3 DEF Follows
<1>5. Known(c)'
  BY <1>1 DEF Lasting, Origin, Known
<1>6. \E f \in S2[c][i] :
        /\ f # BadFrame /\ Len(f.payload) >= 2
        /\ h[1] = "service" => f.payload[1] = h[2]
        /\ Item(h)' # BadFrame => Serializable(Item(h)') /\ Item(h)' = Forwarded(f)
  BY <1>4 DEF Origin
<1> QED  BY <1>3, <1>5, <1>6 DEF Origin

\* A server hands on what came of the packet it read last, and then holds none.
LEMMA NewOrigin ==
  ASSUME NEW S, NEW S2, BrokerInv, RefusedInv, PlacesInv(S), [Next]_vars,
         Follows(S, S2), NEW c \in Conns, NEW h, HandsOn(c, h),
         NEW i, i = Consumed(c)
  PROVE  /\ c \in Clients /\ i \in Nat /\ i = Finished(c) + 1
         /\ Origin(S2, c, i, h)'
<1>1. Busy(c) /\ ~Busy(c)' /\ inbox'[c] = inbox[c] /\ turn'[c] = turn[c]
  BY DEF HandsOn
<1>2. c \in Clients /\ Known(c)
  BY <1>1, StartedIsClient DEF Busy, BrokerInv, TypeInv, ServerInv
<1>3. /\ i \in 3 .. turn[c] /\ i = Finished(c) + 1 /\ Finished(c)' = i
  <2>1. Consumed(c) >= 3
    BY <1>1, <1>2 DEF PlacesInv
  <2>2. Finished(c)' = Consumed(c)
    BY <1>1 DEF Finished, Consumed
  <2> QED  BY <1>1, <1>2, <2>1, <2>2, Counters
<1>4. PICK f \in S2[c][i] : Routed(f, server[c].to, server[c].packet)
  <2>1. S2[c][i] = S[c][i]
    <3>1. turn[c] \in Nat
      BY <1>2, Counters
    <3>2. i \in 1 .. turn[c]
      BY <1>3, <3>1
    <3> QED  BY <1>2, <3>2 DEF Follows
  <2> QED  BY <1>1, <1>2, <2>1 DEF PlacesInv
<1>5. Known(c)'
  BY <1>2, NextMoves DEF Lasting, Known
<1>6. Item(h)' # BadFrame => Serializable(Item(h)') /\ Item(h)' = Forwarded(f)
  BY <1>4 DEF HandsOn, Carried, Routed
<1>7. /\ f # BadFrame /\ Len(f.payload) >= 2
      /\ h[1] = "service" => f.payload[1] = h[2]
  BY <1>4 DEF HandsOn, Routed
<1>8. i \in 3 .. Finished(c)' /\ i \in Nat
  <2>1. turn[c] \in Nat
    BY <1>2, Counters
  <2> QED  BY <1>3, <2>1
<1> QED  BY <1>2, <1>3, <1>4, <1>5, <1>6, <1>7, <1>8 DEF Origin

LEMMA StepHandInv ==
  ASSUME NEW S, NEW S2, BrokerInv, RefusedInv, PlacesInv(S), HandInv(S), [Next]_vars,
         Follows(S, S2)
  PROVE  HandInv(S2)'
<1>1. PICK of \in Injection(HandedOn, Clients \X Nat) :
        /\ \A h \in HandedOn : Origin(S, of[h][1], of[h][2], h)
        /\ InOrder(of, HandedOn)
  BY DEF HandInv
<1>2. /\ of \in [HandedOn -> Clients \X Nat]
      /\ \A g, h \in HandedOn : of[g] = of[h] => g = h
  BY <1>1 DEF Injection, IsInjective
<1>3. ASSUME NEW h \in HandedOn, Item(h)' = Item(h)
      PROVE  Origin(S2, of[h][1], of[h][2], h)'
  <2>1. of[h][1] \in Clients /\ of[h][2] \in Nat
    BY <1>2
  <2>2. PICK k : k = h
    OBVIOUS
  <2>3. Item(k)' = Item(k) /\ Origin(S, of[k][1], of[k][2], k)
    BY <1>1, <1>3, <2>2
  <2> QED  BY <2>1, <2>2, <2>3, OriginStays
<1>4. CASE Rests
  <2>1. HandedOn' = HandedOn /\ \A h \in HandedOn : Item(h)' = Item(h)
    BY <1>4 DEF Rests
  <2>2. \A h \in HandedOn' : Origin(S2, of[h][1], of[h][2], h)'
    BY <1>3, <2>1
  <2>3. of \in Injection(HandedOn', Clients \X Nat) /\ InOrder(of, HandedOn')
    BY <1>1, <2>1
  <2> QED  BY <2>2, <2>3 DEF HandInv
<1>5. ASSUME NEW c \in Conns, NEW h \in HandedOn', HandsOn(c, h)
      PROVE  HandInv(S2)'
  <2>1. PICK i : i = Consumed(c)
    OBVIOUS
  <2>2. /\ c \in Clients /\ i \in Nat /\ i = Finished(c) + 1
        /\ Origin(S2, c, i, h)'
    BY <1>5, <2>1, NewOrigin
  <2>3. /\ h \notin HandedOn /\ HandedOn' = HandedOn \cup {h}
        /\ \A g \in HandedOn : /\ Item(g)' = Item(g)
                               /\ (g[1] = h[1] /\ g[2] = h[2]) => g[3] < h[3]
    BY <1>5 DEF HandsOn
  <2>4. PICK of2 : of2 = [g \in HandedOn' |-> IF g = h THEN <<c, i>> ELSE of[g]]
    OBVIOUS
  <2>5. of2[h] = <<c, i>> /\ \A g \in HandedOn : of2[g] = of[g]
    BY <2>3, <2>4
  <2>6. ASSUME NEW g \in HandedOn, of[g][1] = c PROVE of[g][2] < i
    <3>1. of[g][2] \in 3 .. Finished(c)
      BY <1>1, <2>6 DEF Origin
    <3>2. Finished(c) \in Int
      BY <2>2, Counters
    <3> QED  BY <2>2, <3>1, <3>2
  <2>7. of2 \in [HandedOn' -> Clients \X Nat]
    BY <1>2, <2>2, <2>3, <2>4
  <2>8. of2 \in Injection(HandedOn', Clients \X Nat)
    <3>1. \A g \in HandedOn : of[g] # <<c, i>>
      BY <2>2, <2>6
    <3>2. \A f, g \in HandedOn' : of2[f] = of2[g] => f = g
      BY <1>2, <2>3, <2>5, <3>1
    <3> QED  BY <2>7, <3>2 DEF Injection, IsInjective
  <2>9. InOrder(of2, HandedOn')
    <3> SUFFICES ASSUME NEW f \in HandedOn', NEW g \in HandedOn',
                        f[1] = g[1], f[2] = g[2], f[3] < g[3], of2[f][1] = of2[g][1]
                 PROVE  of2[f][2] < of2[g][2]
      BY DEF InOrder
    <3>1. CASE f \in HandedOn /\ g \in HandedOn
      BY <1>1, <2>5, <3>1 DEF InOrder
    <3>2. CASE f \in HandedOn /\ g = h
      BY <2>5, <2>6, <3>2
    <3>3. f # h
      <4>1. BrokerInv'
        BY NextMoves
      <4>2. /\ outbox' \in [Conns -> Seq(Packet)]
            /\ dialled' \in [Services -> Seq(Incoming)]
        BY <4>1 DEF BrokerInv, TypeInv, TypeOK
      <4>3. f[3] \in Int /\ g[3] \in Int
        BY <4>2, HandedOnPlaces, PlaceNumbers
      <4> SUFFICES ASSUME f = h PROVE FALSE
        OBVIOUS
      <4>4. CASE g = h
        BY <4>3, <4>4
      <4>5. CASE g \in HandedOn
        <5>1. g[3] < f[3]
          BY <2>3, <4>5
        <5> QED  BY <4>3, <5>1
      <4> QED  BY <2>3, <4>4, <4>5
    <3> QED  BY <2>3, <3>1, <3>2, <3>3
  <2>10. ASSUME NEW g \in HandedOn'
         PROVE  Origin(S2, of2[g][1], of2[g][2], g)'
    <3>1. CASE g = h
      BY <2>2, <2>5, <3>1
    <3>2. CASE g \in HandedOn
      BY <1>3, <2>3, <2>5, <3>2
    <3> QED  BY <2>3, <3>1, <3>2
  <2> QED  BY <2>8, <2>9, <2>10 DEF HandInv
<1> QED  BY <1>4, <1>5, StepHands DEF Hands

-----------------------------------------------------------------------------

\* What the broker hands on: the invariant of its relaying.
RelayInv == BrokerInv /\ RefusedInv /\ PlacesInv(Menu) /\ HandInv(Menu)

LEMMA InitRefused == Init => BrokerInv /\ RefusedInv
<1> SUFFICES ASSUME Init PROVE BrokerInv /\ RefusedInv
  OBVIOUS
<1>1. BrokerInv
  BY InitTypeInv, InitGreetInv, InitLinkInv DEF BrokerInv
<1>2. SelfConns \subseteq Conns /\ NoConn \notin Conns /\ Len(<<>>) = 0
  BY ConnsAssumption
<1>3. RefusedInv
  BY <1>2 DEF Init, RefusedInv, Known, AcceptorIdle
<1> QED  BY <1>1, <1>3

\* Whatever the packets of the clients are taken to be, at first there are none.
LEMMA InitPlaces ==
  ASSUME NEW S, Init
  PROVE  PlacesInv(S) /\ HandInv(S)
<1>1. PlacesInv(S)
  <2> SUFFICES ASSUME NEW c \in Clients
               PROVE  /\ turn[c] = 0 /\ turn[c] <= Len(Menu[c])
                      /\ Len(inbox[c]) = 0 /\ ~Known(c) /\ ~Busy(c)
    BY DEF PlacesInv
  <2>1. c \in Conns /\ turn[c] = 0 /\ inbox[c] = <<>> /\ ~Known(c) /\ ~Busy(c)
    BY DEF Clients, Init, Known, Busy, ServerIdle
  <2>2. Len(Menu[c]) \in Nat
    BY MenuAssumption DEF Clients
  <2> QED  BY <2>1, <2>2
<1>2. HandedOn = {}
  <2>1. \A c \in Conns : Len(outbox[c]) = 0
    BY DEF Init
  <2>2. \A s \in Services : DOMAIN dialled[s] = {}
    BY DEF Init
  <2>3. \A g : ~Place(g, outbox, dialled)
    BY <2>1, <2>2 DEF Place
  <2> QED  BY <2>3, HandedOnPlaces
<1>3. <<>> \in Injection({}, Clients \X Nat)
  BY DEF Injection, IsInjective
<1> QED  BY <1>1, <1>2, <1>3 DEF HandInv, InOrder

\* At the level of the broker nothing more is known of a packet than its place in
\* the menu.
LEMMA MenuFollows == Follows(Menu, Menu)
BY DEF Follows, Writes

LEMMA NextRelayInv == RelayInv /\ [Next]_vars => RelayInv'
<1> SUFFICES ASSUME RelayInv, [Next]_vars PROVE RelayInv'
  OBVIOUS
<1>1. Follows(Menu, Menu)
  BY MenuFollows
<1>2. BrokerInv' /\ RefusedInv'
  BY NextMoves DEF RelayInv
<1>3. PlacesInv(Menu)'
  BY <1>1, StepPlacesInv DEF RelayInv
<1>4. HandInv(Menu)'
  BY <1>1, StepHandInv DEF RelayInv
<1> QED  BY <1>2, <1>3, <1>4 DEF RelayInv

\* What admiral handed on came of a packet of its own, one after the handshake.
THEOREM RelayInvariant == Spec => []RelayInv
<1>1. Init => RelayInv
  BY InitRefused, InitPlaces DEF RelayInv
<1> QED  BY <1>1, NextRelayInv, PTL DEF Spec

\* The send an origin names.
LEMMA OriginIsSend ==
  ASSUME RelayInv, NEW c \in Clients, NEW i \in Nat, NEW h, Origin(Menu, c, i, h)
  PROVE  <<c, i>> \in Sends /\ ComesFrom(h, <<c, i>>)
<1>1. i \in 3 .. turn[c]
  <2>1. turn[c] \in Nat /\ Finished(c) <= turn[c] /\ Finished(c) \in Int
    BY Counters DEF RelayInv
  <2> QED  BY <2>1 DEF Origin
<1>2. <<c, i>> \in Sends
  BY <1>1 DEF Sends
<1>3. ComesFrom(h, <<c, i>>)
  BY DEF ComesFrom, Origin, Known
<1> QED  BY <1>2, <1>3

\* admiral hands on nothing that no accepted client sent after its handshake, no
\* packet twice, and at each destination the packets of one client in order: for
\* every set of connections and services and every menu.
THEOREM HandedOnInOrderTheorem == Spec => []HandedOnInOrder
<1>1. RelayInv => HandedOnInOrder
  <2> SUFFICES ASSUME RelayInv PROVE HandedOnInOrder
    OBVIOUS
  <2>1. PICK of \in Injection(HandedOn, Clients \X Nat) :
          /\ \A h \in HandedOn : Origin(Menu, of[h][1], of[h][2], h)
          /\ InOrder(of, HandedOn)
    BY DEF RelayInv, HandInv
  <2>2. /\ of \in [HandedOn -> Clients \X Nat]
        /\ \A g, h \in HandedOn : of[g] = of[h] => g = h
    BY <2>1 DEF Injection, IsInjective
  <2>3. ASSUME NEW h \in HandedOn
        PROVE  of[h] \in Sends /\ ComesFrom(h, of[h])
    <3>1. PICK c \in Clients, i \in Nat : of[h] = <<c, i>>
      BY <2>2
    <3>2. Origin(Menu, c, i, h)
      BY <2>1, <3>1
    <3> QED  BY <3>1, <3>2, OriginIsSend
  <2>4. of \in Injection(HandedOn, Sends)
    BY <2>2, <2>3 DEF Injection, IsInjective
  <2> QED  BY <2>1, <2>3, <2>4 DEF HandedOnInOrder, InOrder
<1> QED  BY <1>1, RelayInvariant, PTL
=============================================================================
