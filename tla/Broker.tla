------------------------------- MODULE Broker -------------------------------
(***************************************************************************)
(* admiral's message broker, services/admiral/internal/broker/broker.go.   *)
(*                                                                         *)
(* Three kinds of goroutines share one Broker value:                       *)
(*   - the acceptor (Start) takes connections one at a time, runs the      *)
(*     handshake on each and publishes a CONNECTED event;                  *)
(*   - the handler (handleEvents) is the only writer of b.Connections: it  *)
(*     appends on CONNECTED, starts the server of the connection, and      *)
(*     deletes on DISCONNECTED;                                            *)
(*   - a server per registered connection (serveConnection) reads packets  *)
(*     and forwards them to the connection it finds in b.Connections, or   *)
(*     to one it dials.                                                    *)
(*                                                                         *)
(* b.Connections is read by the servers and written by the handler without *)
(* a lock.  The table is therefore modelled as the program sees it: a      *)
(* backing array (slots) and a length (len) that are loaded once by a      *)
(* reader, and array elements whose fields are written one at a time.  An  *)
(* append stores the length before the element, as the compiler does; a    *)
(* delete moves the elements down, zeroes the last and then stores the     *)
(* length, as slices.Delete does.  When an append outgrows the array, a    *)
(* reader goes on in the old one, which nobody writes any more: what it    *)
(* can read there it can also read from slots before the later writes.     *)
(*                                                                         *)
(* ReadPacket and SendPacket move whole packets here: LmpGoStream shows    *)
(* what they do to the bytes.                                              *)
(***************************************************************************)
EXTENDS Lmp, FiniteSets

CONSTANTS
  Conns,         \* the TCP connections to port 5321
  SelfConns,     \* those of them that admiral may dial to itself
  NoConn,        \* a nil net.Conn
  Services,      \* the ids of config.json: the keys of b.Services
  NoService,     \* no service yet
  Admiral,       \* the id of the service whose name is "admiral"
  StrictMode,    \* b.strictMode
  ConnAddr,      \* the remote address of a connection, [ip, port]
  ServiceAddr,   \* the address of a service in config.json, [ip, port]
  EventCap,      \* the capacity of b.events, 8
  BadFrame,      \* bytes ReadPacket returns an error for, not io.EOF
  Menu           \* for each client, the packets it may send, in order

ASSUME ConnsAssumption == SelfConns \subseteq Conns /\ NoConn \notin Conns
ASSUME ServicesAssumption ==
  Services \subseteq Byte /\ NoService \notin Byte /\ Admiral \in Services
ASSUME EventCapAssumption == EventCap \in Nat /\ EventCap >= 1
ASSUME StrictModeAssumption == StrictMode \in BOOLEAN
\* A client's packet comes out of ReadPacket, which stops at the first
\* terminator.
ASSUME MenuAssumption ==
  \A c \in Conns \ SelfConns :
    /\ Len(Menu[c]) \in Nat
    /\ \A i \in 1 .. Len(Menu[c]) : \A f \in Menu[c][i] :
         f = BadFrame \/ (f \in Packet /\ Whole(f) /\ Deserializable(Frame(f)))

VARIABLES
  peer,       \* the client's end: "absent", "open", "eof" (closed), "reset"
  inbox,      \* what the client sent and admiral has not read
  outbox,     \* every packet admiral wrote to the client
  turn,       \* how much of its menu the client has sent
  sock,       \* admiral's end: "none", "open", "closed"
  service,    \* conn.service once the handshake has accepted the connection
  backlog,    \* connections the listener has not accepted
  acceptor,   \* the acceptor: its pc and the connection in hand
  events,     \* the channel b.events
  slots, len, \* b.Connections
  handler,    \* the handler: its pc, the connection of the event, an index
  server,     \* the server of each connection
  dialled,    \* per service, what each connection admiral dialled carried
  crashed     \* a goroutine panicked: the process has exited

clientVars == <<peer, inbox, turn>>
connVars == <<clientVars, outbox, sock>>
acceptorVars == <<backlog, acceptor, service>>
handlerVars == <<slots, len, handler>>
serverVars == <<server, dialled>>
sharedVars == <<acceptorVars, events, handlerVars, serverVars, crashed>>
vars == <<connVars, sharedVars>>

-----------------------------------------------------------------------------

\* The packets admiral builds have version 2 and no flags.
Build(type, arg, payload) ==
  [version |-> 2, type |-> type, arg |-> arg, flags |-> FlagsNone,
   payload |-> payload]

AcceptPacket == Build(TypeInit, ArgInitAccept, <<PayloadEmpty>>)
PingPacket == Build(TypePing, ArgPing, <<PayloadEmpty>>)
ZeroPacket == [version |-> 0, type |-> 0, arg |-> 0, flags |-> 0,
               payload |-> <<>>]

\* What a server sends on for the packet p it read: the two bytes of the
\* admiral header, destination and sender, are removed.
Forwarded(p) ==
  IF p.type = TypePing THEN PingPacket
  ELSE IF p.type = TypeSend
  THEN Build(TypeSend, ArgSend, SubSeq(p.payload, 3, Len(p.payload)))
  ELSE ZeroPacket

\* What ReadPacket finds on a connection.
Incoming == Packet \cup {BadFrame}

\* An element of b.Connections, of the fields that are read: service.Id and
\* appConn.
Entry == [service : Byte, conn : Conns \cup {NoConn}]
ZeroEntry == [service |-> 0, conn |-> NoConn]

Event == [type : {"CONNECTED", "DISCONNECTED"}, conn : Conns]
Connected(c) == [type |-> "CONNECTED", conn |-> c]
Disconnected(c) == [type |-> "DISCONNECTED", conn |-> c]

AcceptorIdle == [pc |-> "accept", conn |-> NoConn]
HandlerIdle == [pc |-> "receive", conn |-> NoConn, at |-> 0]

\* Mutant of ServerIdle: the handler does not start the server.
NoServer(pc) == [pc |-> "none", packet |-> ZeroPacket, to |-> 0, at |-> 0,
                 n |-> 0, target |-> NoConn]

ServerIdle(pc) == [pc |-> pc, packet |-> ZeroPacket, to |-> 0, at |-> 0,
                   n |-> 0, target |-> NoConn]

AcceptorState == [pc : {"accept", "init", "send", "publish"},
                  conn : Conns \cup {NoConn}]
HandlerState == [pc : {"receive", "putId", "putConn", "moveId", "moveConn",
                       "clearId", "clearConn", "store"},
                 conn : Conns \cup {NoConn}, at : Nat]
ServerState == [pc : {"none", "read", "scan", "take", "write", "dial", "self",
                      "publish", "done"},
                packet : Packet, to : Byte, at : Nat, n : Nat,
                target : Conns \cup {NoConn}]

TypeOK ==
  /\ peer \in [Conns -> {"absent", "open", "eof", "reset"}]
  /\ inbox \in [Conns -> Seq(Incoming)]
  /\ outbox \in [Conns -> Seq(Packet)]
  /\ turn \in [Conns -> Nat]
  /\ sock \in [Conns -> {"none", "open", "closed"}]
  /\ service \in [Conns -> Services \cup {NoService}]
  /\ backlog \in Seq(Conns)
  /\ acceptor \in AcceptorState
  /\ events \in Seq(Event)
  /\ slots \in Seq(Entry)
  /\ len \in 0 .. Len(slots)
  /\ handler \in HandlerState
  /\ server \in [Conns -> ServerState]
  /\ dialled \in [Services -> Seq(Incoming)]
  /\ crashed \in BOOLEAN

Init ==
  /\ peer = [c \in Conns |-> "absent"]
  /\ inbox = [c \in Conns |-> <<>>]
  /\ outbox = [c \in Conns |-> <<>>]
  /\ turn = [c \in Conns |-> 0]
  /\ sock = [c \in Conns |-> "none"]
  /\ service = [c \in Conns |-> NoService]
  /\ backlog = <<>>
  /\ acceptor = AcceptorIdle
  /\ events = <<>>
  /\ slots = <<>> /\ len = 0
  /\ handler = HandlerIdle
  /\ server = [c \in Conns |-> ServerIdle("none")]
  /\ dialled = [s \in Services |-> <<>>]
  /\ crashed = FALSE

-----------------------------------------------------------------------------
(* Clients *)

\* Once a goroutine has panicked nothing runs any more.
ClientIs(c, state) == ~crashed /\ c \notin SelfConns /\ peer[c] = state
AcceptorAt(pc) == ~crashed /\ acceptor.pc = pc
HandlerAt(pc) == ~crashed /\ handler.pc = pc
ServerAt(c, pc) == ~crashed /\ server[c].pc = pc

\* A client connects; the kernel queues the connection for Accept.
Connect(c) ==
  /\ ClientIs(c, "absent")
  /\ peer' = [peer EXCEPT ![c] = "open"]
  /\ backlog' = Append(backlog, c)
  /\ UNCHANGED <<inbox, turn, outbox, sock, acceptor, service, events,
                 handlerVars, serverVars, crashed>>

\* A client sends its next packet, whatever admiral has answered so far.
ClientSend(c) ==
  /\ ClientIs(c, "open")
  /\ turn[c] < Len(Menu[c])
  /\ turn' = [turn EXCEPT ![c] = turn[c] + 1]
  /\ \E f \in Menu[c][turn[c] + 1] :
       inbox' = [inbox EXCEPT ![c] = Append(inbox[c], f)]
  /\ UNCHANGED <<peer, outbox, sock, sharedVars>>

\* A client closes its connection, or dies and the connection is reset.  What
\* it sent before can still be read.
ClientLeave(c) ==
  /\ ClientIs(c, "open")
  /\ \E how \in {"eof", "reset"} : peer' = [peer EXCEPT ![c] = how]
  /\ UNCHANGED <<inbox, turn, outbox, sock, sharedVars>>

\* Nothing closes a connection admiral dialled; when no server refers to it
\* any more the garbage collector's finalizer does.  (Only a connection to
\* admiral itself has a state in this model.)
Finalize(c) ==
  /\ ~crashed /\ c \in SelfConns /\ peer[c] = "open"
  /\ \A d \in Conns : server[d].target # c
  /\ peer' = [peer EXCEPT ![c] = "eof"]
  /\ UNCHANGED <<inbox, turn, outbox, sock, sharedVars>>

-----------------------------------------------------------------------------
(* The acceptor *)

Accept ==
  /\ AcceptorAt("accept") /\ backlog # <<>>
  /\ LET c == Head(backlog)
     IN /\ acceptor' = [pc |-> "init", conn |-> c]
        /\ sock' = [sock EXCEPT ![c] = "open"]
  /\ backlog' = Tail(backlog)
  /\ UNCHANGED <<clientVars, outbox, service, events, handlerVars, serverVars,
                 crashed>>

\* Mutants of Reject: Start goes on without conn.Close(), or it returns.
RejectWithoutClose(c) ==
  sock' = sock /\ acceptor' = AcceptorIdle
RejectAndReturn(c) ==
  /\ sock' = [sock EXCEPT ![c] = "closed"]
  /\ acceptor' = [pc |-> "returned", conn |-> NoConn]

\* The handshake fails: Start closes the connection and accepts the next.
Reject(c) ==
  /\ sock' = [sock EXCEPT ![c] = "closed"]
  /\ acceptor' = AcceptorIdle

\* ReadPacket in the handshake fails: no packet comes any more.
HandshakeReadFails ==
  LET c == acceptor.conn
  IN /\ AcceptorAt("init") \/ AcceptorAt("send")
     /\ inbox[c] = <<>> /\ peer[c] # "open"
     /\ Reject(c)
     /\ UNCHANGED <<clientVars, outbox, backlog, service, events, handlerVars,
                    serverVars, crashed>>

\* The first packet of the handshake.
ReadInit ==
  LET c == acceptor.conn
      f == Head(inbox[c])
      ok == f # BadFrame /\ f.type = TypeInit /\ f.arg = ArgInitInit
  IN /\ AcceptorAt("init") /\ inbox[c] # <<>>
     /\ inbox' = [inbox EXCEPT ![c] = Tail(inbox[c])]
     /\ IF ok THEN acceptor' = [acceptor EXCEPT !.pc = "send"] /\ UNCHANGED sock
              ELSE Reject(c)
     /\ UNCHANGED <<peer, turn, outbox, backlog, service, events, handlerVars,
                    serverVars, crashed>>

\* Mutant of SenderIsValid: the address is not compared in strict mode.
SenderIsKnown(c, sender) == sender \in Services

\* The sender a connection claims to be, checked against config.json.
SenderIsValid(c, sender) ==
  /\ sender \in Services
  /\ StrictMode => \/ ServiceAddr[sender].ip = ConnAddr[c].ip
                   \/ ServiceAddr[sender].port = ConnAddr[c].port

\* Mutant of Answer: ACCEPT is not sent.
AnswerNothing(c) == outbox

\* SendPacket of ACCEPT.
Answer(c) ==
  IF peer[c] = "open" THEN [outbox EXCEPT ![c] = Append(@, AcceptPacket)]
  ELSE outbox

\* The second packet.  ACCEPT is written before the payload is looked at, and
\* the sender is read from a second byte that need not be there.  Writing to a
\* client that has left may fail or seem to succeed.
ReadSend ==
  LET c == acceptor.conn
      f == Head(inbox[c])
      ok == f # BadFrame /\ f.type = TypeSend /\ f.arg = ArgSend
      short == Len(f.payload) < 2
      valid == f.payload[1] = Admiral /\ SenderIsValid(c, f.payload[2])
  IN /\ AcceptorAt("send") /\ inbox[c] # <<>>
     /\ inbox' = [inbox EXCEPT ![c] = Tail(inbox[c])]
     /\ outbox' = IF ok THEN Answer(c) ELSE outbox
     /\ \E written \in IF peer[c] = "open" THEN {TRUE} ELSE BOOLEAN :
          /\ crashed' = (ok /\ written /\ short)
          /\ IF ok /\ written /\ ~short /\ valid
             THEN /\ acceptor' = [acceptor EXCEPT !.pc = "publish"]
                  /\ service' = [service EXCEPT ![c] = f.payload[2]]
                  /\ UNCHANGED sock
             ELSE Reject(c) /\ UNCHANGED service
     /\ UNCHANGED <<peer, turn, backlog, events, handlerVars, serverVars>>

\* b.events <- Event{connection, CONNECTED}
PublishConnected ==
  /\ AcceptorAt("publish") /\ Len(events) < EventCap
  /\ events' = Append(events, Connected(acceptor.conn))
  /\ acceptor' = AcceptorIdle
  /\ UNCHANGED <<connVars, backlog, service, handlerVars, serverVars, crashed>>

AcceptorStep ==
  \/ Accept \/ HandshakeReadFails \/ ReadInit \/ ReadSend \/ PublishConnected

-----------------------------------------------------------------------------
(* The handler *)

\* Mutant of Grown: the array is not extended.
NotGrown == slots

\* append's array, with a zero element past the old length.
Grown == IF len = Len(slots) THEN Append(slots, ZeroEntry) ELSE slots

\* CONNECTED: append makes room and stores the new length ...
ReceiveConnected ==
  /\ HandlerAt("receive") /\ events # <<>>
  /\ Head(events).type = "CONNECTED"
  /\ events' = Tail(events)
  /\ slots' = Grown
  /\ len' = len + 1
  /\ handler' = [pc |-> "putId", conn |-> Head(events).conn, at |-> len + 1]
  /\ UNCHANGED <<connVars, acceptorVars, serverVars, crashed>>

\* ... then the element; when it is complete the server starts.
PutId ==
  /\ HandlerAt("putId")
  /\ slots' = [slots EXCEPT ![handler.at].service = service[handler.conn]]
  /\ handler' = [handler EXCEPT !.pc = "putConn"]
  /\ UNCHANGED <<connVars, acceptorVars, events, len, serverVars, crashed>>

PutConn ==
  /\ HandlerAt("putConn")
  /\ slots' = [slots EXCEPT ![handler.at].conn = handler.conn]
  /\ server' = [server EXCEPT ![handler.conn] = ServerIdle("read")]
  /\ handler' = HandlerIdle
  /\ UNCHANGED <<connVars, acceptorVars, events, len, dialled, crashed>>

\* Mutant of EntriesFor: entries are compared by Connection.id, which is never
\* assigned and 0 everywhere.
EntriesWithSameId(c) == 1 .. len

\* The entries the loop over b.Connections may stop at: those with the service
\* of the connection, which need not be the entry of the connection.
EntriesFor(c) == {i \in 1 .. len : slots[i].service = service[c]}

\* DISCONNECTED: the first of them is deleted; without one only Close is left.
ReceiveDisconnected ==
  LET c == Head(events).conn
  IN /\ HandlerAt("receive") /\ events # <<>>
     /\ Head(events).type = "DISCONNECTED"
     /\ events' = Tail(events)
     /\ \/ /\ EntriesFor(c) = {}
           /\ sock' = [sock EXCEPT ![c] = "closed"]
           /\ UNCHANGED handler
        \/ /\ \E first \in EntriesFor(c) :
                /\ \A i \in EntriesFor(c) : first <= i
                /\ handler' = [pc |-> IF first < len THEN "moveId" ELSE "clearId",
                               conn |-> c, at |-> first]
           /\ UNCHANGED sock
     /\ UNCHANGED <<clientVars, outbox, acceptorVars, slots, len, serverVars,
                    crashed>>

\* One field of one element of slices.Delete's copy, then of its clear.
WriteField(pc, value, nextPc, nextAt) ==
  /\ HandlerAt(pc)
  /\ slots' = [slots EXCEPT ![handler.at] = value]
  /\ handler' = [handler EXCEPT !.pc = nextPc, !.at = nextAt]
  /\ UNCHANGED <<connVars, acceptorVars, events, len, serverVars, crashed>>

MoveId ==
  WriteField("moveId",
             [slots[handler.at] EXCEPT !.service = slots[handler.at + 1].service],
             "moveConn", handler.at)

MoveConn ==
  WriteField("moveConn",
             [slots[handler.at] EXCEPT !.conn = slots[handler.at + 1].conn],
             IF handler.at + 1 < len THEN "moveId" ELSE "clearId",
             handler.at + 1)

ClearId ==
  WriteField("clearId", [slots[handler.at] EXCEPT !.service = 0],
             "clearConn", handler.at)

ClearConn ==
  WriteField("clearConn", [slots[handler.at] EXCEPT !.conn = NoConn],
             "store", handler.at)

\* b.Connections gets its new length and the connection is closed.
StoreTable ==
  /\ HandlerAt("store")
  /\ len' = len - 1
  /\ sock' = [sock EXCEPT ![handler.conn] = "closed"]
  /\ handler' = HandlerIdle
  /\ UNCHANGED <<clientVars, outbox, acceptorVars, events, slots, serverVars,
                 crashed>>

HandlerStep ==
  \/ ReceiveConnected \/ PutId \/ PutConn
  \/ ReceiveDisconnected \/ MoveId \/ MoveConn \/ ClearId \/ ClearConn
  \/ StoreTable

-----------------------------------------------------------------------------
(* The servers *)

\* The server reads a packet.  One ReadPacket refuses is logged; one with a
\* payload of a single byte panics at Payload[2:]; one for a service that is
\* not configured is logged; for another the server enters getServiceConnection
\* and loads the header of b.Connections.
ServeRead(c) ==
  LET f == Head(inbox[c])
      short == f # BadFrame /\ Len(f.payload) < 2
      routed == f # BadFrame /\ ~short /\ f.payload[1] \in Services
  IN /\ ServerAt(c, "read") /\ inbox[c] # <<>>
     /\ inbox' = [inbox EXCEPT ![c] = Tail(inbox[c])]
     /\ crashed' = short
     /\ server' = IF routed
                  THEN [server EXCEPT ![c] =
                          [pc |-> "scan", packet |-> Forwarded(f),
                           to |-> f.payload[1], at |-> 1, n |-> len,
                           target |-> NoConn]]
                  ELSE server
     /\ UNCHANGED <<peer, turn, outbox, sock, acceptorVars, events, handlerVars,
                    dialled>>

\* Mutant of AtEOF: the wrong error ends the loop.
AtReset(c) == peer[c] = "reset"

\* ReadPacket returns io.EOF and the server leaves its loop.
AtEOF(c) == peer[c] = "eof"

\* The client has left.  After a reset ReadPacket returns an error once, which
\* is logged, and then io.EOF.
ServeEOF(c) ==
  /\ ServerAt(c, "read") /\ inbox[c] = <<>> /\ peer[c] # "open"
  /\ IF AtEOF(c)
     THEN server' = [server EXCEPT ![c].pc = "publish"] /\ UNCHANGED peer
     ELSE peer' = [peer EXCEPT ![c] = "eof"] /\ UNCHANGED server
  /\ UNCHANGED <<inbox, turn, outbox, sock, acceptorVars, events, handlerVars,
                 dialled, crashed>>

\* b.events <- Event{conn, DISCONNECTED}
PublishDisconnected(c) ==
  /\ ServerAt(c, "publish") /\ Len(events) < EventCap
  /\ events' = Append(events, Disconnected(c))
  /\ server' = [server EXCEPT ![c] = ServerIdle("done")]
  /\ UNCHANGED <<connVars, acceptorVars, handlerVars, dialled, crashed>>

\* One turn of the loop over the header the server loaded: the id of the
\* element is compared ...
ServeScan(c) ==
  LET s == server[c]
  IN /\ ServerAt(c, "scan")
     /\ server' = [server EXCEPT ![c] =
          IF s.at > s.n THEN [s EXCEPT !.pc = "dial"]
          ELSE IF slots[s.at].service = s.to THEN [s EXCEPT !.pc = "take"]
          ELSE [s EXCEPT !.at = s.at + 1]]
     /\ UNCHANGED <<connVars, acceptorVars, events, handlerVars, dialled,
                    crashed>>

\* ... and its connection is the one to use.
ServeTake(c) ==
  /\ ServerAt(c, "take")
  /\ server' = [server EXCEPT ![c].pc = "write",
                              ![c].target = slots[server[c].at].conn]
  /\ UNCHANGED <<connVars, acceptorVars, events, handlerVars, dialled, crashed>>

\* The server writes to a client that is connected.  No deadline is set on the
\* connection: if the client has stopped reading and the buffers are full, Write
\* returns when the client reads again or leaves, which may be never.
WaitsForReader(c) ==
  LET t == server[c].target
  IN /\ server[c].pc = "write" /\ Serializable(server[c].packet)
     /\ t # NoConn /\ sock[t] = "open" /\ peer[t] = "open"

\* Mutant of Written: the packet goes to every connection of the service.
WrittenToOne(c) == [server[c] EXCEPT !.pc = "scan", !.at = @ + 1]

\* The server goes back to its loop.
Written(c) == ServerIdle("read")

\* SendPacket on the connection found.  A packet that cannot be serialized or a
\* connection admiral has closed gives an error that is logged; what is written
\* to a client that has left is lost; a nil connection panics.
ServeWrite(c) ==
  LET s == server[c]
      writes == Serializable(s.packet)
      t == s.target
  IN /\ ServerAt(c, "write")
     /\ crashed' = (writes /\ t = NoConn)
     /\ outbox' = IF writes /\ t # NoConn /\ sock[t] = "open" /\ peer[t] = "open"
                  THEN [outbox EXCEPT ![t] = Append(@, s.packet)]
                  ELSE outbox
     /\ server' = [server EXCEPT ![c] = Written(c)]
     /\ UNCHANGED <<clientVars, sock, acceptorVars, events, handlerVars,
                    dialled>>

\* No entry: net.Dial to the address of the service, which may fail.  A service
\* that answers gets the packet, or, when it cannot be serialized, a connection
\* on which nothing comes; the connection is not kept.  Admiral's own address is
\* the listener: one more connection for the acceptor.
ServeDial(c) ==
  LET s == server[c]
  IN /\ ServerAt(c, "dial")
     /\ \/ /\ server' = [server EXCEPT ![c] = ServerIdle("read")]
           /\ \/ UNCHANGED dialled
              \/ /\ s.to # Admiral
                 /\ dialled' = [dialled EXCEPT ![s.to] =
                      Append(@, IF Serializable(s.packet) THEN s.packet
                                ELSE BadFrame)]
           /\ UNCHANGED <<peer, backlog>>
        \/ /\ s.to = Admiral
           /\ \E d \in SelfConns :
                /\ peer[d] = "absent"
                /\ peer' = [peer EXCEPT ![d] = "open"]
                /\ backlog' = Append(backlog, d)
                /\ server' = [server EXCEPT ![c].pc = "self", ![c].target = d]
           /\ UNCHANGED dialled
     /\ UNCHANGED <<inbox, turn, outbox, sock, acceptor, service, events,
                    handlerVars, crashed>>

\* What ReadPacket makes of a packet that was sent.
Arriving(p) == IF Deserializable(Frame(p)) THEN p ELSE BadFrame

\* SendPacket on a connection to admiral itself: admiral is its own client.
ServeSelf(c) ==
  LET s == server[c]
  IN /\ ServerAt(c, "self")
     /\ inbox' = IF Serializable(s.packet)
                 THEN [inbox EXCEPT ![s.target] = Append(@, Arriving(s.packet))]
                 ELSE inbox
     /\ server' = [server EXCEPT ![c] = ServerIdle("read")]
     /\ UNCHANGED <<peer, turn, outbox, sock, acceptorVars, events, handlerVars,
                    dialled, crashed>>

ServerStep(c) ==
  \/ ServeRead(c) \/ ServeEOF(c) \/ PublishDisconnected(c)
  \/ ServeScan(c) \/ ServeTake(c) \/ ServeWrite(c) \/ ServeDial(c) \/ ServeSelf(c)

-----------------------------------------------------------------------------

ClientStep(c) == Connect(c) \/ ClientSend(c) \/ ClientLeave(c) \/ Finalize(c)

Next ==
  \/ AcceptorStep
  \/ HandlerStep
  \/ \E c \in Conns : ClientStep(c) \/ ServerStep(c)

\* Every goroutine that can take a step eventually does, and the runtime forces
\* a collection, hence the finalizers, every two minutes.  Nothing is asked of
\* the clients, not even that they read what admiral writes.
Fairness ==
  /\ WF_vars(AcceptorStep)
  /\ WF_vars(HandlerStep)
  /\ \A c \in Conns :
       WF_vars(~WaitsForReader(c) /\ ServerStep(c)) /\ WF_vars(Finalize(c))

Spec == Init /\ [][Next]_vars /\ Fairness
=============================================================================
