-------------------------- MODULE BrokerProperties --------------------------
(***************************************************************************)
(* What admiral's broker keeps, whatever its clients do, and what its      *)
(* documents promise and it does not keep.                                 *)
(***************************************************************************)
EXTENDS Broker, Functions

-----------------------------------------------------------------------------
(* Safety *)

InEvents(e) == \E i \in DOMAIN events : events[i] = e

\* The connections whose server the handler has started and not yet removed.
Registered(c) == server[c].pc # "none" /\ sock[c] = "open"

\* A client sees ACCEPT before anything else and only once, and then nothing
\* but PING and SEND packets: the acceptor writes ACCEPT before the connection
\* is in the table, and no server finds it, in however torn a table, before
\* that.  lmp_admiral_service_handshake and SendHandshake take the first packet
\* they read for the answer to the handshake.
AcceptFirst ==
  \A c \in Conns : \A i \in DOMAIN outbox[c] :
    IF i = 1 THEN outbox[c][i] = AcceptPacket
             ELSE outbox[c][i].type \in {TypePing, TypeSend}

\* Whenever the handler waits for an event, the table has for each service as
\* many entries as it has registered connections, each entry with the service
\* of its connection and no connection twice: deleting the first entry with the
\* service, and not the entry of the connection, never loses count.  And while
\* no two connections share a service, the entries are exactly the connections.
TableMatchesServers ==
  handler.pc = "receive" =>
    LET entries == 1 .. len
        conns == {slots[i].conn : i \in entries}
        registered == {c \in Conns : Registered(c)}
        used == {c \in Conns : service[c] # NoService}
    IN /\ \A i \in entries : /\ slots[i].conn \in Conns
                             /\ slots[i].service = service[slots[i].conn]
       /\ Cardinality(conns) = len
       /\ \A s \in Services :
            Cardinality({c \in conns : service[c] = s})
              = Cardinality({c \in registered : service[c] = s})
       /\ (\A c, d \in used : service[c] = service[d] => c = d)
            => conns = registered

\* No connection leaks: one that is open is in the hands of the acceptor or of
\* the handler, is served, or has its event in the channel.  So every refused
\* handshake closes its connection, and so does every departure.
OpenConnectionsAreOwned ==
  \A c \in Conns : sock[c] = "open" =>
    \/ acceptor.conn = c
    \/ handler.conn = c
    \/ server[c].pc \notin {"none", "done"}
    \/ InEvents(Connected(c)) \/ InEvents(Disconnected(c))

-----------------------------------------------------------------------------
(* What is handed on *)

Clients == Conns \ SelfConns

\* The packets that clients sent after the two of the handshake: packet n of
\* client c.
Sends == UNION {{c} \X (3 .. turn[c]) : c \in Clients}

\* Where admiral has handed on a packet: place n of what it wrote to a client
\* after ACCEPT, or the n-th connection it dialled to a service.
HandedOn ==
  (UNION {{"client"} \X {c} \X (2 .. Len(outbox[c])) : c \in Conns})
    \cup (UNION {{"service"} \X {s} \X DOMAIN dialled[s] : s \in Services})
Item(h) == IF h[1] = "client" THEN outbox[h[2]][h[3]] ELSE dialled[h[2]][h[3]]

\* The client of the send was accepted, and what is at h, or nothing if it could
\* not be serialized, is what admiral makes of the packet.  A dial goes to the
\* service the packet names.
ComesFrom(h, send) ==
  /\ service[send[1]] # NoService
  /\ \E f \in Menu[send[1]][send[2]] :
       /\ f # BadFrame /\ Len(f.payload) >= 2
       /\ h[1] = "service" => f.payload[1] = h[2]
       /\ Item(h) # BadFrame => Item(h) = Forwarded(f)

\* admiral hands on nothing that nobody sent, nothing of a client it refused, and
\* no packet twice, neither to two connections of a service nor once on a
\* connection and once by a dial; and what reaches one destination from one client
\* arrives there in the order in which it was sent.  Nothing in the code says so:
\* it holds because each connection has one goroutine that reads and writes.
HandedOnInOrder ==
  \E of \in Injection(HandedOn, Sends) :
    /\ \A h \in HandedOn : ComesFrom(h, of[h])
    /\ \A g, h \in HandedOn :
         (g[1] = h[1] /\ g[2] = h[2] /\ g[3] < h[3] /\ of[g][1] = of[h][1])
           => of[g][2] < of[h][2]

-----------------------------------------------------------------------------
(* The contract with the clients *)

Kind(packet) ==
  IF packet = AcceptPacket THEN "ACCEPT"
  ELSE IF packet.type = TypePing THEN "PING"
  ELSE IF packet.type = TypeSend THEN "SEND" ELSE "OTHER"

LinkState(c) ==
  IF peer[c] = "absent" THEN "off"
  ELSE IF sock[c] = "none" THEN "waiting"
  ELSE IF sock[c] = "closed" THEN "closed"
  ELSE IF server[c].pc = "none" THEN "open"
  ELSE "served"

Heard(c) == [i \in DOMAIN outbox[c] |-> Kind(outbox[c][i])]
Left(c) == peer[c] \in {"eof", "reset"}

LinkOf(c) ==
  [state |-> LinkState(c), sent |-> turn[c], heard |-> Heard(c), left |-> Left(c)]

Links == [c \in Clients |-> LinkOf(c)]

Contract == INSTANCE AdmiralClient WITH link <- Links, down <- crashed

\* Whatever the clients do and however the goroutines of admiral interleave,
\* each client sees what AdmiralClient describes: it is answered only after it
\* has sent two packets, served only after it was answered, given packets only
\* while it is served, and closed by admiral only before it is served or after
\* it has left.
ContractIsKept == Contract!LinkSpec

-----------------------------------------------------------------------------
(* Liveness *)

\* A registered client that leaves is eventually removed and its connection
\* closed, however full the channel is and whatever the other clients do, unless
\* its own server is from some moment on stuck with a client that does not read:
\* one such client holds up the servers that write to it, and none but them.
DepartedAreRemoved ==
  \A c \in Conns : []<>(~WaitsForReader(c)) =>
    (server[c].pc # "none" /\ peer[c] # "open") ~> (sock[c] = "closed" \/ crashed)

\* The acceptor waits for a client that is connected and says nothing.  No
\* deadline is set on the connection.
WaitsForSilentClient ==
  /\ acceptor.pc \in {"init", "send"}
  /\ inbox[acceptor.conn] = <<>> /\ peer[acceptor.conn] = "open"

\* A connection is eventually accepted, unless the acceptor is from some moment
\* on stuck with a silent client: nothing else in admiral holds it up, neither
\* the channel of events nor admiral's connections to itself nor clients that do
\* not read.
EveryoneIsAccepted ==
  []<>(~WaitsForSilentClient) =>
    \A c \in Conns : (\E i \in DOMAIN backlog : backlog[i] = c)
                       ~> (sock[c] # "none" \/ crashed)

-----------------------------------------------------------------------------
(* What the documents say, and the code does not keep *)

\* README.md:24: admiral is a central message broker running 24/7.
NeverCrashes == ~crashed

\* broker.go:247: "is the service already connected with admiral? use that
\* connection".  So, whenever the table is at rest, the first entry for the
\* service of a client that is connected and served is a connection admiral
\* has not closed.
ConnectedServiceIsUsed ==
  handler.pc = "receive" =>
    \A c \in Conns :
      server[c].pc \notin {"none", "publish", "done"} =>
        \E i \in 1 .. len :
          /\ slots[i].service = service[c] /\ sock[slots[i].conn] = "open"
          /\ \A j \in 1 .. i - 1 : slots[j].service # service[c]

\* The same comment: the connection a server uses for a service is one of that
\* service.
RoutedToDestination ==
  \A c \in Conns :
    (server[c].pc = "write" /\ server[c].target # NoConn)
      => service[server[c].target] = server[c].to
=============================================================================
