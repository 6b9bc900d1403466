------------------------------ MODULE MCBroker ------------------------------
EXTENDS BrokerProperties, TLC

CONSTANTS c1, c2, c3, self

To(type, payload) == Build(type, 0, payload)
Hello == Build(TypeInit, ArgInitInit, <<PayloadEmpty>>)
IAm(id) == To(TypeSend, <<Admiral, id>>)

MCServices == {0, 1, 2}
MCConnAddr == [c \in Conns |-> [ip |-> 1, port |-> 1]]
MCServiceAddr == [s \in Services |-> [ip |-> s, port |-> s]]

\* In strict mode, by the ip or by the port: c1 is service 1, c2 and c3 are
\* service 2; c2 would be let in as service 1 as well.
MCStrictConnAddr ==
  (c1 :> [ip |-> 1, port |-> 9]) @@
  (c2 :> [ip |-> 1, port |-> 2]) @@
  (c3 :> [ip |-> 2, port |-> 9])

\* Three clients.  The first sends two packets, of which the second may be bytes
\* nobody can read, for a service that may be connected once, twice or not at all:
\* the second client is that service, and the third is it as well or claims one
\* that does not exist or that its address refuses in strict mode.
MCTableMenu ==
  (c1 :> <<{Hello}, {IAm(1)}, {To(TypeSend, <<2, 1, 7, 8>>)},
           {To(TypeSend, <<2, 1, 9, 8>>), BadFrame}>>) @@
  (c2 :> <<{Hello}, {IAm(2)}>>) @@
  (c3 :> <<{Hello}, {IAm(2), IAm(1), IAm(3)}>>)

\* Two clients that forward packets to each other and to admiral, which dials
\* itself: with a PING it reads as a bad handshake, or with a TERM that is never
\* sent, so that the connection stays silent.
MCFlowMenu ==
  (c1 :> <<{Hello}, {IAm(1)},
           {To(TypeSend, <<2, 1, 7, 8>>), To(TypePing, <<0, 1>>),
            Build(TypeTerm, ArgTermClean, <<0, 1>>)}>>) @@
  (c2 :> <<{Hello, To(TypePing, <<0>>)}, {IAm(2)}, {To(TypePing, <<1, 2>>)}>>)

\* A client that sends a PING of the form admiral itself sends, or a packet for a
\* service that is just being registered.
MCCrashMenu ==
  (c1 :> <<{Hello}, {IAm(1)}, {PingPacket, To(TypeSend, <<2, 1, 7, 8>>)}>>) @@
  (c2 :> <<{Hello}, {IAm(2)}>>)

\* Two clients of one service: a program that reconnects before its old
\* connection is gone.
MCReconnectMenu == [c \in {c1, c2} |-> <<{Hello}, {IAm(1)}>>]

\* Two services, of which one sends a packet to the other.
MCRouteMenu ==
  (c1 :> <<{Hello}, {IAm(1)}, {To(TypeSend, <<2, 1, 7, 8>>)}>>) @@
  (c2 :> <<{Hello}, {IAm(2)}>>)
=============================================================================
