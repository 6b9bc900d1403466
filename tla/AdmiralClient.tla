---------------------------- MODULE AdmiralClient ----------------------------
(***************************************************************************)
(* What a client of admiral sees of it, and may count on: the contract     *)
(* between services/admiral/internal/broker/broker.go and the programs     *)
(* that connect to port 5321.  Of a packet only its kind is left.          *)
(*                                                                         *)
(* BrokerProperties shows that Broker keeps this contract; GoServices runs *)
(* the clients written in Go against it.                                   *)
(***************************************************************************)
EXTENDS Naturals, Sequences

CONSTANT Clients   \* the connections of clients

VARIABLES
  link,   \* per client: its state, how many packets it has sent, the kinds of
          \* the packets admiral has sent it, and whether it has left
  down    \* admiral has exited

Kinds == {"ACCEPT", "PING", "SEND"}

LinkTypeOK ==
  /\ link \in [Clients ->
       [state : {"off", "waiting", "open", "served", "closed"},
        sent : Nat, heard : Seq(Kinds), left : BOOLEAN]]
  /\ down \in BOOLEAN

LinkInit ==
  /\ link = [c \in Clients |->
               [state |-> "off", sent |-> 0, heard |-> <<>>, left |-> FALSE]]
  /\ down = FALSE

LinkIs(c, states) == ~down /\ link[c].state \in states
LinkTo(c, state) == link' = [link EXCEPT ![c].state = state]
Connected(c) == LinkIs(c, {"waiting", "open", "served", "closed"}) /\ ~link[c].left

\* The client.  It may send whatever admiral answers, and leave at any moment.
LinkConnect(c) == LinkIs(c, {"off"}) /\ LinkTo(c, "waiting") /\ UNCHANGED down
LinkSend(c) ==
  Connected(c) /\ link' = [link EXCEPT ![c].sent = @ + 1] /\ UNCHANGED down
LinkLeave(c) ==
  Connected(c) /\ link' = [link EXCEPT ![c].left = TRUE] /\ UNCHANGED down

\* admiral takes the connection, maybe never.
LinkAccept(c) == LinkIs(c, {"waiting"}) /\ LinkTo(c, "open") /\ UNCHANGED down

\* Two packets were read: ACCEPT is sent, and the connection is closed for all
\* that, admiral may even exit, if the second was not a claim it believes.
LinkAnswer(c) ==
  /\ LinkIs(c, {"open"})
  /\ link[c].sent >= 2 /\ link[c].heard = <<>> /\ ~link[c].left
  /\ \E state \in {"open", "closed"} :
       link' = [link EXCEPT ![c].heard = <<"ACCEPT">>, ![c].state = state]
  /\ down' \in BOOLEAN

\* The handshake fails, which it does not because of silence.
LinkRefuse(c) ==
  /\ LinkIs(c, {"open"})
  /\ link[c].heard = <<>> /\ (link[c].sent >= 1 \/ link[c].left)
  /\ LinkTo(c, "closed") /\ down' \in BOOLEAN

\* Mutant of Greeted: admiral serves a client it has not answered.
GreetedOrNot(c) == TRUE

\* ACCEPT was sent, or there is nobody to read it.
Greeted(c) == link[c].heard # <<>> \/ link[c].left

\* From here on packets are read, and packets of others delivered.
LinkServe(c) ==
  LinkIs(c, {"open"}) /\ Greeted(c) /\ LinkTo(c, "served") /\ UNCHANGED down

LinkDeliver(c) ==
  /\ LinkIs(c, {"served"}) /\ ~link[c].left
  /\ \E kind \in {"PING", "SEND"} :
       link' = [link EXCEPT ![c].heard = Append(@, kind)]
  /\ UNCHANGED down

\* A client that is served is not closed before it leaves.
LinkClose(c) ==
  LinkIs(c, {"served"}) /\ link[c].left /\ LinkTo(c, "closed") /\ UNCHANGED down

\* admiral exits or panics.
LinkDown == ~down /\ down' = TRUE /\ UNCHANGED link

AdmiralSide(c) ==
  \/ LinkAccept(c) \/ LinkAnswer(c) \/ LinkRefuse(c) \/ LinkServe(c)
  \/ LinkDeliver(c) \/ LinkClose(c)

ClientSide(c) == LinkConnect(c) \/ LinkSend(c) \/ LinkLeave(c)

LinkNext == LinkDown \/ \E c \in Clients : ClientSide(c) \/ AdmiralSide(c)

LinkSpec == LinkInit /\ [][LinkNext]_<<link, down>>
=============================================================================
