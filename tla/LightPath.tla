----------------------------- MODULE LightPath -----------------------------
(***************************************************************************)
(* The path of a light command: lights, a program that runs once, hands    *)
(* the command to admiral and exits; admiral dials laitt for it; laitt     *)
(* publishes what it reads to MQTT.  Composes services/lights/lights.c,    *)
(* the handshake of lib/c/liblmp.c, Broker and services/laitt/laitt.c.     *)
(*                                                                         *)
(* laitt never registers with admiral, so every command travels on a TCP   *)
(* connection of its own between admiral and laitt.  A connection admiral  *)
(* dialled carries one packet, or none when admiral could not serialize    *)
(* what it had to forward.                                                 *)
(*                                                                         *)
(* The environment: laitt is up, so a dial to it succeeds, and Mosquitto   *)
(* takes what is published.                                                *)
(***************************************************************************)
EXTENDS BrokerProperties

CONSTANTS
  LightsConns,   \* the connections of runs of lights; the other Conns are
                 \* clients of any kind
  Lights,        \* LMP_ADMIRAL_SERVICE_LIGHTS
  Laitt,         \* LMP_ADMIRAL_SERVICE_LAITT
  Commands,      \* the messages lights knows, as bytes
  MaxClients     \* bound on the clients of one behaviour

VARIABLES
  lights,        \* each run of lights: its pc and its argv[1]
  laitt,         \* laitt is in "accept" or in "recv"
  taken,         \* how many of the connections admiral dialled it accepted
  published      \* the payloads published to LAITT_LIGHTS_TOPIC_SET

laittVars == <<laitt, taken, published>>
pathVars == <<vars, lights, laittVars>>

\* An argument lights does not know.
NoCommand == <<>>

\* The packets of the handshake, and the one that carries a message.
InitPacket == Build(TypeInit, ArgInitInit, <<PayloadEmpty>>)
ClaimPacket == Build(TypeSend, ArgSend, <<Admiral, Lights>>)
CommandPacket(message) == Build(TypeSend, ArgSend, <<Laitt, Lights>> \o message)

ASSUME LightsAssumption == LightsConns \subseteq Conns \ SelfConns
ASSUME LaittAssumption == Laitt \in Services \ {Admiral}
\* lights goes on without sending when lmp_packet_serialize refuses the packet;
\* it refuses none of these.
ASSUME CommandsAssumption ==
  /\ Commands \subseteq Seq(Byte) /\ NoCommand \notin Commands
  /\ \A m \in Commands : CSerializeError(CommandPacket(m), MaxSize) = "NONE"
ASSUME LightsMenuAssumption ==
  \A c \in LightsConns :
    Menu[c] = <<{InitPacket}, {ClaimPacket}, {CommandPacket(m) : m \in Commands}>>

ASSUME MaxClientsAssumption == MaxClients \in Nat

PathTypeOK ==
  /\ TypeOK
  /\ lights \in [LightsConns ->
                   [pc : {"off", "init", "claim", "wait", "command", "exit", "done"},
                    argv : Commands \cup {NoCommand}]]
  /\ laitt \in {"accept", "recv"}
  /\ taken \in 0 .. Len(dialled[Laitt])
  /\ published \in Seq(Seq(Byte))

PathInit ==
  /\ Init
  /\ lights = [c \in LightsConns |-> [pc |-> "off", argv |-> NoCommand]]
  /\ laitt = "accept" /\ taken = 0 /\ published = <<>>

-----------------------------------------------------------------------------
(* lights *)

LightsAt(c, pc) == c \in LightsConns /\ lights[c].pc = pc
Goto(c, pc) == lights' = [lights EXCEPT ![c].pc = pc]

MayConnect == Cardinality({c \in Conns : peer[c] # "absent"}) < MaxClients

\* The user types a command, and lights connects before it looks at it.
LightsStart(c) ==
  /\ LightsAt(c, "off") /\ MayConnect /\ Connect(c)
  /\ \E m \in Commands \cup {NoCommand} :
       lights' = [lights EXCEPT ![c] = [pc |-> "init", argv |-> m]]

\* lmp_net_send_packet.  On a connection admiral has closed the bytes are lost,
\* with or without an error: an error of send leaves result.error at
\* LMP_ERR_NONE, so lights goes on, unless SIGPIPE ends it.
LightsSend(c, pc, packet, next) ==
  /\ LightsAt(c, pc)
  /\ \/ /\ sock[c] # "closed"
        /\ ClientSend(c) /\ inbox'[c] = Append(inbox[c], packet)
        /\ Goto(c, next)
     \/ /\ sock[c] = "closed"
        /\ \E to \in {next, "exit"} : Goto(c, to)
        /\ UNCHANGED vars

\* lmp_admiral_service_handshake blocks until a packet or the end of the
\* connection is read.  main ignores what it returns.
LightsReadAnswer(c) ==
  /\ LightsAt(c, "wait")
  /\ outbox[c] # <<>> \/ sock[c] = "closed"
  /\ Goto(c, "command")
  /\ UNCHANGED vars

\* A command lights does not know.
LightsBadCommand(c) ==
  /\ LightsAt(c, "command") /\ lights[c].argv = NoCommand
  /\ Goto(c, "exit")
  /\ UNCHANGED vars

\* The command is sent.
LightsCommand(c) ==
  /\ lights[c].argv # NoCommand
  /\ LightsSend(c, "command", CommandPacket(lights[c].argv), "exit")

\* main returns, without waiting for anything, and the kernel closes the
\* connection; or the user interrupts it before.
LightsExit(c) == LightsAt(c, "exit") /\ ClientLeave(c) /\ Goto(c, "done")
LightsInterrupted(c) ==
  /\ \E pc \in {"init", "claim", "wait", "command"} : LightsAt(c, pc)
  /\ ClientLeave(c) /\ Goto(c, "done")

LightsStep(c) ==
  \/ LightsSend(c, "init", InitPacket, "claim")
  \/ LightsSend(c, "claim", ClaimPacket, "wait")
  \/ LightsReadAnswer(c)
  \/ LightsBadCommand(c)
  \/ LightsCommand(c)
  \/ LightsExit(c)

-----------------------------------------------------------------------------
(* laitt *)

\* accept: the next connection admiral dialled.
LaittAccept ==
  /\ laitt = "accept" /\ taken < Len(dialled[Laitt])
  /\ taken' = taken + 1 /\ laitt' = "recv"
  /\ UNCHANGED <<vars, lights, published>>

\* The bytes lmp_net_recv_packet copies: up to the first terminator.
Received(frame) ==
  SubSeq(frame, 1, CHOOSE i \in DOMAIN frame :
                     /\ frame[i] = Terminate
                     /\ \A j \in 1 .. i - 1 : frame[j] # Terminate)

\* It returns a packet.  A frame that fills the buffer is refused.
LaittReads(frame) ==
  \E bytes \in {Received(frame)} :
    Len(bytes) < MaxSize /\ CDeserializeError(bytes) = "NONE"

\* Mutants of LaittRefuse: the loop goes on to publish the packet, which is still
\* as lmp_packet_init left it, or main returns.
LaittRefuseAndPublish ==
  laitt' = "accept" /\ published' = Append(published, <<>>)
LaittRefuseAndReturn == laitt' = "returned" /\ UNCHANGED published

\* A bad packet: the connection is closed and the loop goes on.
LaittRefuse == laitt' = "accept" /\ UNCHANGED published

\* One packet is read and published, and the connection is closed.  On a
\* connection without a packet laitt waits until admiral's end is finalized.
LaittRecv ==
  LET packet == dialled[Laitt][taken]
      readable == packet # BadFrame /\ LaittReads(Frame(packet))
  IN /\ laitt = "recv"
     /\ IF readable
        THEN /\ published' = Append(published, Unframe(Received(Frame(packet))).payload)
             /\ laitt' = "accept"
        ELSE LaittRefuse
     /\ UNCHANGED <<vars, lights, taken>>

LaittStep == LaittAccept \/ LaittRecv

-----------------------------------------------------------------------------
(* The composition *)

\* laitt is up: a dial to it succeeds.
PathServerStep(c) ==
  /\ ServerStep(c)
  /\ (server[c].pc = "dial" /\ server[c].to = Laitt) => dialled' # dialled

BrokerStep ==
  \/ AcceptorStep \/ HandlerStep
  \/ \E c \in Conns : PathServerStep(c) \/ Finalize(c)
  \/ \E c \in Conns \ LightsConns :
       (peer[c] = "absent" => MayConnect) /\ ClientStep(c)

PathNext ==
  \/ BrokerStep /\ UNCHANGED <<lights, laittVars>>
  \/ \E c \in LightsConns :
       (LightsStart(c) \/ LightsStep(c) \/ LightsInterrupted(c)) /\ UNCHANGED laittVars
  \/ LaittStep

\* Broker's fairness; lights runs on once it is started, and laitt's loop too:
\* the silent connections it waits for are finalized.
PathSpec ==
  /\ PathInit /\ [][PathNext]_pathVars
  /\ WF_pathVars(AcceptorStep /\ UNCHANGED <<lights, laittVars>>)
  /\ WF_pathVars(HandlerStep /\ UNCHANGED <<lights, laittVars>>)
  /\ \A c \in Conns :
       /\ WF_pathVars(/\ ~WaitsForReader(c) /\ PathServerStep(c)
                      /\ UNCHANGED <<lights, laittVars>>)
       /\ WF_pathVars(Finalize(c) /\ UNCHANGED <<lights, laittVars>>)
  /\ \A c \in LightsConns : WF_pathVars(LightsStep(c) /\ UNCHANGED laittVars)
  /\ WF_pathVars(LaittStep)

-----------------------------------------------------------------------------

\* What send i of client c was: one packet of its menu, the command of the user
\* if it is the third of a run of lights.
Sent(c, i) ==
  IF c \in LightsConns /\ i = 3 THEN {CommandPacket(lights[c].argv)} ELSE Menu[c][i]

\* A packet for laitt that makes it publish message.
Carries(f, message) ==
  /\ f # BadFrame /\ Len(f.payload) >= 2 /\ f.payload[1] = Laitt
  /\ \/ f.type = TypeSend /\ message = SubSeq(f.payload, 3, Len(f.payload))
     \/ f.type = TypePing /\ message = <<PayloadEmpty>>

\* The runs of lights on a host or port config.json has for lights; outside
\* strict mode, all of them.
Configured(c) ==
  StrictMode => \/ ConnAddr[c].ip = ServiceAddr[Lights].ip
                \/ ConnAddr[c].port = ServiceAddr[Lights].port

\* The send was made by a client the handshake accepted, on a configured address
\* if it is a run of lights, and it carried message to laitt.
MayPublish(send, message) ==
  /\ service[send[1]] # NoService
  /\ send[1] \in LightsConns => Configured(send[1])
  /\ \E f \in Sent(send[1], send[2]) : Carries(f, message)

\* Every publication has a send of its own: nothing is published twice, nothing
\* that nobody sent, and nothing a refused client sent; and the messages of one
\* client are published in the order in which it sent them.  A run that admiral
\* refused sends its command all the same, what laitt cannot read must not be
\* published as an empty message, and every message travels on a connection of its
\* own.
PublishedOnce ==
  \E of \in Injection(DOMAIN published, Sends) :
    /\ \A i \in DOMAIN published : MayPublish(of[i], published[i])
    /\ \A i, j \in DOMAIN published :
         (i < j /\ of[i][1] = of[j][1]) => of[i][2] < of[j][2]

\* The command of an accepted run of lights reaches the lights, although lights
\* exits before admiral has read it, whatever other clients make admiral and
\* laitt wait for.
CommandIsPublished ==
  \A c \in LightsConns :
    (lights[c].pc = "exit" /\ lights[c].argv # NoCommand /\ service[c] = Lights)
      ~> (crashed \/ \E i \in DOMAIN published : published[i] = lights[c].argv)

\* A run of lights ends, accepted or refused, unless the acceptor is from some
\* moment on stuck with a silent client.
LightsEnds ==
  []<>(~WaitsForSilentClient) =>
    \A c \in LightsConns :
      (lights[c].pc # "off") ~> (lights[c].pc = "done" \/ crashed)
=============================================================================
