------------------------------ MODULE LmpLink ------------------------------
(***************************************************************************)
(* The sending half of a LIONS connection and the TCP stream under it:     *)
(* SendPacket of lib/go/liblmp and lmp_net_send_packet of lib/c/liblmp     *)
(* write the frame of a packet to the socket, and TCP hands the bytes to   *)
(* the other end in order, in pieces of its own choosing.  Nothing marks   *)
(* where one write ended.                                                  *)
(***************************************************************************)
EXTENDS Lmp

CONSTANTS Packets,     \* the packets the program sends
          MaxSends     \* bound on the packets of one behaviour

ASSUME PacketsAssumption == Packets \subseteq Packet
ASSUME MaxSendsAssumption == MaxSends \in Nat

VARIABLES sent,      \* packets SendPacket returned no error for
          wire,      \* bytes written and not yet read
          link       \* "open", "closed" by the sender, or "lost"

LinkTypeOK ==
  /\ sent \in Seq(Packet)
  /\ wire \in Seq(Byte)
  /\ link \in {"open", "closed", "lost"}

LinkInit == sent = <<>> /\ wire = <<>> /\ link = "open"

\* SendPacket(conn, p).  A packet Serialize refuses writes nothing.
SendPacket(p) ==
  /\ link = "open"
  /\ Len(sent) < MaxSends
  /\ Serializable(p)
  /\ sent' = Append(sent, p)
  /\ wire' = wire \o Frame(p)
  /\ UNCHANGED link

\* The sender closes its end in order: the bytes written still arrive.
Close ==
  /\ link = "open" /\ link' = "closed"
  /\ UNCHANGED <<sent, wire>>

\* The sender or its host dies: the stream ends at any byte.
Lose ==
  /\ link # "lost" /\ link' = "lost"
  /\ \E n \in 0 .. Len(wire) : wire' = SubSeq(wire, 1, n)
  /\ UNCHANGED sent

LinkNext == (\E p \in Packets : SendPacket(p)) \/ Close \/ Lose

-----------------------------------------------------------------------------

\* Whole, and not the payload both serializers write and no deserializer
\* reads: the packets that cross the stream as they are.
Clean(p) == Whole(p) /\ (Len(p.payload) = 1 => p.payload[1] = PayloadEmpty)
=============================================================================
