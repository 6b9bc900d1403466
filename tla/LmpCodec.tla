------------------------------ MODULE LmpCodec ------------------------------
(***************************************************************************)
(* One packet goes through the two codecs of the repository: some library  *)
(* writes it (lib/go/lmp or lib/c/lmp, chosen by the step), or a peer that *)
(* checks nothing puts its bytes on the wire, and both libraries then read *)
(* the bytes.  Admiral, gibson and s2 use the Go library, laitt and lights *)
(* the C one, so every combination is met in a running system.             *)
(***************************************************************************)
EXTENDS Lmp

CONSTANTS Candidates,      \* the packets a program may ask to send
          BufferSize       \* the buffer the C caller passes: sizeof(buffer)

ASSUME CandidatesAssumption == Candidates \subseteq Packet
\* Every buffer of a C caller has LMP_PACKET_MAX_SIZE bytes.
ASSUME BufferSizeAssumption == BufferSize \in Nat /\ BufferSize >= MaxSize

VARIABLES
          packet,     \* the packet to send
          writer,     \* "none", "go", "c", or "unchecked"
          refused,    \* the writer returned an error
          frame,      \* the bytes written
          goAccepts,  \* Go's Deserialize returned no error
          cCode,      \* the code C's deserialize left in result, or "unread"
          decoded     \* <<the packet the readers produced>>, or <<>>

vars == <<packet, writer, refused, frame, goAccepts, cCode, decoded>>

None == "none"

Init ==
  /\ packet \in Candidates
  /\ writer = None /\ refused = FALSE /\ frame = <<>>
  /\ goAccepts = FALSE /\ cCode = "unread" /\ decoded = <<>>

\* Go's Serialize of the packet.
GoWrite ==
  /\ writer = None /\ writer' = "go"
  /\ refused' = ~Serializable(packet)
  /\ frame' = IF Serializable(packet) THEN Frame(packet) ELSE <<>>
  /\ UNCHANGED <<packet, goAccepts, cCode, decoded>>

\* lmp_packet_serialize of the packet.
CWrite ==
  /\ writer = None /\ writer' = "c"
  /\ LET error == CSerializeError(packet, BufferSize)
     IN /\ refused' = (error # "NONE")
        /\ frame' = IF error = "NONE" THEN Frame(packet) ELSE <<>>
  /\ UNCHANGED <<packet, goAccepts, cCode, decoded>>

\* A peer without these libraries writes the bytes unchecked.  A reader hands
\* its codec a run of bytes that stops at the first terminator, or, for a
\* caller of Deserialize with a buffer of its own, any run at all.
UncheckedWrite ==
  /\ writer = None /\ writer' = "unchecked"
  /\ \E n \in 0 .. Len(Frame(packet)) : frame' = SubSeq(Frame(packet), 1, n)
  /\ UNCHANGED <<packet, refused, goAccepts, cCode, decoded>>

\* Both libraries read the bytes.
Read ==
  /\ writer # None /\ ~refused /\ cCode = "unread"
  /\ goAccepts' = Deserializable(frame)
  /\ cCode' = CDeserializeError(frame)
  /\ decoded' = IF Deserializable(frame) THEN <<Unframe(frame)>> ELSE <<>>
  /\ UNCHANGED <<packet, writer, refused, frame>>

Next == GoWrite \/ CWrite \/ UncheckedWrite \/ Read

Spec == Init /\ [][Next]_vars

-----------------------------------------------------------------------------

\* Whatever the bytes and whoever wrote them, Go and C agree on them: the two
\* deserializers, whose checks stand in a different form, accept the same
\* frames, and each serializer refuses exactly what the other refuses.
LibrariesAgree ==
  /\ cCode # "unread" => (goAccepts <=> cCode = "NONE")
  /\ writer \in {"go", "c"} =>
       (refused <=> CSerializeError(packet, BufferSize) # "NONE")
  /\ writer \in {"go", "c"} => (refused <=> ~Serializable(packet))

\* A packet a serializer accepts comes back unchanged, but for the one case
\* where serialize and deserialize differ: a payload of one byte that is not
\* 0x00, which both libraries write and neither reads.
RoundTrip ==
  (writer \in {"go", "c"} /\ cCode # "unread") =>
     IF Len(packet.payload) = 1 /\ packet.payload # <<PayloadEmpty>>
     THEN decoded = <<>>
     ELSE decoded = <<packet>>

\* A frame a deserializer accepts is the one frame its packet has: the packet
\* read can be serialized again, to the same bytes, so forwarding a packet
\* never changes it or fails.
Canonical ==
  decoded # <<>> => Serializable(decoded[1]) /\ Frame(decoded[1]) = frame
=============================================================================
