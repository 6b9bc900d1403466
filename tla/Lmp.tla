-------------------------------- MODULE Lmp --------------------------------
(***************************************************************************)
(* The LIONS Middleware Protocol codec: what lib/go/lmp/lmp.go and         *)
(* lib/c/lmp.c accept, write and read back.                                *)
(*                                                                         *)
(* A frame is a sequence of bytes: version, type, argument, flags, the     *)
(* payload, and the terminator 0x7F.  There is no length field and no      *)
(* escaping.  The field PayloadLength of the sources is the length of the  *)
(* payload: every caller in the repository keeps the two equal, and a nil  *)
(* payload is the empty sequence.                                          *)
(*                                                                         *)
(* No caller tells the Go errors apart (the text is only logged), so the   *)
(* Go side is a predicate; the C side returns an error code.               *)
(***************************************************************************)
EXTENDS Naturals, Sequences

CONSTANT MaxSize      \* LmpPacketMaxSize, 1500 in both libraries

ASSUME MaxSizeAssumption == MaxSize \in Nat /\ MaxSize >= 6

HeaderSize == 4
MinSize == 5
Byte == 0 .. 255

Versions == {1, 2}
TypeInit == 1
TypePing == 2
TypeSend == 3
TypeTerm == 4
TypeInvalid == 5
Types == TypeInit .. TypeInvalid
ArgInitInit == 1
ArgInitAccept == 2
ArgPing == 0
ArgSend == 0
ArgTermClean == 1
FlagsNone == 0
PayloadEmpty == 0
Terminate == 127

\* The arguments each packet type allows, indexed by the type.  The Go
\* function that decides this is called invalidArgsForType although it
\* answers TRUE for the valid ones.
ArgsOf == <<{ArgInitInit, ArgInitAccept}, {ArgPing}, {ArgSend},
            {ArgTermClean, 2}, 1 .. 6>>

Packet == [version : Byte, type : Byte, arg : Byte, flags : Byte,
           payload : Seq(Byte)]

\* The packets whose payload must be the single empty byte.
BareTypes == {TypeInit, TypeInvalid}

\* The bytes both serializers write for a packet they accept.
Frame(p) ==
  <<p.version, p.type, p.arg, p.flags>> \o p.payload \o <<Terminate>>

\* No terminator byte inside the frame.
Whole(p) ==
  /\ p.flags # Terminate
  /\ \A i \in DOMAIN p.payload : p.payload[i] # Terminate

\* Mutants of Unframe: the terminator stays in the payload; the flags are read
\* as a word of two bytes that starts at the argument.
UnframeWithTerminator(b) ==
  [version |-> b[1], type |-> b[2], arg |-> b[3], flags |-> b[4],
   payload |-> SubSeq(b, HeaderSize + 1, Len(b))]
UnframeWideFlags(b) ==
  [version |-> b[1], type |-> b[2], arg |-> b[3], flags |-> 256 * b[3] + b[4],
   payload |-> SubSeq(b, HeaderSize + 1, Len(b) - 1)]

\* The packet both deserializers read from a frame they accept.
Unframe(b) ==
  [version |-> b[1], type |-> b[2], arg |-> b[3], flags |-> b[4],
   payload |-> SubSeq(b, HeaderSize + 1, Len(b) - 1)]

-----------------------------------------------------------------------------
(* Go *)

\* LmpPacket.Serialize returns no error.
Serializable(p) ==
  LET bufferSize == HeaderSize + Len(p.payload) + 1
  IN /\ bufferSize >= MinSize /\ bufferSize <= MaxSize
     /\ Len(p.payload) >= 1
     /\ p.version \in Versions
     /\ p.type \in Types
     /\ p.arg \in ArgsOf[p.type]
     /\ p.type \in BareTypes =>
          Len(p.payload) = 1 /\ p.payload[1] = PayloadEmpty

\* Deserialize returns no error.
Deserializable(b) ==
  LET payloadLen == Len(b) - HeaderSize - 1
  IN /\ Len(b) >= MinSize /\ Len(b) <= MaxSize
     /\ b[1] \in Versions
     /\ b[2] \in Types
     /\ b[3] \in ArgsOf[b[2]]
     /\ b[2] \in BareTypes => b[HeaderSize + 1] = PayloadEmpty
     /\ b[Len(b)] = Terminate
     /\ payloadLen >= 1
     /\ b[2] \in BareTypes => payloadLen = 1
     /\ payloadLen = 1 => b[HeaderSize + 1] = PayloadEmpty

-----------------------------------------------------------------------------
(* C: the first check that fails gives the code. *)

\* lmp_packet_serialize into a buffer of size bytes.
CSerializeError(p, size) ==
  LET totalSize == HeaderSize + Len(p.payload) + 1
  IN IF Len(p.payload) < 1 THEN "BAD_PAYLOAD"
     ELSE IF p.version \notin Versions THEN "BAD_VERSION"
     ELSE IF p.type \notin Types THEN "BAD_TYPE"
     ELSE IF p.arg \notin ArgsOf[p.type] THEN "BAD_ARG"
     ELSE IF p.type \in BareTypes /\ p.payload # <<PayloadEmpty>> THEN "BAD_PAYLOAD"
     ELSE IF totalSize > MaxSize \/ size < totalSize THEN "BAD_SIZE"
     ELSE "NONE"

\* Mutant of CPayloadIsBad: the check of a lone byte is missing.
CPayloadIsBadButLone(b) ==
  LET payloadLen == Len(b) - HeaderSize - 1
  IN payloadLen < 1 \/ (b[2] \in BareTypes /\ payloadLen # 1)

\* The last checks of lmp_packet_deserialize.
CPayloadIsBad(b) ==
  LET payloadLen == Len(b) - HeaderSize - 1
  IN \/ payloadLen < 1
     \/ b[2] \in BareTypes /\ payloadLen # 1
     \/ payloadLen = 1 /\ b[HeaderSize + 1] # PayloadEmpty

\* lmp_packet_deserialize of the size = Len(b) bytes of b.
CDeserializeError(b) ==
  IF Len(b) < MinSize \/ Len(b) > MaxSize THEN "BAD_SIZE"
  ELSE IF b[1] \notin Versions THEN "BAD_VERSION"
  ELSE IF b[2] \notin Types THEN "BAD_TYPE"
  ELSE IF b[3] \notin ArgsOf[b[2]] THEN "BAD_ARG"
  ELSE IF b[2] \in BareTypes /\ b[HeaderSize + 1] # PayloadEmpty THEN "BAD_PAYLOAD"
  ELSE IF b[Len(b)] # Terminate THEN "BAD_TERMINATE"
  ELSE IF CPayloadIsBad(b) THEN "BAD_PAYLOAD"
  ELSE "NONE"
=============================================================================
