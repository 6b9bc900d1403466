--------------------------- MODULE LmpCodecProofs ---------------------------
(***************************************************************************)
(* The codec's three properties for every MaxSize, every buffer that holds *)
(* a frame and every packet.                                               *)
(*                                                                         *)
(* The weight is in the lemmas of LmpProofs and in SameRefusal, its twin   *)
(* for the serializers.  The invariant only carries them from the write to *)
(* the read.                                                               *)
(***************************************************************************)
EXTENDS LmpCodec, LmpProofs

\* What is on the wire was written by the writer, and what was read came from
\* the wire.
Written ==
  writer \in {"go", "c"} =>
    /\ refused <=> ~Serializable(packet)
    /\ ~refused => frame = Frame(packet)

ReadBack ==
  IF cCode = "unread" THEN decoded = <<>>
  ELSE /\ writer # None /\ ~refused
       /\ goAccepts <=> Deserializable(frame)
       /\ cCode = CDeserializeError(frame)
       /\ decoded = IF Deserializable(frame) THEN <<Unframe(frame)>> ELSE <<>>

IInv ==
  /\ packet \in Packet
  /\ frame \in Seq(Byte)
  /\ Written
  /\ ReadBack

-----------------------------------------------------------------------------

\* The two serializers refuse the same packets.
LEMMA SameRefusal ==
  ASSUME NEW p \in Packet
  PROVE  Serializable(p) <=> CSerializeError(p, BufferSize) = "NONE"
<1> DEFINE total == HeaderSize + Len(p.payload) + 1
<1>1. p.payload \in Seq(Byte) /\ Len(p.payload) \in Nat /\ total \in Nat
  BY LenProperties DEF Packet, HeaderSize
<1>2. p.payload = <<PayloadEmpty>>
        <=> Len(p.payload) = 1 /\ p.payload[1] = PayloadEmpty
  <2>1. /\ <<PayloadEmpty>> \in Seq(Byte) /\ Len(<<PayloadEmpty>>) = 1
        /\ <<PayloadEmpty>>[1] = PayloadEmpty
    BY DEF PayloadEmpty, Byte
  <2>2. ASSUME Len(p.payload) = 1, p.payload[1] = PayloadEmpty
        PROVE  p.payload = <<PayloadEmpty>>
    BY <1>1, <2>1, <2>2, SeqEqual
  <2> QED  BY <2>1, <2>2
<1>3. (total > MaxSize \/ BufferSize < total) <=> ~(total <= MaxSize)
  BY <1>1, BufferSizeAssumption, MaxSizeAssumption
<1>4. /\ Len(p.payload) < 1 <=> ~(Len(p.payload) >= 1)
      /\ Len(p.payload) >= 1 => total >= MinSize
  BY <1>1 DEF HeaderSize, MinSize
<1> HIDE DEF total
<1>5. Serializable(p) <=>
        /\ Len(p.payload) >= 1 /\ p.version \in Versions /\ p.type \in Types
        /\ p.arg \in ArgsOf[p.type]
        /\ p.type \in BareTypes => p.payload = <<PayloadEmpty>>
        /\ total <= MaxSize
  BY <1>2, <1>4 DEF Serializable, total
<1> QED  BY <1>3, <1>4, <1>5 DEF CSerializeError, total

-----------------------------------------------------------------------------

LEMMA InitIInv == Init => IInv
<1> SUFFICES ASSUME Init PROVE IInv
  OBVIOUS
<1>1. packet \in Packet
  BY CandidatesAssumption DEF Init
<1>2. <<>> \in Seq(Byte)
  BY EmptySeq
<1> QED  BY <1>1, <1>2 DEF Init, IInv, Written, ReadBack, None

LEMMA WriteKeepsIInv ==
  ASSUME IInv, GoWrite \/ CWrite
  PROVE  IInv'
<1>1. packet' = packet /\ writer' # None /\ cCode' = cCode /\ decoded' = decoded
      /\ writer = None
  BY DEF GoWrite, CWrite, None
<1>2. packet \in Packet /\ <<>> \in Seq(Byte) /\ Frame(packet) \in Seq(Byte)
  BY EmptySeq, FrameBytes DEF IInv
<1>3. /\ refused' <=> ~Serializable(packet)
      /\ frame' = IF Serializable(packet) THEN Frame(packet) ELSE <<>>
  <2>1. CASE GoWrite
    BY <2>1 DEF GoWrite
  <2>2. CASE CWrite
    BY <1>2, <2>2, SameRefusal DEF CWrite
  <2> QED  BY <2>1, <2>2
<1>4. ReadBack'
  BY <1>1 DEF IInv, ReadBack
<1> QED  BY <1>1, <1>2, <1>3, <1>4 DEF IInv, Written

LEMMA UncheckedWriteKeepsIInv ==
  ASSUME IInv, UncheckedWrite
  PROVE  IInv'
<1>1. PICK n \in 0 .. Len(Frame(packet)) : frame' = SubSeq(Frame(packet), 1, n)
  BY DEF UncheckedWrite
<1>2. packet \in Packet /\ Frame(packet) \in Seq(Byte)
  BY FrameBytes DEF IInv
<1>3. frame' \in Seq(Byte)
  <2>1. Len(Frame(packet)) \in Nat
        /\ \A i \in 1 .. Len(Frame(packet)) : Frame(packet)[i] \in Byte
    BY <1>2, LenProperties
  <2>2. n \in Int /\ \A i \in 1 .. n : Frame(packet)[i] \in Byte
    BY <2>1
  <2> QED  BY <1>1, <2>2, SubSeqProperties
<1> QED
  BY <1>3 DEF UncheckedWrite, IInv, Written, ReadBack, None

LEMMA ReadKeepsIInv ==
  ASSUME IInv, Read
  PROVE  IInv'
<1>1. cCode' # "unread"
  BY DEF Read, CDeserializeError
<1> QED  BY <1>1 DEF Read, IInv, Written, ReadBack

LEMMA NextIInv == IInv /\ [Next]_vars => IInv'
<1>1. IInv /\ UNCHANGED vars => IInv'
  BY DEF vars, IInv, Written, ReadBack
<1> QED
  BY <1>1, WriteKeepsIInv, UncheckedWriteKeepsIInv, ReadKeepsIInv DEF Next

\* In every state what is written is the packet's frame, and what is read comes
\* from the frame.
LEMMA CodecInvariant == Spec => []IInv
BY InitIInv, NextIInv, PTL DEF Spec

\* Go and C agree on every run of bytes and on every packet, whatever the
\* largest size and however much larger the C caller's buffer is.
THEOREM LibrariesAgreeTheorem == Spec => []LibrariesAgree
<1>1. IInv => LibrariesAgree
  <2> SUFFICES ASSUME IInv PROVE LibrariesAgree
    OBVIOUS
  <2>1. cCode # "unread" => (goAccepts <=> cCode = "NONE")
    BY SameVerdict DEF IInv, ReadBack
  <2>2. Serializable(packet) <=> CSerializeError(packet, BufferSize) = "NONE"
    BY SameRefusal DEF IInv
  <2> QED  BY <2>1, <2>2 DEF IInv, Written, LibrariesAgree
<1> QED  BY <1>1, CodecInvariant, PTL

\* Every packet but the one with a lone byte comes back as it was.
THEOREM RoundTripTheorem == Spec => []RoundTrip
<1>1. IInv => RoundTrip
  <2> SUFFICES ASSUME IInv, writer \in {"go", "c"}, cCode # "unread"
               PROVE  IF Len(packet.payload) = 1 /\ packet.payload # <<PayloadEmpty>>
                      THEN decoded = <<>> ELSE decoded = <<packet>>
    BY DEF RoundTrip
  <2>1. packet \in Packet /\ Serializable(packet) /\ frame = Frame(packet)
    BY DEF IInv, Written, ReadBack
  <2>2. Unframe(frame) = packet
    BY <2>1, FrameIsUndone
  <2>3. decoded = IF Deserializable(frame) THEN <<packet>> ELSE <<>>
    BY <2>2 DEF IInv, ReadBack
  <2>4. Len(packet.payload) = 1 =>
          (packet.payload[1] = PayloadEmpty <=> packet.payload = <<PayloadEmpty>>)
    <3>1. packet.payload \in Seq(Byte)
      BY <2>1 DEF Packet
    <3>2. /\ <<PayloadEmpty>> \in Seq(Byte) /\ Len(<<PayloadEmpty>>) = 1
          /\ <<PayloadEmpty>>[1] = PayloadEmpty
      BY DEF PayloadEmpty, Byte
    <3>3. ASSUME Len(packet.payload) = 1, packet.payload[1] = PayloadEmpty
          PROVE  packet.payload = <<PayloadEmpty>>
      BY <3>1, <3>2, <3>3, SeqEqual
    <3> QED  BY <3>2, <3>3
  <2> QED  BY <2>1, <2>3, <2>4, WhatIsWrittenCanBeRead
<1> QED  BY <1>1, CodecInvariant, PTL

\* What is read can be written again, to the same bytes.
THEOREM CanonicalTheorem == Spec => []Canonical
<1>1. IInv => Canonical
  <2> SUFFICES ASSUME IInv, decoded # <<>>
               PROVE  Serializable(decoded[1]) /\ Frame(decoded[1]) = frame
    BY DEF Canonical
  <2>1. Deserializable(frame) /\ decoded = <<Unframe(frame)>>
    BY DEF IInv, ReadBack
  <2>2. decoded[1] = Unframe(frame)
    BY <2>1
  <2> QED  BY <2>1, <2>2, WhatIsReadCanBeWritten DEF IInv
<1> QED  BY <1>1, CodecInvariant, PTL
=============================================================================
