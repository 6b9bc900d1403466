----------------------------- MODULE LmpProofs -----------------------------
(***************************************************************************)
(* Lemmas on the codec, for every MaxSize: Frame and Unframe undo each     *)
(* other (each in its own direction, FrameIsUndone and UnframeIsUndone), a *)
(* packet that was written can be read and one that was read can be        *)
(* written, and the checks of the two deserializers, which stand in a      *)
(* different form and order, accept the same bytes (SameVerdict).          *)
(***************************************************************************)
EXTENDS Lmp, SequenceTheorems, TLAPS

\* Where the bytes of a frame are.
LEMMA FrameBytes ==
  ASSUME NEW p \in Packet
  PROVE  /\ Frame(p) \in Seq(Byte)
         /\ Len(p.payload) \in Nat
         /\ Len(Frame(p)) = HeaderSize + Len(p.payload) + 1
         /\ Frame(p)[1] = p.version /\ Frame(p)[2] = p.type
         /\ Frame(p)[3] = p.arg /\ Frame(p)[4] = p.flags
         /\ \A i \in 1 .. Len(p.payload) : Frame(p)[HeaderSize + i] = p.payload[i]
         /\ Frame(p)[HeaderSize + Len(p.payload) + 1] = Terminate
<1> DEFINE header == <<p.version, p.type, p.arg, p.flags>>
           body == header \o p.payload
<1>1. p.payload \in Seq(Byte) /\ Len(p.payload) \in Nat
  BY LenProperties DEF Packet
<1>2. /\ header \in Seq(Byte) /\ Len(header) = 4
      /\ header[1] = p.version /\ header[2] = p.type
      /\ header[3] = p.arg /\ header[4] = p.flags
  BY DEF Packet
<1>3. <<Terminate>> \in Seq(Byte) /\ Len(<<Terminate>>) = 1 /\ <<Terminate>>[1] = Terminate
  BY DEF Terminate, Byte
<1> HIDE DEF header
<1>4. /\ body \in Seq(Byte) /\ Len(body) = 4 + Len(p.payload)
      /\ \A i \in 1 .. 4 : body[i] = header[i]
      /\ \A i \in 1 .. Len(p.payload) : body[4 + i] = p.payload[i]
  <2>1. /\ body \in Seq(Byte) /\ Len(body) = 4 + Len(p.payload)
        /\ \A i \in 1 .. 4 + Len(p.payload) :
             body[i] = IF i <= 4 THEN header[i] ELSE p.payload[i - 4]
    <3> HIDE DEF header
    <3>1. /\ header \o p.payload \in Seq(Byte)
          /\ Len(header \o p.payload) = Len(header) + Len(p.payload)
          /\ \A i \in 1 .. Len(header) + Len(p.payload) :
               (header \o p.payload)[i] = IF i <= Len(header) THEN header[i]
                                          ELSE p.payload[i - Len(header)]
      BY <1>1, <1>2, ConcatProperties
    <3> QED  BY <1>2, <3>1
  <2> HIDE DEF body
  <2>2. ASSUME NEW i \in 1 .. 4 PROVE body[i] = header[i]
    <3>1. i \in 1 .. 4 + Len(p.payload) /\ i <= 4
      BY <1>1
    <3> QED  BY <2>1, <3>1
  <2>3. ASSUME NEW i \in 1 .. Len(p.payload) PROVE body[4 + i] = p.payload[i]
    <3>1. 4 + i \in 1 .. 4 + Len(p.payload) /\ ~(4 + i <= 4) /\ (4 + i) - 4 = i
      BY <1>1
    <3> QED  BY <2>1, <3>1
  <2> QED  BY <2>1, <2>2, <2>3
<1> HIDE DEF body
<1>5. Frame(p) = body \o <<Terminate>>
  BY DEF Frame, header, body
<1>6. /\ Frame(p) \in Seq(Byte) /\ Len(Frame(p)) = Len(body) + 1
      /\ \A i \in 1 .. Len(body) : Frame(p)[i] = body[i]
      /\ Frame(p)[Len(body) + 1] = Terminate
  <2> DEFINE end == <<Terminate>>
  <2>1. end \in Seq(Byte) /\ Len(end) = 1 /\ end[1] = Terminate /\ Frame(p) = body \o end
    BY <1>3, <1>5
  <2> HIDE DEF end
  <2>2. body \in Seq(Byte)
    BY <1>4
  <2>3. /\ body \o end \in Seq(Byte)
        /\ Len(body \o end) = Len(body) + Len(end)
        /\ \A i \in 1 .. Len(body) + Len(end) :
             (body \o end)[i] = IF i <= Len(body) THEN body[i] ELSE end[i - Len(body)]
    <3>1. end \in Seq(Byte)
      BY <2>1
    <3> QED  BY <2>2, <3>1, ConcatProperties
  <2> QED  BY <1>1, <1>4, <2>1, <2>3
<1>7. \A i \in 1 .. Len(p.payload) : Frame(p)[4 + i] = p.payload[i]
  <2> TAKE i \in 1 .. Len(p.payload)
  <2>1. 4 + i \in 1 .. Len(body)
    BY <1>1, <1>4
  <2> QED  BY <1>4, <1>6, <2>1
<1>8. Len(Frame(p)) = 4 + Len(p.payload) + 1
      /\ Frame(p)[4 + Len(p.payload) + 1] = Terminate
  BY <1>1, <1>4, <1>6
<1>9. \A i \in 1 .. 4 : Frame(p)[i] = header[i]
  BY <1>1, <1>4, <1>6
<1>10. /\ Frame(p)[1] = p.version /\ Frame(p)[2] = p.type
       /\ Frame(p)[3] = p.arg /\ Frame(p)[4] = p.flags
  BY <1>2, <1>9
<1> QED  BY <1>1, <1>6, <1>7, <1>8, <1>10 DEF HeaderSize

\* Where the bytes of a run go that is read as a packet.
LEMMA UnframeFields ==
  ASSUME NEW b \in Seq(Byte), Len(b) >= MinSize
  PROVE  /\ Unframe(b) \in Packet
         /\ Len(Unframe(b).payload) = Len(b) - HeaderSize - 1
         /\ Unframe(b).version = b[1] /\ Unframe(b).type = b[2]
         /\ Unframe(b).arg = b[3] /\ Unframe(b).flags = b[4]
         /\ \A i \in 1 .. Len(b) - HeaderSize - 1 :
              Unframe(b).payload[i] = b[HeaderSize + i]
<1> DEFINE body == SubSeq(b, HeaderSize + 1, Len(b) - 1)
<1>0. Len(b) \in Nat /\ Len(b) >= 5
  BY LenProperties DEF MinSize
<1>1. Len(b) \in Nat /\ Len(b) >= 5 /\ \A i \in 1 .. Len(b) : b[i] \in Byte
  BY LenProperties DEF MinSize
<1>2. b[1] \in Byte /\ b[2] \in Byte /\ b[3] \in Byte /\ b[4] \in Byte
  BY <1>1
<1>3. /\ body \in Seq(Byte) /\ Len(body) = Len(b) - HeaderSize - 1
      /\ \A i \in 1 .. Len(b) - HeaderSize - 1 : body[i] = b[HeaderSize + i]
  <2>1. HeaderSize + 1 \in Int /\ Len(b) - 1 \in Int
    BY <1>1 DEF HeaderSize
  <2>2. \A i \in HeaderSize + 1 .. Len(b) - 1 : b[i] \in Byte
    BY <1>1 DEF HeaderSize
  <2>3. /\ body \in Seq(Byte)
        /\ Len(body) = IF HeaderSize + 1 <= Len(b) - 1
                       THEN Len(b) - 1 - (HeaderSize + 1) + 1 ELSE 0
        /\ \A i \in 1 .. Len(b) - 1 - (HeaderSize + 1) + 1 :
             body[i] = b[HeaderSize + 1 + i - 1]
    BY <2>1, <2>2, SubSeqProperties
  <2> HIDE DEF body
  <2>4. Len(body) = Len(b) - HeaderSize - 1
    <3>1. Len(body) = IF HeaderSize + 1 <= Len(b) - 1
                      THEN Len(b) - 1 - (HeaderSize + 1) + 1 ELSE 0
      BY <2>3
    <3>2. CASE HeaderSize + 1 <= Len(b) - 1
      BY <1>0, <3>1, <3>2 DEF HeaderSize
    <3>3. CASE ~(HeaderSize + 1 <= Len(b) - 1)
      <4>1. \A n \in Nat : n >= 5 /\ ~(4 + 1 <= n - 1) => n - 4 - 1 = 0
        OBVIOUS
      <4>2. Len(b) - HeaderSize - 1 = 0
        BY <1>0, <3>3, <4>1 DEF HeaderSize
      <4> QED  BY <3>1, <3>3, <4>2
    <3> QED  BY <3>2, <3>3
  <2>5. ASSUME NEW i \in 1 .. Len(b) - HeaderSize - 1
        PROVE  body[i] = b[HeaderSize + i]
    <3>1. /\ i \in 1 .. Len(b) - 1 - (HeaderSize + 1) + 1
          /\ HeaderSize + 1 + i - 1 = HeaderSize + i
      BY <1>1 DEF HeaderSize
    <3> QED  BY <2>3, <3>1
  <2> QED  BY <2>3, <2>4, <2>5
<1> HIDE DEF body
<1>4. Unframe(b) = [version |-> b[1], type |-> b[2], arg |-> b[3],
                    flags |-> b[4], payload |-> body]
  BY DEF Unframe, body
<1> QED  BY <1>2, <1>3, <1>4 DEF Packet

\* Reading the frame of a packet gives the packet.
LEMMA FrameIsUndone ==
  ASSUME NEW p \in Packet
  PROVE  Unframe(Frame(p)) = p
<1> DEFINE q == Unframe(Frame(p))
<1>1. Len(Frame(p)) >= MinSize
  BY FrameBytes DEF HeaderSize, MinSize
<1>0. Frame(p) \in Seq(Byte) /\ Len(p.payload) \in Nat
      /\ Len(Frame(p)) - HeaderSize - 1 = Len(p.payload)
  BY FrameBytes DEF HeaderSize
<1>2. /\ q \in Packet /\ q.version = p.version /\ q.type = p.type
      /\ q.arg = p.arg /\ q.flags = p.flags
      /\ Len(q.payload) = Len(p.payload)
      /\ \A i \in 1 .. Len(p.payload) : q.payload[i] = p.payload[i]
  <2>1. /\ q \in Packet /\ q.version = Frame(p)[1] /\ q.type = Frame(p)[2]
        /\ q.arg = Frame(p)[3] /\ q.flags = Frame(p)[4]
        /\ Len(q.payload) = Len(p.payload)
        /\ \A i \in 1 .. Len(p.payload) : q.payload[i] = Frame(p)[HeaderSize + i]
    BY <1>0, <1>1, UnframeFields
  <2> HIDE DEF q
  <2> QED  BY <2>1, FrameBytes
<1> HIDE DEF q
<1>3. q.payload \in Seq(Byte) /\ p.payload \in Seq(Byte)
  BY <1>2 DEF Packet
<1>4. q.payload = p.payload
  BY <1>2, <1>3, SeqEqual
<1> QED  BY <1>2, <1>4 DEF Packet, q

\* Writing what was read from terminated bytes gives the bytes.
LEMMA UnframeIsUndone ==
  ASSUME NEW b \in Seq(Byte), Len(b) >= MinSize, b[Len(b)] = Terminate
  PROVE  Frame(Unframe(b)) = b
<1> DEFINE q == Unframe(b)
           f == Frame(q)
<1>1. Len(b) \in Nat
  BY LenProperties
<1>2. /\ q \in Packet /\ Len(q.payload) = Len(b) - HeaderSize - 1
      /\ q.version = b[1] /\ q.type = b[2] /\ q.arg = b[3] /\ q.flags = b[4]
      /\ \A i \in 1 .. Len(b) - HeaderSize - 1 : q.payload[i] = b[HeaderSize + i]
  BY UnframeFields
<1> HIDE DEF q
<1>3. /\ f \in Seq(Byte) /\ Len(f) = Len(b)
      /\ f[1] = b[1] /\ f[2] = b[2] /\ f[3] = b[3] /\ f[4] = b[4]
      /\ \A i \in 1 .. Len(b) - HeaderSize - 1 : f[HeaderSize + i] = b[HeaderSize + i]
      /\ f[Len(b)] = b[Len(b)]
  <2>1. /\ f \in Seq(Byte) /\ Len(f) = HeaderSize + Len(q.payload) + 1
        /\ f[1] = q.version /\ f[2] = q.type /\ f[3] = q.arg /\ f[4] = q.flags
        /\ \A i \in 1 .. Len(q.payload) : f[HeaderSize + i] = q.payload[i]
        /\ f[HeaderSize + Len(q.payload) + 1] = Terminate
    BY <1>2, FrameBytes
  <2> HIDE DEF f
  <2>2. HeaderSize + Len(q.payload) + 1 = Len(b)
    BY <1>1, <1>2 DEF HeaderSize
  <2> QED  BY <1>2, <2>1, <2>2
<1> HIDE DEF f
<1>4. \A i \in 1 .. Len(b) : f[i] = b[i]
  <2> TAKE i \in 1 .. Len(b)
  <2>1. CASE i \in 1 .. 4
    <3>1. i = 1 \/ i = 2 \/ i = 3 \/ i = 4
      BY <2>1
    <3> QED  BY <1>3, <3>1
  <2>2. CASE i = Len(b)
    BY <1>3, <2>2
  <2>3. CASE i \in 5 .. Len(b) - 1
    <3>1. i - 4 \in 1 .. Len(b) - HeaderSize - 1 /\ HeaderSize + (i - 4) = i
      BY <1>1, <2>3 DEF HeaderSize
    <3> QED  BY <1>3, <3>1
  <2> QED  BY <1>1, <2>1, <2>2, <2>3
<1>5. f = b
  BY <1>3, <1>4, SeqEqual
<1> QED  BY <1>5 DEF f, q

\* A packet that was read can be written again.
LEMMA WhatIsReadCanBeWritten ==
  ASSUME NEW b \in Seq(Byte), Deserializable(b)
  PROVE  Serializable(Unframe(b)) /\ Frame(Unframe(b)) = b
<1> DEFINE q == Unframe(b)
<1>1. /\ Len(b) \in Nat /\ Len(b) >= MinSize /\ Len(b) <= MaxSize
      /\ b[Len(b)] = Terminate /\ Len(b) - HeaderSize - 1 >= 1
  BY LenProperties DEF Deserializable
<1>2. /\ Len(q.payload) = Len(b) - HeaderSize - 1
      /\ q.version = b[1] /\ q.type = b[2] /\ q.arg = b[3]
      /\ \A i \in 1 .. Len(b) - HeaderSize - 1 :
              q.payload[i] = b[HeaderSize + i]
  BY <1>1, UnframeFields
<1> HIDE DEF q
<1>3. q.payload[1] = b[HeaderSize + 1]
  BY <1>1, <1>2
<1>4. HeaderSize + Len(q.payload) + 1 = Len(b)
  BY <1>1, <1>2 DEF HeaderSize
<1>5. Serializable(q)
  BY <1>1, <1>2, <1>3, <1>4 DEF Serializable, Deserializable
<1> QED  BY <1>1, <1>5, UnframeIsUndone DEF q

\* A packet that was written is read, but for the one payload of a lone byte.
LEMMA WhatIsWrittenCanBeRead ==
  ASSUME NEW p \in Packet, Serializable(p)
  PROVE  Deserializable(Frame(p))
           <=> (Len(p.payload) = 1 => p.payload[1] = PayloadEmpty)
<1> DEFINE f == Frame(p)
<1>1. /\ Len(p.payload) \in Nat /\ Len(p.payload) >= 1
      /\ HeaderSize + Len(p.payload) + 1 >= MinSize
      /\ HeaderSize + Len(p.payload) + 1 <= MaxSize
  BY FrameBytes DEF Serializable
<1>2. /\ Len(f) = HeaderSize + Len(p.payload) + 1
      /\ f[1] = p.version /\ f[2] = p.type /\ f[3] = p.arg
      /\ f[HeaderSize + 1] = p.payload[1]
      /\ f[HeaderSize + Len(p.payload) + 1] = Terminate
  BY <1>1, FrameBytes
<1> HIDE DEF f
<1>3. Len(f) - HeaderSize - 1 = Len(p.payload)
  BY <1>1, <1>2 DEF HeaderSize
<1>4. Deserializable(f) <=> (Len(p.payload) = 1 => p.payload[1] = PayloadEmpty)
  BY <1>1, <1>2, <1>3 DEF Serializable, Deserializable
<1> QED  BY <1>4 DEF f

\* The two deserializers accept the same bytes.
LEMMA SameVerdict ==
  ASSUME NEW b \in Seq(Byte)
  PROVE  Deserializable(b) <=> CDeserializeError(b) = "NONE"
<1>1. Len(b) \in Nat
  BY LenProperties
<1>2. CPayloadIsBad(b) <=>
        ~ LET payloadLen == Len(b) - HeaderSize - 1
          IN /\ payloadLen >= 1
             /\ b[2] \in BareTypes => payloadLen = 1
             /\ payloadLen = 1 => b[HeaderSize + 1] = PayloadEmpty
  BY <1>1 DEF CPayloadIsBad, HeaderSize
<1>3. (Len(b) < MinSize \/ Len(b) > MaxSize)
        <=> ~(Len(b) >= MinSize /\ Len(b) <= MaxSize)
  BY <1>1, MaxSizeAssumption DEF MinSize
<1> QED  BY <1>2, <1>3 DEF Deserializable, CDeserializeError
=============================================================================
