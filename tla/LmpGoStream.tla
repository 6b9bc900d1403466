---------------------------- MODULE LmpGoStream ----------------------------
(***************************************************************************)
(* The Go reader: ReadPacket of lib/go/liblmp called in a loop, as         *)
(* serveConnection does, on one connection.  It takes one byte at a time,  *)
(* so a packet is never lost with the end of the one before it.            *)
(***************************************************************************)
EXTENDS LmpLink

VARIABLES buffer,      \* buffer[:size] of the ReadPacket call that is running
          received,    \* packets ReadPacket returned
          oversize,    \* some call returned "packet exceeded max size"
          ended        \* a call returned io.EOF: the loop stops

vars == <<sent, wire, link, buffer, received, oversize, ended>>

TypeOK ==
  /\ LinkTypeOK
  /\ buffer \in Seq(Byte)
  /\ received \in Seq(Packet)
  /\ oversize \in BOOLEAN
  /\ ended \in BOOLEAN

Init ==
  /\ LinkInit
  /\ buffer = <<>> /\ received = <<>> /\ oversize = FALSE /\ ended = FALSE

\* Mutant of Full: the size is checked before the terminator is looked for.
FullBeforeTerminator(read) == Len(read) >= MaxSize

\* size >= LmpPacketMaxSize, reached when the byte read is no terminator.
Full(read) == read[Len(read)] # Terminate /\ Len(read) >= MaxSize

\* Mutant of Unread: what was delivered together with a terminator is dropped.
UnreadAfterTerminator == IF Head(wire) = Terminate THEN <<>> ELSE Tail(wire)

\* io.ReadFull takes one byte.
Unread == Tail(wire)

\* One turn of ReadPacket's loop, and the return at its end.  A frame
\* Deserialize refuses is dropped and the caller calls again.
ReadByte ==
  /\ ~ended /\ wire # <<>>
  /\ wire' = Unread
  /\ LET read == Append(buffer, Head(wire))
         terminated == Head(wire) = Terminate
     IN /\ buffer' = IF terminated \/ Full(read) THEN <<>> ELSE read
        /\ received' = IF terminated /\ Deserializable(read)
                       THEN Append(received, Unframe(read)) ELSE received
        /\ oversize' = (oversize \/ Full(read))
  /\ UNCHANGED <<sent, link, ended>>

\* io.ReadFull returns io.EOF, even in the middle of a frame, which is lost.
ReadEOF ==
  /\ ~ended /\ wire = <<>> /\ link # "open"
  /\ ended' = TRUE /\ buffer' = <<>>
  /\ UNCHANGED <<sent, wire, link, received, oversize>>

Next ==
  \/ LinkNext /\ UNCHANGED <<buffer, received, oversize, ended>>
  \/ ReadByte
  \/ ReadEOF

\* The reader is a goroutine that only waits for bytes: it goes on reading.
Spec == Init /\ [][Next]_vars /\ WF_vars(ReadByte) /\ WF_vars(ReadEOF)

-----------------------------------------------------------------------------

\* Every run of bytes on the stream ends within LmpPacketMaxSize, so the
\* reader never returns "packet exceeded max size" to a sender that uses the
\* library: a terminator inside a packet cuts it, but it cannot make the
\* reader lose count and run over the next packets.
NeverOversize == ~oversize
=============================================================================
