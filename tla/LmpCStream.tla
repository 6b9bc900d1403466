----------------------------- MODULE LmpCStream -----------------------------
(***************************************************************************)
(* The C reader: lmp_net_recv_packet of lib/c/liblmp called in a loop on   *)
(* one connection.  It takes up to sizeof(scratch) bytes at a time and     *)
(* throws away what its chunk holds after the first terminator.            *)
(*                                                                         *)
(* So the senders here wait until the packet before has been read, as a    *)
(* program that sends one packet on a connection, or waits for an answer,  *)
(* does: admiral on the connections it dials, and in the handshake.        *)
(***************************************************************************)
EXTENDS LmpLink, FiniteSetsExt

CONSTANT BufferSize   \* size, the room in the caller's buffer

VARIABLES buffer,      \* buffer[0 .. packet_size) of the call that is running
          received,    \* packets the calls returned with LMP_ERR_NONE
          code,        \* what the last call returned
          ended        \* recv returned 0 or an error: the caller stops

vars == <<sent, wire, link, buffer, received, code, ended>>

\* lmp_error
Codes == {"NONE", "BAD_SIZE", "BAD_VERSION", "BAD_TYPE", "BAD_ARG",
          "BAD_PAYLOAD", "BAD_TERMINATE", "BAD_INPUT"}

Init ==
  /\ LinkInit
  /\ buffer = <<>> /\ received = <<>> /\ code = "NONE" /\ ended = FALSE

\* The positions of a chunk at which the copying loop stops: the buffer is
\* full, which is looked at first, or the byte is the terminator.
Stops(chunk) ==
  {i \in DOMAIN chunk :
     Len(buffer) + i >= BufferSize \/ chunk[i] = Terminate}

\* Mutant of Return: a full buffer is not refused.
ReturnFull(b) ==
  LET error == CDeserializeError(b)
  IN /\ buffer' = <<>>
     /\ code' = error
     /\ received' = IF error = "NONE" THEN Append(received, Unframe(b))
                    ELSE received

\* The call returns, having copied the bytes b.
Return(b) ==
  LET error == IF Len(b) >= BufferSize THEN "BAD_SIZE" ELSE CDeserializeError(b)
  IN /\ buffer' = <<>>
     /\ code' = error
     /\ received' = IF error = "NONE" THEN Append(received, Unframe(b))
                    ELSE received

\* One recv and the loop over its chunk.  The chunk is whatever part of the
\* stream TCP has delivered, sizeof(scratch) = LMP_PACKET_MAX_SIZE at most.
Recv ==
  /\ ~ended /\ wire # <<>>
  /\ \E n \in 1 .. Len(wire) :
       /\ n <= MaxSize
       /\ LET chunk == SubSeq(wire, 1, n)
          IN IF Stops(chunk) = {}
             THEN /\ buffer' = buffer \o chunk
                  /\ UNCHANGED <<received, code>>
             ELSE Return(buffer \o SubSeq(chunk, 1, Min(Stops(chunk))))
       /\ wire' = SubSeq(wire, n + 1, Len(wire))
  /\ UNCHANGED <<sent, link, ended>>

\* recv returns 0: the call returns LMP_ERR_BAD_INPUT.
RecvEnd ==
  /\ ~ended /\ wire = <<>> /\ link # "open"
  /\ ended' = TRUE /\ buffer' = <<>> /\ code' = "BAD_INPUT"
  /\ UNCHANGED <<sent, wire, link, received>>

MaySend == wire = <<>> /\ buffer = <<>>

Next ==
  \/ /\ \/ MaySend /\ \E p \in Packets : SendPacket(p)
        \/ Close
        \/ Lose
     /\ UNCHANGED <<buffer, received, code, ended>>
  \/ Recv
  \/ RecvEnd
=============================================================================
