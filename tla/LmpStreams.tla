----------------------------- MODULE LmpStreams -----------------------------
(***************************************************************************)
(* One connection with either library at its reading end: the Go reader of *)
(* admiral, s2 and gibson, or the C reader of laitt and lights.  Both are  *)
(* held against the same abstract connection, PacketFifo.                  *)
(***************************************************************************)
EXTENDS LmpGoStream, FiniteSets

CONSTANTS BufferSize,   \* the buffer the C reader's caller passes
          CPackets      \* the packets sent to the C reader

\* Every buffer of a C caller has LMP_PACKET_MAX_SIZE bytes.
ASSUME BufferSizeAssumption == BufferSize \in Nat /\ BufferSize >= MaxSize

\* What admiral sends to a C program is its own ACCEPT, or was read up to a
\* terminator when it arrived at admiral.
ASSUME CPacketsAssumption == CPackets \subseteq {p \in Packets : Whole(p)}

\* A packet with a terminator inside falls into pieces, but none of them is
\* another packet of the program: nothing on the wire would tell the two apart.
ASSUME PiecesAssumption ==
  \A p \in Packets : Serializable(p) /\ ~Whole(p) =>
    \A i, j \in 1 .. Len(Frame(p)) :
      (i = 1 \/ Frame(p)[i - 1] = Terminate) /\ Frame(p)[j] = Terminate
        => \A q \in Packets : Clean(q) => Frame(q) # SubSeq(Frame(p), i, j)

VARIABLES reader,    \* "go" or "c"
          code       \* what the C reader's last call returned

streamVars == <<vars, reader, code>>

CReader == INSTANCE LmpCStream WITH Packets <- CPackets

StreamInit == Init /\ code = "NONE" /\ reader \in {"go", "c"}

GoStep == reader = "go" /\ Next /\ UNCHANGED <<reader, code>>
CStep == reader = "c" /\ CReader!Next /\ UNCHANGED <<reader, oversize>>

StreamNext == GoStep \/ CStep

GoRead == reader = "go" /\ (ReadByte \/ ReadEOF) /\ UNCHANGED <<reader, code>>
CRead ==
  /\ reader = "c" /\ (CReader!Recv \/ CReader!RecvEnd)
  /\ UNCHANGED <<reader, oversize>>

\* Either reader only waits for bytes: it goes on reading.
StreamSpec ==
  /\ StreamInit /\ [][StreamNext]_streamVars
  /\ WF_streamVars(GoRead) /\ WF_streamVars(CRead)

-----------------------------------------------------------------------------

Cleans == {p \in Packets : Clean(p)}
Fitting == {p \in Cleans : Len(Frame(p)) < BufferSize}

\* The packets that must arrive: those without a terminator inside and, with
\* the C reader, those that leave a byte of the caller's buffer free.
Readable == IF reader = "c" THEN Fitting ELSE Cleans

TheOne(S) == CHOOSE i \in S : TRUE

\* The elements of s that are in S, in their order: the n-th is the one with
\* n of them up to it.
Kept(s, S) ==
  LET kept == {i \in DOMAIN s : s[i] \in S}
      UpTo(i) == {j \in kept : j <= i}
  IN [n \in 1 .. Cardinality(kept) |->
        s[TheOne({i \in kept : Cardinality(UpTo(i)) = n})]]

Fifo == INSTANCE PacketFifo
          WITH Packets <- Cleans,
               sent <- Kept(sent, Readable),
               received <- Kept(received, Readable)

\* ReadPacket and lmp_net_recv_packet turn a stream that TCP may deliver in any
\* pieces and cut anywhere into whole packets, once, in order and eventually.
\* With Go a packet that is cut by a terminator inside it, and the pieces that
\* happen to be packets themselves, never cost or reorder another one; with C
\* what is thrown away behind a terminator is nothing, because the sender waits.
PacketsAreFifo == Fifo!Spec

\* The C reader's verdicts on what a library wrote, however the chunks fell.
\* None of them is about a field or a terminator: a call never returns in the
\* middle of a frame or goes on into the next.  BAD_SIZE comes only of a packet
\* that fills the buffer to its last byte, and such a packet is never returned.
\* (lib/c/lmp.h:64 allows 1500 bytes and every caller's buffer has 1500, so the
\* largest legal packet cannot be received.)
OnlyFullPacketsAreTooLarge ==
  reader = "c" =>
    /\ code \in CReader!Codes \ {"BAD_VERSION", "BAD_TYPE", "BAD_ARG", "BAD_TERMINATE"}
    /\ code = "BAD_SIZE" => \E i \in DOMAIN sent : Len(Frame(sent[i])) >= BufferSize
    /\ \A i \in DOMAIN received : Len(Frame(received[i])) < BufferSize
=============================================================================
