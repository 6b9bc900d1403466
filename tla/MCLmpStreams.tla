---------------------------- MODULE MCLmpStreams ----------------------------
EXTENDS LmpStreams

Send(flags, payload) == [version |-> 2, type |-> TypeSend, arg |-> ArgSend,
                         flags |-> flags, payload |-> payload]
Bare(type, arg) == [version |-> 1, type |-> type, arg |-> arg,
                    flags |-> FlagsNone, payload |-> <<PayloadEmpty>>]

\* For the C reader: INIT, a SEND one byte short of MaxSize and one of exactly
\* MaxSize bytes, and a lone byte nobody can read.
MCCPackets ==
  {Bare(TypeInit, ArgInitAccept),
   Send(0, <<1, 2, 3, 4, 5, 6>>),
   Send(0, <<1, 2, 3, 4, 5, 6, 7>>),
   Send(0, <<5>>)}

\* For the Go reader also: a terminator in the payload, whose tail is a packet
\* of its own (a PING); a terminator in the flags; and packets Serialize
\* refuses.
MCPackets ==
  MCCPackets \cup
  {Send(0, <<9, Terminate, 2, TypePing, 0, 0, 0>>),
   Send(Terminate, <<5, 5>>),
   Send(0, <<>>),
   Send(0, <<1, 2, 3, 4, 5, 6, 7, 8>>)}
=============================================================================
