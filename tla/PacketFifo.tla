----------------------------- MODULE PacketFifo -----------------------------
(***************************************************************************)
(* What a program of LIONS expects of one connection: packets arrive whole,*)
(* once and in the order they were sent, and all of them arrive unless the *)
(* connection is lost.                                                     *)
(***************************************************************************)
EXTENDS Naturals, Sequences

CONSTANT Packets

VARIABLES sent, received, link

vars == <<sent, received, link>>

Init == sent = <<>> /\ received = <<>> /\ link = "open"

Send(p) ==
  /\ link = "open"
  /\ sent' = Append(sent, p)
  /\ UNCHANGED <<received, link>>

Receive ==
  /\ Len(received) < Len(sent)
  /\ received' = Append(received, sent[Len(received) + 1])
  /\ UNCHANGED <<sent, link>>

\* The sender closes: what was sent still arrives.
Close ==
  /\ link = "open" /\ link' = "closed"
  /\ UNCHANGED <<sent, received>>

\* The sender or the network dies: any part of what was not received is gone.
Lose ==
  /\ link # "lost" /\ link' = "lost"
  /\ UNCHANGED <<sent, received>>

Next == (\E p \in Packets : Send(p)) \/ Receive \/ Close \/ Lose

Spec == Init /\ [][Next]_vars /\ WF_vars(Receive /\ link # "lost")
=============================================================================
