----------------------------- MODULE GoHandshake -----------------------------
(***************************************************************************)
(* net.Dial and SendHandshake of lib/go/liblmp.go, as S2 and gibson call   *)
(* them one after the other, against the contract of admiral.              *)
(***************************************************************************)
EXTENDS AdmiralClient

VARIABLE shake   \* per client: where it is in the two calls

ShakeTypeOK ==
  shake \in [Clients -> {"dial", "init", "claim", "read",
                         "ok", "failed", "unreachable"}]

ShakeInit == shake = [c \in Clients |-> "dial"]

ShakeIs(c, pc) == shake[c] = pc
ShakeTo(c, pc) == shake' = [shake EXCEPT ![c] = pc]

\* The connection is of no use any more.
Broken(c) == down \/ link[c].state = "closed"

\* net.Dial: admiral is there, or it, its host or the local port is not.
Dial(c) ==
  /\ ShakeIs(c, "dial")
  /\ \/ LinkConnect(c) /\ ShakeTo(c, "init")
     \/ ShakeTo(c, "unreachable") /\ UNCHANGED <<link, down>>

\* SendPacket of INIT and of the claim.  On a broken connection the bytes are
\* lost, with or without an error.
ShakeSend(c, pc, next) ==
  /\ ShakeIs(c, pc)
  /\ \/ LinkSend(c) /\ ShakeTo(c, next)
     \/ /\ Broken(c)
        /\ \E to \in {next, "failed"} : ShakeTo(c, to)
        /\ UNCHANGED <<link, down>>

\* Mutant of AnswerIsAccept: the wrong packet is expected.
AnswerIsSend(c) == link[c].heard[1] = "SEND"

\* readPacket.Arg is compared with ACCEPT's.
AnswerIsAccept(c) == link[c].heard[1] = "ACCEPT"

\* ReadPacket: the first packet is taken for the answer; on a broken connection
\* there may be none.
ShakeRead(c) ==
  /\ ShakeIs(c, "read")
  /\ \/ /\ link[c].heard # <<>>
        /\ ShakeTo(c, IF AnswerIsAccept(c) THEN "ok" ELSE "failed")
     \/ /\ Broken(c) /\ (link[c].heard = <<>> \/ down)
        /\ ShakeTo(c, "failed")
  /\ UNCHANGED <<link, down>>

ShakeStep(c) ==
  \/ Dial(c) \/ ShakeSend(c, "init", "claim") \/ ShakeSend(c, "claim", "read")
  \/ ShakeRead(c)

\* The client waits for an answer that admiral has not given and has not refused.
WaitsForAdmiral(c) == ShakeIs(c, "read") /\ link[c].heard = <<>> /\ ~Broken(c)

\* When the program exits, the kernel closes its connection.
Exits(c) ==
  IF Connected(c) THEN LinkLeave(c) ELSE UNCHANGED <<link, down>>
=============================================================================
