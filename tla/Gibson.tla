-------------------------------- MODULE Gibson --------------------------------
(***************************************************************************)
(* services/gibson/gibson.go: HTTP handlers hand packets, over a channel   *)
(* without a buffer, to the goroutine that holds the connection to         *)
(* admiral.  That goroutine serializes a packet and prints it: the Write   *)
(* is commented out (gibson.go:77), so nothing reaches admiral.            *)
(***************************************************************************)
EXTENDS GoHandshake, Lmp

CONSTANTS
  GibsonConn,   \* the connection of gibson
  Requests,     \* HTTP requests
  GuestList,    \* GUEST_LIST
  Bodies,       \* the bodies of requests, as bytes
  ReceptionId, GibsonId

ASSUME GibsonAssumption == GibsonConn \in Clients
ASSUME BodiesAssumption == GuestList \subseteq Bodies /\ Bodies \subseteq Seq(Byte)
\* A name of the list and the two bytes of the admiral header fit in a payload.
ASSUME GuestListAssumption ==
  \A body \in GuestList : HeaderSize + 2 + Len(body) + 1 <= MaxSize

VARIABLES
  gibson,    \* the process is "up" or has "exited"
  request    \* what has become of each request, and its body

NoRequest == [pc |-> "none", body |-> <<>>]

GibsonTypeOK ==
  /\ gibson \in {"up", "exited", "panicked"}
  /\ request \in [Requests ->
                    [pc : {"none", "send", "answered", "refused"}, body : Bodies \cup {<<>>}]]

\* gibson is started, or is not.
GibsonInit ==
  gibson \in {"up", "exited"} /\ request = [r \in Requests |-> NoRequest]

\* Mutant of VerifyBody: any body will do.
VerifyBodyNot(body) == TRUE

\* verifyBody
VerifyBody(body) == body \in GuestList

\* What receptionHandler sends to the channel.
ReceptionPacket(body) ==
  [version |-> 2, type |-> TypeSend, arg |-> ArgSend, flags |-> FlagsNone,
   payload |-> <<ReceptionId, GibsonId>> \o body]

\* A request: cors answers OPTIONS itself, and receptionHandler refuses one that
\* is not a POST, has no key or the wrong one, or whose body cannot be read, all
\* of which is `valid`, or has the wrong body.  Another waits for the channel.
Handle(r) ==
  /\ gibson = "up" /\ request[r].pc = "none"
  /\ \E valid \in BOOLEAN, body \in Bodies :
       request' = [request EXCEPT ![r] =
         IF valid /\ VerifyBody(body) THEN [pc |-> "send", body |-> body]
         ELSE [pc |-> "refused", body |-> <<>>]]
  /\ UNCHANGED <<gibson, link, down, shake>>

\* Mutant of Receiving: the goroutine returns when the handshake fails.
ReceivingIfAccepted == shake[GibsonConn] = "ok"

\* The goroutine receives: the result of the handshake makes no difference.
Receiving == shake[GibsonConn] \in {"ok", "failed"}

\* The channel has no buffer: with the receive the handler goes on and answers,
\* "Sent request to reception".  A packet that cannot be serialized panics.
Hand(r) ==
  /\ gibson = "up" /\ request[r].pc = "send" /\ Receiving
  /\ request' = [request EXCEPT ![r].pc = "answered"]
  /\ IF Serializable(ReceptionPacket(request[r].body))
     THEN UNCHANGED <<gibson, link, down>>
     ELSE gibson' = "panicked" /\ Exits(GibsonConn)
  /\ UNCHANGED shake

\* createAdmiralConnection up to its loop; a failed dial is os.Exit(1).
GibsonConnects ==
  /\ gibson = "up"
  /\ \/ ShakeStep(GibsonConn) /\ UNCHANGED gibson
     \/ /\ shake[GibsonConn] = "unreachable"
        /\ gibson' = "exited" /\ UNCHANGED <<link, down, shake>>
  /\ UNCHANGED request

\* A signal, or ListenAndServe fails and main panics.
GibsonEnds ==
  /\ gibson = "up" /\ gibson' = "exited" /\ Exits(GibsonConn)
  /\ UNCHANGED <<request, shake>>

GibsonStep == GibsonConnects \/ \E r \in Requests : Hand(r)

-----------------------------------------------------------------------------

\* gibson.go:71: all packets should serialize properly at this point.  They do,
\* whatever the body of a request: verifyBody lets none through that would make
\* the goroutine panic.
AllPacketsSerialize == gibson # "panicked"

\* A request with the right key and body is answered, also when admiral has
\* refused gibson or is gone: only a handshake that admiral does not answer
\* holds requests up.  (The answer does not mean that anything was sent.)
RequestsAreAnswered ==
  []<>(~WaitsForAdmiral(GibsonConn)) =>
    \A r \in Requests :
      (request[r].pc = "send") ~> (request[r].pc = "answered" \/ gibson # "up")
=============================================================================
