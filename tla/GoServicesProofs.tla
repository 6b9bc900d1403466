-------------------------- MODULE GoServicesProofs --------------------------
(***************************************************************************)
(* What holds of admiral's process and its Go clients for every set of     *)
(* clients, requests, bodies and schedules.                                *)
(***************************************************************************)
EXTENDS GoServices, TLAPS

\* The first packet of admiral is ACCEPT, and comes before the service.
HeardInv ==
  \A c \in Clients :
    /\ link[c].heard # <<>> => link[c].heard[1] = "ACCEPT"
    /\ link[c].state = "served" => link[c].heard # <<>> \/ link[c].left

\* A handshake fails only on a connection that is over.
FailedInv == \A c \in Clients : shake[c] = "failed" => Broken(c)

\* The stages of a listener that has failed, as long as there is no signal.
FailureInv ==
  (broker = "failed" /\ ~signalled) =>
    \/ main = "wait" /\ sends = <<"error", "done">> /\ ~errchan /\ doneChan = 0
    \/ main = "wait" /\ sends = <<"done">> /\ errchan /\ doneChan = 0
    \/ main = "wait" /\ sends = <<>> /\ errchan /\ doneChan = 1
    \/ main = "close" /\ sends = <<>> /\ errchan
    \/ main \in {"status 1", "killed"}

\* Without a failure only a signal ends the program.
SignalInv ==
  /\ signals \in {"got", "ended"} => signalled
  /\ broker # "failed" => sends = <<>> /\ ~errchan
  /\ broker # "failed" /\ ~signalled => main \in {"wait", "killed"} /\ doneChan = 0

AppInv == FailureInv /\ SignalInv

\* Whose packet waits for the channel is on the list, and nothing has panicked.
GuestInv ==
  /\ AllPacketsSerialize
  /\ \A r \in Requests : request[r].pc = "send" => request[r].body \in GuestList

IInv == GoTypeOK /\ HeardInv /\ FailedInv /\ AppInv /\ GuestInv

-----------------------------------------------------------------------------
(* The contract with admiral *)

\* What the link of a client is made of.
LinkRecord ==
  [state : {"off", "waiting", "open", "served", "closed"},
   sent : Nat, heard : Seq(Kinds), left : BOOLEAN]

\* What HeardInv says of one link.
HeardOf(l) ==
  /\ l.heard # <<>> => l.heard[1] = "ACCEPT"
  /\ l.state = "served" => l.heard # <<>> \/ l.left

\* A step of one link that keeps it what it should be keeps them all.
LEMMA OneLink ==
  ASSUME LinkTypeOK, HeardInv, NEW c \in Clients, NEW l \in LinkRecord,
         link' = [link EXCEPT ![c] = l], down' \in BOOLEAN, down => down',
         HeardOf(l), link[c].state = "closed" => l.state = "closed"
  PROVE /\ LinkTypeOK' /\ HeardInv'
        /\ \A d \in Clients : Broken(d) => Broken(d)'
<1>1. link \in [Clients -> LinkRecord]
  BY DEF LinkTypeOK, LinkRecord
<1>2. link' \in [Clients -> LinkRecord]
  BY <1>1
<1>3. LinkTypeOK'
  BY <1>2 DEF LinkTypeOK, LinkRecord
<1>4. \A d \in Clients : link'[d] = IF d = c THEN l ELSE link[d]
  BY <1>1
<1>5. HeardInv'
  BY <1>4 DEF HeardInv, HeardOf
<1>6. \A d \in Clients : Broken(d) => Broken(d)'
  BY <1>4 DEF Broken
<1> QED
  BY <1>3, <1>5, <1>6

LEMMA LinkStep ==
  ASSUME LinkTypeOK, HeardInv, LinkNext \/ UNCHANGED linkVars
  PROVE /\ LinkTypeOK' /\ HeardInv'
        /\ \A d \in Clients : Broken(d) => Broken(d)'
<1> USE DEF LinkIs
<1>1. link \in [Clients -> LinkRecord] /\ down \in BOOLEAN
  BY DEF LinkTypeOK, LinkRecord
<1>2. CASE UNCHANGED linkVars
  BY <1>2 DEF linkVars, LinkTypeOK, HeardInv, Broken
<1>3. CASE LinkDown
  BY <1>3 DEF LinkDown, LinkTypeOK, HeardInv, Broken
<1>4. ASSUME NEW c \in Clients, ClientSide(c) \/ AdmiralSide(c)
      PROVE /\ LinkTypeOK' /\ HeardInv'
            /\ \A d \in Clients : Broken(d) => Broken(d)'
  <2>1. link[c] \in LinkRecord /\ HeardOf(link[c])
    BY <1>1 DEF HeardInv, HeardOf
  <2>2. LinkConnect(c) =>
          /\ link' = [link EXCEPT ![c] = [link[c] EXCEPT !.state = "waiting"]]
          /\ link[c].state = "off"
    BY <1>1 DEF LinkConnect, LinkTo
  <2>3. ASSUME NEW new \in LinkRecord,
               link' = [link EXCEPT ![c] = new], down' \in BOOLEAN, down => down',
               HeardOf(new), link[c].state = "closed" => new.state = "closed"
        PROVE /\ LinkTypeOK' /\ HeardInv'
              /\ \A d \in Clients : Broken(d) => Broken(d)'
    BY <2>3, OneLink
  <2>4. CASE LinkConnect(c)
    <3>1. [link[c] EXCEPT !.state = "waiting"] \in LinkRecord
      BY <2>1 DEF LinkRecord
    <3>2. HeardOf([link[c] EXCEPT !.state = "waiting"])
      BY <2>1 DEF LinkRecord, HeardOf
    <3> QED
      BY <2>3, <2>4, <2>2, <3>1, <3>2, <1>1 DEF LinkConnect
  <2>5. CASE LinkSend(c)
    <3>1. [link[c] EXCEPT !.sent = @ + 1] \in LinkRecord
      BY <2>1 DEF LinkRecord
    <3>2. HeardOf([link[c] EXCEPT !.sent = @ + 1])
      BY <2>1 DEF LinkRecord, HeardOf
    <3>3. [link[c] EXCEPT !.sent = @ + 1].state = link[c].state
      BY <2>1 DEF LinkRecord
    <3> QED
      BY <2>3, <2>5, <3>1, <3>2, <3>3, <1>1 DEF LinkSend
  <2>6. CASE LinkLeave(c)
    <3>1. [link[c] EXCEPT !.left = TRUE] \in LinkRecord
      BY <2>1 DEF LinkRecord
    <3>2. HeardOf([link[c] EXCEPT !.left = TRUE])
      BY <2>1 DEF LinkRecord, HeardOf
    <3>3. [link[c] EXCEPT !.left = TRUE].state = link[c].state
      BY <2>1 DEF LinkRecord
    <3> QED
      BY <2>3, <2>6, <3>1, <3>2, <3>3, <1>1 DEF LinkLeave
  <2>7. CASE LinkAccept(c)
    <3>1. [link[c] EXCEPT !.state = "open"] \in LinkRecord
      BY <2>1 DEF LinkRecord
    <3>2. HeardOf([link[c] EXCEPT !.state = "open"])
      BY <2>1 DEF LinkRecord, HeardOf
    <3> QED
      BY <2>3, <2>7, <3>1, <3>2, <1>1 DEF LinkAccept, LinkTo
  <2>8. CASE LinkAnswer(c)
    <3>1. PICK state \in {"open", "closed"} :
            link' = [link EXCEPT ![c].heard = <<"ACCEPT">>, ![c].state = state]
      BY <2>8 DEF LinkAnswer
    <3> DEFINE new == [link[c] EXCEPT !.heard = <<"ACCEPT">>, !.state = state]
    <3>2. link' = [link EXCEPT ![c] = new]
      BY <3>1, <1>1
    <3>3. <<"ACCEPT">> \in Seq(Kinds)
      BY DEF Kinds
    <3>4. /\ new \in LinkRecord
          /\ new.heard = <<"ACCEPT">> /\ new.state = state
      BY <2>1, <3>3 DEF LinkRecord
    <3>5. HeardOf(new)
      BY <3>4 DEF HeardOf
    <3>6. link[c].state = "open" /\ ~down /\ down' \in BOOLEAN
      BY <2>8 DEF LinkAnswer
    <3> HIDE DEF new
    <3> QED
      BY <2>3, <3>2, <3>4, <3>5, <3>6
  <2>9. CASE LinkRefuse(c)
    <3>1. [link[c] EXCEPT !.state = "closed"] \in LinkRecord
      BY <2>1 DEF LinkRecord
    <3>2. HeardOf([link[c] EXCEPT !.state = "closed"])
      BY <2>1 DEF LinkRecord, HeardOf
    <3>3. link[c].state = "open" /\ ~down /\ down' \in BOOLEAN
      BY <2>9 DEF LinkRefuse
    <3> QED
      BY <2>3, <2>9, <3>1, <3>2, <3>3 DEF LinkRefuse, LinkTo
  <2>10. CASE LinkServe(c)
    <3>1. [link[c] EXCEPT !.state = "served"] \in LinkRecord
      BY <2>1 DEF LinkRecord
    <3>2. HeardOf([link[c] EXCEPT !.state = "served"])
      BY <2>1, <2>10 DEF LinkRecord, HeardOf, LinkServe, Greeted
    <3> QED
      BY <2>3, <2>10, <3>1, <3>2, <1>1 DEF LinkServe, LinkTo
  <2>11. CASE LinkDeliver(c)
    <3>1. PICK kind \in {"PING", "SEND"} :
            link' = [link EXCEPT ![c].heard = Append(@, kind)]
      BY <2>11 DEF LinkDeliver
    <3> DEFINE heard == link[c].heard
               new == [link[c] EXCEPT !.heard = Append(heard, kind)]
    <3>2. link' = [link EXCEPT ![c] = new]
      BY <3>1, <1>1
    <3>3. link[c].state = "served" /\ ~link[c].left /\ ~down /\ UNCHANGED down
      BY <2>11 DEF LinkDeliver
    <3>4. heard \in Seq(Kinds) /\ heard # <<>> /\ heard[1] = "ACCEPT"
      BY <2>1, <3>3 DEF LinkRecord, HeardOf
    <3>5. /\ Append(heard, kind) \in Seq(Kinds) /\ Append(heard, kind) # <<>>
          /\ Append(heard, kind)[1] = "ACCEPT"
      BY <3>4 DEF Kinds
    <3>6. /\ new \in LinkRecord
          /\ new.heard = Append(heard, kind) /\ new.state = "served"
      BY <2>1, <3>3, <3>5 DEF LinkRecord
    <3>7. HeardOf(new)
      BY <3>5, <3>6 DEF HeardOf
    <3> HIDE DEF new, heard
    <3> QED
      BY <2>3, <3>2, <3>3, <3>6, <3>7, <1>1
  <2>12. CASE LinkClose(c)
    <3>1. [link[c] EXCEPT !.state = "closed"] \in LinkRecord
      BY <2>1 DEF LinkRecord
    <3>2. HeardOf([link[c] EXCEPT !.state = "closed"])
      BY <2>1 DEF LinkRecord, HeardOf
    <3> QED
      BY <2>3, <2>12, <3>1, <3>2, <1>1 DEF LinkClose, LinkTo
  <2> QED
    BY <1>4, <2>4, <2>5, <2>6, <2>7, <2>8, <2>9, <2>10, <2>11, <2>12
       DEF ClientSide, AdmiralSide
<1> QED
  BY <1>2, <1>3, <1>4 DEF LinkNext

-----------------------------------------------------------------------------
(* The handshake *)

LEMMA ShakeKeeps ==
  ASSUME LinkTypeOK, HeardInv, ShakeTypeOK, FailedInv, NEW c \in Clients, ShakeStep(c)
  PROVE /\ LinkNext \/ UNCHANGED linkVars
        /\ ShakeTypeOK' /\ FailedInv'
<1>1. LinkNext \/ UNCHANGED linkVars
  BY DEF ShakeStep, Dial, ShakeSend, ShakeRead, linkVars, LinkNext, ClientSide
<1>2. \A d \in Clients : Broken(d) => Broken(d)'
  BY <1>1, LinkStep
<1>3. PICK to \in {"init", "claim", "read", "ok", "failed", "unreachable"} :
        shake' = [shake EXCEPT ![c] = to]
  BY DEF ShakeStep, Dial, ShakeSend, ShakeRead, ShakeTo
<1>4. /\ ShakeTypeOK'
      /\ \A d \in Clients : shake'[d] = IF d = c THEN to ELSE shake[d]
  BY <1>3 DEF ShakeTypeOK
<1>5. ASSUME to = "failed" PROVE Broken(c)
  <2>1. shake'[c] = "failed"
    BY <1>4, <1>5
  <2>2. CASE Dial(c)
    BY <2>1, <2>2 DEF Dial, ShakeTo, ShakeTypeOK
  <2>3. ASSUME NEW pc, NEW next \in {"claim", "read"}, ShakeSend(c, pc, next)
        PROVE Broken(c)
    BY <2>1, <2>3 DEF ShakeSend, ShakeTo, ShakeTypeOK
  <2>4. CASE ShakeRead(c)
    BY <2>1, <2>4 DEF ShakeRead, ShakeTo, ShakeTypeOK, AnswerIsAccept, HeardInv
  <2> QED
    BY <2>2, <2>3, <2>4 DEF ShakeStep
<1>6. FailedInv'
  <2> SUFFICES ASSUME NEW d \in Clients, shake'[d] = "failed" PROVE Broken(d)'
    BY DEF FailedInv, Broken
  <2>1. Broken(d)
    BY <1>4, <1>5 DEF FailedInv
  <2> QED
    BY <1>2, <2>1
<1> QED
  BY <1>1, <1>4, <1>6

\* A step that leaves the handshakes alone: what is over stays over.
LEMMA SameShake ==
  ASSUME LinkTypeOK, HeardInv, ShakeTypeOK, FailedInv, UNCHANGED shake,
         LinkNext \/ UNCHANGED linkVars
  PROVE ShakeTypeOK' /\ FailedInv'
<1>1. \A d \in Clients : Broken(d) => Broken(d)'
  BY LinkStep
<1> QED
  BY <1>1 DEF ShakeTypeOK, FailedInv, Broken

LEMMA ExitsIsALinkStep ==
  ASSUME NEW c \in Clients, Exits(c)
  PROVE LinkNext \/ UNCHANGED linkVars
BY DEF Exits, linkVars, LinkNext, ClientSide

-----------------------------------------------------------------------------
(* admiral *)

LEMMA AppKeeps ==
  ASSUME AppTypeOK, AppInv, AppStep \/ Signal \/ Panic
  PROVE /\ LinkNext \/ UNCHANGED linkVars
        /\ AppTypeOK' /\ AppInv'
<1> USE DEF AppInv, Running
<1>1. CASE Listen
  <2>1. OnFailure = <<"error", "done">> /\ OnFailure \in Seq({"error", "done"})
    BY DEF OnFailure
  <2>2. AppTypeOK'
    BY <1>1, <2>1 DEF Listen, AppTypeOK
  <2>3. FailureInv'
    BY <1>1, <2>1 DEF Listen, FailureInv, SignalInv
  <2>4. SignalInv'
    BY <1>1 DEF Listen, SignalInv
  <2> QED
    BY <1>1, <2>2, <2>3, <2>4 DEF Listen, linkVars
<1>2. CASE BrokerSends
  <2>1. /\ Head(<<"error", "done">>) = "error" /\ Tail(<<"error", "done">>) = <<"done">>
        /\ Head(<<"done">>) = "done" /\ Tail(<<"done">>) = <<>>
        /\ <<"error", "done">> # <<>> /\ <<"done">> # <<>>
    OBVIOUS
  <2>2. AppTypeOK'
    <3>1. sends \in Seq({"error", "done"}) /\ doneChan \in 0 .. 1
      BY DEF AppTypeOK
    <3>2. sends # <<>> /\ sends' = Tail(sends)
      BY <1>2 DEF BrokerSends, DoneHasRoom
    <3>3. sends' \in Seq({"error", "done"})
      BY <3>1, <3>2
    <3>4. doneChan' = doneChan \/ (doneChan < 1 /\ doneChan' = doneChan + 1)
      BY <1>2 DEF BrokerSends, DoneHasRoom
    <3>5. doneChan' \in 0 .. 1
      BY <3>1, <3>4
    <3>6. errchan' \in BOOLEAN
      BY <1>2 DEF BrokerSends, DoneHasRoom, AppTypeOK
    <3> QED
      BY <1>2, <3>3, <3>5, <3>6 DEF BrokerSends, DoneHasRoom, AppTypeOK
  <2>3. FailureInv'
    <3> SUFFICES ASSUME broker = "failed", ~signalled
                 PROVE FailureInv'
      BY <1>2 DEF BrokerSends, DoneHasRoom, FailureInv
    <3>1. CASE main = "wait" /\ sends = <<"error", "done">> /\ ~errchan /\ doneChan = 0
      <4>1. sends' = <<"done">> /\ errchan' /\ doneChan' = 0 /\ main' = "wait"
        BY <1>2, <2>1, <3>1 DEF BrokerSends, DoneHasRoom
      <4> QED
        BY <4>1 DEF FailureInv
    <3>2. CASE main = "wait" /\ sends = <<"done">> /\ errchan /\ doneChan = 0
      <4>1. sends' = <<>> /\ errchan' /\ doneChan' = 1 /\ main' = "wait"
        BY <1>2, <2>1, <3>2 DEF BrokerSends, DoneHasRoom
      <4> QED
        BY <4>1 DEF FailureInv
    <3>3. sends # <<>> /\ main \in {"wait", "close"}
      BY <1>2 DEF BrokerSends, DoneHasRoom
    <3> QED
      BY <3>1, <3>2, <3>3 DEF FailureInv
  <2>4. SignalInv'
    BY <1>2 DEF BrokerSends, DoneHasRoom, SignalInv
  <2> QED
    BY <1>2, <2>2, <2>3, <2>4 DEF BrokerSends, DoneHasRoom, linkVars
<1>3. CASE Notify
  BY <1>3 DEF Notify, AppTypeOK, FailureInv, SignalInv, linkVars
<1>4. CASE SignalIsDone
  <2>1. signalled /\ UNCHANGED signalled
    BY <1>4 DEF SignalIsDone, DoneHasRoom, SignalInv
  <2>2. AppTypeOK'
    <3>1. doneChan \in 0 .. 1 /\ doneChan < 1 /\ doneChan' = doneChan + 1
      BY <1>4 DEF SignalIsDone, DoneHasRoom, AppTypeOK
    <3>2. doneChan' \in 0 .. 1
      BY <3>1
    <3> QED
      BY <1>4, <3>2 DEF SignalIsDone, DoneHasRoom, AppTypeOK
  <2>3. FailureInv' /\ SignalInv'
    BY <1>4, <2>1 DEF SignalIsDone, DoneHasRoom, FailureInv, SignalInv
  <2> QED
    BY <1>4, <2>2, <2>3 DEF SignalIsDone, DoneHasRoom, linkVars
<1>5. CASE Wake
  <2>1. AppTypeOK'
    BY <1>5 DEF Wake, AppTypeOK
  <2>2. FailureInv'
    BY <1>5 DEF Wake, AppTypeOK, FailureInv
  <2>3. SignalInv'
    BY <1>5 DEF Wake, AppTypeOK, SignalInv
  <2> QED
    BY <1>5, <2>1, <2>2, <2>3 DEF Wake, linkVars
<1>6. CASE Return
  BY <1>6 DEF Return, ExitStatus, AppTypeOK, FailureInv, SignalInv, LinkNext
<1>7. CASE Signal
  BY <1>7 DEF Signal, Received, AppTypeOK, FailureInv, SignalInv, LinkNext, linkVars
<1>8. CASE Panic
  BY <1>8 DEF Panic, AppTypeOK, FailureInv, SignalInv, LinkNext
<1> QED
  BY <1>1, <1>2, <1>3, <1>4, <1>5, <1>6, <1>7, <1>8 DEF AppStep

-----------------------------------------------------------------------------
(* S2 and gibson *)

LEMMA S2Keeps ==
  ASSUME LinkTypeOK, HeardInv, ShakeTypeOK, FailedInv, S2TypeOK, UNCHANGED now,
         S2Step \/ S2Signal
  PROVE /\ LinkNext \/ UNCHANGED linkVars
        /\ S2TypeOK' /\ ShakeTypeOK' /\ FailedInv'
<1> USE S2Assumption
<1>1. CASE S2Start
  <2>1. S2TypeOK'
    BY <1>1 DEF S2Start, S2TypeOK
  <2>2. CASE ShakeStep(S2Conn)
    BY <2>1, <2>2, ShakeKeeps
  <2>3. CASE UNCHANGED <<link, down, shake>>
    BY <2>1, <2>3, SameShake DEF linkVars
  <2> QED
    BY <1>1, <2>2, <2>3 DEF S2Start
<1>2. CASE S2Notify
  BY <1>2, SameShake DEF S2Notify, S2TypeOK, linkVars
<1>3. CASE S2Tell
  <2>1. done' = <<TRUE>>
    <3>1. done = <<>>
      BY <1>3 DEF S2Tell, S2TypeOK
    <3> QED
      BY <1>3, <3>1 DEF S2Tell, Told
  <2>2. S2TypeOK'
    BY <1>3, <2>1 DEF S2Tell, S2TypeOK
  <2> QED
    BY <1>3, <2>2, SameShake DEF S2Tell, linkVars
<1>4. CASE S2Turn
  <2>1. done = <<TRUE>> /\ done' = <<>>
    <3>1. done = <<TRUE>> /\ done' = Tail(done)
      BY <1>4 DEF S2Turn, S2TypeOK
    <3>2. Tail(<<TRUE>>) = <<>>
      OBVIOUS
    <3> QED
      BY <3>1, <3>2
  <2>2. S2TypeOK'
    BY <1>4, <2>1 DEF S2Turn, S2TypeOK
  <2>3. LinkNext \/ UNCHANGED linkVars
    <3>1. CASE Exits(S2Conn)
      BY <3>1, ExitsIsALinkStep
    <3>2. CASE LinkSend(S2Conn)
      BY <3>2 DEF LinkNext, ClientSide
    <3>3. CASE UNCHANGED <<link, down>>
      BY <3>3 DEF linkVars
    <3> QED
      BY <1>4, <3>1, <3>2, <3>3 DEF S2Turn
  <2> QED
    BY <1>4, <2>2, <2>3, SameShake DEF S2Turn
<1>5. CASE S2Signal
  <2>1. S2TypeOK'
    BY <1>5 DEF S2Signal, S2TypeOK
  <2>2. LinkNext \/ UNCHANGED linkVars
    BY <1>5, ExitsIsALinkStep DEF S2Signal, linkVars
  <2> QED
    BY <1>5, <2>1, <2>2, SameShake DEF S2Signal
<1> QED
  BY <1>1, <1>2, <1>3, <1>4, <1>5 DEF S2Step

\* What receptionHandler makes of a body on the list can be serialized.
LEMMA GuestsSerialize ==
  ASSUME NEW body \in GuestList
  PROVE Serializable(ReceptionPacket(body))
<1>1. body \in Seq(Byte) /\ HeaderSize + 2 + Len(body) + 1 <= MaxSize
  BY BodiesAssumption, GuestListAssumption
<1>2. Len(<<ReceptionId, GibsonId>> \o body) = 2 + Len(body)
  <2>1. <<ReceptionId, GibsonId>> \in Seq({ReceptionId, GibsonId})
    OBVIOUS
  <2>2. Len(<<ReceptionId, GibsonId>>) = 2 /\ Len(body) \in Nat
    BY <1>1
  <2> QED
    BY <1>1, <2>1, <2>2
<1>3. Len(body) \in Nat
  BY <1>1
<1> QED
  BY <1>1, <1>2, <1>3, MaxSizeAssumption
     DEF ReceptionPacket, Serializable, HeaderSize, MinSize, Versions, TypeSend, Types,
         TypeInit, TypeInvalid, ArgsOf, ArgSend, BareTypes, TypePing, TypeTerm

\* One request changes, to something it may be.
LEMMA OneRequest ==
  ASSUME GibsonTypeOK, GuestInv, NEW r \in Requests,
         NEW new \in [pc : {"none", "send", "answered", "refused"},
                      body : Bodies \cup {<<>>}],
         new.pc = "send" => new.body \in GuestList,
         request' = [request EXCEPT ![r] = new], gibson' \in {"up", "exited"}
  PROVE GibsonTypeOK' /\ GuestInv'
BY DEF GibsonTypeOK, GuestInv, AllPacketsSerialize

LEMMA GibsonKeeps ==
  ASSUME LinkTypeOK, HeardInv, ShakeTypeOK, FailedInv, GibsonTypeOK, GuestInv,
         GibsonStep \/ GibsonEnds \/ \E r \in Requests : Handle(r)
  PROVE /\ LinkNext \/ UNCHANGED linkVars
        /\ GibsonTypeOK' /\ GuestInv' /\ ShakeTypeOK' /\ FailedInv'
<1> USE GibsonAssumption
<1>1. CASE GibsonConnects
  <2>1. GibsonTypeOK' /\ GuestInv'
    BY <1>1 DEF GibsonConnects, GibsonTypeOK, GuestInv, AllPacketsSerialize
  <2>2. CASE ShakeStep(GibsonConn)
    BY <2>1, <2>2, ShakeKeeps
  <2>3. CASE UNCHANGED <<link, down, shake>>
    BY <2>1, <2>3, SameShake DEF linkVars
  <2> QED
    BY <1>1, <2>2, <2>3 DEF GibsonConnects
<1>2. ASSUME NEW r \in Requests, Hand(r)
      PROVE /\ LinkNext \/ UNCHANGED linkVars
            /\ GibsonTypeOK' /\ GuestInv' /\ ShakeTypeOK' /\ FailedInv'
  <2>1. Serializable(ReceptionPacket(request[r].body))
    BY <1>2, GuestsSerialize DEF Hand, GuestInv
  <2>2. UNCHANGED <<gibson, link, down, shake>>
    BY <1>2, <2>1 DEF Hand
  <2> DEFINE new == [request[r] EXCEPT !.pc = "answered"]
  <2>3. request' = [request EXCEPT ![r] = new] /\ gibson' \in {"up", "exited"}
    BY <1>2, <2>2 DEF Hand, GibsonTypeOK, GuestInv, AllPacketsSerialize
  <2>4. /\ new \in [pc : {"none", "send", "answered", "refused"},
                    body : Bodies \cup {<<>>}]
        /\ new.pc = "answered"
    BY DEF GibsonTypeOK
  <2> HIDE DEF new
  <2>5. GibsonTypeOK' /\ GuestInv'
    BY <2>3, <2>4, OneRequest
  <2> QED
    BY <2>2, <2>5, SameShake DEF linkVars
<1>3. ASSUME NEW r \in Requests, Handle(r)
      PROVE /\ LinkNext \/ UNCHANGED linkVars
            /\ GibsonTypeOK' /\ GuestInv' /\ ShakeTypeOK' /\ FailedInv'
  <2>1. PICK valid \in BOOLEAN, body \in Bodies :
          request' = [request EXCEPT ![r] =
            IF valid /\ VerifyBody(body) THEN [pc |-> "send", body |-> body]
            ELSE [pc |-> "refused", body |-> <<>>]]
    BY <1>3 DEF Handle
  <2> DEFINE new == IF valid /\ VerifyBody(body) THEN [pc |-> "send", body |-> body]
                    ELSE [pc |-> "refused", body |-> <<>>]
  <2>2. /\ new \in [pc : {"none", "send", "answered", "refused"},
                    body : Bodies \cup {<<>>}]
        /\ new.pc = "send" => new.body \in GuestList
    BY DEF VerifyBody
  <2>3. request' = [request EXCEPT ![r] = new]
    BY <2>1
  <2>4. gibson' \in {"up", "exited"} /\ UNCHANGED <<link, down, shake>>
    BY <1>3 DEF Handle, GibsonTypeOK, GuestInv, AllPacketsSerialize
  <2> HIDE DEF new
  <2>5. GibsonTypeOK' /\ GuestInv'
    BY <2>2, <2>3, <2>4, OneRequest
  <2> QED
    BY <2>4, <2>5, SameShake DEF linkVars
<1>4. CASE GibsonEnds
  <2>1. GibsonTypeOK' /\ GuestInv'
    BY <1>4 DEF GibsonEnds, GibsonTypeOK, GuestInv, AllPacketsSerialize
  <2>2. LinkNext \/ UNCHANGED linkVars
    BY <1>4, ExitsIsALinkStep DEF GibsonEnds
  <2> QED
    BY <1>4, <2>1, <2>2, SameShake DEF GibsonEnds
<1> QED
  BY <1>1, <1>2, <1>3, <1>4 DEF GibsonStep

-----------------------------------------------------------------------------
(* The programs together *)

LEMMA InitIInv == GoInit => IInv
<1> SUFFICES ASSUME GoInit PROVE IInv
  OBVIOUS
<1> USE DEF GoInit, LinkInit, ShakeInit, AppInit, S2Init, GibsonInit
<1>1. LinkTypeOK
  <2>1. [state |-> "off", sent |-> 0, heard |-> <<>>, left |-> FALSE] \in LinkRecord
    BY DEF LinkRecord
  <2> QED
    BY <2>1 DEF LinkTypeOK, LinkRecord
<1>2. ShakeTypeOK
  BY DEF ShakeTypeOK
<1>3. AppTypeOK
  <2>1. <<>> \in Seq({"error", "done"}) /\ 0 \in 0 .. 1
    OBVIOUS
  <2> QED
    BY <2>1 DEF AppTypeOK
<1>4. S2TypeOK
  BY DEF S2TypeOK
<1>5. GibsonTypeOK
  BY DEF GibsonTypeOK, NoRequest
<1>6. HeardInv /\ FailedInv
  BY DEF HeardInv, FailedInv
<1>7. AppInv
  BY DEF AppInv, FailureInv, SignalInv
<1>8. GuestInv
  BY DEF GuestInv, AllPacketsSerialize, NoRequest
<1> QED
  BY <1>1, <1>2, <1>3, <1>4, <1>5, <1>6, <1>7, <1>8 DEF IInv, GoTypeOK

LEMMA NextIInv == IInv /\ [GoNext]_goVars => IInv'
<1> SUFFICES ASSUME IInv, [GoNext]_goVars PROVE IInv'
  OBVIOUS
<1>1. /\ LinkTypeOK /\ ShakeTypeOK /\ AppTypeOK /\ S2TypeOK /\ GibsonTypeOK
      /\ HeardInv /\ FailedInv /\ AppInv /\ GuestInv
  BY DEF IInv, GoTypeOK
<1> DEFINE LinkPart == LinkNext \/ UNCHANGED linkVars
           ShakeKept == ShakeTypeOK' /\ FailedInv'
           AppKept == AppTypeOK' /\ AppInv'
           S2Kept == S2TypeOK'
           GibsonKept == GibsonTypeOK' /\ GuestInv'
<1>2. LinkPart => LinkTypeOK' /\ HeardInv'
  BY <1>1, LinkStep
<1>3. LinkPart /\ UNCHANGED shake => ShakeKept
  BY <1>1, SameShake
<1>4. UNCHANGED appVars => AppKept
  <2> SUFFICES ASSUME UNCHANGED appVars PROVE AppKept
    OBVIOUS
  <2> USE DEF appVars
  <2>1. AppTypeOK'
    BY <1>1 DEF AppTypeOK
  <2>2. FailureInv'
    BY <1>1 DEF AppInv, FailureInv
  <2>3. SignalInv'
    BY <1>1 DEF AppInv, SignalInv
  <2> QED
    BY <2>1, <2>2, <2>3 DEF AppInv
<1>5. UNCHANGED s2AllVars => S2Kept
  BY <1>1 DEF s2AllVars, s2Vars, S2TypeOK
<1>6. UNCHANGED gibsonVars => GibsonKept
  BY <1>1 DEF gibsonVars, GibsonTypeOK, GuestInv, AllPacketsSerialize
<1>7. SUFFICES LinkPart /\ ShakeKept /\ AppKept /\ S2Kept /\ GibsonKept
  BY <1>2 DEF IInv, GoTypeOK
<1>8. CASE AppPart(AppStep) \/ AppPart(Signal) \/ AppPart(Panic)
  <2>1. (AppStep \/ Signal \/ Panic) /\ UNCHANGED <<shake, s2AllVars, gibsonVars>>
    BY <1>8 DEF AppPart
  <2>2. LinkPart /\ AppKept
    BY <1>1, <2>1, AppKeeps
  <2> QED
    BY <1>3, <1>5, <1>6, <2>1, <2>2
<1>9. CASE BrokerSide
  <2>1. LinkPart /\ UNCHANGED <<shake, appVars, s2AllVars, gibsonVars>>
    BY <1>9 DEF BrokerSide, LinkNext
  <2> QED
    BY <1>3, <1>4, <1>5, <1>6, <2>1
<1>10. CASE S2Part(S2Step) \/ S2Part(S2Signal)
  <2>1. (S2Step \/ S2Signal) /\ UNCHANGED <<now, appVars, gibsonVars>>
    BY <1>10 DEF S2Part
  <2>2. LinkPart /\ ShakeKept /\ S2Kept
    BY <1>1, <2>1, S2Keeps
  <2> QED
    BY <1>4, <1>6, <2>1, <2>2
<1>11. CASE Tick /\ UNCHANGED <<appVars, gibsonVars>>
  <2>1. LinkPart /\ UNCHANGED shake
    BY <1>11 DEF Tick, linkVars
  <2>2. S2Kept
    BY <1>1, <1>11 DEF Tick, S2TypeOK, s2Vars
  <2> QED
    BY <1>3, <1>4, <1>6, <1>11, <2>1, <2>2
<1>12. CASE \/ GibsonPart(GibsonStep) \/ GibsonPart(GibsonEnds)
            \/ \E r \in Requests : GibsonPart(Handle(r))
  <2>1. /\ GibsonStep \/ GibsonEnds \/ \E r \in Requests : Handle(r)
        /\ UNCHANGED <<appVars, s2AllVars>>
    BY <1>12 DEF GibsonPart
  <2>2. LinkPart /\ ShakeKept /\ GibsonKept
    BY <1>1, <2>1, GibsonKeeps
  <2> QED
    BY <1>4, <1>5, <2>1, <2>2
<1>13. CASE UNCHANGED goVars
  <2>1. LinkPart /\ UNCHANGED <<shake, appVars, s2AllVars, gibsonVars>>
    BY <1>13 DEF goVars
  <2> QED
    BY <1>3, <1>4, <1>5, <1>6, <2>1
<1> QED
  BY <1>8, <1>9, <1>10, <1>11, <1>12, <1>13 DEF GoNext

\* The invariant the results below follow from.
THEOREM Invariance == GoSpec => []IInv
<1>1. GoInit => IInv
  BY InitIInv
<1>2. IInv /\ [GoNext]_goVars => IInv'
  BY NextIInv
<1> QED
  BY <1>1, <1>2, PTL DEF GoSpec

\* The variables of the three programs and of the contract keep their types.
THEOREM TypeCorrect == GoSpec => []GoTypeOK
<1>1. IInv => GoTypeOK
  BY DEF IInv
<1> QED
  BY <1>1, Invariance, PTL

\* SendHandshake (liblmp.go:89) fails only for a client that admiral does not
\* serve.
THEOREM NoFalseRefusalTheorem == GoSpec => []NoFalseRefusal
<1>1. IInv => NoFalseRefusal
  BY DEF IInv, FailedInv, NoFalseRefusal, Broken
<1> QED
  BY <1>1, Invariance, PTL

\* Without a signal an admiral whose listener has failed does not exit with
\* status 0 (admiral.go:57-69), however its goroutines run.
THEOREM ListenFailureIsReportedTheorem == GoSpec => []ListenFailureIsReported
<1>1. IInv => ListenFailureIsReported
  BY DEF IInv, AppInv, FailureInv, ListenFailureIsReported
<1> QED
  BY <1>1, Invariance, PTL

\* No HTTP request makes gibson panic (gibson.go:71), whatever its body, as long
\* as the names of the guest list fit in a packet.
THEOREM AllPacketsSerializeTheorem == GoSpec => []AllPacketsSerialize
<1>1. IInv => AllPacketsSerialize
  BY DEF IInv, GuestInv
<1> QED
  BY <1>1, Invariance, PTL
=============================================================================
