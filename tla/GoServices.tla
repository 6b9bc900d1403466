------------------------------ MODULE GoServices ------------------------------
(***************************************************************************)
(* The admiral process and a client of it, S2 or gibson, side by side:     *)
(* their start, their goroutines, their end, in every order, with          *)
(* admiral's broker reduced to the contract it keeps with its clients.     *)
(***************************************************************************)
EXTENDS AdmiralApp, S2, Gibson

CONSTANT MaxHeard   \* bound on the packets admiral sends to a client

ASSUME ClientsAssumption == Clients = {S2Conn, GibsonConn} /\ S2Conn # GibsonConn
ASSUME MaxHeardAssumption == MaxHeard \in Nat

linkVars == <<link, down>>
s2AllVars == <<s2Vars, now>>
gibsonVars == <<gibson, request>>
goVars == <<linkVars, shake, appVars, s2AllVars, gibsonVars>>

GoTypeOK == LinkTypeOK /\ ShakeTypeOK /\ AppTypeOK /\ S2TypeOK /\ GibsonTypeOK

\* One of the two runs, a bound: they meet only in admiral, whose contract is
\* with each of them alone.
GoInit ==
  /\ LinkInit /\ ShakeInit /\ AppInit /\ S2Init /\ GibsonInit
  /\ s2 = "exit" \/ gibson = "exited"

\* A client reaches admiral only when it listens.
Reaches ==
  \A c \in Clients :
    (link[c].state = "off" /\ link'[c].state # "off") => broker = "serving"

AppPart(A) == A /\ UNCHANGED <<shake, s2AllVars, gibsonVars>>
S2Part(A) == A /\ Reaches /\ UNCHANGED <<now, appVars, gibsonVars>>
GibsonPart(A) == A /\ Reaches /\ UNCHANGED <<appVars, s2AllVars>>

\* What admiral's broker does with its clients.
BrokerSide ==
  /\ Running /\ broker = "serving"
  /\ \E c \in Clients : AdmiralSide(c) /\ Len(link'[c].heard) <= MaxHeard
  /\ UNCHANGED <<shake, appVars, s2AllVars, gibsonVars>>

GoNext ==
  \/ AppPart(AppStep) \/ AppPart(Signal) \/ AppPart(Panic)
  \/ BrokerSide
  \/ S2Part(S2Step) \/ S2Part(S2Signal)
  \/ Tick /\ UNCHANGED <<appVars, gibsonVars>>
  \/ GibsonPart(GibsonStep) \/ GibsonPart(GibsonEnds)
  \/ \E r \in Requests : GibsonPart(Handle(r))

\* The goroutines of the three programs run.  Nothing is asked of the broker: it
\* may be held up by a silent client before it accepts any of them.  Time passes.
GoSpec ==
  /\ GoInit /\ [][GoNext]_goVars
  /\ WF_goVars(AppPart(Listen)) /\ WF_goVars(AppPart(BrokerSends))
  /\ WF_goVars(AppPart(Notify)) /\ WF_goVars(AppPart(SignalIsDone))
  /\ WF_goVars(AppPart(Wake) \/ AppPart(Return))
  /\ WF_goVars(S2Part(S2Step))
  /\ WF_goVars(GibsonPart(GibsonConnects))
  /\ \A r \in Requests : WF_goVars(GibsonPart(Hand(r)))
  /\ WF_goVars(Tick /\ UNCHANGED <<appVars, gibsonVars>>)

-----------------------------------------------------------------------------

\* SendHandshake fails only for a client that admiral does not serve, or did not
\* to the end: no other packet overtakes ACCEPT.  (The converse is not so:
\* admiral refuses clients after it has sent them ACCEPT.)
NoFalseRefusal ==
  \A c \in Clients : shake[c] = "failed" => (link[c].state # "served" \/ down)
=============================================================================
