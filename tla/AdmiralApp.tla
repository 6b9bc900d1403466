------------------------------ MODULE AdmiralApp ------------------------------
(***************************************************************************)
(* services/admiral/internal/admiral/admiral.go and cmd/admiral/main.go:   *)
(* Start runs the broker and waits for a signal in two goroutines, and     *)
(* returns when either has put something in the channel done.              *)
(***************************************************************************)
EXTENDS AdmiralClient

VARIABLES
  main,       \* Start: "wait", "close" and, when main has exited, its status
  signals,    \* the signal goroutine: "start", "notified", "got", "ended"
  broker,     \* Broker.Start: "listen", "serving" or "failed"
  sends,      \* what its goroutine has left to send when Start has returned
  doneChan,   \* how much is in done, of capacity 1
  errchan,    \* an error is in errchan, of capacity 1
  signalled   \* a signal was sent

appVars == <<main, signals, broker, sends, doneChan, errchan, signalled>>

AppTypeOK ==
  /\ main \in {"wait", "close", "status 0", "status 1", "killed"}
  /\ signals \in {"start", "notified", "got", "ended"}
  /\ broker \in {"listen", "serving", "failed"}
  /\ sends \in Seq({"error", "done"})
  /\ doneChan \in 0 .. 1
  /\ errchan \in BOOLEAN /\ signalled \in BOOLEAN

AppInit ==
  /\ main = "wait" /\ signals = "start" /\ broker = "listen"
  /\ sends = <<>> /\ doneChan = 0 /\ errchan = FALSE /\ signalled = FALSE

Running == ~down /\ main \in {"wait", "close"}

\* Mutant of OnFailure: done is sent before the error.
OnFailureDoneFirst == <<"done", "error">>

\* What the goroutine sends when Start returns an error.
OnFailure == <<"error", "done">>

\* The broker's goroutine: net.Listen fails, on a port that is taken, and Start
\* returns an error, or it serves for ever.
Listen ==
  /\ Running /\ broker = "listen"
  /\ \/ broker' = "serving" /\ UNCHANGED sends
     \/ broker' = "failed" /\ sends' = OnFailure
  /\ UNCHANGED <<main, signals, doneChan, errchan, signalled, link, down>>

\* Mutant of DoneHasRoom: done is made with room for both senders.
DoneIsWider == doneChan < 2

\* done has a buffer of one: the second sender waits until the first is received.
DoneHasRoom == doneChan < 1

BrokerSends ==
  /\ Running /\ sends # <<>> /\ sends' = Tail(sends)
  /\ \/ /\ Head(sends) = "error" /\ ~errchan
        /\ errchan' = TRUE /\ UNCHANGED doneChan
     \/ /\ Head(sends) = "done" /\ DoneHasRoom
        /\ doneChan' = doneChan + 1 /\ UNCHANGED errchan
  /\ UNCHANGED <<main, signals, broker, signalled, link, down>>

\* The signal goroutine.
Notify ==
  /\ Running /\ signals = "start" /\ signals' = "notified"
  /\ UNCHANGED <<main, broker, sends, doneChan, errchan, signalled, link, down>>
SignalIsDone ==
  /\ Running /\ signals = "got" /\ DoneHasRoom
  /\ doneChan' = doneChan + 1 /\ signals' = "ended"
  /\ UNCHANGED <<main, broker, sends, errchan, signalled, link, down>>

\* Mutant of Received: the goroutine returns and tells nobody.
ReceivedAndEnded == "ended"

\* Where the signal goroutine goes on: to the send.
Received == "got"

\* SIGINT or SIGTERM; before signal.Notify it kills.
Signal ==
  /\ Running /\ signalled' = TRUE
  /\ \/ signals = "start" /\ main' = "killed" /\ LinkDown /\ UNCHANGED signals
     \/ signals = "notified" /\ signals' = Received /\ UNCHANGED <<main, link, down>>
     \/ signals \in {"got", "ended"} /\ UNCHANGED <<main, signals, link, down>>
  /\ UNCHANGED <<broker, sends, doneChan, errchan>>

\* <-done, then Close, which closes nothing.
Wake ==
  /\ Running /\ main = "wait" /\ doneChan > 0
  /\ doneChan' = doneChan - 1 /\ main' = "close"
  /\ UNCHANGED <<signals, broker, sends, errchan, signalled, link, down>>

\* What main makes of the result of Start.
ExitStatus == IF errchan THEN "status 1" ELSE "status 0"

\* The non-blocking read of errchan, and main exits; the kernel closes what is
\* connected.
Return ==
  /\ Running /\ main = "close"
  /\ main' = ExitStatus
  /\ errchan' = FALSE
  /\ LinkDown
  /\ UNCHANGED <<signals, broker, sends, doneChan, signalled>>

\* A goroutine of the broker panics.
Panic ==
  /\ Running /\ broker = "serving" /\ main' = "killed" /\ LinkDown
  /\ UNCHANGED <<signals, broker, sends, doneChan, errchan, signalled>>

AppStep ==
  Listen \/ BrokerSends \/ Notify \/ SignalIsDone \/ Wake \/ Return

-----------------------------------------------------------------------------

\* An admiral that cannot listen says so in its exit status, although it looks
\* at the channel of the error without waiting: only a signal that comes at the
\* same moment can hide it.
ListenFailureIsReported ==
  (main = "status 0" /\ broker = "failed") => signalled

\* A signal ends admiral, whatever the broker does and its clients want.
SignalEndsAdmiral == signalled ~> down
=============================================================================
