---------------------------------- MODULE S2 ----------------------------------
(***************************************************************************)
(* services/s2/cmd/s2/main.go: S2 reads a schedule, shakes hands with      *)
(* admiral and is to send each packet of the schedule at its time.         *)
(***************************************************************************)
EXTENDS GoHandshake

CONSTANTS
  S2Conn,   \* the connection of S2
  Entries,  \* config.Entries: a sequence of [time, packet]
  Times     \* the seconds of a day that are told apart

ASSUME S2Assumption == S2Conn \in Clients
ASSUME EntriesAssumption == \A i \in DOMAIN Entries : Entries[i].time \in Times

VARIABLES
  s2,       \* the main goroutine: "start", "loop" or "exit"
  notified, \* the signal goroutine has called signal.Notify
  sigchan,  \* a signal is in its channel
  done,     \* the channel done, of capacity 1
  now       \* the time of day

s2Vars == <<s2, notified, sigchan, done>>

S2TypeOK ==
  /\ s2 \in {"start", "loop", "exit"}
  /\ notified \in BOOLEAN /\ sigchan \in BOOLEAN
  /\ done \in {<<>>, <<TRUE>>}
  /\ now \in Times

\* S2 is started, or is not.
S2Init ==
  /\ s2 \in {"start", "exit"} /\ notified = FALSE /\ sigchan = FALSE /\ done = <<>>
  /\ now \in Times

\* Of the entries with one time the last is in the map.
Schedule ==
  [t \in {Entries[i].time : i \in DOMAIN Entries} |->
     Entries[CHOOSE i \in DOMAIN Entries :
               /\ Entries[i].time = t
               /\ \A j \in DOMAIN Entries : Entries[j].time = t => j <= i].packet]

\* The schedule, net.Dial and SendHandshake.  A failed dial panics; what the
\* handshake returns is ignored.
S2Start ==
  /\ s2 = "start"
  /\ \/ ShakeStep(S2Conn) /\ UNCHANGED s2
     \/ /\ shake[S2Conn] \in {"ok", "failed"}
        /\ s2' = "loop" /\ UNCHANGED <<link, down, shake>>
     \/ /\ shake[S2Conn] = "unreachable"
        /\ s2' = "exit" /\ UNCHANGED <<link, down, shake>>
  /\ UNCHANGED <<notified, sigchan, done>>

\* The signal goroutine, which the loop is not started before.
S2Notify ==
  /\ s2 = "loop" /\ ~notified /\ notified' = TRUE
  /\ UNCHANGED <<s2, sigchan, done, link, down, shake>>

\* Mutant of Told: the goroutine does not tell the main loop.
NotTold == done

\* What is in done when the goroutine has received the signal.
Told == Append(done, TRUE)

S2Tell ==
  /\ s2 = "loop" /\ sigchan /\ Len(done) < 1
  /\ done' = Told /\ sigchan' = FALSE
  /\ UNCHANGED <<s2, notified, link, down, shake>>

\* A turn of the loop: it begins with a receive from done, which blocks while
\* the channel is empty, and in which nobody puts false.
S2Turn ==
  /\ s2 = "loop" /\ done # <<>>
  /\ done' = Tail(done)
  /\ IF Head(done)
     THEN s2' = "exit" /\ Exits(S2Conn)
     ELSE /\ UNCHANGED s2
          /\ IF now \in DOMAIN Schedule /\ Connected(S2Conn) THEN LinkSend(S2Conn)
             ELSE UNCHANGED <<link, down>>
  /\ UNCHANGED <<notified, sigchan, shake>>

\* SIGINT or SIGTERM: for the channel, or, before Notify, the end.
S2Signal ==
  /\ s2 # "exit"
  /\ IF notified
     THEN sigchan' = TRUE /\ UNCHANGED <<s2, link, down>>
     ELSE s2' = "exit" /\ Exits(S2Conn) /\ UNCHANGED sigchan
  /\ UNCHANGED <<notified, done, shake>>

\* Time passes.
Tick == now' \in Times /\ UNCHANGED <<s2Vars, link, down, shake>>

S2Step == S2Start \/ S2Notify \/ S2Tell \/ S2Turn

-----------------------------------------------------------------------------

\* A signal ends S2, also while it waits for admiral: S2 does not get past the
\* handshake before it is answered, and does not ask for signals before that.
SignalEndsS2 == sigchan ~> s2 = "exit"

\* README.md:26: S2 is a scheduling service that sends LMP packets to different
\* services through admiral.  So when a time of the schedule comes and S2 is
\* connected, it sends more than its handshake.
ScheduledIsSent ==
  \A t \in DOMAIN Schedule :
    (s2 = "loop" /\ now = t /\ Connected(S2Conn))
      ~> (link[S2Conn].sent > 2 \/ s2 = "exit" \/ Broken(S2Conn))
=============================================================================
