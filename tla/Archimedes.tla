----------------------------- MODULE Archimedes -----------------------------
(***************************************************************************)
(* services/archimedes/archimedes: a thread per forwarded port runs ssh,   *)
(* waits until it dies and starts it again; SIGINT clears the flag ALIVE,  *)
(* which the threads look at before every start, and kills every ssh.      *)
(*                                                                         *)
(* An ssh that finds its local port taken stays connected and forwards     *)
(* nothing: port_forward_command does not ask it to exit then.  Any other  *)
(* signal ends archimedes where it is, without a handler, and leaves its   *)
(* ssh processes to nobody; they hold their ports when it is started again.*)
(***************************************************************************)
EXTENDS Naturals

CONSTANTS
  Services,   \* the keys of uber.json
  MaxStarts   \* bound on the starts of archimedes

ASSUME MaxStartsAssumption == MaxStarts \in Nat \ {0}

VARIABLES
  main,      \* the main thread
  handling,  \* it is in handle_signal, before os.system
  alive,     \* ALIVE
  listener,  \* the thread of each service
  ssh,       \* the ssh a thread has started
  orphan,    \* one that an earlier archimedes has left
  late,      \* how often each thread has started ssh after the signal, up to 2
  starts     \* how often archimedes was started

vars == <<main, handling, alive, listener, ssh, orphan, late, starts>>
signalVars == <<handling, alive>>
threadVars == <<listener, late>>

Ssh == {"none", "forwarding", "connected"}
Stopped == {"exited", "killed"}

TypeOK ==
  /\ main \in {"load", "start", "join"} \cup Stopped
  /\ handling \in BOOLEAN /\ alive \in BOOLEAN
  /\ listener \in [Services ->
                     {"none", "check", "spawn", "wait", "sleep", "ended", "failed"}]
  /\ ssh \in [Services -> Ssh] /\ orphan \in [Services -> Ssh]
  /\ late \in [Services -> 0 .. 2]
  /\ starts \in 1 .. MaxStarts

Init ==
  /\ main = "load" /\ handling = FALSE /\ alive = TRUE
  /\ listener = [s \in Services |-> "none"]
  /\ ssh = [s \in Services |-> "none"] /\ orphan = ssh
  /\ late = [s \in Services |-> 0]
  /\ starts = 1

-----------------------------------------------------------------------------
(* The main thread; it is also the one that runs the signal handler *)

MainAt(pc) == main = pc /\ ~handling

\* load_configuration, which raises when /etc/uber.json is not what it expects.
LoadConfiguration ==
  /\ MainAt("load")
  /\ \E to \in {"start", "exited"} : main' = to
  /\ UNCHANGED <<signalVars, threadVars, ssh, orphan, starts>>

\* A turn of the loop over COMMANDS.
StartThread(s) ==
  /\ MainAt("start") /\ listener[s] = "none"
  /\ listener' = [listener EXCEPT ![s] = "check"]
  /\ UNCHANGED <<main, signalVars, ssh, orphan, late, starts>>

\* main returns, whatever ALIVE is, and the interpreter joins the threads.
Return ==
  /\ MainAt("start") /\ \A s \in Services : listener[s] # "none"
  /\ main' = "join"
  /\ UNCHANGED <<signalVars, threadVars, ssh, orphan, starts>>

Exit ==
  /\ MainAt("join") /\ \A s \in Services : listener[s] \in {"ended", "failed"}
  /\ main' = "exited"
  /\ UNCHANGED <<signalVars, threadVars, ssh, orphan, starts>>

\* handle_signal: the flag is cleared ...
HandleSignal ==
  /\ main \notin Stopped /\ ~handling
  /\ handling' = TRUE /\ alive' = FALSE
  /\ UNCHANGED <<main, threadVars, ssh, orphan, starts>>

\* Mutant of Survivors: only the ssh of this archimedes are killed.
SurvivorsOrphans == orphan

\* killall ssh does not ask whose they are.
Survivors == [s \in Services |-> "none"]

\* ... then every ssh there is is killed.
KillAll ==
  /\ main \notin Stopped /\ handling
  /\ ssh' = [s \in Services |-> "none"] /\ orphan' = Survivors
  /\ handling' = FALSE
  /\ UNCHANGED <<main, alive, threadVars, starts>>

MainStep ==
  LoadConfiguration \/ (\E s \in Services : StartThread(s)) \/ Return \/ Exit

-----------------------------------------------------------------------------
(* connection_listener *)

ListenerAt(s, pc) == main \notin Stopped /\ listener[s] = pc
ListenerTo(s, pc) == listener' = [listener EXCEPT ![s] = pc]

\* Mutant of MayStart: the loop is endless.
MayStartAlways == TRUE

\* while ALIVE
MayStart == alive

Check(s) ==
  /\ ListenerAt(s, "check")
  /\ ListenerTo(s, IF MayStart THEN "spawn" ELSE "ended")
  /\ UNCHANGED <<main, signalVars, ssh, orphan, late, starts>>

\* Popen, which may raise and end the thread.
Popen(s) ==
  /\ ListenerAt(s, "spawn")
  /\ \/ /\ ListenerTo(s, "wait")
        /\ ssh' = [ssh EXCEPT ![s] =
                     IF orphan[s] = "forwarding" THEN "connected" ELSE "forwarding"]
        /\ late' = [late EXCEPT ![s] = IF alive \/ @ = 2 THEN @ ELSE @ + 1]
     \/ ListenerTo(s, "failed") /\ UNCHANGED <<ssh, late>>
  /\ UNCHANGED <<main, signalVars, orphan, starts>>

\* Mutant of HasDied: the process is polled, not waited for.
HasDiedOrNot(s) == TRUE

\* proc.wait returns.
HasDied(s) == ssh[s] = "none"

Wait(s) ==
  /\ ListenerAt(s, "wait") /\ HasDied(s)
  /\ ListenerTo(s, "sleep")
  /\ UNCHANGED <<main, signalVars, ssh, orphan, late, starts>>

\* Mutant of AfterSleep: the thread returns with its first ssh.
AfterSleepReturned == "returned"

\* Where the thread goes after its five seconds.
AfterSleep == "check"

Sleep(s) ==
  /\ ListenerAt(s, "sleep")
  /\ ListenerTo(s, AfterSleep)
  /\ UNCHANGED <<main, signalVars, ssh, orphan, late, starts>>

ListenerStep(s) == Check(s) \/ Popen(s) \/ Wait(s) \/ Sleep(s)

-----------------------------------------------------------------------------
(* The environment *)

\* A connection is lost and its ssh exits.
SshDies(s) ==
  /\ \/ ssh[s] # "none" /\ ssh' = [ssh EXCEPT ![s] = "none"] /\ UNCHANGED orphan
     \/ orphan[s] # "none" /\ orphan' = [orphan EXCEPT ![s] = "none"] /\ UNCHANGED ssh
  /\ UNCHANGED <<main, signalVars, threadVars, starts>>

\* SIGTERM, or any other signal archimedes does not handle.
Killed ==
  /\ main \notin Stopped /\ main' = "killed"
  /\ UNCHANGED <<signalVars, threadVars, ssh, orphan, starts>>

\* archimedes is started again.  Of two ssh for one port only one forwards.
Start ==
  /\ main \in Stopped /\ starts < MaxStarts
  /\ main' = "load" /\ handling' = FALSE /\ alive' = TRUE
  /\ listener' = [s \in Services |-> "none"]
  /\ late' = [s \in Services |-> 0]
  /\ ssh' = [s \in Services |-> "none"]
  /\ orphan' = [s \in Services |->
                  CHOOSE state \in {ssh[s], orphan[s]} :
                    "forwarding" \in {ssh[s], orphan[s]} => state = "forwarding"]
  /\ starts' = starts + 1

Next ==
  \/ MainStep \/ HandleSignal \/ KillAll \/ Killed \/ Start
  \/ \E s \in Services : ListenerStep(s) \/ SshDies(s)

\* Threads run and a handler that was entered ends; the main thread gets on
\* between two signals.  Nothing is asked of ssh, nor of whoever starts and
\* stops archimedes.
Spec ==
  /\ Init /\ [][Next]_vars
  /\ SF_vars(MainStep) /\ WF_vars(KillAll)
  /\ \A s \in Services : WF_vars(ListenerStep(s))

-----------------------------------------------------------------------------

\* services/archimedes/README.md:34, archimedes shuts down all SSH processes
\* when it exits.  So it does when it exits on SIGINT, those of an earlier
\* archimedes included, although threads may start ssh after the others were
\* killed: nobody exits before it has seen its ssh die.
ExitLeavesNoSsh ==
  (main = "exited" /\ ~alive) =>
    \A s \in Services : ssh[s] = "none" /\ orphan[s] = "none"

\* A thread that has looked at ALIVE just before the signal starts one ssh after
\* it, which killall may have missed, but never a second.
AtMostOneLateSsh == \A s \in Services : late[s] <= 1

\* So SIGINT ends archimedes in the end, if not at the first time: it cannot be
\* interrupted for ever and go on.  One that is interrupted only once may stay,
\* waiting for the late ssh.
InterruptsEnd == []<>handling => <>(main \in Stopped)

\* services/archimedes/README.md:3, archimedes keeps services port forwarded up
\* 24/7: a connection that dies is made again, unless Popen raises or an ssh of
\* an earlier archimedes held the port when the new one was started.
ForwardIsRestored ==
  \A s \in Services :
    (main = "join" /\ listener[s] # "failed" /\ ssh[s] = "none" /\ orphan[s] = "none")
      ~> \/ ssh[s] = "forwarding"
         \/ ~alive \/ main \in Stopped \/ listener[s] = "failed"
=============================================================================
