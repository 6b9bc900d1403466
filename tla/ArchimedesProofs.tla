-------------------------- MODULE ArchimedesProofs --------------------------
(***************************************************************************)
(* The safety of archimedes, for every set of services and every number of *)
(* starts.                                                                 *)
(***************************************************************************)
EXTENDS Archimedes, TLAPS

\* A thread can only be late if it looked at ALIVE before the signal.
LateOnce ==
  \A s \in Services :
    /\ late[s] <= 1
    /\ alive \/ listener[s] = "spawn" => late[s] = 0

\* The thread that has started an ssh waits for it.
SshIsWaitedFor == \A s \in Services : ssh[s] # "none" => listener[s] = "wait"

\* Where the threads are when the main thread has none, or has joined them all.
ThreadsOfMain ==
  /\ main = "load" => \A s \in Services : listener[s] = "none"
  /\ main = "exited" =>
       ~handling /\ \A s \in Services : listener[s] \in {"none", "ended", "failed"}

\* After a signal was handled no ssh of an earlier archimedes is left.
OrphansAreKilled ==
  (~alive /\ ~handling /\ main # "killed") => \A s \in Services : orphan[s] = "none"

IInv == TypeOK /\ LateOnce /\ SshIsWaitedFor /\ ThreadsOfMain /\ OrphansAreKilled

-----------------------------------------------------------------------------

\* Nothing runs and nothing is late: what archimedes starts with.
LEMMA StillnessIsTyped ==
  ASSUME NEW th \in [Services -> {"none"}], NEW count \in [Services -> {0}]
  PROVE  /\ th \in [Services -> {"none", "check", "spawn", "wait", "sleep",
                                 "ended", "failed"}]
         /\ th \in [Services -> Ssh]
         /\ count \in [Services -> 0 .. 2]
<1>1. th \in [Services -> {"none", "check", "spawn", "wait", "sleep", "ended", "failed"}]
  OBVIOUS
<1>2. th \in [Services -> Ssh]
  BY DEF Ssh
<1>3. 0 \in 0 .. 2
  OBVIOUS
<1>4. count \in [Services -> 0 .. 2]
  BY <1>3
<1> QED  BY <1>1, <1>2, <1>4

LEMMA InitEstablishesInv ==
  ASSUME Init
  PROVE  IInv
<1>1. /\ listener \in [Services -> {"none"}] /\ ssh \in [Services -> {"none"}]
      /\ orphan \in [Services -> {"none"}] /\ late \in [Services -> {0}]
  BY DEF Init
<1>2. TypeOK
  <2>1. starts \in 1 .. MaxStarts
    BY MaxStartsAssumption DEF Init
  <2>2. /\ main = "load" /\ handling = FALSE /\ alive = TRUE
    BY DEF Init
  <2> QED  BY <1>1, <2>1, <2>2, StillnessIsTyped DEF TypeOK
<1>3. LateOnce /\ SshIsWaitedFor /\ ThreadsOfMain /\ OrphansAreKilled
  BY <1>1
  DEF Init, LateOnce, SshIsWaitedFor, ThreadsOfMain, OrphansAreKilled
<1> QED  BY <1>2, <1>3 DEF IInv

LEMMA MainKeepsInv ==
  ASSUME IInv, MainStep
  PROVE  IInv'
<1>1. CASE LoadConfiguration
  BY <1>1
  DEF IInv, TypeOK, Ssh, Stopped, LateOnce, SshIsWaitedFor, ThreadsOfMain,
      OrphansAreKilled, LoadConfiguration, MainAt, signalVars, threadVars
<1>2. ASSUME NEW s \in Services, StartThread(s)
      PROVE  IInv'
  BY <1>2
  DEF IInv, TypeOK, Ssh, Stopped, LateOnce, SshIsWaitedFor, ThreadsOfMain,
      OrphansAreKilled, StartThread, MainAt, signalVars
<1>3. CASE Return
  BY <1>3
  DEF IInv, TypeOK, Ssh, Stopped, LateOnce, SshIsWaitedFor, ThreadsOfMain,
      OrphansAreKilled, Return, MainAt, signalVars, threadVars
<1>4. CASE Exit
  BY <1>4
  DEF IInv, TypeOK, Ssh, Stopped, LateOnce, SshIsWaitedFor, ThreadsOfMain,
      OrphansAreKilled, Exit, MainAt, signalVars, threadVars
<1> QED  BY <1>1, <1>2, <1>3, <1>4 DEF MainStep

LEMMA SignalKeepsInv ==
  ASSUME IInv, HandleSignal \/ KillAll \/ Killed
  PROVE  IInv'
<1>1. CASE HandleSignal
  BY <1>1
  DEF IInv, TypeOK, Ssh, Stopped, LateOnce, SshIsWaitedFor, ThreadsOfMain,
      OrphansAreKilled, HandleSignal, threadVars
<1>2. CASE KillAll
  BY <1>2
  DEF IInv, TypeOK, Ssh, Stopped, LateOnce, SshIsWaitedFor, ThreadsOfMain,
      OrphansAreKilled, KillAll, Survivors, threadVars
<1>3. CASE Killed
  BY <1>3
  DEF IInv, TypeOK, Ssh, Stopped, LateOnce, SshIsWaitedFor, ThreadsOfMain,
      OrphansAreKilled, Killed, signalVars, threadVars
<1> QED  BY <1>1, <1>2, <1>3

LEMMA ListenerKeepsInv ==
  ASSUME IInv, NEW s \in Services, ListenerStep(s)
  PROVE  IInv'
<1>1. CASE Check(s)
  BY <1>1
  DEF IInv, TypeOK, Ssh, Stopped, LateOnce, SshIsWaitedFor, ThreadsOfMain,
      OrphansAreKilled, Check, ListenerAt, ListenerTo, MayStart, signalVars
\* A thread that starts ssh after the signal had looked at ALIVE before it, so
\* this is the first time.
<1>2. CASE Popen(s)
  <2>1. /\ main \notin Stopped /\ listener[s] = "spawn"
        /\ main' = main /\ handling' = handling /\ alive' = alive
        /\ orphan' = orphan /\ starts' = starts
    BY <1>2 DEF Popen, ListenerAt, signalVars
  <2>2. CASE /\ ListenerTo(s, "wait")
             /\ ssh' = [ssh EXCEPT ![s] =
                          IF orphan[s] = "forwarding" THEN "connected"
                                                      ELSE "forwarding"]
             /\ late' = [late EXCEPT ![s] = IF alive \/ @ = 2 THEN @ ELSE @ + 1]
    <3>1. late[s] = 0
      BY <2>1 DEF IInv, LateOnce
    <3>2. late' = [late EXCEPT ![s] = IF alive THEN 0 ELSE 1]
      BY <2>2, <3>1 DEF IInv, TypeOK
    <3>3. TypeOK'
      BY <2>1, <2>2, <3>2 DEF IInv, TypeOK, Ssh, ListenerTo
    <3>4. LateOnce'
      BY <2>1, <2>2, <3>2 DEF IInv, TypeOK, LateOnce, ListenerTo
    <3>5. SshIsWaitedFor'
      BY <2>1, <2>2 DEF IInv, TypeOK, SshIsWaitedFor, ListenerTo
    <3>6. ThreadsOfMain'
      BY <2>1, <2>2 DEF IInv, TypeOK, ThreadsOfMain, Stopped, ListenerTo
    <3>7. OrphansAreKilled'
      BY <2>1 DEF IInv, OrphansAreKilled
    <3> QED  BY <3>3, <3>4, <3>5, <3>6, <3>7 DEF IInv
  <2>3. CASE ListenerTo(s, "failed") /\ UNCHANGED <<ssh, late>>
    BY <2>1, <2>3
    DEF IInv, TypeOK, Ssh, Stopped, LateOnce, SshIsWaitedFor, ThreadsOfMain,
        OrphansAreKilled, ListenerTo
  <2> QED  BY <1>2, <2>2, <2>3 DEF Popen
<1>3. CASE Wait(s)
  BY <1>3
  DEF IInv, TypeOK, Ssh, Stopped, LateOnce, SshIsWaitedFor, ThreadsOfMain,
      OrphansAreKilled, Wait, HasDied, ListenerAt, ListenerTo, signalVars
<1>4. CASE Sleep(s)
  BY <1>4
  DEF IInv, TypeOK, Ssh, Stopped, LateOnce, SshIsWaitedFor, ThreadsOfMain,
      OrphansAreKilled, Sleep, AfterSleep, ListenerAt, ListenerTo, signalVars
<1> QED  BY <1>1, <1>2, <1>3, <1>4 DEF ListenerStep

LEMMA SshDiesKeepsInv ==
  ASSUME IInv, NEW s \in Services, SshDies(s)
  PROVE  IInv'
BY DEF IInv, TypeOK, Ssh, Stopped, LateOnce, SshIsWaitedFor, ThreadsOfMain,
       OrphansAreKilled, SshDies, signalVars, threadVars

LEMMA StartKeepsInv ==
  ASSUME IInv, Start
  PROVE  IInv'
<1>1. /\ main' = "load" /\ handling' = FALSE /\ alive' = TRUE
      /\ listener' = [s \in Services |-> "none"]
      /\ late' = [s \in Services |-> 0]
      /\ ssh' = [s \in Services |-> "none"]
      /\ starts < MaxStarts /\ starts' = starts + 1
  BY DEF Start
<1> DEFINE Left(s) == CHOOSE state \in {ssh[s], orphan[s]} :
                        "forwarding" \in {ssh[s], orphan[s]} => state = "forwarding"
<1>2. ASSUME NEW s \in Services
      PROVE  Left(s) \in Ssh
  <2>1. \E state \in {ssh[s], orphan[s]} :
          "forwarding" \in {ssh[s], orphan[s]} => state = "forwarding"
    OBVIOUS
  <2>2. Left(s) \in {ssh[s], orphan[s]}
    BY <2>1
  <2> QED  BY <2>2 DEF IInv, TypeOK
<1>3. orphan' = [s \in Services |-> Left(s)]
  BY DEF Start
<1> HIDE DEF Left
<1>4. orphan' \in [Services -> Ssh]
  BY <1>2, <1>3
<1>5. /\ listener' \in [Services -> {"none"}] /\ ssh' \in [Services -> {"none"}]
      /\ late' \in [Services -> {0}]
  BY <1>1
<1>6. TypeOK'
  <2>1. starts' \in 1 .. MaxStarts
    BY <1>1, MaxStartsAssumption DEF IInv, TypeOK
  <2> QED  BY <1>1, <1>4, <1>5, <2>1, StillnessIsTyped DEF TypeOK
<1>7. (LateOnce /\ SshIsWaitedFor /\ ThreadsOfMain /\ OrphansAreKilled)'
  BY <1>1, <1>5
  DEF LateOnce, SshIsWaitedFor, ThreadsOfMain, OrphansAreKilled
<1> QED  BY <1>6, <1>7 DEF IInv

LEMMA StutterKeepsInv ==
  ASSUME IInv, UNCHANGED vars
  PROVE  IInv'
BY DEF IInv, TypeOK, Ssh, Stopped, LateOnce, SshIsWaitedFor, ThreadsOfMain,
       OrphansAreKilled, vars

-----------------------------------------------------------------------------

\* The invariant that carries the three properties below holds in every
\* behaviour of archimedes.
THEOREM Invariance == Spec => []IInv
<1>1. Init => IInv
  BY InitEstablishesInv
<1>2. IInv /\ [Next]_vars => IInv'
  BY MainKeepsInv, SignalKeepsInv, ListenerKeepsInv, SshDiesKeepsInv,
     StartKeepsInv, StutterKeepsInv
  DEF Next
<1> QED  BY <1>1, <1>2, PTL DEF Spec

\* The variables of archimedes, of its threads and of the ssh they start keep
\* their types.
THEOREM TypeCorrect == Spec => []TypeOK
<1>1. IInv => TypeOK
  BY DEF IInv
<1> QED  BY <1>1, Invariance, PTL

\* When archimedes exits on SIGINT no ssh is left: a thread that is not waiting
\* has none, and those of an earlier archimedes were killed by the handler.
THEOREM ExitLeavesNoSshTheorem == Spec => []ExitLeavesNoSsh
<1>1. IInv => ExitLeavesNoSsh
  BY DEF IInv, ExitLeavesNoSsh, SshIsWaitedFor, ThreadsOfMain, OrphansAreKilled,
         TypeOK
<1> QED  BY <1>1, Invariance, PTL

\* However often archimedes is interrupted, a thread starts at most one ssh
\* after the signal.
THEOREM AtMostOneLateSshTheorem == Spec => []AtMostOneLateSsh
<1>1. IInv => AtMostOneLateSsh
  BY DEF IInv, LateOnce, AtMostOneLateSsh
<1> QED  BY <1>1, Invariance, PTL
=============================================================================
