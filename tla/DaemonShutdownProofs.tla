-------------------------- MODULE DaemonShutdownProofs --------------------------
(***************************************************************************)
(* Proofs about DaemonShutdown for any number of instances, handlers and   *)
(* signals and any set of faults: on every way out the socket file is      *)
(* removed, the WaitGroup never ends its Wait early, and what an exit that *)
(* was not forced leaves behind.                                           *)
(***************************************************************************)
EXTENDS DaemonShutdown, FiniteSetTheorems, TLAPS

\* The instances the factory was called for that have not called Done.
Counted == {i \in Instance : launch[i] # "none" /\ process[i] # "reaped"}

\* No process is without its launch, or reaped without the end of it.
Launched ==
  \A i \in Instance :
    /\ launch[i] = "none" => process[i] = "none"
    /\ process[i] = "reaped" => launch[i] = "started"

\* The WaitGroup is exact about the instances to be waited for.
Counting == IsFiniteSet(Counted) /\ wg = Cardinality(Counted) /\ Launched

\* What the second stage of the shutdown, and only it, brings about.
Stage ==
  /\ stage = "stopping" => cancelled /\ ~socket
  /\ server \in {"graceful", "stopped"} => stage \in {"stopping", "exit", "exited"}
  /\ stage \in {"exit", "exited"} /\ ~hardExit =>
       ~socket /\ serverSeen /\ instancesSeen
  /\ stage = "exited" => ~socket
  /\ instancesDone => cancelled

\* What shutdownSignalHandler has seen is the case, and stays so, unless it has
\* run into its timeout.
Seen ==
  /\ serverSeen => server = "stopped"
  /\ server = "stopped" => forced \/ NoCalls
  /\ instancesSeen => forced \/ instancesDone
  /\ instancesDone => tardy \/ Counted = {}

DaemonInv == TypeOK /\ Counting /\ Stage /\ Seen

-----------------------------------------------------------------------------
(* Counting *)

LEMMA ReapedAreCounted ==
  ASSUME Counting
  PROVE  ToBeReaped \subseteq Counted
BY DEF Counting, Launched, Counted, ToBeReaped

\* A call of the factory is one more to be waited for.
LEMMA CountFactory ==
  ASSUME TypeOK, Counting, NEW i \in Instance, Factory(i)
  PROVE  wg' \in Nat /\ Counting'
<1>1. /\ launch[i] = "none" /\ wg' = wg + 1 /\ UNCHANGED process
      /\ launch' = [launch EXCEPT ![i] = "starting"]
  BY DEF Factory, procs
<1>2. Counted' = Counted \cup {i} /\ i \notin Counted
  BY <1>1 DEF Counting, Counted, Launched, TypeOK
<1>3. IsFiniteSet(Counted') /\ Cardinality(Counted') = Cardinality(Counted) + 1
  BY <1>2, FS_AddElement DEF Counting
<1>4. Launched'
  BY <1>1 DEF Counting, Launched, TypeOK
<1> QED
  BY <1>1, <1>3, <1>4 DEF Counting, TypeOK

\* A process that is reaped was counted.
LEMMA CountReap ==
  ASSUME TypeOK, Counting, NEW i \in Instance, Reap(i)
  PROVE  /\ wg' \in Nat /\ Counting'
         /\ Counted' \subseteq Counted
<1>1. /\ launch[i] = "started" /\ process[i] = "dead" /\ wg' = wg - 1
      /\ process' = [process EXCEPT ![i] = "reaped"] /\ UNCHANGED launch
  BY DEF Reap
<1>2. i \in Counted /\ Counted' = Counted \ {i}
  BY <1>1 DEF Counted, TypeOK
<1>3. IsFiniteSet(Counted') /\ Cardinality(Counted') = Cardinality(Counted) - 1
  BY <1>2, FS_RemoveElement DEF Counting
<1>4. Cardinality(Counted') \in Nat
  BY <1>3, FS_CardinalityType
<1>5. Launched'
  BY <1>1 DEF Counting, Launched, TypeOK
<1> QED
  BY <1>1, <1>2, <1>3, <1>4, <1>5 DEF Counting, TypeOK

\* A launch and a process that go on are still to be waited for.
LEMMA CountSame ==
  ASSUME TypeOK, Counting, NEW i \in Instance,
         Launch(i) \/ SendTerm(i) \/ ProcessEnds(i)
  PROVE  UNCHANGED wg /\ Counting' /\ Counted' = Counted
<1> USE DEF Counting, Counted, Launched, TypeOK
<1>1. CASE Spawn(i)
  BY <1>1 DEF Spawn
<1>2. CASE LaunchReturns(i)
  BY <1>2 DEF LaunchReturns
<1>3. CASE LaunchFails(i)
  BY <1>3 DEF LaunchFails
<1>4. CASE SendTerm(i)
  BY <1>4 DEF SendTerm
<1>5. CASE ProcessEnds(i)
  BY <1>5 DEF ProcessEnds
<1> QED
  BY <1>1, <1>2, <1>3, <1>4, <1>5 DEF Launch

-----------------------------------------------------------------------------
LEMMA InitDaemon == Init => DaemonInv
<1> SUFFICES ASSUME Init PROVE DaemonInv
  OBVIOUS
<1>1. PICK i \in Instance :
        /\ launch = [j \in Instance |-> IF j = i THEN "started" ELSE "none"]
        /\ process = [j \in Instance |-> IF j = i THEN "running" ELSE "none"]
  BY DEF Init
<1>2. Counted = {i}
  BY <1>1 DEF Counted
<1>3. Counting
  <2>1. IsFiniteSet(Counted) /\ Cardinality(Counted) = 1
    BY <1>2, FS_Singleton
  <2> QED
    BY <1>1, <2>1 DEF Init, Counting, Launched
<1>4. TypeOK
  <2>1. launch \in [Instance -> LaunchStates] /\ process \in [Instance -> ProcessStates]
    BY <1>1 DEF LaunchStates, ProcessStates
  <2>2. sent \in 0..MaxSignals /\ sigInt \in 0..sent /\ wg \in Nat
    BY DaemonAssumption DEF Init
  <2> QED
    BY <2>1, <2>2 DEF Init, TypeOK, Stages, CallStates, flags, seen
<1>5. Stage /\ Seen
  BY DEF Init, Stage, Seen
<1> QED
  BY <1>3, <1>4, <1>5 DEF DaemonInv

\* Steps that leave the processes and the WaitGroup alone.
LEMMA KeepCount ==
  ASSUME Counting, UNCHANGED <<launch, process, wg>>
  PROVE  Counting' /\ Counted' = Counted
BY DEF Counting, Counted, Launched

\* Steps that touch neither the instances nor what comes from outside.
LEMMA KeepTypes ==
  ASSUME TypeOK, UNCHANGED <<procs, rpcSignal, sent, sigTerm, sessionsDone>>,
         sigInt' \in 0..sent, flags' \in BOOLEAN \X BOOLEAN \X BOOLEAN \X BOOLEAN,
         seen' \in BOOLEAN \X BOOLEAN, socket' \in BOOLEAN, UNCHANGED handlers,
         stage' \in Stages,
         timer' \in {"off", "armed", "due"},
         server' \in {"serving", "failed", "graceful", "stopped"}
  PROVE  TypeOK'
<1>1. UNCHANGED <<launch, process, wg, tardy, instancesDone, sent>>
  BY DEF procs
<1> QED
  BY <1>1 DEF TypeOK

LEMMA EnvironmentStep ==
  ASSUME DaemonInv,
         \/ ShutdownRPC \/ Interrupt \/ Terminate \/ TimerFires \/ SessionsFinish
         \/ \E h \in Handler : CallStep(h)
         \/ ServeFails \/ GracefulStopEnds
  PROVE  DaemonInv'
<1> USE DaemonAssumption DEF DaemonInv, signals, flags, net, procs, seen
<1>1. Counting' /\ Counted' = Counted
  BY KeepCount DEF ShutdownRPC, Interrupt, Terminate, TimerFires, SessionsFinish,
                   CallStep, CallStarts, CallLocks, CallStuck, CallUnlocks,
                   CallReturns, Call, ServeFails, GracefulStopEnds
<1>2. CASE ShutdownRPC \/ Interrupt \/ Terminate \/ TimerFires \/ SessionsFinish
  <2>1. TypeOK'
    <3>1. CASE Interrupt
      <4>1. sent' \in 0..MaxSignals /\ sigInt' \in 0..sent'
        BY <3>1 DEF Interrupt, TypeOK
      <4> QED
        BY <3>1, <4>1 DEF Interrupt, TypeOK
    <3>2. CASE ShutdownRPC
      <4>1. sent' \in 0..MaxSignals /\ sigInt' \in 0..sent'
        BY <3>2 DEF ShutdownRPC, TypeOK
      <4> QED
        BY <3>2, <4>1 DEF ShutdownRPC, TypeOK
    <3>3. CASE Terminate
      <4>1. sent' \in 0..MaxSignals /\ sigInt' \in 0..sent'
        BY <3>3 DEF Terminate, TypeOK
      <4> QED
        BY <3>3, <4>1 DEF Terminate, TypeOK
    <3>4. CASE TimerFires
      BY <3>4 DEF TimerFires, TypeOK
    <3>5. CASE SessionsFinish
      BY <3>5 DEF SessionsFinish, TypeOK
    <3> QED
      BY <1>2, <3>1, <3>2, <3>3, <3>4, <3>5
  <2>2. Stage' /\ Seen'
    BY <1>1, <1>2 DEF ShutdownRPC, Interrupt, Terminate, TimerFires,
                      SessionsFinish, Stage, Seen, NoCalls
  <2> QED
    BY <1>1, <2>1, <2>2
<1>3. CASE \E h \in Handler : CallStep(h)
  <2>1. PICK h \in Handler : CallStep(h)
    BY <1>3
  <2>2. /\ UNCHANGED <<stage, signals, timer, sessionsDone, flags, server, socket,
                       procs, seen>>
        /\ \E to \in CallStates : handlers' = [handlers EXCEPT ![h] = to]
        /\ NoCalls => server = "serving"
    <3>1. CASE CallStarts(h)
      BY <3>1 DEF CallStarts, Call, CallStates
    <3>2. CASE CallLocks(h)
      BY <3>2 DEF CallLocks, Call, CallStates, NoCalls
    <3>3. CASE CallStuck(h)
      BY <3>3 DEF CallStuck, Call, CallStates, NoCalls
    <3>4. CASE CallUnlocks(h)
      BY <3>4 DEF CallUnlocks, Call, CallStates, NoCalls
    <3>5. CASE CallReturns(h)
      BY <3>5 DEF CallReturns, Call, CallStates, NoCalls
    <3> QED
      BY <2>1, <3>1, <3>2, <3>3, <3>4, <3>5 DEF CallStep
  <2>3. TypeOK'
    <3>1. handlers' \in [Handler -> CallStates]
      BY <2>2 DEF TypeOK
    <3> QED
      BY <2>2, <3>1 DEF TypeOK
  <2>4. Stage'
    BY <2>2 DEF Stage
  <2>5. Seen'
    BY <1>1, <2>2 DEF Seen, NoCalls
  <2> QED
    BY <1>1, <2>3, <2>4, <2>5
<1>4. CASE ServeFails
  <2>1. TypeOK'
    BY <1>4, KeepTypes DEF ServeFails, TypeOK
  <2>2. Stage'
    BY <1>4 DEF ServeFails, Stage
  <2>3. Seen'
    BY <1>1, <1>4 DEF ServeFails, Seen, NoCalls
  <2> QED
    BY <1>1, <2>1, <2>2, <2>3
<1>5. CASE GracefulStopEnds
  <2>1. TypeOK'
    BY <1>5 DEF GracefulStopEnds, TypeOK
  <2>2. Stage'
    BY <1>5 DEF GracefulStopEnds, Stage
  <2>3. Seen'
    BY <1>1, <1>5 DEF GracefulStopEnds, Seen, NoCalls
  <2> QED
    BY <1>1, <2>1, <2>2, <2>3
<1> QED
  BY <1>2, <1>3, <1>4, <1>5

LEMMA InstancesStep ==
  ASSUME DaemonInv,
         \/ \E i \in Instance : Factory(i) \/ InstanceStep(i)
         \/ InstancesWaitEnds
  PROVE  DaemonInv'
<1> USE DEF signals, flags, net, procs, seen
<1>1. ASSUME NEW i \in Instance, Factory(i) PROVE DaemonInv'
  <2>1. wg' \in Nat /\ Counting'
    BY <1>1, CountFactory DEF DaemonInv
  <2>2. TypeOK'
    BY <1>1, <2>1 DEF Factory, DaemonInv, TypeOK, LaunchStates
  <2>3. Stage' /\ Seen'
    BY <1>1 DEF Factory, DaemonInv, Stage, Seen, NoCalls
  <2> QED
    BY <2>1, <2>2, <2>3 DEF DaemonInv
<1>2. ASSUME NEW i \in Instance, Reap(i) PROVE DaemonInv'
  <2>1. wg' \in Nat /\ Counting' /\ Counted' \subseteq Counted
    BY <1>2, CountReap DEF DaemonInv
  <2>2. TypeOK'
    BY <1>2, <2>1 DEF Reap, InstanceSame, DaemonInv, TypeOK, ProcessStates
  <2>3. Stage' /\ Seen'
    BY <1>2, <2>1 DEF Reap, InstanceSame, DaemonInv, Stage, Seen, NoCalls
  <2> QED
    BY <2>1, <2>2, <2>3 DEF DaemonInv
<1>3. ASSUME NEW i \in Instance, Launch(i) \/ SendTerm(i) \/ ProcessEnds(i)
      PROVE  DaemonInv'
  <2>1. UNCHANGED wg /\ Counting' /\ Counted' = Counted
    BY <1>3, CountSame DEF DaemonInv
  <2>2. InstanceSame
    BY <1>3 DEF Launch, Spawn, LaunchReturns, LaunchFails, SendTerm, ProcessEnds
  <2>3. launch' \in [Instance -> LaunchStates] /\ process' \in [Instance -> ProcessStates]
    BY <1>3 DEF Launch, Spawn, LaunchReturns, LaunchFails, SendTerm, ProcessEnds,
                DaemonInv, TypeOK, LaunchStates, ProcessStates
  <2>4. TypeOK'
    BY <2>1, <2>2, <2>3 DEF InstanceSame, DaemonInv, TypeOK
  <2>5. Stage' /\ Seen'
    BY <2>1, <2>2 DEF InstanceSame, DaemonInv, Stage, Seen, NoCalls
  <2> QED
    BY <2>1, <2>4, <2>5 DEF DaemonInv
<1>4. CASE InstancesWaitEnds
  <2>1. Counting' /\ Counted' = Counted
    BY <1>4, KeepCount DEF DaemonInv, InstancesWaitEnds
  <2>2. Counted = {}
    BY <1>4, FS_EmptySet DEF DaemonInv, Counting, InstancesWaitEnds
  <2>3. TypeOK'
    BY <1>4 DEF InstancesWaitEnds, DaemonInv, TypeOK
  <2>4. Stage' /\ Seen'
    BY <1>4, <2>1, <2>2 DEF InstancesWaitEnds, DaemonInv, Stage, Seen, NoCalls
  <2> QED
    BY <2>1, <2>3, <2>4 DEF DaemonInv
<1> QED
  BY <1>1, <1>2, <1>3, <1>4 DEF InstanceStep

LEMMA HandlerStep ==
  ASSUME DaemonInv, ShutdownStep
  PROVE  DaemonInv'
<1> USE DEF DaemonInv, signals, flags, net, procs, seen
<1>1. Counting' /\ Counted' = Counted
  BY KeepCount DEF ShutdownStep, FirstSignal, WaitFinish, DrainEnds, SecondInterrupt,
                   ServerStopped, InstancesStopped, ShutdownTimeout, AllStopped,
                   Exit
<1>2. CASE FirstSignal
  <2>1. TypeOK'
    <3>1. sigInt' \in 0..sent'
      BY <1>2 DEF FirstSignal, TypeOK
    <3>2. sigTerm' \in BOOLEAN
      BY <1>2 DEF FirstSignal, TypeOK
    <3> QED
      BY <1>2, <3>1, <3>2 DEF FirstSignal, TypeOK, Stages
  <2>2. Stage'
    BY <1>2 DEF FirstSignal, TypeOK, Stage, Seen, NoCalls
  <2>3. Seen'
    BY <1>1, <1>2 DEF FirstSignal, TypeOK, Stage, Seen, NoCalls
  <2> QED
    BY <1>1, <2>1, <2>2, <2>3
<1>3. CASE DrainEnds
  <2>1. TypeOK'
    BY <1>3 DEF DrainEnds, TypeOK, Stages
  <2>2. Stage'
    BY <1>3 DEF DrainEnds, TypeOK, Stage, Seen, NoCalls
  <2>3. Seen'
    BY <1>1, <1>3 DEF DrainEnds, TypeOK, Stage, Seen, NoCalls
  <2> QED
    BY <1>1, <2>1, <2>2, <2>3
<1>4. CASE SecondInterrupt
  <2>1. TypeOK'
    <3>1. sigInt' \in 0..sent'
      BY <1>4 DEF SecondInterrupt, TypeOK
    <3>2. /\ flags' \in BOOLEAN \X BOOLEAN \X BOOLEAN \X BOOLEAN /\ sent' = sent
          /\ timer \in {"off", "armed", "due"} /\ socket \in BOOLEAN
          /\ server \in {"serving", "failed", "graceful", "stopped"}
          /\ seen \in BOOLEAN \X BOOLEAN
      BY <1>4 DEF SecondInterrupt, TypeOK
    <3> QED
      BY <1>4, <3>1, <3>2, KeepTypes DEF SecondInterrupt, Stages
  <2>2. Stage'
    BY <1>4 DEF SecondInterrupt, Waiting, TypeOK, Stage, Seen, NoCalls
  <2>3. Seen'
    BY <1>1, <1>4 DEF SecondInterrupt, Waiting, TypeOK, Stage, Seen, NoCalls
  <2> QED
    BY <1>1, <2>1, <2>2, <2>3
<1>5. CASE ServerStopped
  <2>1. TypeOK'
    BY <1>5 DEF ServerStopped, Waiting, TypeOK, Stages
  <2>2. Stage'
    BY <1>5 DEF ServerStopped, Waiting, TypeOK, Stage, Seen, NoCalls
  <2>3. Seen'
    BY <1>1, <1>5 DEF ServerStopped, Waiting, TypeOK, Stage, Seen, NoCalls
  <2> QED
    BY <1>1, <2>1, <2>2, <2>3
<1>6. CASE InstancesStopped
  <2>1. TypeOK'
    BY <1>6 DEF InstancesStopped, Waiting, TypeOK, Stages
  <2>2. Stage'
    BY <1>6 DEF InstancesStopped, Waiting, TypeOK, Stage, Seen, NoCalls
  <2>3. Seen'
    BY <1>1, <1>6 DEF InstancesStopped, Waiting, TypeOK, Stage, Seen, NoCalls
  <2> QED
    BY <1>1, <2>1, <2>2, <2>3
<1>7. CASE ShutdownTimeout
  <2>1. TypeOK'
    BY <1>7 DEF ShutdownTimeout, Waiting, TypeOK, Stages
  <2>2. Stage'
    BY <1>7 DEF ShutdownTimeout, Waiting, TypeOK, Stage, Seen, NoCalls
  <2>3. Seen'
    BY <1>1, <1>7 DEF ShutdownTimeout, Waiting, TypeOK, Stage, Seen, NoCalls
  <2> QED
    BY <1>1, <2>1, <2>2, <2>3
<1>8. CASE AllStopped
  <2>1. TypeOK'
    BY <1>8, KeepTypes DEF AllStopped, TypeOK, Stages
  <2>2. Stage'
    BY <1>8 DEF AllStopped, TypeOK, Stage, Seen, NoCalls
  <2>3. Seen'
    BY <1>1, <1>8 DEF AllStopped, TypeOK, Stage, Seen, NoCalls
  <2> QED
    BY <1>1, <2>1, <2>2, <2>3
<1>9. CASE Exit
  <2>1. TypeOK'
    BY <1>9 DEF Exit, TypeOK, Stages
  <2>2. Stage'
    BY <1>9 DEF Exit, TypeOK, Stage, Seen, NoCalls
  <2>3. Seen'
    BY <1>1, <1>9 DEF Exit, TypeOK, Stage, Seen, NoCalls
  <2> QED
    BY <1>1, <2>1, <2>2, <2>3
<1>10. CASE WaitFinish
  <2>1. TypeOK'
    BY <1>10, KeepTypes DEF WaitFinish, TypeOK, Stages
  <2>2. Stage'
    BY <1>10 DEF WaitFinish, TypeOK, Stage, Seen, NoCalls
  <2>3. Seen'
    BY <1>1, <1>10 DEF WaitFinish, TypeOK, Seen, NoCalls
  <2> QED
    BY <1>1, <2>1, <2>2, <2>3
<1> QED
  BY <1>2, <1>3, <1>4, <1>5, <1>6, <1>7, <1>8, <1>9, <1>10 DEF ShutdownStep

LEMMA DaemonInvariant == Spec => []DaemonInv
<1>1. DaemonInv /\ [Next]_vars => DaemonInv'
  <2> SUFFICES ASSUME DaemonInv, [Next]_vars PROVE DaemonInv'
    OBVIOUS
  <2>1. CASE UNCHANGED vars
    <3>1. Counting' /\ Counted' = Counted
      BY <2>1, KeepCount DEF DaemonInv, vars, procs
    <3> QED
      BY <2>1, <3>1 DEF vars, signals, flags, net, procs, seen, DaemonInv,
                        TypeOK, Stage, Seen, NoCalls
  <2> QED
    BY <2>1, EnvironmentStep, InstancesStep, HandlerStep DEF Next
<1> QED
  BY InitDaemon, <1>1, PTL DEF Spec

\* The variables have their types: wg.Done of an instance never takes the
\* WaitGroup below zero, where it panics (instance.go: shutdownSignalHandler).
THEOREM DaemonTypes == Spec => []TypeOK
<1>1. DaemonInv => TypeOK
  BY DEF DaemonInv
<1> QED
  BY <1>1, DaemonInvariant, PTL

\* The WaitGroup counts at least the processes that are still to be reaped,
\* whatever fails in the factory and whenever the pool calls it.
THEOREM NoEarlyWaitEnd == Spec => []InstancesCounted
<1>1. DaemonInv => InstancesCounted
  <2> SUFFICES ASSUME DaemonInv PROVE InstancesCounted
    OBVIOUS
  <2>1. Cardinality(ToBeReaped) <= Cardinality(Counted)
    BY ReapedAreCounted, FS_Subset DEF DaemonInv, Counting
  <2>2. ToBeReaped \subseteq Counted /\ Cardinality(ToBeReaped) \in Nat
    BY ReapedAreCounted, FS_Subset, FS_CardinalityType DEF DaemonInv, Counting
  <2> QED
    BY <2>1, <2>2 DEF DaemonInv, Counting, InstancesCounted, TypeOK
<1> QED
  BY <1>1, DaemonInvariant, PTL

\* The daemon removes its socket on every way out, the hard one included
\* (daemon.go: Run, shutdownSignalHandler).
THEOREM NoSocketLeft == Spec => []SocketRemoved
<1>1. DaemonInv => SocketRemoved
  BY DEF DaemonInv, Stage, SocketRemoved
<1> QED
  BY <1>1, DaemonInvariant, PTL

\* An exit that is neither forced nor hard leaves no handler behind and, unless
\* the pool made an instance after shutdown(), no Logstash process.
THEOREM ExitIsClean == Spec => []CleanExit
<1>1. DaemonInv => CleanExit
  BY ReapedAreCounted DEF DaemonInv, Stage, Seen, CleanExit
<1> QED
  BY <1>1, DaemonInvariant, PTL

-----------------------------------------------------------------------------
\* An instance as InstanceLife has it, which LogstashInstance implements.
Life(i) == INSTANCE InstanceLife
             WITH launch <- launch[i], process <- process[i],
                  heeds <- i \notin Stubborn,
                  MayFail <- "factory" \in Faults, MayCrash <- "crash" \in Faults

\* A step of the instance alone.  Done of the WaitGroup is the step to "reaped".
LifeStep(i) ==
  /\ Life(i)!Spawn \/ Life(i)!LaunchReturns \/ Life(i)!LaunchFails
     \/ Life(i)!SendTerm \/ Life(i)!ProcessEnds \/ Life(i)!Reap
  /\ launch' = [launch EXCEPT ![i] = launch'[i]]
  /\ process' = [process EXCEPT ![i] = process'[i]]
  /\ wg' = IF process'[i] = "reaped" /\ process[i] # "reaped" THEN wg - 1 ELSE wg
  /\ InstanceSame

\* While the daemon lives, each of its instances may take every step of
\* InstanceLife: what holds of DaemonShutdown holds with the instances of
\* instance.go, started by the factory at any time.
THEOREM EveryLifeIsMet ==
  ASSUME TypeOK, stage # "exited", NEW i \in Instance, LifeStep(i)
  PROVE  Next
<1>1. launch \in [Instance -> LaunchStates] /\ process \in [Instance -> ProcessStates]
  BY DEF TypeOK
<1>2. ASSUME UNCHANGED launch[i] PROVE UNCHANGED launch
  BY <1>1, <1>2 DEF LifeStep
<1>3. ASSUME UNCHANGED process[i] PROVE UNCHANGED <<process, wg>>
  BY <1>1, <1>3 DEF LifeStep
<1>4. ASSUME process'[i] # "reaped" PROVE UNCHANGED wg
  BY <1>4 DEF LifeStep
<1>5. /\ launch' = [launch EXCEPT ![i] = launch'[i]]
      /\ process' = [process EXCEPT ![i] = process'[i]] /\ InstanceSame
  BY DEF LifeStep
<1>6. CASE Life(i)!Spawn
  <2>1. Spawn(i)
    BY <1>2, <1>4, <1>5, <1>6 DEF Life!Spawn, Spawn
  <2> QED
    BY <2>1 DEF Launch, InstanceStep, Next
<1>7. CASE Life(i)!LaunchReturns
  <2>1. LaunchReturns(i)
    BY <1>3, <1>5, <1>7 DEF Life!LaunchReturns, LaunchReturns
  <2> QED
    BY <2>1 DEF Launch, InstanceStep, Next
<1>8. CASE Life(i)!LaunchFails
  <2>1. LaunchFails(i)
    BY <1>3, <1>5, <1>8 DEF Life!LaunchFails, LaunchFails
  <2> QED
    BY <2>1 DEF Launch, InstanceStep, Next
<1>9. CASE Life(i)!SendTerm
  <2>1. SendTerm(i)
    BY <1>2, <1>4, <1>5, <1>9 DEF Life!SendTerm, SendTerm
  <2> QED
    BY <2>1 DEF InstanceStep, Next
<1>10. CASE Life(i)!ProcessEnds
  <2>1. ProcessEnds(i)
    BY <1>2, <1>4, <1>5, <1>10 DEF Life!ProcessEnds, ProcessEnds
  <2> QED
    BY <2>1 DEF InstanceStep, Next
<1>11. CASE Life(i)!Reap
  <2>1. wg' = wg - 1
    BY <1>11 DEF LifeStep, Life!Reap
  <2>2. Reap(i)
    BY <1>2, <1>5, <1>11, <2>1 DEF Life!Reap, Reap
  <2> QED
    BY <2>2 DEF InstanceStep, Next
<1> QED
  BY <1>6, <1>7, <1>8, <1>9, <1>10, <1>11 DEF LifeStep

=================================================================================
