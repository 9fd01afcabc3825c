----------------------------- MODULE DaemonShutdown -----------------------------
(***************************************************************************)
(* The life of the daemon process, app/daemon/daemon.go: Run and its       *)
(* two-stage shutdownSignalHandler, with the gRPC server, the running RPC  *)
(* handlers and the Logstash processes as far as shutdown sees them.       *)
(* Of the session controller (SessionController) there is its mutex, which *)
(* handlers hold through Create and DestroyByID and WaitFinish takes, and  *)
(* the channel sessionsDone, which is closed at some time or never.        *)
(***************************************************************************)
EXTENDS Integers, FiniteSets

CONSTANTS
  Instance,        \* Logstash instances the factory may make
  Handler,         \* RPC handlers that may run
  Stubborn,        \* instances whose Logstash ignores SIGTERM
  MaxSignals,      \* bound: signals and calls of Shutdown that reach the daemon
  Faults           \* faults of this instance, a subset of FaultKinds

FaultKinds ==
  {"factory",  \* the factory fails after WaitGroup.Add
   "crash",    \* a Logstash process ends unasked
   "late",     \* the pool calls the factory after shutdown()
   "serve",    \* grpc.Server.Serve fails
   "stuck"}    \* a handler in waitForState misses the broadcast of the
               \* cancelled context (StateMachine)

ASSUME DaemonAssumption ==
  /\ Stubborn \subseteq Instance
  /\ MaxSignals \in Nat
  /\ Faults \subseteq FaultKinds

VARIABLES
  stage,        \* control point of shutdownSignalHandler
  rpcSignal,    \* ctxShutdownSignal is cancelled
  sent,         \* signals and calls of Shutdown so far
  sigInt,       \* SIGINTs in the channel sigInt
  sigTerm,      \* a SIGTERM is in the channel sigTerm
  timer,        \* the timer t: "off", "armed", or "due" (t.C holds a value)
  sessionsDone, \* the channel returned by WaitFinish is closed
  cancelled,    \* shutdown() was called: the contexts of the instances are done
  killed,       \* killFunc() was called: ctxKill is done
  hardExit,     \* the local variable
  forced,       \* the shutdown timeout was taken
  server,       \* "serving", "failed", "graceful" (in GracefulStop), "stopped"
  handlers,     \* [Handler -> where its RPC call is]
  socket,       \* the socket file exists
  launch,       \* [Instance -> the call of the factory that makes it]
  process,      \* [Instance -> its Logstash process]
  wg,           \* counter of shutdownLogstashInstancesWG
  tardy,        \* the factory was called after shutdown()
  instancesDone,\* the channel logstashInstancesStopped is closed
  serverSeen,   \* serverStopComplete
  instancesSeen \* logstashInstanceStopComplete

signals == <<rpcSignal, sent, sigInt, sigTerm>>
flags   == <<cancelled, killed, hardExit, forced>>
net     == <<server, handlers, socket>>
procs   == <<launch, process, wg, tardy, instancesDone>>
seen    == <<serverSeen, instancesSeen>>
vars == <<stage, signals, timer, sessionsDone, flags, net, procs, seen>>

LaunchStates  == {"none", "starting", "started", "failed"}
ProcessStates == {"none", "running", "terminating", "dead", "reaped"}

\* "holding": it holds the mutex of the session controller; "stuck": it does
\* and is parked in waitForState with nobody to wake it.
CallStates == {"none", "running", "holding", "stuck"}
Stages == {"serving", "locking", "draining", "stopping", "exit", "exited"}

\* The mutex of the session controller is held.
Locked == \E h \in Handler : handlers[h] \in {"holding", "stuck"}

NoCalls == \A h \in Handler : handlers[h] = "none"

TypeOK ==
  /\ stage \in Stages
  /\ rpcSignal \in BOOLEAN /\ sent \in 0..MaxSignals
  /\ sigInt \in 0..sent /\ sigTerm \in BOOLEAN
  /\ timer \in {"off", "armed", "due"} /\ sessionsDone \in BOOLEAN
  /\ flags \in BOOLEAN \X BOOLEAN \X BOOLEAN \X BOOLEAN
  /\ server \in {"serving", "failed", "graceful", "stopped"}
  /\ handlers \in [Handler -> CallStates] /\ socket \in BOOLEAN
  /\ launch \in [Instance -> LaunchStates]
  /\ process \in [Instance -> ProcessStates]
  /\ wg \in Nat /\ tardy \in BOOLEAN /\ instancesDone \in BOOLEAN
  /\ seen \in BOOLEAN \X BOOLEAN

\* Run, up to shutdownSignalHandler: the pool has its first instance.
Init ==
  /\ stage = "serving"
  /\ rpcSignal = FALSE /\ sent = 0 /\ sigInt = 0 /\ sigTerm = FALSE
  /\ timer = "off" /\ sessionsDone = FALSE
  /\ cancelled = FALSE /\ killed = FALSE /\ hardExit = FALSE /\ forced = FALSE
  /\ server = "serving" /\ socket = TRUE
  /\ handlers = [h \in Handler |-> "none"]
  /\ \E i \in Instance :
       /\ launch = [j \in Instance |-> IF j = i THEN "started" ELSE "none"]
       /\ process = [j \in Instance |-> IF j = i THEN "running" ELSE "none"]
  /\ wg = 1 /\ tardy = FALSE /\ instancesDone = FALSE
  /\ serverSeen = FALSE /\ instancesSeen = FALSE

-----------------------------------------------------------------------------
(* The environment: signals, timers, clients and sessions *)

ShutdownRPC ==
  /\ stage # "exited" /\ server = "serving" /\ ~rpcSignal
  /\ sent < MaxSignals /\ sent' = sent + 1
  /\ rpcSignal' = TRUE
  /\ UNCHANGED <<stage, sigInt, sigTerm, timer, sessionsDone, flags,
                 net, procs, seen>>

Interrupt ==
  /\ stage # "exited" /\ sent < MaxSignals
  /\ sent' = sent + 1 /\ sigInt' = sigInt + 1
  /\ UNCHANGED <<stage, rpcSignal, sigTerm, timer, sessionsDone, flags, net,
                 procs, seen>>

Terminate ==
  /\ stage # "exited" /\ ~sigTerm
  /\ sent < MaxSignals /\ sent' = sent + 1
  /\ sigTerm' = TRUE
  /\ UNCHANGED <<stage, rpcSignal, sigInt, timer, sessionsDone,
                 flags, net, procs, seen>>

TimerFires ==
  /\ stage # "exited" /\ timer = "armed"
  /\ timer' = "due"
  /\ UNCHANGED <<stage, signals, sessionsDone, flags, net, procs, seen>>

SessionsFinish ==
  /\ stage \in {"draining", "stopping"} /\ ~sessionsDone
  /\ sessionsDone' = TRUE
  /\ UNCHANGED <<stage, signals, timer, flags, net, procs, seen>>

\* One step of the RPC call of h alone.
Call(h, from, to) ==
  /\ stage # "exited" /\ handlers[h] \in from
  /\ handlers' = [handlers EXCEPT ![h] = to]
  /\ UNCHANGED <<stage, signals, timer, sessionsDone, flags, server, socket,
                 procs, seen>>

CallStarts(h) == server = "serving" /\ Call(h, {"none"}, "running")

\* Create, DestroyByID or Get of the session controller takes the mutex.
CallLocks(h) == ~Locked /\ Call(h, {"running"}, "holding")

\* It returns, or Create waits for a place.  A stuck one may still be woken,
\* by a command that Logstash brings about.
CallUnlocks(h) == Call(h, {"holding", "stuck"}, "running")

\* Create and DestroyByID wait for states of the instance.
CallStuck(h) ==
  "stuck" \in Faults /\ cancelled /\ Call(h, {"holding"}, "stuck")

CallReturns(h) == Call(h, {"running"}, "none")

-----------------------------------------------------------------------------
(* logstashControllerFactory, and an instance as LogstashInstance has it in
   detail (daemon/instance/logstash/instance.go) *)

InstanceSame ==
  UNCHANGED <<stage, signals, timer, sessionsDone, flags, net, tardy,
              instancesDone, seen>>

\* Called by the pool, which holds its mutex, for a session or by its
\* housekeeping, which may run once more after shutdown().  The WaitGroup is
\* incremented before anything that may fail, and only an instance whose launch
\* has succeeded decrements it.
Factory(i) ==
  /\ stage # "exited" /\ launch[i] = "none"
  /\ \A j \in Instance : launch[j] # "starting"
  /\ cancelled => "late" \in Faults
  /\ launch' = [launch EXCEPT ![i] = "starting"]
  /\ wg' = wg + 1 /\ tardy' = (tardy \/ cancelled)
  /\ UNCHANGED <<stage, signals, timer, sessionsDone, flags, net, process,
                 instancesDone, seen>>

\* exec.CommandContext starts nothing once ctxKill is done.
Spawn(i) ==
  /\ stage # "exited" /\ launch[i] = "starting" /\ process[i] = "none"
  /\ ~killed
  /\ process' = [process EXCEPT ![i] = "running"]
  /\ InstanceSame /\ UNCHANGED <<launch, wg>>

LaunchReturns(i) ==
  /\ stage # "exited" /\ launch[i] = "starting" /\ process[i] # "none"
  /\ launch' = [launch EXCEPT ![i] = "started"]
  /\ InstanceSame /\ UNCHANGED <<process, wg>>

\* Before the process is started or, if the log file cannot be read, after it.
LaunchFails(i) ==
  /\ stage # "exited" /\ launch[i] = "starting"
  /\ "factory" \in Faults \/ (killed /\ process[i] = "none")
  /\ launch' = [launch EXCEPT ![i] = "failed"]
  /\ InstanceSame /\ UNCHANGED <<process, wg>>

\* Faulty: WaitGroup.Done is called before child.Wait has returned.
SendTermDone(i) ==
  /\ stage # "exited" /\ launch[i] = "started" /\ process[i] = "running"
  /\ process' = [process EXCEPT ![i] = "terminating"]
  /\ wg' = wg - 1
  /\ InstanceSame /\ UNCHANGED launch

\* The instance's context is done, with the daemon's or by Controller.Kill.
SendTerm(i) ==
  /\ stage # "exited" /\ launch[i] = "started" /\ process[i] = "running"
  /\ process' = [process EXCEPT ![i] = "terminating"]
  /\ InstanceSame /\ UNCHANGED <<launch, wg>>

\* Logstash ends by itself or on SIGTERM, or is killed once ctxKill is done
\* (exec.CommandContext), which takes a goroutine of the daemon.
ProcessEnds(i) ==
  /\ process[i] \in {"running", "terminating"}
  /\ \/ "crash" \in Faults
     \/ process[i] = "terminating" /\ i \notin Stubborn
     \/ killed /\ stage # "exited"
  /\ process' = [process EXCEPT ![i] = "dead"]
  /\ InstanceSame /\ UNCHANGED <<launch, wg>>

\* child.Wait returns, the readers end, shutdownWG.Done.
Reap(i) ==
  /\ stage # "exited" /\ launch[i] = "started" /\ process[i] = "dead"
  /\ process' = [process EXCEPT ![i] = "reaped"]
  /\ wg' = wg - 1
  /\ InstanceSame /\ UNCHANGED launch

-----------------------------------------------------------------------------
(* Serve fails: the instances are told to stop, but Run goes on waiting for a
   signal. *)
ServeFails ==
  /\ "serve" \in Faults
  /\ server = "serving" /\ stage # "exited"
  /\ server' = "failed" /\ socket' = FALSE
  /\ cancelled' = TRUE
  /\ UNCHANGED <<stage, signals, timer, sessionsDone, killed, hardExit, forced,
                 handlers, procs, seen>>

-----------------------------------------------------------------------------
(* shutdownSignalHandler *)

FirstSignal ==
  /\ stage = "serving"
  /\ \/ rpcSignal /\ UNCHANGED <<sigInt, sigTerm>>
     \/ sigInt > 0 /\ sigInt' = sigInt - 1 /\ UNCHANGED sigTerm
     \/ sigTerm /\ sigTerm' = FALSE /\ UNCHANGED sigInt
  /\ stage' = "locking" /\ timer' = "armed"
  /\ UNCHANGED <<rpcSignal, sent, sessionsDone, flags, net, procs, seen>>

\* The select evaluates WaitFinish() before it looks at any of its channels.
WaitFinish ==
  /\ stage = "locking" /\ ~Locked
  /\ stage' = "draining"
  /\ UNCHANGED <<signals, timer, sessionsDone, flags, net, procs, seen>>

\* Faulty: the select has no case for the timer.
DrainEndsNoTimer ==
  /\ stage = "draining" /\ sessionsDone
  /\ stage' = "stopping" /\ timer' = "armed"
  /\ cancelled' = TRUE
  /\ server' = "graceful" /\ socket' = FALSE
  /\ UNCHANGED <<signals, sessionsDone, killed, hardExit, forced, handlers,
                 procs, seen>>

\* t.Stop, and t.C drained if it was too late; then shutdown(), the goroutine
\* of GracefulStop, which closes the listener, and the timer once more.
DrainEnds ==
  /\ stage = "draining"
  /\ sessionsDone \/ timer = "due"
  /\ stage' = "stopping" /\ timer' = "armed"
  /\ cancelled' = TRUE
  /\ server' = "graceful" /\ socket' = FALSE
  /\ UNCHANGED <<signals, sessionsDone, killed, hardExit, forced, handlers,
                 procs, seen>>

GracefulStopEnds ==
  /\ stage # "exited" /\ server = "graceful" /\ NoCalls
  /\ server' = "stopped"
  /\ UNCHANGED <<stage, signals, timer, sessionsDone, flags, handlers, socket,
                 procs, seen>>

\* The goroutine that waits for shutdownLogstashInstancesWG.
InstancesWaitEnds ==
  /\ stage = "stopping" /\ wg = 0 /\ ~instancesDone
  /\ instancesDone' = TRUE
  /\ UNCHANGED <<stage, signals, timer, sessionsDone, flags, net, launch, process,
                 wg, tardy, seen>>

Waiting == stage = "stopping" /\ ~(serverSeen /\ instancesSeen)

ServerStopped ==
  /\ Waiting /\ server = "stopped" /\ ~serverSeen
  /\ serverSeen' = TRUE
  /\ UNCHANGED <<stage, signals, timer, sessionsDone, flags, net, procs,
                 instancesSeen>>

InstancesStopped ==
  /\ Waiting /\ instancesDone /\ ~instancesSeen
  /\ instancesSeen' = TRUE
  /\ UNCHANGED <<stage, signals, timer, sessionsDone, flags, net, procs,
                 serverSeen>>

\* server.Stop cancels the handlers' connections without waiting for them.
ShutdownTimeout ==
  /\ Waiting /\ timer = "due"
  /\ timer' = "off" /\ forced' = TRUE
  /\ server' = "stopped"
  /\ serverSeen' = TRUE /\ instancesSeen' = TRUE
  /\ UNCHANGED <<stage, signals, sessionsDone, cancelled, killed, hardExit,
                 handlers, socket, procs>>

SecondInterrupt ==
  /\ stage = "draining" \/ Waiting
  /\ sigInt > 0 /\ sigInt' = sigInt - 1
  /\ hardExit' = TRUE
  /\ stage' = "exit" /\ killed' = TRUE
  /\ UNCHANGED <<rpcSignal, sent, sigTerm, timer, sessionsDone, cancelled,
                 forced, net, procs, seen>>

\* Faulty: "&&" for "||" in the condition of the loop.
AllStoppedEither ==
  /\ stage = "stopping" /\ (serverSeen \/ instancesSeen)
  /\ stage' = "exit" /\ killed' = TRUE
  /\ UNCHANGED <<signals, timer, sessionsDone, cancelled, hardExit, forced, net,
                 procs, seen>>

\* The end of the function and the first call of its deferred function.
AllStopped ==
  /\ stage = "stopping" /\ serverSeen /\ instancesSeen
  /\ stage' = "exit" /\ killed' = TRUE
  /\ UNCHANGED <<signals, timer, sessionsDone, cancelled, hardExit, forced, net,
                 procs, seen>>

Live(i) == process[i] \in {"running", "terminating"}

\* Faulty: a hard exit does not remove the socket file.
ExitKeepsSocket ==
  /\ stage = "exit"
  /\ hardExit => \A i \in Instance : ~Live(i)
  /\ stage' = "exited"
  /\ UNCHANGED <<signals, timer, sessionsDone, flags, net, procs, seen>>

\* Run returns and the process ends.  A hard exit first sleeps hardExitDelay,
\* taken here to be enough for the kills, and removes the socket file.
Exit ==
  /\ stage = "exit"
  /\ hardExit => \A i \in Instance : ~Live(i)
  /\ stage' = "exited"
  /\ socket' = (socket /\ ~hardExit)
  /\ UNCHANGED <<signals, timer, sessionsDone, flags, server, handlers, procs,
                 seen>>

-----------------------------------------------------------------------------
CallStep(h) ==
  CallStarts(h) \/ CallLocks(h) \/ CallStuck(h) \/ CallUnlocks(h) \/ CallReturns(h)

Launch(i) == Spawn(i) \/ LaunchReturns(i) \/ LaunchFails(i)

InstanceStep(i) == Launch(i) \/ SendTerm(i) \/ ProcessEnds(i) \/ Reap(i)

ShutdownStep ==
  \/ FirstSignal \/ WaitFinish \/ DrainEnds \/ SecondInterrupt
  \/ ServerStopped \/ InstancesStopped \/ ShutdownTimeout \/ AllStopped \/ Exit

Next ==
  \/ ShutdownRPC \/ Interrupt \/ Terminate \/ TimerFires \/ SessionsFinish
  \/ \E h \in Handler : CallStep(h)
  \/ \E i \in Instance : Factory(i) \/ InstanceStep(i)
  \/ ServeFails \/ GracefulStopEnds \/ InstancesWaitEnds
  \/ ShutdownStep

Spec == Init /\ [][Next]_vars

\* Goroutines run and timers fire.  A mutex that is free again and again is
\* obtained (sync.Mutex has a starvation mode), and a handler that is not stuck
\* releases it: the waits of Create and DestroyByID have a timeout.  Nothing
\* else is assumed of sessions, handlers, signals and of Logstash.
Fairness ==
  /\ WF_vars(ShutdownStep) /\ SF_vars(WaitFinish) /\ WF_vars(TimerFires)
  /\ \A h \in Handler : WF_vars(handlers[h] = "holding" /\ CallUnlocks(h))
  /\ WF_vars(GracefulStopEnds) /\ WF_vars(InstancesWaitEnds)
  /\ \A i \in Instance : WF_vars(cancelled /\ SendTerm(i)) /\ WF_vars(Reap(i))
  /\ \A i \in Instance : WF_vars(killed /\ ProcessEnds(i))

FairSpec == Spec /\ Fairness

-----------------------------------------------------------------------------
\* Once it is asked to, the daemon exits, however long sessions, handlers and
\* Logstash take (daemon.go: the timeouts of shutdownSignalHandler), unless
\* WaitFinish waits for good for a mutex whose holder is stuck.
ShutdownCompletes ==
  (rpcSignal \/ sigInt > 0 \/ sigTerm) ~>
    (stage = "exited" \/ [](stage = "locking" /\ Locked))

\* "Press Ctrl+c again to exit immediately" (daemon.go:189).  The code does not
\* keep this: while WaitFinish waits for the mutex nobody looks at sigInt.
SecondInterruptExits == (stage # "serving" /\ sigInt > 0) ~> (stage = "exited")

\* The socket file does not survive the daemon on any way out: Listen would
\* refuse it at the next start (daemon.go: Listen, GracefulStop, os.Remove).
SocketRemoved == stage = "exited" => ~socket

\* The WaitGroup counts at least the processes that are still to be reaped, so
\* that its Wait does not end early (daemon.go: the factory; instance.go:
\* shutdownSignalHandler).
ToBeReaped ==
  {i \in Instance : process[i] \in {"running", "terminating", "dead"}}

InstancesCounted == wg >= Cardinality(ToBeReaped)

\* It counts no more than these: once all processes are gone, Wait ends.
\* The code does not keep this: an error of the factory leaves its Add behind.
NoGhostCounted == wg <= Cardinality(ToBeReaped)

\* An exit that is neither forced nor a hard one leaves no handler without its
\* answer and, unless an instance was started after shutdown(), no Logstash
\* process behind.
CleanExit ==
  stage = "exited" /\ ~forced /\ ~hardExit =>
    /\ NoCalls
    /\ ~tardy => ToBeReaped = {}

\* "kill exits sub processes with signal kill" (daemon.go, Run): no Logstash
\* process survives the daemon.  The code does not keep this: after a shutdown
\* timeout the daemon ends at once, and so may the goroutine that would kill.
NoOrphans == stage = "exited" => \A i \in Instance : ~Live(i)

=================================================================================
