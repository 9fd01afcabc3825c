--------------------------- MODULE SessionController ---------------------------
(***************************************************************************)
(* The sessions of the daemon: daemon/session/controller.go on top of the  *)
(* pool, the RPC handlers of app/daemon/daemon.go that call it, and the    *)
(* clients (app/daemon/run/run.go), each of which runs one session.        *)
(*                                                                         *)
(* The mutex of the session controller is held while a session is set up   *)
(* and torn down, which takes as long as the controller's state machine    *)
(* waits.  Sections that hold it without blocking are one action.  A       *)
(* session is named by the client that made it; its work with the          *)
(* Logstash controller is that of LogstashController.                      *)
(***************************************************************************)
EXTENDS Pool

CONSTANTS
  Client,     \* clients, each with one session
  Nobody,     \* holder of the free mutex
  Faults      \* faults of this instance, a subset of FaultKinds

FaultKinds ==
  {"setup",      \* Session.setupTest fails before the Logstash controller
   "cleanup",    \* the session directory cannot be removed
   "vanish",     \* a client dies between two calls
   "execute",    \* ExecuteTest fails with a healthy controller
   "interrupt"}  \* the daemon is stopped by a signal, not by the Shutdown RPC

ASSUME SessionAssumption ==
  /\ Nobody \notin Client
  /\ Faults \subseteq FaultKinds

VARIABLES
  pc,         \* [Client -> control point of the client and its handlers]
  mutex,      \* client whose handler holds the session controller's mutex
  queue,      \* clients in cond.Wait, in Create
  sessions,   \* ids in the map sessions
  controller, \* [Client -> Instance or Nil], Session.logstashController
  clean,      \* result of Session.teardown, while DestroyByID has one
  wg,         \* counter of the WaitGroup
  signalled,  \* ctxShutdownSignal is cancelled
  finish      \* WaitFinish: control point of the shutdown handler

lock  == <<mutex, queue, clean>>
table == <<sessions, controller, wg>>
ends  == <<signalled, finish>>
sessionVars == <<pc, lock, table, ends>>
vars == <<poolVars, sessionVars>>

Points == {"idle", "create", "parked", "woken", "setup", "open", "execute",
           "abort", "close", "abort teardown", "close teardown", "failed",
           "done", "gone"}

TypeOK ==
  /\ PoolTypeOK
  /\ pc \in [Client -> Points]
  /\ mutex \in Client \cup {Nobody}
  /\ queue \subseteq Client /\ sessions \subseteq Client
  /\ controller \in [Client -> Instance \cup {Nil}]
  /\ clean \in {"unknown", "yes", "no"}
  /\ wg \in Nat
  /\ signalled \in BOOLEAN
  /\ finish \in {"none", "broadcast", "waiting", "drained"}

Init ==
  /\ PoolInit
  /\ pc = [c \in Client |-> "idle"]
  /\ mutex = Nobody /\ queue = {} /\ sessions = {}
  /\ controller = [c \in Client |-> Nil]
  /\ clean = "unknown" /\ wg = 0 /\ signalled = FALSE /\ finish = "none"

finished == finish # "none"

Goto(c, point) == pc' = [pc EXCEPT ![c] = point]

-----------------------------------------------------------------------------
(* Daemon.SetupTest and Controller.Create *)

SetupTest(c) ==
  /\ pc[c] = "idle"
  /\ Goto(c, IF signalled THEN "failed" ELSE "create")
  /\ UNCHANGED <<poolVars, lock, table, ends>>

\* Faulty: one session too many.
MayCreateThree(c) == ~(pc[c] = "woken" /\ finished) /\ Cardinality(sessions) <= 2

\* The loop on the number of sessions; finished is looked at only by a caller
\* that has waited.
Rejected(c)  == pc[c] = "woken" /\ finished
MustWait(c)  == ~Rejected(c) /\ Cardinality(sessions) > 1
MayCreate(c) == ~Rejected(c) /\ Cardinality(sessions) <= 1

AtCreate(c) == pc[c] \in {"create", "woken"} /\ mutex = Nobody

CreateRejected(c) ==
  /\ AtCreate(c) /\ Rejected(c)
  /\ Goto(c, "failed")
  /\ UNCHANGED <<poolVars, lock, table, ends>>

CreateWaits(c) ==
  /\ AtCreate(c) /\ MustWait(c)
  /\ Goto(c, "parked")
  /\ queue' = queue \cup {c}
  /\ UNCHANGED <<poolVars, mutex, table, clean, ends>>

CreateGets(c) ==
  /\ AtCreate(c) /\ MayCreate(c)
  /\ \E i \in Instance :
       Get(i) /\ controller' = [controller EXCEPT ![c] = i]
  /\ sessions' = sessions \cup {c}
  /\ wg' = wg + 1
  /\ mutex' = c
  /\ Goto(c, "setup")
  /\ UNCHANGED <<queue, clean, ends>>

\* Faulty: the WaitGroup is incremented before pool.Get.
CreateGetFailsCounted(c) ==
  /\ AtCreate(c) /\ MayCreate(c)
  /\ GetFails
  /\ wg' = wg + 1
  /\ Goto(c, "failed")
  /\ UNCHANGED <<lock, sessions, controller, ends>>

CreateGetFails(c) ==
  /\ AtCreate(c) /\ MayCreate(c)
  /\ GetFails
  /\ Goto(c, "failed")
  /\ UNCHANGED <<lock, table, ends>>

\* Faulty: after an error the instance is returned, but the session is kept.
SetupReturnsInstance(c) ==
  /\ pc[c] = "setup"
  /\ \/ Goto(c, "open") /\ UNCHANGED poolVars
     \/ "setup" \in Faults /\ Goto(c, "failed") /\ Return(controller[c], TRUE)
  /\ mutex' = Nobody
  /\ UNCHANGED <<queue, table, clean, ends>>

\* Session.setupTest returns: an error of the Logstash controller's SetupTest
\* is dropped, any other one is returned and leaves the session in the map.
SetupReturns(c) ==
  /\ pc[c] = "setup"
  /\ \/ Goto(c, "open")
     \/ "setup" \in Faults /\ Goto(c, "failed")
  /\ mutex' = Nobody
  /\ UNCHANGED <<poolVars, queue, table, clean, ends>>

-----------------------------------------------------------------------------
(* Daemon.ExecuteTest *)

\* Controller.Get; the client goes on to its deferred TeardownTest if the
\* session is not there.
ExecuteTest(c) ==
  /\ pc[c] = "open" /\ mutex = Nobody
  /\ Goto(c, IF c \in sessions THEN "execute" ELSE "close")
  /\ UNCHANGED <<poolVars, lock, table, ends>>

Fit(c) == health[controller[c]] = "healthy"

\* Session.ExecuteTest and GetResults, whose error does not fail the call.  An
\* unhealthy controller fails ExecuteTest, unless it became unhealthy later.
ExecuteReturns(c) ==
  /\ pc[c] = "execute"
  /\ \/ Goto(c, "open")
     \/ (~Fit(c) \/ "execute" \in Faults) /\ Goto(c, "abort")
  /\ UNCHANGED <<poolVars, lock, table, ends>>

-----------------------------------------------------------------------------
(* Controller.DestroyByID: at "abort" in the deferred function of the handler
   of ExecuteTest, at "close" in that of TeardownTest. *)

\* The client has executed its tests.
CloseSession(c) ==
  /\ pc[c] = "open"
  /\ Goto(c, "close")
  /\ UNCHANGED <<poolVars, lock, table, ends>>

AfterDestroy(c) == IF pc[c] \in {"abort", "abort teardown"} THEN "close"
                                                            ELSE "done"

\* Faulty: wg.Done is deferred before the session is looked up.
DestroyFindsNothingDone(c) ==
  /\ pc[c] \in {"abort", "close"} /\ mutex = Nobody
  /\ c \notin sessions
  /\ Goto(c, AfterDestroy(c))
  /\ wg' = wg - 1
  /\ UNCHANGED <<poolVars, lock, sessions, controller, ends>>

DestroyFindsNothing(c) ==
  /\ pc[c] \in {"abort", "close"} /\ mutex = Nobody
  /\ c \notin sessions
  /\ Goto(c, AfterDestroy(c))
  /\ UNCHANGED <<poolVars, lock, table, ends>>

DestroyStarts(c) ==
  /\ pc[c] \in {"abort", "close"} /\ mutex = Nobody
  /\ c \in sessions
  /\ mutex' = c
  /\ Goto(c, IF pc[c] = "abort" THEN "abort teardown" ELSE "close teardown")
  /\ UNCHANGED <<poolVars, queue, table, clean, ends>>

\* Faulty: nobody is woken.
SignalNobody(c) == Goto(c, AfterDestroy(c)) /\ UNCHANGED queue

\* cond.Signal wakes one of the waiting calls of Create, if there is one.
Signal(c) ==
  IF queue = {}
    THEN Goto(c, AfterDestroy(c)) /\ UNCHANGED queue
    ELSE \E d \in queue :
           /\ pc' = [pc EXCEPT ![c] = AfterDestroy(c), ![d] = "woken"]
           /\ queue' = queue \ {d}

\* Session.teardown returns, the session's instance being fit or not; the
\* instance may also become unhealthy between this and pool.Return.
TeardownReturns(c) ==
  /\ pc[c] \in {"abort teardown", "close teardown"}
  /\ clean = "unknown"
  /\ \/ Fit(c) /\ clean' = "yes"
     \/ (~Fit(c) \/ "cleanup" \in Faults) /\ clean' = "no"
  /\ UNCHANGED <<poolVars, pc, mutex, queue, table, ends>>

\* Faulty: wg.Done is skipped for a session that is aborted.
DestroyEndsEarly(c) ==
  /\ pc[c] \in {"abort teardown", "close teardown"}
  /\ clean # "unknown" /\ clean' = "unknown"
  /\ Return(controller[c], clean = "yes")
  /\ sessions' = sessions \ {c}
  /\ Signal(c)
  /\ wg' = IF pc[c] = "close teardown" THEN wg - 1 ELSE wg
  /\ mutex' = Nobody
  /\ UNCHANGED <<controller, ends>>

\* The controller goes back to the pool, clean or not, and the session is
\* removed.
DestroyEnds(c) ==
  /\ pc[c] \in {"abort teardown", "close teardown"}
  /\ clean # "unknown" /\ clean' = "unknown"
  /\ Return(controller[c], clean = "yes")
  /\ sessions' = sessions \ {c}
  /\ Signal(c)
  /\ wg' = wg - 1
  /\ mutex' = Nobody
  /\ UNCHANGED <<controller, ends>>

\* The client is killed, or its connection is lost for good: nobody sends
\* TeardownTest, and the handlers do not look at the call's context.
Vanish(c) ==
  /\ "vanish" \in Faults
  /\ pc[c] = "open"
  /\ Goto(c, "gone")
  /\ UNCHANGED <<poolVars, lock, table, ends>>

-----------------------------------------------------------------------------
(* Shutdown *)

\* Daemon.Shutdown; a second call is refused.
ShutdownRPC ==
  /\ ~signalled
  /\ signalled' = TRUE
  /\ UNCHANGED <<poolVars, pc, lock, table, finish>>

\* WaitFinish, called by shutdownSignalHandler: it sets finished under the
\* mutex, broadcasts without it, and waits for the WaitGroup.
WaitFinish ==
  /\ finish = "none" /\ mutex = Nobody
  /\ signalled \/ "interrupt" \in Faults
  /\ finish' = "broadcast"
  /\ UNCHANGED <<poolVars, pc, lock, table, signalled>>

Broadcast ==
  /\ finish = "broadcast"
  /\ finish' = "waiting"
  /\ queue' = {}
  /\ pc' = [c \in Client |-> IF c \in queue THEN "woken" ELSE pc[c]]
  /\ UNCHANGED <<poolVars, mutex, table, clean, signalled>>

Drained ==
  /\ finish = "waiting" /\ wg = 0
  /\ finish' = "drained"
  /\ UNCHANGED <<poolVars, pc, lock, table, signalled>>

-----------------------------------------------------------------------------
HandlerStep(c) ==
  \/ CreateRejected(c) \/ CreateWaits(c) \/ CreateGets(c) \/ CreateGetFails(c)
  \/ SetupReturns(c) \/ ExecuteReturns(c)
  \/ DestroyFindsNothing(c) \/ DestroyStarts(c)
  \/ TeardownReturns(c) \/ DestroyEnds(c)

PoolStep == /\ Housekeeping \/ \E i \in Instance : Sicken(i)
            /\ UNCHANGED sessionVars

Next ==
  \/ \E c \in Client : \/ SetupTest(c) \/ ExecuteTest(c) \/ CloseSession(c)
                       \/ HandlerStep(c) \/ Vanish(c)
  \/ PoolStep
  \/ ShutdownRPC \/ WaitFinish \/ Broadcast \/ Drained

Spec == Init /\ [][Next]_vars

\* Handlers run, and a blocked one gets the mutex in the end (sync.Mutex is
\* starvation free), hence SF; the client's loop over its tests is finite.
\* Nothing is assumed of the start of clients, of shutdown or of failures.
Fairness ==
  /\ \A c \in Client : SF_vars(HandlerStep(c)) /\ SF_vars(CloseSession(c))
  /\ WF_vars(Housekeeping /\ UNCHANGED sessionVars)
  /\ WF_vars(Broadcast) /\ WF_vars(Drained)

FairSpec == Spec /\ Fairness

-----------------------------------------------------------------------------
\* No two sessions use the same Logstash instance, and none of them uses one
\* that the pool may hand out (session/controller.go: Create, DestroyByID;
\* housekeeping may remove the instance of a session under its feet).
ExclusiveUse ==
  \A c \in sessions :
    /\ controller[c] \in Instance \ available
    /\ \A d \in sessions \ {c} : controller[d] # controller[c]

\* Create never meets "no instance available from pool": the limit on the
\* number of sessions is tight enough for the size of the pool (the TODO "Link
\* this value to pool size" of Create).
NeverExhausted ==
  \A c \in Client : AtCreate(c) /\ MayCreate(c) => ~Exhausted

\* There are at most two sessions, and the WaitGroup counts them, so that
\* WaitFinish neither ends early nor waits for nobody.
SessionsCounted ==
  Cardinality(sessions) <= 2 /\ wg = Cardinality(sessions)

\* Refinement: the sessions hold leases on the instances.
Lease == INSTANCE InstanceLease WITH
           uses    <- [c \in Client |-> IF c \in sessions THEN controller[c]
                                                          ELSE Nil],
           good    <- (available \cup assigned) \ {Nil},
           started <- Instance \ Fresh

\* An instance serves one session at a time, for all of the session's life, and
\* once given up it is never lent again, whatever the order in which Get,
\* Return and housekeeping find it unhealthy.
ImplementsLease == Lease!Spec

\* Every call of Create returns.
CreateReturns ==
  \A c \in Client : pc[c] = "create" ~> pc[c] \in {"open", "failed"}

\* WaitFinish "waits for all currently running sessions to finish": once they
\* have, its channel is closed.
FinishDrains == finished ~> (finish = "drained")

\* "daemon is shutting down, no new sessions accepted" (daemon.go, SetupTest).
\* The code does not keep this: Create looks at finished only after a wait.
NoNewSessions == [][finished => sessions' \subseteq sessions]_vars

\* A call of Create waits only while there are two sessions, or while somebody
\* woken before it is on the way to the free place: no signal of DestroyByID
\* is lost (until shutdown, which ends the calls that wait).  The code does not
\* keep this: a woken call whose pool.Get fails wakes nobody in its turn.
NoForgottenWaiter ==
  queue # {} /\ ~finished =>
    Cardinality(sessions) > 1 \/ \E c \in Client : pc[c] = "woken"

=================================================================================
