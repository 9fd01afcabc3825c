------------------------------ MODULE StateMachine ------------------------------
(***************************************************************************)
(* daemon/controller/statemachine.go at the grain of its mutex, condition  *)
(* variable, ticker goroutine, timers and context.                         *)
(*                                                                         *)
(* A waiter holds the mutex from Lock to Park: cond.Wait puts it on the    *)
(* wait list and releases the mutex in one step (Park).  The ticker        *)
(* goroutine broadcasts without the mutex, on every tick and once more     *)
(* when the context is done, after which it is gone.                       *)
(***************************************************************************)
EXTENDS StateTransitions

CONSTANTS Waiter,       \* goroutines that call waitForState
          Target,       \* [Waiter -> States], the state each of them waits for
          Cancellable   \* whether the context may be cancelled in this instance

ASSUME StateMachineAssumption ==
  /\ Target \in [Waiter -> States \ {"unknown"}]
  /\ Cancellable \in BOOLEAN

VARIABLES state,    \* currentState
          done,     \* ctx.Done() is closed
          holder,   \* the waiter that holds the mutex, or Nobody
          pc,       \* [Waiter -> control point of waitForState]
          expired,  \* waiters whose timer t has fired, the channel not yet read
          waitList, \* waiters parked in cond.Wait
          ticker    \* the goroutine started by newStateMachine

vars == <<state, done, holder, pc, expired, waitList, ticker>>

CONSTANT Nobody
ASSUME NobodyAssumption == Nobody \notin Waiter

Points == {"idle", "enter", "loop", "park", "parked", "relock", "ok", "error"}

TypeOK ==
  /\ state \in States
  /\ done \in BOOLEAN
  /\ holder \in Waiter \cup {Nobody}
  /\ pc \in [Waiter -> Points]
  /\ expired \subseteq Waiter
  /\ waitList \subseteq Waiter
  /\ ticker \in {"select", "final", "gone"}

Init ==
  /\ state = "created"
  /\ done = FALSE
  /\ holder = Nobody
  /\ pc = [w \in Waiter |-> "idle"]
  /\ expired = {}
  /\ waitList = {}
  /\ ticker = "select"

-----------------------------------------------------------------------------
\* cond.Broadcast: everybody on the wait list goes on to reacquire the mutex.
Woken == [w \in Waiter |-> IF w \in waitList THEN "relock" ELSE pc[w]]

\* Faulty: who is woken goes on without the mutex.
BroadcastNoRelock ==
  /\ waitList' = {}
  /\ pc' = [w \in Waiter |-> IF w \in waitList THEN "loop" ELSE pc[w]]

Broadcast == waitList' = {} /\ pc' = Woken

\* waitForState is called again only after it has returned.
Call(w) ==
  /\ pc[w] \in {"idle", "ok", "error"}
  /\ pc' = [pc EXCEPT ![w] = "enter"]
  /\ UNCHANGED <<state, done, holder, expired, waitList, ticker>>

\* s.mutex.Lock at entry, where the timer is made, and inside cond.Wait.
Lock(w) ==
  /\ pc[w] \in {"enter", "relock"}
  /\ holder = Nobody
  /\ holder' = w
  /\ pc' = [pc EXCEPT ![w] = "loop"]
  /\ expired' = IF pc[w] = "enter" THEN expired \ {w} ELSE expired
  /\ UNCHANGED <<state, done, waitList, ticker>>

TimerFires(w) ==
  /\ pc[w] \in {"loop", "park", "parked", "relock"}
  /\ w \notin expired
  /\ expired' = expired \cup {w}
  /\ UNCHANGED <<state, done, holder, pc, waitList, ticker>>

\* Return from waitForState: the deferred calls drain the timer and unlock.
Unlock(w) == holder' = Nobody /\ expired' = expired \ {w}

ReturnOk(w) ==
  /\ pc[w] = "loop" /\ state = Target[w]
  /\ pc' = [pc EXCEPT ![w] = "ok"]
  /\ Unlock(w)
  /\ UNCHANGED <<state, done, waitList, ticker>>

\* The select prefers neither case when both the context and the timer are
\* ready; without either the unknown state ends the wait.
ReturnError(w) ==
  /\ pc[w] = "loop" /\ state # Target[w]
  /\ done \/ (w \notin expired /\ state = "unknown")
  /\ pc' = [pc EXCEPT ![w] = "error"]
  /\ Unlock(w)
  /\ UNCHANGED <<state, done, waitList, ticker>>

\* Faulty: the timer is looked at before the state.
ReturnTimeoutFirst(w) ==
  /\ pc[w] = "loop" /\ w \in expired
  /\ state' = "unknown"
  /\ waitList' = {}
  /\ pc' = [Woken EXCEPT ![w] = "error"]
  /\ Unlock(w)
  /\ UNCHANGED <<done, ticker>>

ReturnTimeout(w) ==
  /\ pc[w] = "loop" /\ state # Target[w]
  /\ w \in expired
  /\ state' = "unknown"
  /\ waitList' = {}
  /\ pc' = [Woken EXCEPT ![w] = "error"]
  /\ Unlock(w)
  /\ UNCHANGED <<done, ticker>>

\* None of the conditions held when they were evaluated.
GoOnWaiting(w) ==
  /\ pc[w] = "loop" /\ state \notin {Target[w], "unknown"}
  /\ ~done /\ w \notin expired
  /\ pc' = [pc EXCEPT ![w] = "park"]
  /\ UNCHANGED <<state, done, holder, expired, waitList, ticker>>

Park(w) ==
  /\ pc[w] = "park"
  /\ waitList' = waitList \cup {w}
  /\ pc' = [pc EXCEPT ![w] = "parked"]
  /\ holder' = Nobody
  /\ UNCHANGED <<state, done, expired, ticker>>

\* Faulty: the broadcast is forgotten.
ExecuteCommandSilently(command) ==
  /\ holder = Nobody
  /\ state' = NextState(state, command)
  /\ UNCHANGED <<done, holder, pc, expired, waitList, ticker>>

\* executeCommand: Lock, the transition, Broadcast, Unlock.
ExecuteCommand(command) ==
  /\ holder = Nobody
  /\ state' = NextState(state, command)
  /\ Broadcast
  /\ UNCHANGED <<done, holder, expired, ticker>>

-----------------------------------------------------------------------------
\* The ticker goroutine of newStateMachine; a tick that finds nobody on the
\* wait list changes nothing.
Tick ==
  /\ ticker = "select"
  /\ Broadcast
  /\ UNCHANGED <<state, done, holder, expired, ticker>>

\* Faulty: the goroutine ends after one round of its loop.
SeeDoneOnce ==
  /\ ticker = "select"
  /\ ticker' = "final"
  /\ UNCHANGED <<state, done, holder, pc, expired, waitList>>

SeeDone ==
  /\ ticker = "select" /\ done
  /\ ticker' = "final"
  /\ UNCHANGED <<state, done, holder, pc, expired, waitList>>

\* The deferred cond.Broadcast.
FinalBroadcast ==
  /\ ticker = "final"
  /\ ticker' = "gone"
  /\ Broadcast
  /\ UNCHANGED <<state, done, holder, expired>>

\* Controller.Kill, or the daemon's shutdown.
Cancel ==
  /\ Cancellable /\ ~done
  /\ done' = TRUE
  /\ UNCHANGED <<state, holder, pc, expired, waitList, ticker>>

WaiterStep(w) ==
  \/ Lock(w) \/ ReturnOk(w) \/ ReturnError(w) \/ ReturnTimeout(w)
  \/ GoOnWaiting(w) \/ Park(w)

Next ==
  \/ \E w \in Waiter : Call(w) \/ WaiterStep(w) \/ TimerFires(w)
  \/ \E command \in Commands : ExecuteCommand(command)
  \/ Tick \/ SeeDone \/ FinalBroadcast
  \/ Cancel

Spec == Init /\ [][Next]_vars

\* The Go scheduler runs every goroutine that can run, sync.Mutex hands itself
\* to a starving waiter (hence SF on Lock), and timers and tickers fire.
\* Nothing is assumed of the callers, the commands or the cancellation.
Fairness ==
  /\ \A w \in Waiter :
       /\ SF_vars(Lock(w))
       /\ WF_vars(WaiterStep(w))
       /\ WF_vars(TimerFires(w))
  /\ WF_vars(Tick)
  /\ WF_vars(SeeDone)
  /\ WF_vars(FinalBroadcast)

FairSpec == Spec /\ Fairness

-----------------------------------------------------------------------------
\* The mutex protects the wait: its holder is exactly the waiter between Lock
\* and Park or return, so no two waiters evaluate the loop condition at once,
\* and the wait list holds exactly the parked waiters
\* (statemachine.go: waitForState).
Exclusion ==
  /\ \A w \in Waiter : pc[w] \in {"loop", "park"} <=> holder = w
  /\ \A w \in Waiter : pc[w] = "parked" <=> w \in waitList

\* Every state change is broadcast: a waiter that is parked, or about to park,
\* has not missed its target (executeCommand and the timeout path broadcast
\* under the mutex, so a parked waiter is never in its target state).
NoMissedTarget ==
  \A w \in Waiter : pc[w] \in {"park", "parked"} =>
    state \notin {Target[w], "unknown"}

\* waitForState returns: while the context is not cancelled a call does not
\* wait forever, because the ticker wakes it up to look at its timer (the
\* comment on the ticker goroutine).
Waiting(w) == pc[w] \in Points \ {"idle", "ok", "error"}

WaitReturns == \A w \in Waiter : Waiting(w) ~> (~Waiting(w) \/ done)

\* After the context is cancelled no call is left waiting: the goroutine's
\* last broadcast is to make waitForState return its shutdown error.
ShutdownReleasesWaiters == \A w \in Waiter : (done /\ Waiting(w)) ~> ~Waiting(w)

-----------------------------------------------------------------------------
\* Refinement: the calls are those of the atomic state machine.
Outcome == [w \in Waiter |-> CASE pc[w] = "idle"  -> "none"
                               [] pc[w] = "ok"    -> "ok"
                               [] pc[w] = "error" -> "error"
                               [] OTHER           -> "waiting"]

Atomic == INSTANCE AtomicStateMachine WITH outcome <- Outcome

\* waitForState and executeCommand take effect at one instant: nil is returned
\* only in the target state, an error only for the three reasons of the code,
\* and only a timeout changes the state.
ImplementsAtomic == Atomic!Spec

=================================================================================
