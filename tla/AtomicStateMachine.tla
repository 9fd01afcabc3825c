--------------------------- MODULE AtomicStateMachine ---------------------------
(***************************************************************************)
(* What stateMachine promises its callers: waitForState and executeCommand *)
(* as single steps, with no mutex, condition variable, ticker or timer.    *)
(* This is the form in which LogstashController uses the state machine.    *)
(***************************************************************************)
EXTENDS StateTransitions

CONSTANTS Waiter,     \* goroutines that call waitForState
          Target      \* [Waiter -> States], the state each of them waits for

VARIABLES state,      \* currentState
          done,       \* the context of the state machine is cancelled
          outcome     \* [Waiter -> "none", "waiting", "ok" or "error"]

vars == <<state, done, outcome>>

Init == /\ state = "created"
        /\ done = FALSE
        /\ outcome = [w \in Waiter |-> "none"]

Return(w, result) == /\ outcome[w] = "waiting"
                     /\ outcome' = [outcome EXCEPT ![w] = result]

Call(w) == /\ outcome[w] # "waiting"
           /\ outcome' = [outcome EXCEPT ![w] = "waiting"]
           /\ UNCHANGED <<state, done>>

\* nil is returned only in the target state.
Succeed(w) == /\ state = Target[w]
              /\ Return(w, "ok")
              /\ UNCHANGED <<state, done>>

\* An error leaves the state alone when the context is done or the state is
\* already unknown ...
Fail(w) == /\ state # Target[w]
           /\ done \/ state = "unknown"
           /\ Return(w, "error")
           /\ UNCHANGED <<state, done>>

\* ... and a timeout makes the state unknown.
TimeOut(w) == /\ state # Target[w]
              /\ Return(w, "error")
              /\ state' = "unknown"
              /\ UNCHANGED done

Execute(command) == /\ state' = NextState(state, command)
                    /\ UNCHANGED <<done, outcome>>

Cancel == done' = TRUE /\ UNCHANGED <<state, outcome>>

Next == \/ \E w \in Waiter : Call(w) \/ Succeed(w) \/ Fail(w) \/ TimeOut(w)
        \/ \E command \in Commands : Execute(command)
        \/ Cancel

Spec == Init /\ [][Next]_vars

=================================================================================
