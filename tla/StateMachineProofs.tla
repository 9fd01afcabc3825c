--------------------------- MODULE StateMachineProofs ---------------------------
(***************************************************************************)
(* Proofs about StateMachine for any set of waiters: types, the discipline *)
(* of mutex and wait list, no missed target, and the refinement of         *)
(* AtomicStateMachine.                                                     *)
(***************************************************************************)
EXTENDS StateMachine, TLAPS

\* The transition table maps states to states.
LEMMA NextStateType ==
  \A s \in States, c \in Commands : NextState(s, c) \in States
BY SMTT(30) DEF NextState, States, Commands

\* The unknown state is left by no command.
LEMMA UnknownStays == \A c \in Commands : NextState("unknown", c) = "unknown"
BY DEF NextState, Commands

\* A waiter woken by a broadcast was on the wait list.
LEMMA WokenType ==
  ASSUME pc \in [Waiter -> Points]
  PROVE  Woken \in [Waiter -> Points]
BY DEF Woken, Points

\* Types, for any set of waiters: a broadcast and a timeout move each waiter to
\* a control point of waitForState (statemachine.go).  TypeOK is inductive.
THEOREM TypeInvariance == Spec => []TypeOK
<1>1. Init => TypeOK
  BY DEF Init, TypeOK, States, Points
<1>2. TypeOK /\ [Next]_vars => TypeOK'
  <2> SUFFICES ASSUME TypeOK, [Next]_vars PROVE TypeOK'
    OBVIOUS
  <2> USE StateMachineAssumption, NobodyAssumption, NextStateType, WokenType
       DEF TypeOK
  <2>1. ASSUME NEW w \in Waiter, Call(w) PROVE TypeOK'
    BY <2>1 DEF Call, Points
  <2>2. ASSUME NEW w \in Waiter, WaiterStep(w) PROVE TypeOK'
    <3>1. CASE Lock(w)          BY <3>1 DEF Lock, Points
    <3>2. CASE ReturnOk(w)      BY <3>2 DEF ReturnOk, Unlock, Points
    <3>3. CASE ReturnError(w)   BY <3>3 DEF ReturnError, Unlock, Points
    <3>4. CASE ReturnTimeout(w)
      <4>1. Woken \in [Waiter -> Points]
        BY WokenType
      <4>2. [Woken EXCEPT ![w] = "error"] \in [Waiter -> Points]
        BY <4>1 DEF Points
      <4> QED
        BY <3>4, <4>2 DEF ReturnTimeout, Unlock, States
    <3>5. CASE GoOnWaiting(w)   BY <3>5 DEF GoOnWaiting, Points
    <3>6. CASE Park(w)          BY <3>6 DEF Park, Points
    <3> QED
      BY <2>2, <3>1, <3>2, <3>3, <3>4, <3>5, <3>6 DEF WaiterStep
  <2>3. ASSUME NEW w \in Waiter, TimerFires(w) PROVE TypeOK'
    BY <2>3 DEF TimerFires
  <2>4. ASSUME NEW c \in Commands, ExecuteCommand(c) PROVE TypeOK'
    BY <2>4 DEF ExecuteCommand, Broadcast
  <2>5. CASE Tick            BY <2>5 DEF Tick, Broadcast
  <2>6. CASE SeeDone         BY <2>6 DEF SeeDone
  <2>7. CASE FinalBroadcast  BY <2>7 DEF FinalBroadcast, Broadcast
  <2>8. CASE Cancel          BY <2>8 DEF Cancel
  <2>9. CASE UNCHANGED vars  BY <2>9 DEF vars
  <2> QED
    BY <2>1, <2>2, <2>3, <2>4, <2>5, <2>6, <2>7, <2>8, <2>9 DEF Next
<1> QED
  BY <1>1, <1>2, PTL DEF Spec

\* Exclusion is inductive together with the types.
LEMMA ExclusionStep == TypeOK /\ Exclusion /\ [Next]_vars => Exclusion'
  <1> SUFFICES ASSUME TypeOK, Exclusion, [Next]_vars PROVE Exclusion'
    OBVIOUS
  <1> USE NobodyAssumption DEF TypeOK, Exclusion, Points
  <1>1. ASSUME NEW w \in Waiter, Call(w) PROVE Exclusion'
    BY <1>1 DEF Call
  <1>2. ASSUME NEW w \in Waiter, WaiterStep(w) PROVE Exclusion'
    <2>1. CASE Lock(w)          BY <2>1 DEF Lock
    <2>2. CASE ReturnOk(w)      BY <2>2 DEF ReturnOk, Unlock
    <2>3. CASE ReturnError(w)   BY <2>3 DEF ReturnError, Unlock
    <2>4. CASE ReturnTimeout(w) BY <2>4 DEF ReturnTimeout, Unlock, Woken
    <2>5. CASE GoOnWaiting(w)   BY <2>5 DEF GoOnWaiting
    <2>6. CASE Park(w)          BY <2>6 DEF Park
    <2> QED
      BY <1>2, <2>1, <2>2, <2>3, <2>4, <2>5, <2>6 DEF WaiterStep
  <1>3. ASSUME NEW w \in Waiter, TimerFires(w) PROVE Exclusion'
    BY <1>3 DEF TimerFires
  <1>4. ASSUME NEW c \in Commands, ExecuteCommand(c) PROVE Exclusion'
    BY <1>4 DEF ExecuteCommand, Broadcast, Woken
  <1>5. CASE Tick            BY <1>5 DEF Tick, Broadcast, Woken
  <1>6. CASE SeeDone         BY <1>6 DEF SeeDone
  <1>7. CASE FinalBroadcast  BY <1>7 DEF FinalBroadcast, Broadcast, Woken
  <1>8. CASE Cancel          BY <1>8 DEF Cancel
  <1>9. CASE UNCHANGED vars  BY <1>9 DEF vars
  <1> QED
    BY <1>1, <1>2, <1>3, <1>4, <1>5, <1>6, <1>7, <1>8, <1>9 DEF Next

\* The mutex protects the wait: for any set of waiters the holder is exactly
\* the waiter in the loop and the wait list holds exactly the parked ones
\* (statemachine.go: waitForState).
THEOREM MutualExclusion == Spec => []Exclusion
<1>1. Init => Exclusion
  BY NobodyAssumption DEF Init, Exclusion
<1> QED
  BY <1>1, ExclusionStep, TypeInvariance, PTL DEF Spec

\* A state change is broadcast before anybody can park on the old state.
LEMMA NoMissedTargetStep ==
  TypeOK /\ Exclusion /\ NoMissedTarget /\ [Next]_vars => NoMissedTarget'
  <1> SUFFICES ASSUME TypeOK, Exclusion, NoMissedTarget, [Next]_vars
               PROVE  NoMissedTarget'
    OBVIOUS
  <1> USE NobodyAssumption DEF TypeOK, Exclusion, NoMissedTarget, Points
  <1>1. ASSUME NEW w \in Waiter, Call(w) PROVE NoMissedTarget'
    BY <1>1 DEF Call
  <1>2. ASSUME NEW w \in Waiter, WaiterStep(w) PROVE NoMissedTarget'
    <2>1. CASE Lock(w)          BY <2>1 DEF Lock
    <2>2. CASE ReturnOk(w)      BY <2>2 DEF ReturnOk
    <2>3. CASE ReturnError(w)   BY <2>3 DEF ReturnError
    <2>4. CASE ReturnTimeout(w) BY <2>4 DEF ReturnTimeout, Woken
    <2>5. CASE GoOnWaiting(w)   BY <2>5 DEF GoOnWaiting
    <2>6. CASE Park(w)          BY <2>6 DEF Park
    <2> QED
      BY <1>2, <2>1, <2>2, <2>3, <2>4, <2>5, <2>6 DEF WaiterStep
  <1>3. ASSUME NEW w \in Waiter, TimerFires(w) PROVE NoMissedTarget'
    BY <1>3 DEF TimerFires
  <1>4. ASSUME NEW c \in Commands, ExecuteCommand(c) PROVE NoMissedTarget'
    BY <1>4 DEF ExecuteCommand, Broadcast, Woken
  <1>5. CASE Tick            BY <1>5 DEF Tick, Broadcast, Woken
  <1>6. CASE SeeDone         BY <1>6 DEF SeeDone
  <1>7. CASE FinalBroadcast  BY <1>7 DEF FinalBroadcast, Broadcast, Woken
  <1>8. CASE Cancel          BY <1>8 DEF Cancel
  <1>9. CASE UNCHANGED vars  BY <1>9 DEF vars
  <1> QED
    BY <1>1, <1>2, <1>3, <1>4, <1>5, <1>6, <1>7, <1>8, <1>9 DEF Next

\* For any set of waiters, one that is parked or about to park has not missed
\* its target or the unknown state: no wakeup by a state change is lost
\* (statemachine.go: executeCommand, waitForState).
THEOREM NoLostStateChange == Spec => []NoMissedTarget
<1>1. Init => NoMissedTarget
  BY DEF Init, NoMissedTarget
<1> QED
  BY <1>1, NoMissedTargetStep, MutualExclusion, TypeInvariance, PTL DEF Spec

-----------------------------------------------------------------------------
\* A broadcast does not change what the callers see.
LEMMA BroadcastKeepsOutcome ==
  ASSUME TypeOK, Exclusion, Broadcast
  PROVE  UNCHANGED Outcome
BY DEF TypeOK, Exclusion, Broadcast, Woken, Outcome, Points

\* Every step of StateMachine is one of AtomicStateMachine, or changes nothing
\* there.
LEMMA AtomicStep ==
  TypeOK /\ Exclusion /\ [Next]_vars => [Atomic!Next]_Atomic!vars
  <1> SUFFICES ASSUME TypeOK, Exclusion, [Next]_vars
               PROVE  [Atomic!Next]_Atomic!vars
    OBVIOUS
  <1> USE DEF TypeOK, Points
  <1>1. ASSUME NEW w \in Waiter, Call(w) PROVE Atomic!Call(w)
    BY <1>1 DEF Call, Atomic!Call, Outcome
  <1>2. ASSUME NEW w \in Waiter, WaiterStep(w)
        PROVE  \/ Atomic!Succeed(w) \/ Atomic!Fail(w) \/ Atomic!TimeOut(w)
               \/ UNCHANGED Atomic!vars
    <2>1. CASE Lock(w)
      BY <2>1 DEF Lock, Atomic!vars, Outcome
    <2>2. CASE ReturnOk(w)
      BY <2>2 DEF ReturnOk, Atomic!Succeed, Atomic!Return, Outcome
    <2>3. CASE ReturnError(w)
      BY <2>3 DEF ReturnError, Atomic!Fail, Atomic!Return, Outcome
    <2>4. CASE ReturnTimeout(w)
      BY <2>4 DEF ReturnTimeout, Woken, Exclusion, Atomic!TimeOut,
                  Atomic!Return, Outcome
    <2>5. CASE GoOnWaiting(w)
      BY <2>5 DEF GoOnWaiting, Atomic!vars, Outcome
    <2>6. CASE Park(w)
      BY <2>6 DEF Park, Atomic!vars, Outcome
    <2> QED
      BY <1>2, <2>1, <2>2, <2>3, <2>4, <2>5, <2>6 DEF WaiterStep
  <1>3. ASSUME NEW w \in Waiter, TimerFires(w) PROVE UNCHANGED Atomic!vars
    BY <1>3 DEF TimerFires, Atomic!vars, Outcome
  <1>4. ASSUME NEW c \in Commands, ExecuteCommand(c) PROVE Atomic!Execute(c)
    BY <1>4, BroadcastKeepsOutcome
       DEF ExecuteCommand, Atomic!Execute, Atomic!NextState, NextState
  <1>5. CASE Tick
    BY <1>5, BroadcastKeepsOutcome DEF Tick, Atomic!vars
  <1>6. CASE SeeDone
    BY <1>6 DEF SeeDone, Atomic!vars, Outcome
  <1>7. CASE FinalBroadcast
    BY <1>7, BroadcastKeepsOutcome DEF FinalBroadcast, Atomic!vars
  <1>8. CASE Cancel
    BY <1>8 DEF Cancel, Atomic!Cancel, Atomic!Next, Outcome
  <1>9. CASE UNCHANGED vars
    BY <1>9 DEF vars, Atomic!vars, Outcome
  <1> QED
    BY <1>1, <1>2, <1>3, <1>4, <1>5, <1>6, <1>7, <1>8, <1>9
       DEF Next, Atomic!Next, Atomic!Commands, Commands

\* For any set of waiters and targets waitForState and executeCommand behave
\* as the single steps LogstashController is built on
\* (statemachine.go: waitForState, executeCommand).
THEOREM Refinement == Spec => ImplementsAtomic
<1>1. Init => Atomic!Init
  BY DEF Init, Atomic!Init, Outcome
<1> QED
  BY <1>1, AtomicStep, MutualExclusion, TypeInvariance, PTL
     DEF Spec, ImplementsAtomic, Atomic!Spec

=================================================================================
