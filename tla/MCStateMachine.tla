----------------------------- MODULE MCStateMachine -----------------------------
(***************************************************************************)
(* Instances of StateMachine for TLC: a caller in GetResults and the       *)
(* goroutine that completes the test.                                      *)
(***************************************************************************)
EXTENDS StateMachine

CONSTANTS caller, completer

MCTarget == [w \in Waiter |-> IF w = caller THEN "ready_for_test"
                                            ELSE "running_test"]

=================================================================================
