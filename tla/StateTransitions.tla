---------------------------- MODULE StateTransitions ----------------------------
(***************************************************************************)
(* The transition table of the controller's state machine                  *)
(* (daemon/controller/statemachine.go): the states a Logstash instance is  *)
(* in from the daemon's point of view and the commands that move it.       *)
(***************************************************************************)

States ==
  {"unknown", "created", "started", "ready", "setting_up_test",
   "ready_for_test", "executing_test", "running_test"}

Commands ==
  {"start", "pipeline-ready", "setup-test", "execute-test", "test-complete",
   "teardown", "crash"}

\* Faulty variants, for the sensitivity checks of the project.

\* A teardown that takes the instance for ready before it has reloaded.
NextStateEagerTeardown(state, command) ==
  CASE state = "created" /\ command = "start"                -> "started"
    [] state = "started" /\ command = "pipeline-ready"       -> "ready"
    [] state = "ready" /\ command = "pipeline-ready"         -> "ready"
    [] state = "ready" /\ command = "setup-test"             -> "setting_up_test"
    [] state = "setting_up_test" /\ command = "pipeline-ready" -> "ready_for_test"
    [] state = "ready_for_test" /\ command = "teardown"      -> "ready"
    [] OTHER                                                 -> "unknown"

\* stateTransitionsTable with its fallback: a pair the table does not list
\* leads to "unknown", and so does every command in "unknown".
NextState(state, command) ==
  CASE state = "created" /\ command = "start"                -> "started"
    [] state = "started" /\ command = "pipeline-ready"       -> "ready"
    [] state = "ready" /\ command = "pipeline-ready"         -> "ready"
    [] state = "ready" /\ command = "setup-test"             -> "setting_up_test"
    [] state = "setting_up_test" /\ command = "pipeline-ready" -> "ready_for_test"
    [] state = "ready_for_test" /\ command = "execute-test"  -> "executing_test"
    [] state = "ready_for_test" /\ command = "teardown"      -> "started"
    [] state = "executing_test" /\ command = "pipeline-ready" -> "running_test"
    [] state = "running_test" /\ command = "pipeline-ready"  -> "running_test"
    [] state = "running_test" /\ command = "test-complete"   -> "ready_for_test"
    [] OTHER                                                 -> "unknown"

=================================================================================
