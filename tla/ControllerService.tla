---------------------------- MODULE ControllerService ----------------------------
(***************************************************************************)
(* What a session relies on of the Logstash controller it has been given:  *)
(* operations are served one by one, each reload is finished before the    *)
(* next is asked for, and what is received and returned are the events of  *)
(* the test.  State machine, log lines, the map of pipelines, signals and  *)
(* goroutines, by which LogstashController implements this, are hidden.    *)
(***************************************************************************)
EXTENDS Naturals, Sequences

CONSTANTS
  Pipeline,  \* ids of pipelines
  MayFail    \* there are timeouts, crashes, errors of files or a shutdown

VARIABLES
  at,       \* control point of the session
  op,       \* the operation it calls ...
  wanted,   \* ... with these pipelines, the base pipelines included ...
  want,     \* ... and so many events expected
  test,     \* number of tests executed so far
  asked,    \* the pipelines Logstash is to run
  loaded,   \* the pipelines it runs
  received, \* events received since a reload was asked for, by their test
  results,  \* what GetResults has returned
  outcome,  \* whether it returned with an error
  sick,     \* the state machine is in its unknown state
  stopped   \* the context is cancelled

request == <<op, wanted, want, test>>
service == <<asked, loaded, received>>
answer  == <<results, outcome>>
health  == <<sick, stopped>>
vars == <<at, request, service, answer, health>>

\* What has been collected without an error is not spoilt by what comes after.
Intact == ~stopped /\ (sick => outcome = "ok")

Init ==
  /\ at = "pooled" /\ op = "setup" /\ wanted \subseteq Pipeline /\ want = 0 /\ test = 0
  /\ asked = loaded /\ loaded \subseteq Pipeline /\ received = << >>
  /\ results = << >> /\ outcome = "none" /\ sick = FALSE /\ stopped = FALSE

Call(o) ==
  /\ at' = "called" /\ op' = o /\ wanted' \subseteq Pipeline /\ outcome' = "none"
  /\ UNCHANGED <<service, results, health>>

SetupTest   == at = "pooled" /\ ~sick /\ Call("setup") /\ want' = 0 /\ UNCHANGED test
ExecuteTest == at = "session" /\ Call("execute") /\ want' \in Nat /\ test' = test + 1
Teardown    == at \in {"session", "destroy"} /\ Call("teardown") /\ want' = 0
                 /\ UNCHANGED test

\* A reload is asked for when Logstash has done all before it.
Ask ==
  /\ at = "called" /\ loaded = asked
  /\ at' = "asked" /\ asked' = wanted /\ received' = << >>
  /\ UNCHANGED <<request, loaded, answer, health>>

\* The call returns; Logstash reloads while the session goes on.
Accepted ==
  /\ at = "asked"
  /\ at' = [setup |-> "session", execute |-> "testing", teardown |-> "pooled"][op]
  /\ UNCHANGED <<request, service, answer, health>>

Refused ==
  /\ MayFail /\ at \in {"called", "asked"}
  /\ at' = [setup |-> "session", execute |-> "destroy", teardown |-> "discarded"][op]
  /\ sick' \in {sick, TRUE}
  /\ UNCHANGED <<request, service, answer, stopped>>

Load ==
  /\ loaded # asked /\ at # "asked"
  /\ loaded' = asked
  /\ UNCHANGED <<at, request, asked, received, answer, health>>

\* Events of the test come once its pipelines are loaded, and until they are
\* collected.
Receive ==
  /\ \E t \in 0..test :
       /\ Intact => t = test /\ at \in {"testing", "collecting"} /\ loaded = asked
       /\ received' = Append(received, t)
  /\ UNCHANGED <<at, request, asked, loaded, answer, health>>

\* Without an error not before all expected events have come, and with one only
\* if the instance is to be given up.
ResultsReady ==
  /\ at = "testing" /\ ~sick /\ loaded = asked
  /\ stopped \/ Len(received) >= want
  /\ at' = "collecting" /\ outcome' = "ok"
  /\ UNCHANGED <<request, service, results, health>>

ResultsFail ==
  /\ MayFail /\ at = "testing"
  /\ at' = "collecting" /\ outcome' = "error"
  /\ sick' \in {sick, TRUE} /\ (sick' \/ stopped)
  /\ UNCHANGED <<request, service, results, stopped>>

Collect ==
  /\ at = "collecting"
  /\ at' = "session" /\ results' = received
  /\ UNCHANGED <<request, service, outcome, health>>

\* For good.
Sicken == MayFail /\ ~sick /\ sick' = TRUE
            /\ UNCHANGED <<at, request, service, answer, stopped>>
Stop   == MayFail /\ ~stopped /\ stopped' = TRUE
            /\ UNCHANGED <<at, request, service, answer, sick>>

Next ==
  \/ SetupTest \/ ExecuteTest \/ Teardown \/ Ask \/ Accepted \/ Refused \/ Load
  \/ Receive \/ ResultsReady \/ ResultsFail \/ Collect \/ Sicken \/ Stop

Spec == Init /\ [][Next]_vars

===================================================================================
