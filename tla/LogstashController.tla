--------------------------- MODULE LogstashController ---------------------------
(***************************************************************************)
(* The controller of one Logstash instance: daemon/controller/controller.go *)
(* with events.go and pipelines.go, and the state machine in the form of   *)
(* AtomicStateMachine (which StateMachine implements).                     *)
(*                                                                         *)
(* Concurrent actors, each with a control point of its own:                *)
(*   - the caller, the session that owns the controller: SetupTest,        *)
(*     (ExecuteTest, GetResults)*, Teardown;                               *)
(*   - the log processor, which reads Logstash's log (PipelinesReady);     *)
(*   - the stdout processor, which reads Logstash's events (ReceiveEvent); *)
(*   - the goroutines of checkComplete, here called completers;            *)
(*   - Logstash itself, external: it starts pipelines when it reads        *)
(*     pipelines.yml at its start and on SIGHUP, and it logs and prints.   *)
(***************************************************************************)
EXTENDS StateTransitions, Integers, Sequences, FiniteSets

CONSTANTS
  Base,         \* names of the base pipelines (stdin, output)
  Sut,          \* names of a session's own pipelines
  Mark,         \* "__lfv_pipelines_running"
  MaxSessions,  \* bound: sessions served by the instance
  MaxTests,     \* bound: test case sets executed in a session
  Expected,     \* expectedEvents of the test case sets
  MaxMissing,   \* bound: events a test case set may yield less than expected
  MaxSurplus,   \* bound: events it may yield in addition
  Headroom,     \* what Logstash printed is read within the wait for late arrivals
  Orderly,      \* Logstash logs all "Pipeline started" before "Pipelines running"
  Faults        \* faults of this instance, a subset of FaultKinds

FaultKinds == {"timeout", "crash", "shutdown", "reload"}

ASSUME ControllerAssumption ==
  /\ MaxSessions \in Nat /\ MaxTests \in Nat
  /\ Expected \subseteq Nat /\ MaxMissing \in Nat /\ MaxSurplus \in Nat
  /\ Headroom \in BOOLEAN /\ Orderly \in BOOLEAN /\ Faults \subseteq FaultKinds

\* The session gives its pipelines names of their own: "lfv_<session>_<id>" and
\* "lfv_output_<id>".
ASSUME NamesAssumption ==
  /\ Mark \notin Base \cup Sut \cup {"lfv_input"}
  /\ "lfv_input" \notin Base \cup Sut

\* Pipeline ids.  Those of the session under test carry the session's id, the
\* input pipelines are numbered within their session.
BaseNames     == {<<b, 0>> : b \in Base}
SutNames(s)   == {<<p, s>> : p \in Sut}
InputName(n)  == <<"lfv_input", n>>
MarkName      == <<Mark, 0>>

VARIABLES
  state,        \* stateMachine.currentState
  done,         \* the context made by Launch is cancelled
  known,        \* domain of the map pipelines.pipelines ...
  readySet,     \* ... and the names it maps to true
  received,     \* events.events, each event represented by the test it is of
  expected,     \* events.expected
  complete,     \* events.completeFirstTime
  caller,       \* control point of the caller
  op,           \* the operation it executes
  want,         \* its argument expectedEvents
  session,      \* number of the session
  testexec,     \* Session.testexec
  test,         \* test case sets executed so far on the instance
  results,      \* what GetResults returned last
  outcome,      \* whether it returned with an error
  logReader,    \* control point of the log processor
  markPending,  \* the log processor still has to report Mark for its line
  stdoutReader, \* control point of the stdout processor
  waiting,      \* completers in waitForState
  firing,       \* completers about to execute test-complete
  file,         \* names in pipelines.yml
  sighup,       \* Logstash has a SIGHUP to handle
  running,      \* Logstash's pipelines
  starting,     \* pipelines whose start is not logged yet
  announce,     \* "Pipelines running" is not logged yet
  log,          \* lines the log processor has not read
  stdout        \* events the stdout processor has not read

machine    == <<state, done>>
pipelines  == <<known, readySet>>
events     == <<received, expected, complete>>
request    == <<op, want, session, testexec, test>>
answer     == <<results, outcome>>
readers    == <<logReader, markPending, stdoutReader>>
completers == <<waiting, firing>>
logstash   == <<sighup, running, starting, announce, log, stdout>>
vars == <<machine, pipelines, events, caller, request, answer, readers,
          completers, file, logstash>>

CallerPoints == {"pooled", "session", "wait", "command", "write", "events",
                 "make", "fill", "signal", "check", "results", "late",
                 "destroy", "discarded"}

Names == BaseNames \cup (UNION {SutNames(s) : s \in 1..MaxSessions})
           \cup {InputName(n) : n \in 1..MaxTests} \cup {MarkName}

Line == [kind : {"started", "running"}, names : SUBSET Names]

TypeOK ==
  /\ state \in States /\ done \in BOOLEAN
  /\ known \subseteq Names /\ readySet \subseteq known
  /\ received \in Seq(Nat) /\ expected \in Nat /\ complete \in BOOLEAN
  /\ caller \in CallerPoints /\ op \in {"setup", "execute", "teardown"}
  /\ want \in Nat /\ session \in 0..MaxSessions /\ testexec \in 0..MaxTests
  /\ test \in Nat /\ results \in Seq(Nat) /\ outcome \in {"none", "ok", "error"}
  /\ logReader \in {"idle", "isReady", "command", "mark"}
  /\ markPending \in BOOLEAN /\ stdoutReader \in {"idle", "check"}
  /\ waiting \in Nat /\ firing \in Nat
  /\ file \subseteq Names /\ sighup \in BOOLEAN
  /\ running \subseteq Names /\ starting \subseteq Names
  /\ announce \in BOOLEAN /\ log \in Seq(Line) /\ stdout \in Seq(Nat)

\* NewController and Launch: the start command is executed, and the child
\* process reads pipelines.yml with the base pipelines.
Init ==
  /\ state = NextState("created", "start") /\ done = FALSE
  /\ known = BaseNames \cup {MarkName} /\ readySet = {}
  /\ received = << >> /\ expected = 0 /\ complete = FALSE
  /\ caller = "pooled" /\ op = "setup" /\ want = 0
  /\ session = 0 /\ testexec = 0 /\ test = 0
  /\ results = << >> /\ outcome = "none"
  /\ logReader = "idle" /\ markPending = FALSE /\ stdoutReader = "idle"
  /\ waiting = 0 /\ firing = 0
  /\ file = BaseNames
  /\ sighup = FALSE /\ running = BaseNames /\ starting = BaseNames
  /\ announce = TRUE /\ log = << >> /\ stdout = << >>

Execute(command) == state' = NextState(state, command) /\ UNCHANGED done

-----------------------------------------------------------------------------
(* The caller's operations *)

\* pool.Get hands out healthy controllers only.
SetupTest ==
  /\ caller = "pooled" /\ state # "unknown" /\ session < MaxSessions
  /\ caller' = "wait" /\ op' = "setup" /\ want' = 0
  /\ session' = session + 1 /\ testexec' = 0 /\ outcome' = "none"
  /\ UNCHANGED <<machine, pipelines, events, test, results, readers,
                 completers, file, logstash>>

ExecuteTest ==
  /\ caller = "session" /\ testexec < MaxTests
  /\ \E n \in Expected : want' = n
  /\ caller' = "wait" /\ op' = "execute" /\ outcome' = "none"
  /\ testexec' = testexec + 1 /\ test' = test + 1
  /\ UNCHANGED <<machine, pipelines, events, session, results, readers,
                 completers, file, logstash>>

Teardown ==
  /\ caller \in {"session", "destroy"}
  /\ caller' = "wait" /\ op' = "teardown" /\ want' = 0 /\ outcome' = "none"
  /\ UNCHANGED <<machine, pipelines, events, session, testexec, test, results,
                 readers, completers, file, logstash>>

\* The state each operation waits for, the command it then executes and the
\* pipelines it loads next to the base pipelines.
Goal    == [o \in {"setup", "execute", "teardown"} |->
              IF o = "setup" THEN "ready" ELSE "ready_for_test"]
Command == [setup |-> "setup-test", execute |-> "execute-test",
            teardown |-> "teardown"]

Loaded == CASE op = "setup"    -> SutNames(session)
            [] op = "execute"  -> SutNames(session) \cup {InputName(testexec)}
            [] op = "teardown" -> {}

\* Where an error or a success takes the caller.  Session.setupTest logs the
\* error of SetupTest and drops it; a failed ExecuteTest destroys the session;
\* a controller whose Teardown failed is not returned to the pool.
OnError   == [setup |-> "session", execute |-> "destroy",
              teardown |-> "discarded"]
OnSuccess == [setup |-> "session", execute |-> "check", teardown |-> "pooled"]

\* waitForState as AtomicStateMachine has it: g is the control point at which
\* the caller waits, the target state is the same for GetResults and Teardown.
Awaited == IF caller = "results" THEN "ready_for_test" ELSE Goal[op]

\* Faulty: the first wakeup is taken for the target state.
WaitDoneAnyState == state # "unknown" /\ UNCHANGED machine

WaitDone == state = Awaited /\ UNCHANGED machine
WaitFails ==
  /\ state # Awaited
  /\ \/ (done \/ state = "unknown") /\ UNCHANGED machine
     \/ "timeout" \in Faults /\ state' = "unknown" /\ UNCHANGED done

WaitForState ==
  /\ caller = "wait"
  /\ \/ WaitDone /\ caller' = "command"
     \/ WaitFails /\ caller' = OnError[op]
  /\ UNCHANGED <<pipelines, events, request, answer, readers, completers, file,
                 logstash>>

IssueCommand ==
  /\ caller = "command"
  /\ Execute(Command[op])
  /\ caller' = "write"
  /\ UNCHANGED <<pipelines, events, request, answer, readers, completers, file,
                 logstash>>

WritePipelines ==
  /\ caller = "write"
  /\ \/ file' = BaseNames \cup Loaded /\ caller' = "events"
     \/ "reload" \in Faults /\ caller' = OnError[op] /\ UNCHANGED file
  /\ UNCHANGED <<machine, pipelines, events, request, answer, readers,
                 completers, logstash>>

\* Faulty: the events of the last test are kept.
ResetEventsKeeps ==
  /\ caller = "events"
  /\ expected' = want /\ complete' = FALSE
  /\ caller' = "make"
  /\ UNCHANGED <<machine, pipelines, received, request, answer, readers,
                 completers, file, logstash>>

ResetEvents ==
  /\ caller = "events"
  /\ received' = << >> /\ expected' = want /\ complete' = FALSE
  /\ caller' = "make"
  /\ UNCHANGED <<machine, pipelines, request, answer, readers, completers, file,
                 logstash>>

\* pipelines.reset, in two steps because isReady does not take the mutex: it
\* may read the new map before any name is in it.
MakePipelines ==
  /\ caller = "make"
  /\ known' = {} /\ readySet' = {}
  /\ caller' = "fill"
  /\ UNCHANGED <<machine, events, request, answer, readers, completers, file,
                 logstash>>

FillPipelines ==
  /\ caller = "fill"
  /\ known' = Loaded \cup {MarkName}
  /\ caller' = "signal"
  /\ UNCHANGED <<machine, readySet, events, request, answer, readers, completers,
                 file, logstash>>

ConfigReload ==
  /\ caller = "signal"
  /\ \/ sighup' = TRUE /\ caller' = OnSuccess[op]
     \/ "reload" \in Faults /\ caller' = OnError[op] /\ UNCHANGED sighup
  /\ UNCHANGED <<machine, pipelines, events, request, answer, readers,
                 completers, file, running, starting, announce, log, stdout>>

\* Faulty: completeFirstTime is not recorded.
CheckCompleteEveryTime ==
  /\ waiting' = waiting + (IF expected = Len(received) THEN 1 ELSE 0)
  /\ UNCHANGED <<received, expected, complete, firing>>

\* events.isCompleteFirstTime and the goroutine checkComplete starts.
CheckComplete ==
  LET first == expected = Len(received) /\ ~complete IN
  /\ complete' = (complete \/ first)
  /\ waiting' = waiting + (IF first THEN 1 ELSE 0)
  /\ UNCHANGED <<received, expected, firing>>

GetResults ==
  /\ caller = "check"
  /\ CheckComplete
  /\ caller' = "results"
  /\ UNCHANGED <<machine, pipelines, request, answer, readers, file, logstash>>

AwaitResults ==
  /\ caller = "results"
  /\ \/ WaitDone /\ outcome' = "ok"
     \/ WaitFails /\ outcome' = "error"
  /\ caller' = "late"
  /\ UNCHANGED <<pipelines, events, request, results, readers, completers, file,
                 logstash>>

\* events.get, after the headroom for late arrivals if there was no error.
TakeEvents ==
  /\ caller = "late"
  /\ (Headroom /\ outcome = "ok") => (stdout = << >> /\ stdoutReader = "idle")
  /\ results' = received
  /\ caller' = "session"
  /\ UNCHANGED <<machine, pipelines, events, request, outcome, readers,
                 completers, file, logstash>>

-----------------------------------------------------------------------------
(* The goroutines started by checkComplete; they ignore the error of
   waitForState and execute test-complete in any case. *)

CompleterWaits ==
  /\ waiting > 0
  /\ \/ (state = "running_test" \/ done \/ state = "unknown") /\ UNCHANGED machine
     \/ /\ "timeout" \in Faults /\ state # "running_test"
        /\ state' = "unknown" /\ UNCHANGED done
  /\ waiting' = waiting - 1 /\ firing' = firing + 1
  /\ UNCHANGED <<pipelines, events, caller, request, answer, readers, file,
                 logstash>>

CompleterFires ==
  /\ firing > 0
  /\ Execute("test-complete")
  /\ firing' = firing - 1
  /\ UNCHANGED <<pipelines, events, caller, request, answer, readers, waiting,
                 file, logstash>>

-----------------------------------------------------------------------------
(* The log processor: PipelinesReady for each line, twice for a line
   "Pipelines running".  setReady takes the mutex of pipelines. *)

SetReady(names) ==
  /\ caller # "fill"
  /\ known' = known \cup names /\ readySet' = readySet \cup names

ReadLogLine ==
  /\ logReader = "idle" /\ log # << >>
  /\ SetReady(Head(log).names)
  /\ markPending' = (Head(log).kind = "running")
  /\ log' = Tail(log)
  /\ logReader' = "isReady"
  /\ UNCHANGED <<machine, events, caller, request, answer, stdoutReader,
                 completers, file, sighup, running, starting, announce, stdout>>

ReportMark ==
  /\ logReader = "mark"
  /\ SetReady({MarkName})
  /\ markPending' = FALSE
  /\ logReader' = "isReady"
  /\ UNCHANGED <<machine, events, caller, request, answer, stdoutReader,
                 completers, file, logstash>>

\* Faulty: a line "Pipelines running" does not report Mark.
AfterLineNoMark == "idle"

AfterLine == IF markPending THEN "mark" ELSE "idle"

\* pipelines.isReady, without the mutex.
IsReady ==
  /\ logReader = "isReady"
  /\ logReader' = IF known = readySet THEN "command" ELSE AfterLine
  /\ UNCHANGED <<machine, pipelines, events, caller, request, answer,
                 markPending, stdoutReader, completers, file, logstash>>

PipelineReady ==
  /\ logReader = "command"
  /\ Execute("pipeline-ready")
  /\ logReader' = AfterLine
  /\ UNCHANGED <<pipelines, events, caller, request, answer, markPending,
                 stdoutReader, completers, file, logstash>>

-----------------------------------------------------------------------------
(* The stdout processor: ReceiveEvent *)

ReceiveEvent ==
  /\ stdoutReader = "idle" /\ stdout # << >>
  /\ received' = Append(received, Head(stdout))
  /\ stdout' = Tail(stdout)
  /\ stdoutReader' = "check"
  /\ UNCHANGED <<machine, pipelines, expected, complete, caller, request, answer,
                 logReader, markPending, completers, file, sighup, running,
                 starting, announce, log>>

\* Faulty: ReceiveEvent does not check for completion.
CheckEventsNot ==
  /\ stdoutReader = "check"
  /\ stdoutReader' = "idle"
  /\ UNCHANGED <<machine, pipelines, events, caller, request, answer, logReader,
                 markPending, completers, file, logstash>>

CheckEvents ==
  /\ stdoutReader = "check"
  /\ CheckComplete
  /\ stdoutReader' = "idle"
  /\ UNCHANGED <<machine, pipelines, caller, request, answer, logReader,
                 markPending, file, logstash>>

\* SignalCrash, when stdout or stderr closes while the context is not done.
SignalCrash ==
  /\ "crash" \in Faults /\ ~done
  /\ Execute("crash")
  /\ UNCHANGED <<pipelines, events, caller, request, answer, readers, completers,
                 file, logstash>>

\* Kill, by SignalCrash or by the pool for an unhealthy instance, and the
\* daemon's shutdown: the context is cancelled.
Kill ==
  /\ ~done
  /\ state = "unknown" \/ "shutdown" \in Faults
  /\ done' = TRUE
  /\ UNCHANGED <<state, pipelines, events, caller, request, answer, readers,
                 completers, file, logstash>>

-----------------------------------------------------------------------------
(* Logstash, external.  One reload at a time; new pipelines are started, and
   the input pipeline of a test prints the test's events as it pleases. *)

\* A pipeline whose generator input prints a test's events.
IsInput(name) == \E n \in 1..MaxTests : name = InputName(n)

LogstashReload ==
  /\ sighup /\ ~announce
  /\ Orderly => starting = {}
  /\ sighup' = FALSE
  /\ running' = file
  /\ starting' = starting \cup (file \ running)
  /\ announce' = (file # running)
  /\ IF \E name \in file \ running : IsInput(name)
       THEN \E n \in (want - MaxMissing)..(want + MaxSurplus) :
              stdout' = stdout \o [i \in 1..n |-> test]
       ELSE stdout' = stdout
  /\ UNCHANGED <<machine, pipelines, events, caller, request, answer, readers,
                 completers, file, log>>

LogStarted ==
  /\ \E name \in starting :
       /\ log' = Append(log, [kind |-> "started", names |-> {name}])
       /\ starting' = starting \ {name}
  /\ UNCHANGED <<machine, pipelines, events, caller, request, answer, readers,
                 completers, file, sighup, running, announce, stdout>>

LogRunning ==
  /\ announce
  /\ Orderly => starting = {}
  /\ log' = Append(log, [kind |-> "running", names |-> running])
  /\ announce' = FALSE
  /\ UNCHANGED <<machine, pipelines, events, caller, request, answer, readers,
                 completers, file, sighup, running, starting, stdout>>

-----------------------------------------------------------------------------
CallerStep ==
  \/ WaitForState \/ IssueCommand \/ WritePipelines \/ ResetEvents
  \/ MakePipelines \/ FillPipelines \/ ConfigReload
  \/ GetResults \/ AwaitResults \/ TakeEvents
CompleterStep == CompleterWaits \/ CompleterFires
LogReaderStep == ReadLogLine \/ ReportMark \/ IsReady \/ PipelineReady
StdoutReaderStep == ReceiveEvent \/ CheckEvents
LogstashStep == LogstashReload \/ LogStarted \/ LogRunning

Next ==
  \/ SetupTest \/ ExecuteTest \/ Teardown
  \/ CallerStep \/ CompleterStep \/ LogReaderStep \/ StdoutReaderStep
  \/ SignalCrash \/ Kill
  \/ LogstashStep

Spec == Init /\ [][Next]_vars

\* The Go scheduler runs the goroutines, and a healthy Logstash handles its
\* signals and writes its log.  The client is free to stop between calls.
Fairness ==
  /\ WF_vars(CallerStep) /\ WF_vars(CompleterStep)
  /\ WF_vars(LogReaderStep) /\ WF_vars(StdoutReaderStep)
  /\ WF_vars(LogstashReload) /\ WF_vars(LogStarted) /\ WF_vars(LogRunning)

FairSpec == Spec /\ Fairness

-----------------------------------------------------------------------------
\* Between waitForState and executeCommand the mutex is free, yet an operation
\* of the session never issues its command in a state that is not the one it
\* waited for, unless the instance has become unhealthy in between
\* (controller.go: SetupTest, ExecuteTest, Teardown).
CommandInAwaitedState ==
  caller = "command" => state \in {Goal[op], "unknown"}

\* GetResults without an error returns at least the expected number of events,
\* and only events of the test just executed, as long as the instance is not
\* told to stop (controller.go: GetResults).
ResultsAreOfTheTest ==
  caller = "session" /\ outcome = "ok" /\ ~done =>
    /\ Len(results) >= want
    /\ \A i \in 1..Len(results) : results[i] = test

\* While the instance is healthy, at most one goroutine is out to complete a
\* test, and only while a test executes: none is left over for a later test
\* (controller.go: checkComplete).
NoStrayCompleter ==
  state # "unknown" /\ ~done =>
    /\ waiting + firing <= 1
    /\ waiting + firing = 1 => state \in {"executing_test", "running_test"}

\* A controller that takes itself for ready has a Logstash that runs what
\* pipelines.yml says.
ReadyMeansLoaded ==
  state \in {"ready", "ready_for_test", "running_test"} => running = file

\* Without a timeout, a crash, a shutdown or an I/O error no undefined
\* transition is taken: the instance does not become unhealthy by itself.
StaysHealthy == Faults = {} => state # "unknown"

\* isReady never reads the map while reset replaces it.
NoMapRace == logReader = "isReady" => caller \notin {"make", "fill"}

\* An unhealthy controller never becomes healthy again: the pool discards it
\* on the strength of one look at IsHealthy.  ImplementsService includes it, under
\* Headroom and Orderly; this needs neither.
UnknownIsFinal == [][state = "unknown" => state' = "unknown"]_vars

\* A test case set that expects events, all of which arrive, and perhaps some
\* more, is completed, and GetResults returns without an error.
ResultsReturned == caller = "session" /\ outcome = "ok"
TestCompletes == (caller = "check" /\ want > 0) ~> ResultsReturned

\* The same for a test case set that expects none, the special case for which
\* GetResults checks "if complete right away".  The code does not keep this: an
\* event that comes before that check makes the numbers differ for good.
EmptyTestCompletes == (caller = "check" /\ want = 0) ~> ResultsReturned

\* A session gets its pipelines loaded, and gives the instance back: reload, the
\* log lines about the pipelines and their set agree (SetupTest, Teardown).
SessionCompletes ==
  /\ (caller = "wait" /\ op = "setup") ~> (state = "ready_for_test")
  /\ (caller = "wait" /\ op = "teardown") ~> (caller = "pooled")

-----------------------------------------------------------------------------
(* The controller as its session sees it *)

At == CASE caller \in {"wait", "command", "write", "events"} -> "called"
        [] caller \in {"make", "fill", "signal"}             -> "asked"
        [] caller \in {"check", "results"}                   -> "testing"
        [] caller = "late"                                   -> "collecting"
        [] OTHER                                             -> caller

Wanted == BaseNames \cup (IF caller = "pooled" THEN {} ELSE Loaded)

\* What is written counts once the events are reset.
Asked == IF caller = "events" THEN running ELSE file

Service == INSTANCE ControllerService
             WITH Pipeline <- Names, MayFail <- Faults # {},
                  at <- At, wanted <- Wanted, asked <- Asked,
                  loaded <- running, sick <- state = "unknown", stopped <- done

\* State machine, map, log lines, goroutines and Logstash serve the operations of
\* a session one by one: a reload is asked for when the one before is finished,
\* the events received are of the test and come between its reload and their
\* collection, GetResults returns without an error only when all have come, and
\* an operation fails only if there are faults (controller.go: SetupTest,
\* ExecuteTest, GetResults, Teardown; session.go).
ImplementsService == Service!Spec

=================================================================================
