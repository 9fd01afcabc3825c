# A formal model of Logstash Filter Verifier

Logstash Filter Verifier (LFV) runs Logstash filter configurations against test
case files and compares the events that come out with the expected ones. This
directory holds TLA+ modules that model the program, TLC configurations that
model-check them on small instances, and proofs, checked by TLAPS, of theorems
that hold for every value of the constants. Paths below are relative to
`src/internal/` unless they start with `src/`.

## 1. Inventory of the system

LFV has two ways of working. *Daemon mode*: a daemon keeps up to two Logstash
processes running and reloads their pipelines for every test; a client talks to
it by gRPC over a Unix socket. *Standalone mode*: the program itself starts
Logstash, once per test case set, or once for all of them with `--sockets`.

| Component | State it keeps | Operations | What makes it hard |
|---|---|---|---|
| State machine (`daemon/controller/statemachine.go`) | `currentState`; mutex, condition variable, a ticker goroutine, a context | `executeCommand`, `waitForState` | timeouts only noticed on a broadcast; broadcasts without the mutex; cancellation |
| Logstash controller (`daemon/controller/controller.go`, `events.go`, `pipelines.go`) | the state machine, the events received, the map of pipelines that are ready | `SetupTest`, `ExecuteTest`, `GetResults`, `Teardown`, `ReceiveEvent`, `PipelinesReady`, `SignalCrash`, `Kill` | called from the session, two readers of Logstash's output, and goroutines it starts itself; state is read after a mutex was released |
| Pool (`daemon/pool/pool.go`) | slices `available` and `assigned` of controllers | `Get`, `Return`, housekeeping every second | the health of an instance changes behind the pool's back; the factory may fail |
| Session controller (`daemon/session/controller.go`) | the map of sessions, a condition variable, a WaitGroup, `finished` | `Create`, `Get`, `DestroyByID`, `WaitFinish` | one `Signal` per destroyed session; clients that die; shutdown in the middle |
| Session (`daemon/session/session.go`, `files.go`) | its controller, its files, `testexec`, the codecs of the inputs | `setupTest`, `ExecuteTest`, `GetResults`, `teardown` | failures half-way; addresses made in one call and used in another |
| Logstash instance (`daemon/instance/logstash/`) | a child process, its pipes, three reading goroutines, a shutdown goroutine, contexts | `Start`, `ConfigReload`, the readers | end of output means crash or expected end; `child.Wait` waits for a goroutine that copies stdin |
| Daemon (`app/daemon/daemon.go`) | the server, contexts, a WaitGroup of instances, the socket file | `Run`, RPC handlers, `shutdownSignalHandler` | two-stage shutdown with timers, second interrupts |
| Daemon client (`app/daemon/run/run.go`), shutdown client | the id of its session, the verdict | `SetupTest`, `ExecuteTest`*, `TeardownTest`, `postProcessResults` | deferred calls on every way out; the order of results that several pipelines print |
| Configuration files (`daemon/logstashconfig/file.go`), pipelines and mocks (`daemon/pipeline`, `daemon/pluginmock`) | the parsed files, `pipelines.yml` | `Validate`, `ApplyMocks`, `ReplaceInputs`, `ReplaceOutputs`, `ZipWithPreprocessor` | ids are checked per file; client and daemon each read `pipelines.yml` |
| Standalone mode (`app/standalone/standalone.go`) | verdict of the run | `Run`, `runTests`, `runParallelTests` | early returns with resources held |
| Parallel Logstash process (`logstash/parallel_process.go`) | per test case set a listener, a connection, a file, a goroutine | `NewTestStream`, `Write`, `Close`, `Start`, `Wait`, `Release` | the accepting goroutine against `Write` and `Close` |
| Logstash process (`logstash/process.go`) | a child process and a file | `NewProcess`, `Start`, `Wait`, `Release` | errors of the child |
| Test cases (`testcase/testcase.go`, `helper.go`) | a test case set per file | `New`, `parseAllBracketProperties`, `removeFields`, `Compare` | maps in random order; errors of `diff`, no events at all |
| Observer (`observer/summary.go`) | counts per file | `Start`, `Finalize` | a goroutine that subscribes by itself, and ends by a rendezvous |
| Invocation (`logstash/invocation.go`) | a temporary directory, two open files | `NewInvocation`, `Release` | failures half-way |

How they interact: an RPC handler of the daemon calls the session controller,
which takes a controller from the pool and gives it to a session. The session
calls the controller's operations, which wait for states of the state machine
and execute its commands. The instance's readers call back into the controller
for every log line and every event; the controller in turn writes
`pipelines.yml` and sends SIGHUP to the process. The daemon cancels one context
to make all instances stop and another one to kill them.

What makes them correct:

* state machine: a caller that waits for a state is not left waiting when the
  state was reached, and mutex and wait list are consistent;
* controller: results belong to the test that asked for them, a "ready" state
  agrees with what Logstash has loaded, commands come in the state they were
  waited for, a healthy Logstash is never declared unhealthy;
* pool and sessions: an instance serves one session at a time and is not lent
  again once given up; sessions are counted; waiting clients are served; the
  daemon's shutdown gets to the end of the sessions;
* instance: no event is lost, a crash is reported if and only if there is a
  cause, a process that was told to stop is reaped before it is released;
* daemon: it exits when asked to, removes its socket, and if it is not forced to
  exit leaves no handler and no process behind;
* test run: tests pass only if every set got exactly its events, the summary
  agrees with the exit status, what its deferred calls are there for is removed;
* data: an event enters the configuration where the test case says, leaves with
  the mark of the output it took, and the verdict is the one that the
  documentation of the test case files promises.

The hazards of the code, each at its line with the properties that would catch
it, are listed in `PROJECT.json` under `hazards`.

## 2. Modules

| Module | Models | Built on |
|---|---|---|
| `StateTransitions` | the transition table | |
| `AtomicStateMachine` | abstract: `waitForState` and `executeCommand` as single steps | `StateTransitions` |
| `StateMachine` | `statemachine.go` at the grain of mutex, condition variable, ticker and timers | `StateTransitions`; implements `AtomicStateMachine` |
| `ControllerService` | abstract: the operations, reloads, events and results of a controller as its session sees them | |
| `LogstashController` | one controller with its callers, readers and completers, and Logstash | `StateTransitions`, in the form of `AtomicStateMachine`; implements `ControllerService` |
| `Pool` | `pool.go`; each operation holds the mutex and is one action | |
| `InstanceLease` | abstract: exclusive leases of instances | |
| `SessionController` | session controller, RPC handlers and clients | extends `Pool`; implements `InstanceLease` |
| `InstanceLife` | abstract: the launch, the process and the release of one instance, as the daemon sees them | |
| `LogstashInstance` | one process with its goroutines, channels and contexts | implements `InstanceLife` |
| `DaemonShutdown` | the life of the daemon, its instances and handlers | allows its instances what `InstanceLife` does |
| `ParallelProcess` | the streams and the process of `--sockets` | |
| `SummaryObserver` | the goroutine of the summary | |
| `TestRun` | a run in any of the three modes, with comparison and exit status | extends `ParallelProcess`, `SummaryObserver` |
| `LogstashConfig` | the way of a configuration from the user's files to the pipelines of a session, as operators on plugins | |
| `TestCases` | test case files, their fields, the order of the results, as operators | |
| `DaemonTest` | a run of the daemon's client with its data, from the archive to the verdict | extends `LogstashConfig`, `TestCases` |
| `MCStateMachine`, `MCSessionController`, `MCDaemonShutdown` | model values, a target per waiter, symmetry | |
| `MCDaemonTest` | configurations, test case files and flags | |
| `StateMachineProofs`, `SessionControllerProofs`, `DaemonShutdownProofs`, `LogstashInstanceProofs`, `TestRunProofs`, `DaemonTestProofs` | theorems | the modules they are named for; the second is about `Pool` too |
| `LogstashControllerProofs`, `LogstashControllerSafety` | theorems about `LogstashController`: its types, commands and the unknown state; what reloads and tests keep, and the refinement of `ControllerService` | the first is extended by the second |

Operators whose comment begins with "Faulty" are wrong on purpose: plausible
bugs of the operator they stand beside. Each property that a run checks is
violated when one of them takes the place of the right one (the pairs are in
`PROJECT.json`, `mutants`), so that no property holds by the shape of the model.

### State and actions

**StateMachine.** `pc` gives each waiter a control point: `Call`, `Lock`,
`Unlock` (a look at `currentState`, the timer and the context with the mutex
held, then one of the returns or on to the wait), `Park` (`cond.Wait` enters the
wait list and frees the mutex in one step, as the Go documentation states).
`ExecuteCommand` takes the mutex, changes the state and broadcasts. The ticker
goroutine is `Tick`, `SeeDone`, `FinalBroadcast`: it broadcasts *without* the
mutex, which is why a waiter between its look and `Park` can miss it.
`TimerFires` sets a flag the waiter reads at its next look; the timer is part of
the waiter, not a wake-up.

**LogstashController.** `caller` is the control point of the session that owns
the controller. An operation is a sequence of steps at the places where the code
releases the mutex: wait for a state, execute the command, write the pipelines,
reset the events, make the map, fill it (two steps: `pipelines.reset` writes it
without a lock the readers would respect), send SIGHUP. The log processor takes a
line, marks the names in the map, asks `isReady`, and executes `pipeline-ready`;
the stdout processor appends an event and looks at the count. `CheckComplete`
starts a completer that waits for `running_test` and executes `test-complete`.
Logstash is external: it reloads on SIGHUP, logs a line per pipeline started and
one "Pipelines running", and prints the events of a test, each represented by the
number of the test it is of. Pipelines are pairs of a name and a session or input
number, as in the generated ids.

**ControllerService.** What is left of this when one sees only the calls, the
pipelines asked for and those that run, the events received and the results: a call
asks for its pipelines (`Ask`) when those asked for before are loaded, and returns
while Logstash still loads them (`Accepted`, `Load`); events are received; results
are ready when all have come (`ResultsReady`) and are collected a little later. With
faults a call may be refused at any point, and the instance becomes unhealthy for
good (`Sicken`) or is told to stop (`Stop`). The refinement mapping stands at the end
of `LogstashController` (`At`, `Wanted`, `Asked`): what is written to `pipelines.yml`
counts as asked for once the events are reset, since the session cannot be given
an event in between.

**Pool and SessionController.** The pool's variables are the sets `available`,
`assigned` and, of each instance, `health` and whether its process is alive.
Instances come from a fixed set and are never made twice. `SessionController`
names a session by the client that made it. The mutex of the session controller
is held through `setupTest` and `teardown`, which wait on Logstash: those are the
control points "setup" and "... teardown", sections that do not block are single
actions. A client may die between two calls (`Vanish`), calls fail in the ways of
`Faults`, `Sicken` makes an instance unhealthy at any time, and
`ShutdownRPC`/`WaitFinish`/`Broadcast`/`Drained` are the drain at shutdown.

**LogstashInstance.** One action for each blocking point of `Start`, of the three
processors, of `shutdownSignalHandler` and of the goroutine in which `os/exec`
copies stdin. `group` counts the WaitGroup of the processors, `cancelled` and
`killed` are the contexts. A scanner ends at the end of its stream or at a line
that is longer than its buffer, on stdout (`Choked`) or on stderr (`overlong`), and
the processor then reports a crash although the process goes on.

**DaemonShutdown.** `stage` is the control point of `shutdownSignalHandler`,
`server` that of the gRPC server. `launch` is the call of the factory that makes an
instance, with the mutex of the pool held, and `process` its Logstash: it is
started, gets SIGTERM when the context is cancelled, is killed or ends, and is
reaped. A launch that fails before or after the process is started leaves its `Add`
to the WaitGroup behind, and in the latter case the process. The steps of an
instance are those of `InstanceLife`.
Of the session controller there are two things. Its mutex: a handler runs, takes
it in `Create` or `DestroyByID` (`CallLocks`), holds it while it waits for Logstash,
and frees it (`CallUnlocks`), unless it is the waiter of finding 1 (`CallStuck`). After
the first signal shutdown is at "locking" until `WaitFinish` has got the mutex: the
`select` of the drain evaluates that call before it looks at the timer, at the
sessions or at a second SIGINT. And the channel `WaitFinish` returns, which closes at
some time or never: what makes it close is the subject of `SessionController`.

**ParallelProcess, SummaryObserver, TestRun.** `main` is the control point of the
main goroutine in all three modes. In the standalone ones it begins with
`NewInvocation`, whose failures leave what `Left` says, and ends with the deferred
`Release`; `temp` is what the invocation holds. In mode "sockets" each stream has an accepting
goroutine (`Accept`, `Assign`, `CloseListener`), a connection, a file, and a directory
with the socket (`dirs`), which `Cleanup` removes, since closing the listener does not
unlink the socket; lines
are routed to files by `tag`, the number in the event's metadata. `NewTestStream`
may fail in three ways: without its directory nothing is made; without a socket
`log.Fatalf` ends the program with the outcome "fatal", and nothing is released
(`ListenFails`); without its file the stream is forgotten by `runParallelTests`, which
cleans up those before it (`known`). In mode "stdin"
a process is started, fed, waited for and its output compared, set by set; its
temporary files stay open until `runTests` returns, since the deferred `Release`
is in a loop. In mode "daemon" the run is a sequence of calls with a deferred
`TeardownTest`. `CompareLengths` ... `CompareFails` are the ways through
`TestCaseSet.Compare`, one step per event since each is followed by an update that
the observer may read at once. The property of the go-observer library is a list
of values; an observer sees the one that is current when it subscribes and all
later ones.

**LogstashConfig, TestCases, DaemonTest.** Here the data is the subject. A file is
a name, a directory and a sequence of plugins; a plugin has a section, a name, an
id, a codec and an address. `ApplyMocks`, `Valid`, `AddMissingIDs`, `TrimBase`,
`ReplaceInput`, `ReplaceOutput` and `SessionPipelines` are functions of the code with
the same names. A set of fields is a function from paths to values, and what Go
reads from a map in random order is a set of outcomes (`ParseAllBracketProperties`).
That a file is refused by `New` is a part of the file (`wrong`): deprecated keys,
fields that `IsValid` refuses, lines that the codec "json_lines" cannot read.
`DaemonTest` has one action for each stage of the client: `BuildArchive`,
`DiscoverTests`, `SetupTest` (the daemon's side included), and for each test case set
`ExecuteTest`, `Arrive` and `CompareResults`. Logstash is external: events run from
the pipelines that listen to an address to those that listen to the addresses of
the outputs; `Printed` is what each output pipeline is to print, and `Arrive` takes
it from the output pipelines in any order of the pipelines. The
promise (`Promised`) is stated from the documentation of the test case files, on
the files as they are written, without the operators that read, merge, remove or
sort in the code;
`reach`, a part of the configuration, says which outputs an input leads to.

## 3. Runs

States are distinct states found by TLC with the bounds of the configuration.

| Run | Specification, states | Question and answer |
|---|---|---|
| `statemachine` | FairSpec, 3117 | Are calls of the state machine atomic, under every interleaving of two waiters, commands, ticker, timers and cancellation? Yes: `Exclusion`, `NoMissedTarget`, `ImplementsAtomic`; and `WaitReturns` while the context is not cancelled |
| `statemachine_shutdown` | FairSpec | Do waiters return after cancellation? No: finding 1 |
| `controller` | FairSpec, 20818 | Two sessions of two tests each with 0 to 2 expected events and up to one more than expected on a healthy Logstash: `ResultsAreOfTheTest`, `ReadyMeansLoaded`, `StaysHealthy`, `NoMapRace`, and every operation ends (`TestCompletes`, `SessionCompletes`) |
| `controller_faults` | Spec, 88181 | One session, two tests, with timeouts, crash, shutdown, failing reload, missing and additional events: `CommandInAwaitedState`, `NoStrayCompleter`, and it implements `ControllerService` (`ImplementsService`), where sickness is for good |
| `sessions` | Spec, 275218 up to symmetry | Three clients, four instances, a pool of two, two failures of health, every fault: `ExclusiveUse`, `NeverExhausted`, `SessionsCounted`, `ImplementsLease` |
| `sessions_live` | FairSpec, 43080 | Does every client that asks for a session get an answer, and does the drain end? `CreateReturns` and `FinishDrains` hold when the factory works and no setup fails |
| `sessions_leak` | FairSpec | ... and when a setup fails? No: finding 2 |
| `daemon` | FairSpec, 313184 | Two instances, one deaf to SIGTERM, two handlers that take the mutex of the session controller, two signals, all faults: `ShutdownCompletes` (or `WaitFinish` waits for good for a mutex whose holder is stuck), `SocketRemoved`, `InstancesCounted`, `CleanExit` |
| `instance` | FairSpec, 416492 | Two lines of output, a crash, over-long lines on stdout and stderr, failing start, shutdown and kill at any time: `NoEventLost`, `CrashHasCause`, `ReleasedMeansGone`, `CrashNoticed`, `StopsWhenTold`, and it implements `InstanceLife` (`ImplementsLife`) |
| `test_run` | FairSpec, 863664 | Two test case sets of one or two lines, expecting an event per line or none, in the three modes with all faults: `PassIsRight`, `SummaryIsRight`, `NothingLeftBehind`, `RunReturns` |
| `daemon_test` | Spec, 4309 | Eleven configurations with one or two pipelines, mocks, missing and double ids, `--logstash-config`; files with fields in every notation, ignored fields, exported metadata and outputs, `--debug`; the right expectation and wrong ones (an event missing, two exchanged, one changed); outputs that print in any order: `EntersWherePromised`, `LeavesMarked`, `FilesFound`, `FieldsAreOwn`, `VerdictIsRight` |
| `config_paths` | Spec | An absolute path below the base or the working directory: are its files found? No: finding 3 |

Why the bounds are enough to meet the interesting cases: two waiters are a
session and a completer, all that ever wait at once; two sessions are needed for
an event, a log line or a map entry of one to reach the next, two tests for a late
event; three clients compete for the two places of the session controller, so
that one waits while two finish; four instances let both of the pool be replaced;
two instances in the daemon let one be late; with two streams an event can go to
the wrong one, and with two lines a stream can fail between them. Every other
bound caps a number of failures or surplus events: `MaxFailures`, `MaxMissing`,
`MaxSurplus`, `MaxSignals` (two: the signal or call that starts the shutdown and the
second interrupt), `MaxLines`. In `daemon_test` two pipelines are the least
that can be connected, four lines are one per way an event can take (either
output, both with a clone, none), and two outputs with clones are needed for an
order to matter; the data is not varied further, since each line and field is
treated on its own.

The types of `StateMachine`, `LogstashController`, `LogstashInstance`, `DaemonShutdown` and `TestRun`
(`RunTypeOK`) are proved (section 5) and belong to no run.

`CHECK_DEADLOCK FALSE` is given where the program really stops: after the last
test, after the daemon's, the client's or the run's exit. In `StateMachine` the environment can
always go on, and the check for deadlock is on.

### Fairness

* Steps of goroutines that are ready to run: weak fairness; the Go scheduler runs
  every runnable goroutine, and a `select` with a case that stays ready takes it.
* `Lock` in `StateMachine`, and the handlers and clients' closing calls in
  `SessionController`, which need the mutex that others take again and again:
  strong fairness; a `sync.Mutex` hands over to a waiter that has starved for one
  millisecond. For the same reason `WaitFinish` in `DaemonShutdown`. There a handler
  that holds the mutex and is not stuck frees it at some time, by the timeouts of
  `waitForState`.
* Timers and tickers fire.
* Logstash: only where a run is about a healthy one (it reloads, logs what it
  started, takes the lines it is sent, ends at the end of its inputs). In
  `DaemonShutdown` and `LogstashInstance` nothing is assumed of it but that it ends
  when it is killed, in `LogstashInstance` also on SIGTERM.
* Never fair: clients' wish for a session, faults, interrupts, crashes.

### Assumptions on the environment

* `Headroom` (`LogstashController`): what Logstash prints is read within the wait
  for late arrivals (`waitForLateArrivalsTimeout`). With `FALSE` the properties
  `ResultsAreOfTheTest`, `NoStrayCompleter`, `StaysHealthy` and `ImplementsService` do not hold: only a
  sleep keeps the events of two tests apart.
* `Orderly` (`LogstashController`): Logstash logs "Pipeline started" of all
  pipelines before "Pipelines running". With `FALSE`, `NoMapRace`, `StaysHealthy`,
  `ReadyMeansLoaded`, `NoStrayCompleter` and `ImplementsService` do not hold. `CommandInAwaitedState` and
  `UnknownIsFinal` (no step leads out of "unknown") need neither and are proved without them.
* `Prompt` (`SummaryObserver`): the goroutine of the observer has subscribed before
  the first comparison, which comes seconds later. With `FALSE`, `SummaryIsRight`
  does not hold: results are missed, or stored in a nil map, which is a panic.
* `StableUpTo` (`TestCases`): `sort.Slice` keeps the order of equal elements in slices
  of up to twelve, for which it uses an insertion sort. With a smaller value
  `VerdictIsRight` does not hold: see section 4. `VerdictForgetsOrder` is about runs
  whose sets have no more events than that.
* `SavedAssumption` (`LogstashConfig`): `pluginIDSave` makes ids, which are numbers
  here, of ids.
* `NamesAssumption` (`LogstashController`): the name of the mark and of the input
  pipelines is none of the user's or the base pipelines', which the prefix "lfv_"
  and the session's id in the names ensure.
* `RunsAssumption` (`DaemonTest`): a run is a configuration with test case files, in
  the sense of `IsRun`: lists are sequences, a plugin has a section and a number for
  an id, a "pipeline" plugin or mock has an address, what the filters emit for a line
  is a list, and a codec makes a number of events of a line.
* `KeepsPaths`, `KeepsNames` (`LogstashConfig`), `TellsInputs` (`DaemonTest`): what users
  have to observe so that paths, outputs and inputs are not confused. They are
  hypotheses of the theorems about `DaemonTest`, not of its properties; the
  assumptions of `MCDaemonTest` state that they are true of the runs of `daemon_test`
  (of the last two, of those the client does not refuse). Each rules out something
  that goes wrong in the code: without `KeepsPaths` finding 3, without `KeepsNames`
  two outputs that share an address, without `TellsInputs` an id of an input in two
  pipelines, with the codec of the last (section 4).
* After the daemon's hard exit delay nothing more is expected of it: `CleanExit`
  is about exits that are neither forced nor hard.

## 4. Findings

1. `statemachine.go:90`: the final broadcast of the ticker goroutine is made
   without the mutex. A waiter that has looked at the context but not yet parked
   misses it, and sleeps forever (`ShutdownReleasesWaiters`).
2. `session/controller.go:72`: when `setupTest` fails, the session stays in the map
   and in the WaitGroup though no client knows its id; `WaitFinish` never ends and
   the place is lost (`FinishDrains` with the fault "setup").
3. `session.go:76`: the session joins its own directory with the path of a pipeline,
   also when that is absolute, while the client has taken the base path off the
   names of the files it packed, and without a base the working directory. A
   pipeline with an absolute path below either finds none of its files
   (`FilesFound`).

Promises that the code does not keep and that belong to no run. Stated in the
modules, with the reason in the comment:

* `UnhealthyIsStopped` (`Pool`): an instance returned unclean leaves the pool and is
  never killed; `HoldsInstances` (`Pool`): an error of the factory puts a nil
  controller into the pool.
* `NoNewSessions` and `NoForgottenWaiter` (`SessionController`), `NoOrphans` and
  `NoGhostCounted` (`DaemonShutdown`).
* `SecondInterruptExits` (`DaemonShutdown`): the `select` at `daemon.go:198` calls
  `WaitFinish`, which waits for the mutex of the session controller, before it looks
  at the timer and at a second Ctrl+C, whereas the log says "Press Ctrl+c again to
  exit immediately" (`daemon.go:189`). `Create` and `DestroyByID` hold the mutex through
  `setupTest` and `teardown`, as a rule not longer than a wait for a state takes. If
  `Serve` has failed and one of them has become the waiter of finding 1, the mutex is
  never freed, and the daemon ends neither by its timers nor by SIGINT or SIGTERM.
  `ShutdownCompletes` names this case.
* `EmptyTestCompletes` (`LogstashController`): no event is expected, but one comes.
* `StopsWhenTold` (`LogstashInstance`) with the fault "tail": an error of
  `TailFile` leaves the process and its readers.
* `RunReturns` (`TestRun`) with `MinLines = 0`: `Close` does nothing while the
  accepting goroutine has not stored the connection, and for a set without input
  lines Logstash then waits for an end of input that never comes.
* `GarbageIsReported` and `NoOrphan` (`TestRun`): `Wait` overwrites the error of an
  earlier stream; after an error of `Write` the child process is left alone.
  `NewInvocation` leaves a file open when the settings cannot be copied (`Left`).
* `NoStreamForgotten` (`TestRun`): a stream that cannot listen ends the program with
  `log.Fatalf` (`parallel_process.go:54`), without the cleanup of the streams before it
  and without `Release`; one that gets no temporary file leaves its directory, its
  socket and its goroutine. `NothingLeftBehind` is about the streams in `testStreams`
  of runs that `log.Fatalf` does not end.

Seen in the data, outside of the conditions under which `VerdictIsRight` and
`LeavesMarked` are stated or of the instances of `daemon_test`:

* The order of an event and its clones (README, "Clone (Filter)") rests on a sort
  that is not stable for more than twelve results (`Sorted`).
* Ids are unique in a file only, as the comment at `run.go:102` says: with the same
  id in two files, or with two that `pluginIDSave` makes the same ("a-b" and "a_b"),
  two outputs share an address and two pipelines an id. So do the outputs of a
  file that two pipelines' paths match.
* Keys of which one is a prefix of another ("[a]" and "[a][b]") are read in the
  order of a Go map: one wins, or a type assertion fails.
* A codec that makes more or less than one event of a line shifts the fields to
  other events, which are found by number; the tag `lfv_fields_not_found`, with
  which Logstash marks events without, is not removed from the results.
* The nested keys of `pipelines.yml` are read by the client (`ProcessNestedKeys`) and
  not by the daemon (`ReadPipeline`).
* Expected events are put through the bracket fields before they are filled in
  (`testcase.go:144`), so that brackets in them are taken literally.

## 5. Proofs

All for arbitrary constants under the assumptions the modules name. TLC was used
to find each invariant before it was proved.

* **State machine.** `TypeInvariance` is the type invariant, and `MutualExclusion` is
  inductive with it.
  `NoLostStateChange`: a waiter that is parked, or has decided to park, has not
  missed its target, because every command broadcasts with the mutex held, and the
  waiter holds it from its look until it is on the wait list. `Refinement` maps
  `pc` to idle, waiting and returned, and shows that each step is a step of
  `AtomicStateMachine` or a stutter; this justifies the atomic form in
  `LogstashController`.
* **Controller.** `CommandsAreTimely`: the mutex is free between `waitForState` and
  `executeCommand`. The property is inductive with the type of `op` because of a
  fact about the table: in "ready" and "ready_for_test", the states callers wait
  for, the commands of all other actors change nothing or lead to "unknown"
  (`UninvitedIsHarmless`). `UnhealthyForGood` (`UnknownIsFinal`, which no run lists as
  `ImplementsService` includes it): no command leads out of "unknown". `ControllerTypes` proves the types, with `Types`, their inductive form. On it rest
  the other invariants that the runs check (`LogstashControllerSafety`). `LoadInv` says how far a reload
  is: in a state in which an operation may begin, Logstash has nothing left to do
  and the log processor nothing left to read (`Idle`), and this stays so until the
  caller signals the next reload; from then on the mark is not ready before the
  last line of that reload has been read. It needs `Orderly` and no more, and gives
  `ReadyIsLoaded` and `MapIsNotRaced` for any faults. With `Headroom` in addition,
  `TestsInv` follows a test: while the instance is healthy, at most one completer is
  out and it belongs to the test that executes (`CompleterInv`), between two tests no
  event is left in the output, and the only reload that starts an input pipeline is
  that of a test (`DrainInv`); from the reset of the events on, all that come are of
  the test (`OwnInv`); a test leaves "executing" and "running" by its completion only
  (`ProgressInv`). From it follow `CompletersAreOfTheTest`, `ResultsAreOwn`, for which
  `ResultInv` keeps what was collected even if the instance fails afterwards, and
  `HealthIsKept`: without faults no pair outside of the transition table occurs.
  `ServiceRefinement` puts these together: what the controller does is, for its
  session, a behaviour of `ControllerService`. It needs two invariants more. `PastInv`:
  no event in the output is of a test to come. `ArrivalInv`: what was written last is
  loaded before it is replaced, events come after the reload of their test, and
  after a collection without an error none are left, also when the instance has
  failed since. Each step of the ten actors then is one of the service or a stutter
  (`ServiceCalls`, `ServiceProceeds`, `ServiceResults`, `ServiceReceives`,
  `ServiceLoads`), or hides everything but the loss of health (`HiddenStep`). Without
  faults `MayFail` is false, and the theorem says that no operation fails.
* **Instance.** The invariant says how the control points of `Start`, the processors
  and the shutdown handler go together, that the WaitGroup counts the processors
  that are not done, and what ends a scanner: the end of the process, or an over-long
  line on its own stream. From it `InstanceTypes`,
  `ReleaseIsLast` and `CrashIsReal`. `EventsArrive` needs `Kept` in addition: the pipe
  holds the last lines, without a gap, and what was received are the events among
  those before it, in order; and stdout is given up only with the pipe empty and the
  process gone. Once the context is cancelled `child.Wait` may close the pipe
  under the scanner, which is why nothing is claimed from then on.
  `LifeRefinement` maps control points to what the daemon sees of an instance, a
  launch and a process, and shows that every step is a step of `InstanceLife` or a
  stutter: in particular that, however its goroutines interleave, `Done` of the
  daemon's WaitGroup is called at most once, and not before the process has ended.
* **Pool.** `PoolIsBounded`: the slices are disjoint, finite and together at most
  `maxControllers`, for any order of operations. What an operation does is stated
  in one lemma each (`GetStep`, `ReturnStep`, `HousekeepingStep`, ...), on which the
  proofs of the next component rest.
* **Sessions.** `SessionInv` is the types, `PoolInv`, `Registered` (control points
  agree with the map), `Counted` (the WaitGroup is the size of the map) and
  `Leased` (sessions hold instances of their own that the pool does not offer, and
  all that the pool holds for assigned is held by a session). The last part is what
  exclusiveness needs: `Return` puts back only what is in `assigned`, so housekeeping
  may remove an instance from under a session. From it follow `Exclusive`,
  `SessionCount`, `SessionPoolBound`, `PoolSuffices` (for pools of at least two), and
  `LeaseRefinement`, with the mapping: a client uses the controller of its session,
  the good instances are those in either slice, the started ones those not fresh.
* **Daemon.** `DaemonInv` is the types, `Counting` (the WaitGroup is the number of
  launches whose instance has not called `Done`, which include all processes that are
  to be reaped), `Stage` (what the second stage of shutdown, and only it, brings
  about) and `Seen` (what the handler has seen is the case). From it `NoEarlyWaitEnd`,
  `NoSocketLeft` and `ExitIsClean`. `EveryLifeIsMet` is the other half of the
  refinement above: a step that `InstanceLife` allows an instance is one that
  `DaemonShutdown` allows it. Together they carry the theorems about the daemon over
  to the instances of `LogstashInstance`, which may be killed or told to stop at any
  time and so do not depend on when the daemon does it.
* **Test run.** The three modes share variables, so `RunInv` first says which control
  points belong to which (`ModeOK`, `CurOK`) and which part of the work is done at each:
  `Fed` are the streams that were sent completely, `Judged` the sets that were
  compared, as functions of the control point. `LeftInv` follows what is to be
  removed, directories of sockets included, on every way but that of `log.Fatalf`, and
  gives `NothingStays`. `SentInv` says that every stream that is fed has
  got all of its lines and that Logstash has processed what it read when it ended;
  with `JudgedInv`, that as long as nothing has failed every judged set got the events
  it wants, it gives `VerdictIsEarned`. `UpdatesInv` gives the order of the updates the
  observer's property has had, `ToldInv` relates them to the sets judged so far and
  to the verdict, and `ObserverInv` says what the goroutine of the summary has read and
  counted of them at each of its points; they give `SummaryAgrees`. That theorem has
  the hypothesis `Prompt`, a constant of the model: without it the code loses results
  (section 3). `RunTypes` is part of the same invariant.

* **Data of a run.** `DaemonTestProofs` is about what the client and the daemon
  compute of a configuration: for any number of files, pipelines, plugins, mocks and
  test cases. The operators are built on `FlattenSeq`, which is a recursive function.
  What is true of it is proved without a theorem of induction: among the numbers for
  which a statement is false one is least (`Least`, from `WFMin`), and that cannot be
  (`UpTo`). In this way the elements of a concatenation are those of its parts
  (`FlattenElements`), distinct ids in the parts stay distinct (`FlattenIdsDiffer`),
  and lists of equal lengths flatten to lists of equal lengths (`FlattenLengths`). On
  these rest a lemma for each operator: `ArchiveIs`, `ArchiveFile` (what is packed, and
  that it has ids), `TrimmedDir` (the base is taken off once), `ExternalAre`,
  `OutputsOfFiles`, `SessionPipelinesAre`, `CodecOf`. The invariants are short, since the
  data does not change once it is made: `DataInv` (archive and session are those of
  the configuration, `DataOfTheRun`) and `TestsInv` (sets are read from the files in
  their order, the queues are those of output pipelines). From them `DataTypes`;
  `FilesAreFound`, because with `KeepsPaths` the path a pipeline is given in the session
  is the directory the client packed its files under; `OutputsAreMarked`, because the
  address of an output is heard by the pipeline made for it and, with `KeepsNames`, by
  no other (`OutputHasPipeline`, `OnlyItsPipeline`); and `EventsEnter`, because with
  `TellsInputs` the files of one pipeline only have the input, by `FilesAreFound` that
  pipeline reads them in the session, and the codec kept for the id is that of the
  input (`InputsByPath`, `CodecOf`).

  *The order of the results.* The client collects what the output pipelines print
  in whatever order it comes, sorts it by line and output, and compares.
  `SortIsStable` says what the sort does to a list of any length; it is proved with the
  place of an event, the number of events that are not after it: the places are
  distinct (`PlacesDiffer`) and therefore all taken (`PlacesTaken`, with
  `FS_Injection`). `OrderInv` says that the results at hand are an interleaving of what
  was printed so far (`Arrived`, `Weave`; `ArrivedNext` is the step for `Arrive`). Two
  interleavings of the same queues sort alike (`OrdersSortAlike`, by
  `SortForgetsOrder`): events of different queues differ in their mark, which is where
  `KeepsNames` is needed (`MarksDiffer`), and those of one queue come in its order.
  From this `VerdictForgetsOrder`: a run passes if and only if the results of each set
  are right in every order, and if and only if they are right in some order. Its
  hypotheses are `KeepsNames`, for runs that are not refused, and at most `StableUpTo`
  events in a set (`FewEvents`); without the second an event and its clones may change
  places (section 4).

  *The fields of the events.* Lines and fields of a set leave the client as two lists,
  go to Logstash in two files, and are put together there by a counter.
  `FieldsComeToTheirLines` says that each event has the line and the fields of its own
  test case. `FlattenAlike` is the lemma behind it: two lists of lists of the same
  lengths flatten so that what is at a place of one comes from where it comes from in
  the other. With `LinesOf`, the list of the places themselves, it tells for each number
  which line of which test case has it (`LinesAreOwn`). A codec that makes one event of
  a line leaves the numbers as they are (`DecodedAre`, with `FlattenSingles`), and the
  filters in front of the configuration set these fields (`GeneratorSets`,
  `MergedFields`). The invariant `OwnInv` carries this from what is printed
  (`PrintedAre`) through `Arrive` to the results.

Checked by TLC only: liveness under fairness (`WaitReturns`, `TestCompletes`,
`SessionCompletes`, `CreateReturns`, `FinishDrains`, `ShutdownCompletes`,
`CrashNoticed`, `StopsWhenTold`, `RunReturns`) and everything with ENABLED, which are
out of the prover's reach; and of the invariants `VerdictIsRight`. Two parts of it are
proved: that the verdict does not depend on the order of arrival
(`VerdictForgetsOrder`), and that lines and fields come to their own events
(`FieldsComeToTheirLines`). What is left is the comparison with a promise stated
without the operators of the code: the reading of keys in brackets and the removal of
ignored fields, which are folds over maps in any order, whose result for every input
would need induction over data throughout.

## 6. Not modelled

* The parsers and the formats: Logstash configurations, YAML, JSON, zip, globs. The
  modules begin with the parsed file and the list of files a path matches. Text of
  generated pipelines is modelled by what Logstash does with it.
* `logstash/invocation.go` beyond its failures and what they leave: arguments,
  environment, copied files, the detection of the version; the search for Logstash
  in `standalone.go`. Sequential formatting and I/O.
* Of `testcase/testcase.go` the search for files, the output of `diff`, and the codec
  "json_lines", for which lines are rewritten, beyond the refusal of a line.
* Of `run.go` the warning about quotes in input lines and the temporary directory of
  the implicit pipeline.
* `app/setup` (download of a distribution), flags, logging, generated gRPC code.
* Time: durations are not modelled, only the order of timers and what they race
  with. Except in `DaemonTest`, the contents of events and lines: an event is the
  test or set it belongs to. In `DaemonTest` in turn calls do not fail and events
  do not come late, which is the subject of the other modules.

## 7. Plan

1. Done: state machine, controller, pool, sessions, daemon, instance, test run, in
   this order, most important first, with theorems about all of them; the data of the
   daemon mode, from the configuration to the verdict; the instance of the daemon
   (`InstanceLife`), implemented by `LogstashInstance`.
2. Done: an abstract specification of the controller as a session sees it
   (`ControllerService`), implemented by `LogstashController`; theorems about the data
   of the daemon mode, up to the outputs of Logstash.
3. Done: theorems about the sort of the results, the order of their arrival, and the
   fields of the events. Left of `VerdictIsRight`: fields in brackets and ignored ones
   (`ParseAllBracketProperties`, `RemoveFields`).
4. The instance that `LogstashController` assumes (lines and events in the order in
   which Logstash prints them) against `NoEventLost` of `LogstashInstance`.
5. The data of the standalone mode: `pipelineconfigdir.go`, the codec "json_lines",
   the arguments of the invocation.
