------------------------ MODULE LogstashControllerSafety ------------------------
(***************************************************************************)
(* Safety of LogstashController for any pipelines, any number of sessions, *)
(* tests and events, and any faults.  Two things are assumed of Logstash   *)
(* where a theorem needs them: Orderly, that it logs the start of its      *)
(* pipelines before it logs that they run, and Headroom, that what it has  *)
(* printed is read within the wait for late arrivals.                      *)
(*                                                                         *)
(* The invariant says how far a reload is.  When the controller is in a    *)
(* state in which an operation may begin, Logstash has nothing left to do  *)
(* and the log processor nothing left to read (Idle); this remains so      *)
(* until the caller has signalled the next reload.  From then on the mark  *)
(* is not ready before the last line of that reload has been read.         *)
(*                                                                         *)
(* The second half follows a test: while the instance is healthy, at most  *)
(* one completer is out and it is of the test that executes, and between   *)
(* two tests no event is left in Logstash's output (CompleterInv, TestInv).*)
(* What GetResults has taken stays right even if the instance fails after  *)
(* it (ResultInv).                                                         *)
(***************************************************************************)
EXTENDS LogstashControllerProofs

Reloading == {"command", "write", "events", "make", "fill", "signal"}
Issued    == Reloading \ {"command"}

Settled == ~sighup /\ starting = {} /\ ~announce /\ log = << >> /\ ~markPending
Idle    == Settled /\ logReader = "idle"

\* The state a command leads to from the state it is meant for.
Stage == [setup |-> "setting_up_test", execute |-> "executing_test",
          teardown |-> "started"]

-----------------------------------------------------------------------------
(* The names Logstash knows do not include the mark *)

Unmarked(names) == MarkName \notin names

NoMark ==
  /\ Unmarked(file) /\ Unmarked(running) /\ Unmarked(starting)
  /\ \A i \in 1..Len(log) : Unmarked(log[i].names)

LEMMA LoadedUnmarked ==
  ASSUME op \in {"setup", "execute", "teardown"}
  PROVE  Unmarked(BaseNames \cup Loaded)
<1>1. \A a, b, m, n : <<a, m>> = <<b, n>> => a = b
  OBVIOUS
<1>2. Unmarked(BaseNames)
  BY <1>1, NamesAssumption DEF Unmarked, MarkName, BaseNames
<1>3. Unmarked(SutNames(session))
  BY <1>1, NamesAssumption DEF Unmarked, MarkName, SutNames
<1>4. MarkName # InputName(testexec)
  BY <1>1, NamesAssumption DEF MarkName, InputName
<1> QED
  BY <1>2, <1>3, <1>4 DEF Unmarked, Loaded

\* Reading a line.
LEMMA ReadFacts ==
  ASSUME log \in Seq(Line), log # << >>
  PROVE  /\ Len(log) \in Nat /\ Len(log) >= 1
         /\ Tail(log) \in Seq(Line) /\ Len(Tail(log)) = Len(log) - 1
         /\ Head(log) = log[1]
         /\ \A i \in 1..Len(Tail(log)) : Tail(log)[i] = log[i + 1]
         /\ Len(log) = 1 => Tail(log) = << >>
<1>1. Len(log) \in Nat /\ Len(log) >= 1
  <2>1. Len(log) \in Nat
    BY LenProperties
  <2>2. Len(log) # 0
    BY EmptySeq
  <2> QED
    BY <2>1, <2>2
<1>2. /\ Tail(log) \in Seq(Line) /\ Len(Tail(log)) = Len(log) - 1
      /\ Head(log) = log[1]
      /\ \A i \in 1..Len(Tail(log)) : Tail(log)[i] = log[i + 1]
  BY HeadTailProperties
<1>3. Len(log) = 1 => Tail(log) = << >>
  <2>1. Tail(log) # << >> => Len(Tail(log)) # 0
    BY <1>2, EmptySeq
  <2> QED
    BY <1>2, <2>1
<1> QED
  BY <1>1, <1>2, <1>3

\* Writing a line.
LEMMA WriteFacts ==
  ASSUME log \in Seq(Line), NEW line \in Line, log' = Append(log, line)
  PROVE  /\ Len(log) \in Nat /\ Len(log') = Len(log) + 1
         /\ \A i \in 1..Len(log) : log'[i] = log[i]
         /\ log'[Len(log) + 1] = line
BY AppendProperties, LenProperties

LEMMA NoMarkStep ==
  ASSUME PointsOK, NamesOK, NoMark, [Next]_vars
  PROVE  NoMark'
<1> USE DEF NoMark, logstash
<1>1. CASE SetupTest \/ ExecuteTest \/ Teardown
  BY <1>1 DEF SetupTest, ExecuteTest, Teardown
<1>2. CASE CallerStep
  <2>1. CASE WritePipelines
    BY <2>1, LoadedUnmarked DEF WritePipelines, PointsOK
  <2> QED
    BY <1>2, <2>1
       DEF CallerStep, WaitForState, IssueCommand, ResetEvents, MakePipelines,
           FillPipelines, ConfigReload, GetResults, AwaitResults, TakeEvents
<1>3. CASE CompleterStep \/ StdoutReaderStep
  BY <1>3 DEF CompleterStep, CompleterWaits, CompleterFires, StdoutReaderStep,
              ReceiveEvent, CheckEvents
<1>4. CASE LogReaderStep
  <2>1. CASE ReadLogLine
    BY <2>1, ReadFacts DEF ReadLogLine, NamesOK
  <2> QED
    BY <1>4, <2>1 DEF LogReaderStep, ReportMark, IsReady, PipelineReady
<1>5. CASE SignalCrash \/ Kill
  BY <1>5 DEF SignalCrash, Kill
<1>6. CASE LogstashStep
  <2>1. CASE LogstashReload
    BY <2>1 DEF LogstashReload, Unmarked
  <2>2. CASE LogStarted
    <3>1. PICK name \in starting : /\ log' = Append(log, [kind |-> "started", names |-> {name}])
                                   /\ starting' = starting \ {name}
      BY <2>2 DEF LogStarted
    <3>2. [kind |-> "started", names |-> {name}] \in Line
      BY <3>1 DEF Line, NamesOK
    <3>3. \A i \in 1..Len(log') : Unmarked(log'[i].names)
      BY <3>1, <3>2, WriteFacts DEF NamesOK, Unmarked
    <3> QED
      BY <2>2, <3>1, <3>3 DEF LogStarted, Unmarked
  <2>3. CASE LogRunning
    <3>1. [kind |-> "running", names |-> running] \in Line
      BY DEF Line, NamesOK
    <3>2. \A i \in 1..Len(log') : Unmarked(log'[i].names)
      BY <2>3, <3>1, WriteFacts DEF LogRunning, NamesOK, Unmarked
    <3> QED
      BY <2>3, <3>2 DEF LogRunning
  <2> QED
    BY <1>6, <2>1, <2>2, <2>3 DEF LogstashStep
<1>7. CASE UNCHANGED vars
  BY <1>7 DEF vars
<1> QED
  BY <1>1, <1>2, <1>3, <1>4, <1>5, <1>6, <1>7 DEF Next

-----------------------------------------------------------------------------
(* How far the reload is *)

\* The log processor and what it still has to report.
ReaderInv ==
  /\ logReader = "mark" => markPending
  /\ logReader = "idle" => ~markPending
  /\ markPending => log = << >> /\ ~announce /\ starting = {} /\ ~sighup
  /\ logReader = "command" => MarkName \in readySet

\* Logstash reloads when all is read, and logs "Pipelines running" last.
LogInv ==
  /\ sighup => starting = {} /\ ~announce /\ log = << >> /\ logReader = "idle"
  /\ \A i \in 1..Len(log) :
       log[i].kind = "running" => i = Len(log) /\ ~announce /\ starting = {}
  /\ ~Idle /\ ~sighup => running = file

\* The mark is ready only after the last line.
MarkInv ==
  /\ MarkName \in known \/ caller = "fill"
  /\ MarkName \in readySet => Settled
  /\ caller \in {"fill", "signal"} => readySet = {}

\* The states in which an operation begins, and those in which it reloads.
StateInv ==
  /\ caller = "command" => state \in {Goal[op], "unknown"}
  /\ caller \in Issued => state \in {Stage[op], "unknown"}
  /\ state # "created"
  /\ caller \in Reloading => Idle
  /\ state \in {"ready", "ready_for_test", "running_test"} => Idle /\ running = file

LoadInv == ReaderInv /\ LogInv /\ MarkInv /\ StateInv

\* A command in the state it is meant for, and in the unknown state.
LEMMA CommandState ==
  \A o \in {"setup", "execute", "teardown"} :
    /\ NextState(Goal[o], Command[o]) = Stage[o]
    /\ NextState("unknown", Command[o]) = "unknown"
    /\ Goal[o] \in {"ready", "ready_for_test"}
    /\ Stage[o] \in {"setting_up_test", "executing_test", "started"}
BY DEF NextState, Goal, Command, Stage

\* Steps of those who have nothing to do with a reload.
LEMMA OthersLoad ==
  ASSUME PointsOK, LoadInv, UNCHANGED <<pipelines, caller, op, logReader, markPending, file,
                              sighup, running, starting, announce, log>>,
         state' = state \/ state' = "unknown"
           \/ (state = "running_test" /\ state' = "ready_for_test")
  PROVE  LoadInv'
<1> USE DEF LoadInv, pipelines
<1>1. ReaderInv'
  BY DEF ReaderInv
<1>2. LogInv'
  BY DEF LogInv, Idle, Settled
<1>3. MarkInv'
  BY DEF MarkInv, Settled
<1>4. Idle' = Idle
  BY DEF Idle, Settled
<1>5. StateInv'
  <2>1. state # "created" /\ state' # "created"
    BY DEF StateInv
  <2>2. caller = "command" => state' \in {Goal[op], "unknown"}
    BY CommandState DEF StateInv, PointsOK
  <2>3. caller \in Issued => state' \in {Stage[op], "unknown"}
    BY CommandState DEF StateInv, PointsOK
  <2>4. state' \in {"ready", "ready_for_test", "running_test"} => Idle /\ running = file
    BY DEF StateInv
  <2> QED
    BY <1>4, <2>1, <2>2, <2>3, <2>4 DEF StateInv, Issued, Reloading
<1> QED
  BY <1>1, <1>2, <1>3, <1>5

\* test-complete and crash.
LEMMA CompleteState ==
  \A s \in States :
    /\ NextState(s, "test-complete") \in {s, "unknown"}
         \/ (s = "running_test" /\ NextState(s, "test-complete") = "ready_for_test")
    /\ NextState(s, "crash") = "unknown"
BY DEF NextState, States

\* Where the caller goes.
LEMMA CallerGoes ==
  \A o \in {"setup", "execute", "teardown"} :
    /\ OnError[o] \in {"session", "destroy", "discarded"}
    /\ OnSuccess[o] \in {"session", "check", "pooled"}
BY DEF OnError, OnSuccess

LEMMA LoadCaller ==
  ASSUME PointsOK, LoadInv, CallerStep
  PROVE  LoadInv'
<1> USE DEF PointsOK, LoadInv, ReaderInv, LogInv, MarkInv, StateInv, Idle, Settled,
            Reloading, Issued, machine, pipelines, events, request, answer, readers,
            completers, logstash
<1>1. CASE WaitForState
  <2>1. CASE WaitDone /\ caller' = "command"
    BY <1>1, <2>1, CommandState DEF WaitForState, WaitDone, Awaited
  <2>2. CASE WaitFails /\ caller' = OnError[op]
    BY <1>1, <2>2, CallerGoes DEF WaitForState, WaitFails
  <2> QED
    BY <1>1, <2>1, <2>2 DEF WaitForState
<1>2. CASE IssueCommand
  BY <1>2, CommandState DEF IssueCommand, Execute
<1>3. CASE WritePipelines
  BY <1>3, CommandState, CallerGoes DEF WritePipelines
<1>4. CASE ResetEvents
  BY <1>4 DEF ResetEvents
<1>5. CASE MakePipelines
  BY <1>5, CommandState DEF MakePipelines
<1>6. CASE FillPipelines
  BY <1>6, CommandState DEF FillPipelines
<1>7. CASE ConfigReload
  BY <1>7, CommandState, CallerGoes DEF ConfigReload
<1>8. CASE GetResults \/ TakeEvents
  BY <1>8 DEF GetResults, TakeEvents
<1>9. CASE AwaitResults
  BY <1>9 DEF AwaitResults, WaitDone, WaitFails
<1> QED
  BY <1>1, <1>2, <1>3, <1>4, <1>5, <1>6, <1>7, <1>8, <1>9 DEF CallerStep

LEMMA LoadReader ==
  ASSUME PointsOK, NamesOK, NoMark, LoadInv, LogReaderStep
  PROVE  LoadInv'
<1> USE DEF LoadInv, ReaderInv, LogInv, MarkInv, StateInv, Idle, Settled, machine,
            pipelines, readers, logstash
<1>1. CASE ReadLogLine
  <2> HIDE DEF ReaderInv, LogInv, MarkInv, StateInv
  <2>1. /\ log \in Seq(Line) /\ log # << >> /\ Len(log) >= 1
        /\ Unmarked(Head(log).names)
    BY <1>1, ReadFacts DEF ReadLogLine, NamesOK, NoMark
  <2>2. ~sighup /\ caller \notin Reloading /\ MarkName \notin readySet
        /\ state \notin {"ready", "ready_for_test", "running_test"} /\ running = file
    <3>1. ~Settled /\ ~Idle
      BY <2>1
    <3>2. ~sighup
      BY <2>1 DEF LogInv
    <3> QED
      BY <3>1, <3>2 DEF StateInv, MarkInv, LogInv
  <2>3. MarkName \notin readySet' /\ (MarkName \in known' \/ caller' = "fill")
    BY <1>1, <2>1, <2>2 DEF ReadLogLine, SetReady, Unmarked, MarkInv
  <2>4. markPending' => log' = << >> /\ ~announce /\ starting = {}
    <3> SUFFICES ASSUME markPending' PROVE log' = << >> /\ ~announce /\ starting = {}
      OBVIOUS
    <3>1. log[1].kind = "running" /\ log' = Tail(log)
      BY <1>1, <2>1, ReadFacts DEF ReadLogLine
    <3>2. 1 \in 1..Len(log)
      BY <2>1, ReadFacts
    <3>3. Len(log) = 1 /\ ~announce /\ starting = {}
      BY <3>1, <3>2 DEF LogInv
    <3> QED
      BY <2>1, <3>1, <3>3, ReadFacts
  <2>5. \A i \in 1..Len(log') :
          log'[i].kind = "running" => i = Len(log') /\ ~announce /\ starting = {}
    <3> SUFFICES ASSUME NEW i \in 1..Len(log'), log'[i].kind = "running"
                 PROVE  i = Len(log') /\ ~announce /\ starting = {}
      OBVIOUS
    <3>1. log' = Tail(log)
      BY <1>1 DEF ReadLogLine
    <3>2. Len(log) \in Nat /\ Len(log') = Len(log) - 1 /\ log'[i] = log[i + 1]
      BY <2>1, <3>1, ReadFacts
    <3>3. i + 1 \in 1..Len(log) /\ log[i + 1].kind = "running"
      BY <3>2
    <3>4. i + 1 = Len(log) /\ ~announce /\ starting = {}
      BY <3>3 DEF LogInv
    <3> QED
      BY <3>2, <3>4
  <2>6. /\ logReader = "idle" /\ logReader' = "isReady"
        /\ UNCHANGED <<state, caller, op, sighup, file, running, starting, announce>>
    BY <1>1 DEF ReadLogLine, request
  <2>7. ReaderInv' /\ LogInv'
    BY <2>2, <2>4, <2>5, <2>6 DEF ReaderInv, LogInv
  <2>8. MarkInv'
    BY <1>1, <2>2, <2>3, <2>6 DEF MarkInv, Reloading
  <2>9. StateInv'
    BY <2>2, <2>6 DEF StateInv, Reloading, Issued
  <2> QED
    BY <2>7, <2>8, <2>9
<1>2. CASE ReportMark
  BY <1>2 DEF ReportMark, SetReady, Reloading, Issued
<1>3. CASE IsReady
  BY <1>3 DEF IsReady, AfterLine, Reloading, Issued
<1>4. CASE PipelineReady
  <2>1. Settled /\ running = file /\ caller \notin Reloading
        /\ state \notin {"ready", "ready_for_test", "running_test"}
    BY <1>4 DEF PipelineReady, Reloading
  <2>2. logReader' = "idle"
    BY <1>4, <2>1 DEF PipelineReady, AfterLine
  <2>3. state' # "created"
    BY <1>4 DEF PipelineReady, Execute, NextState
  <2> QED
    BY <1>4, <2>1, <2>2, <2>3 DEF PipelineReady, Reloading, Issued
<1> QED
  BY <1>1, <1>2, <1>3, <1>4 DEF LogReaderStep

LEMMA LoadLogstash ==
  ASSUME Orderly, NamesOK, LoadInv, LogstashStep
  PROVE  LoadInv'
<1> USE DEF LoadInv, ReaderInv, LogInv, MarkInv, StateInv, Idle, Settled, machine,
            pipelines, readers, logstash, Reloading, Issued
<1>1. CASE LogstashReload
  BY <1>1 DEF LogstashReload
<1>2. CASE LogStarted
  <2>1. PICK name \in starting : /\ log' = Append(log, [kind |-> "started", names |-> {name}])
                                 /\ starting' = starting \ {name}
    BY <1>2 DEF LogStarted
  <2>2. [kind |-> "started", names |-> {name}] \in Line
    BY <2>1 DEF Line, NamesOK
  <2>3. ~sighup /\ ~markPending /\ MarkName \notin readySet /\ running = file
        /\ caller \notin Reloading /\ state \notin {"ready", "ready_for_test", "running_test"}
        /\ \A i \in 1..Len(log) : log[i].kind # "running"
    BY <2>1
  <2>4. \A i \in 1..Len(log') : log'[i].kind # "running"
    BY <2>1, <2>2, <2>3, WriteFacts DEF NamesOK
  <2> QED
    BY <1>2, <2>3, <2>4 DEF LogStarted
<1>3. CASE LogRunning
  <2>1. /\ log' = Append(log, [kind |-> "running", names |-> running])
        /\ starting = {} /\ announce /\ ~announce'
    BY <1>3 DEF LogRunning
  <2>2. [kind |-> "running", names |-> running] \in Line
    BY DEF Line, NamesOK
  <2>3. ~sighup /\ ~markPending /\ MarkName \notin readySet /\ running = file
        /\ caller \notin Reloading /\ state \notin {"ready", "ready_for_test", "running_test"}
        /\ \A i \in 1..Len(log) : log[i].kind # "running"
    BY <2>1
  <2>4. \A i \in 1..Len(log') : log'[i].kind = "running" => i = Len(log')
    BY <2>1, <2>2, <2>3, WriteFacts DEF NamesOK
  <2> QED
    BY <1>3, <2>1, <2>3, <2>4 DEF LogRunning
<1> QED
  BY <1>1, <1>2, <1>3 DEF LogstashStep

LEMMA LoadStep ==
  ASSUME Orderly, PointsOK, NamesOK, NoMark, LoadInv, [Next]_vars
  PROVE  LoadInv'
<1> USE DEF machine, readers, logstash, Execute
<1>1. CASE SetupTest \/ ExecuteTest \/ Teardown
  BY <1>1 DEF SetupTest, ExecuteTest, Teardown, LoadInv, ReaderInv, LogInv, MarkInv,
              StateInv, Idle, Settled, Reloading, Issued, pipelines
<1>2. CASE CompleterStep
  BY <1>2, OthersLoad, CompleteState
     DEF CompleterStep, CompleterWaits, CompleterFires, PointsOK, request
<1>3. CASE StdoutReaderStep
  BY <1>3, OthersLoad DEF StdoutReaderStep, ReceiveEvent, CheckEvents, request
<1>4. CASE SignalCrash \/ Kill
  BY <1>4, OthersLoad, CompleteState DEF SignalCrash, Kill, PointsOK, request
<1>5. CASE UNCHANGED vars
  BY <1>5, OthersLoad DEF vars, request
<1> QED
  BY <1>1, <1>2, <1>3, <1>4, <1>5, LoadCaller, LoadReader, LoadLogstash DEF Next

LEMMA LoadInit == Init => NoMark /\ LoadInv
<1> SUFFICES ASSUME Init PROVE NoMark /\ LoadInv
  OBVIOUS
<1>1. Unmarked(BaseNames)
  BY LoadedUnmarked DEF Init, Unmarked
<1>2. state = "started"
  BY DEF Init, NextState
<1>3. Len(log) = 0 /\ log = << >>
  BY DEF Init
<1>4. NoMark
  BY <1>1, <1>3 DEF Init, NoMark
<1>5. ReaderInv /\ LogInv
  BY <1>3 DEF Init, ReaderInv, LogInv
<1>6. MarkInv
  BY DEF Init, MarkInv
<1>7. StateInv
  BY <1>2 DEF Init, StateInv, Issued, Reloading
<1> QED
  BY <1>4, <1>5, <1>6, <1>7 DEF LoadInv

LEMMA Load == Orderly => (Spec => [](Types /\ NoMark /\ LoadInv))
<1> SUFFICES ASSUME Orderly PROVE Spec => [](Types /\ NoMark /\ LoadInv)
  OBVIOUS
<1>1. Types /\ NoMark /\ LoadInv /\ [Next]_vars => (NoMark /\ LoadInv)'
  BY NoMarkStep, LoadStep DEF Types
<1> QED
  BY <1>1, LoadInit, TypesInvariant, PTL DEF Spec

\* A controller that takes itself for ready has a Logstash that runs what
\* pipelines.yml says, for any faults (controller.go: PipelinesReady,
\* reload; pipelines.go: isReady).
THEOREM ReadyIsLoaded == Orderly => (Spec => []ReadyMeansLoaded)
<1> SUFFICES ASSUME Orderly PROVE Spec => []ReadyMeansLoaded
  OBVIOUS
<1>1. LoadInv => ReadyMeansLoaded
  BY DEF LoadInv, StateInv, ReadyMeansLoaded
<1> QED
  BY <1>1, Load, PTL

\* isReady takes no mutex, but it never runs while reset replaces the map
\* (pipelines.go): the caller resets the map only when nothing is left to read.
THEOREM MapIsNotRaced == Orderly => (Spec => []NoMapRace)
<1> SUFFICES ASSUME Orderly PROVE Spec => []NoMapRace
  OBVIOUS
<1>1. LoadInv => NoMapRace
  BY DEF LoadInv, StateInv, Reloading, Idle, NoMapRace
<1> QED
  BY <1>1, Load, PTL

-----------------------------------------------------------------------------
(* A healthy instance was healthy before. *)

Healthy == state # "unknown" /\ ~done

LEMMA HealthyBefore ==
  ASSUME PointsOK, [Next]_vars
  PROVE  /\ ~done' => ~done
         /\ state' # "unknown" => state # "unknown"
         /\ Healthy' => Healthy
<1> USE DEF Healthy, machine, Execute
<1>0. \A c \in Commands : NextState("unknown", c) = "unknown"
  BY DEF NextState, Commands
<1>1. CASE SetupTest \/ ExecuteTest \/ Teardown
  BY <1>1 DEF SetupTest, ExecuteTest, Teardown
<1>2. CASE CallerStep
  <2>1. CASE IssueCommand
    BY <2>1, CommandState DEF IssueCommand, PointsOK
  <2>2. CASE WaitForState \/ AwaitResults
    BY <2>2 DEF WaitForState, AwaitResults, WaitDone, WaitFails
  <2> QED
    BY <1>2, <2>1, <2>2
       DEF CallerStep, WritePipelines, ResetEvents, MakePipelines, FillPipelines,
           ConfigReload, GetResults, TakeEvents
<1>3. CASE CompleterStep
  BY <1>0, <1>3 DEF CompleterStep, CompleterWaits, CompleterFires, Commands
<1>4. CASE LogReaderStep
  BY <1>0, <1>4
     DEF LogReaderStep, ReadLogLine, ReportMark, IsReady, PipelineReady, Commands
<1>5. CASE StdoutReaderStep
  BY <1>5 DEF StdoutReaderStep, ReceiveEvent, CheckEvents
<1>6. CASE SignalCrash \/ Kill
  BY <1>0, <1>6 DEF SignalCrash, Kill, Commands
<1>7. CASE LogstashStep
  BY <1>7 DEF LogstashStep, LogstashReload, LogStarted, LogRunning
<1>8. CASE UNCHANGED vars
  BY <1>8 DEF vars
<1> QED
  BY <1>1, <1>2, <1>3, <1>4, <1>5, <1>6, <1>7, <1>8 DEF Next

-----------------------------------------------------------------------------
(* What the caller is about *)

Pending   == {"check", "results"}
Active    == Pending \cup {"late"}
Executing == {"executing_test", "running_test"}

CallerInv ==
  /\ caller \in Active => op = "execute"
  /\ caller \in {"events", "make", "fill", "signal"} => file = BaseNames \cup Loaded
  /\ outcome = "ok" => caller \in {"late", "session"}

LEMMA CallerGoesOn ==
  \A o \in {"setup", "execute", "teardown"} : OnSuccess[o] = "check" => o = "execute"
BY DEF OnSuccess

LEMMA CallerInvStep ==
  ASSUME PointsOK, CallerInv, [Next]_vars
  PROVE  CallerInv'
<1> USE DEF CallerInv, Active, Pending, request, answer
<1>1. CASE SetupTest \/ ExecuteTest \/ Teardown
  BY <1>1 DEF SetupTest, ExecuteTest, Teardown
<1>2. CASE CallerStep
  <2>0. UNCHANGED Loaded
    BY <1>2
       DEF Loaded, CallerStep, WaitForState, IssueCommand, WritePipelines, ResetEvents,
           MakePipelines, FillPipelines, ConfigReload, GetResults, AwaitResults, TakeEvents
  <2>1. CASE WaitForState
    BY <2>1, CallerGoes DEF WaitForState, PointsOK
  <2>2. CASE WritePipelines
    BY <2>0, <2>2, CallerGoes DEF WritePipelines, PointsOK
  <2>3. CASE ConfigReload
    BY <2>3, CallerGoes, CallerGoesOn DEF ConfigReload, PointsOK
  <2>4. CASE IssueCommand \/ ResetEvents \/ MakePipelines \/ FillPipelines
    BY <2>0, <2>4 DEF IssueCommand, ResetEvents, MakePipelines, FillPipelines
  <2>5. CASE GetResults \/ AwaitResults \/ TakeEvents
    BY <2>5 DEF GetResults, AwaitResults, TakeEvents
  <2> QED
    BY <1>2, <2>1, <2>2, <2>3, <2>4, <2>5 DEF CallerStep
<1>3. CASE ~CallerStep /\ ~(SetupTest \/ ExecuteTest \/ Teardown)
  <2>1. UNCHANGED <<caller, op, session, testexec, file, outcome>>
    BY <1>3
       DEF Next, CompleterStep, CompleterWaits, CompleterFires, LogReaderStep,
           ReadLogLine, ReportMark, IsReady, PipelineReady, StdoutReaderStep,
           ReceiveEvent, CheckEvents, SignalCrash, Kill, LogstashStep, LogstashReload,
           LogStarted, LogRunning, vars
  <2> QED
    BY <2>1 DEF Loaded
<1> QED
  BY <1>1, <1>2, <1>3

-----------------------------------------------------------------------------
(* The completers *)

\* isCompleteFirstTime.
LEMMA CheckFacts ==
  ASSUME FlagsOK, CountsOK, EventsOK, NumbersOK, CheckComplete
  PROVE  /\ UNCHANGED <<received, expected, firing>>
         /\ complete => complete' /\ waiting' = waiting
         /\ complete' /\ ~complete => expected = Len(received) /\ waiting' = waiting + 1
         /\ ~complete' => waiting' = waiting
<1>1. UNCHANGED <<received, expected, firing>>
  BY DEF CheckComplete
<1>2. CASE expected = Len(received) /\ ~complete
  <2>1. complete' /\ waiting' = waiting + 1
    BY <1>2 DEF CheckComplete, FlagsOK
  <2> QED
    BY <1>1, <1>2, <2>1
<1>3. CASE ~(expected = Len(received) /\ ~complete)
  <2>1. complete' = complete
    BY <1>3 DEF CheckComplete, FlagsOK
  <2>2. waiting' = waiting
    BY <1>3 DEF CheckComplete, CountsOK
  <2> QED
    BY <1>1, <2>1, <2>2
<1> QED
  BY <1>2, <1>3

\* A test is complete only when what is expected has come.
CountInv == complete => Len(received) >= expected

LEMMA CountInvStep ==
  ASSUME FlagsOK, CountsOK, EventsOK, NumbersOK, CountInv, [Next]_vars
  PROVE  CountInv'
<1> USE DEF CountInv
<1>1. CASE GetResults \/ CheckEvents
  <2>1. CheckComplete
    BY <1>1 DEF GetResults, CheckEvents
  <2>2. Len(received) \in Nat /\ expected \in Nat
    BY LenProperties DEF EventsOK, NumbersOK
  <2>3. complete' => complete \/ expected = Len(received)
    BY <2>1, CheckFacts
  <2>4. UNCHANGED <<received, expected>>
    BY <2>1, CheckFacts
  <2> QED
    BY <2>2, <2>3, <2>4
<1>2. CASE ReceiveEvent
  <2>1. Head(stdout) \in Nat
    BY <1>2, HeadTailProperties DEF ReceiveEvent, EventsOK
  <2>2. Len(received) \in Nat /\ Len(received') = Len(received) + 1
    BY <1>2, <2>1, AppendProperties, LenProperties DEF ReceiveEvent, EventsOK
  <2>3. UNCHANGED <<complete, expected>>
    BY <1>2 DEF ReceiveEvent
  <2> QED
    BY <2>2, <2>3 DEF NumbersOK
<1>3. CASE ResetEvents
  BY <1>3 DEF ResetEvents
<1>4. CASE ~GetResults /\ ~CheckEvents /\ ~ReceiveEvent /\ ~ResetEvents
  <2>1. UNCHANGED events
    BY <1>4
       DEF Next, SetupTest, ExecuteTest, Teardown, CallerStep, WaitForState,
           IssueCommand, WritePipelines, MakePipelines, FillPipelines, ConfigReload,
           AwaitResults, TakeEvents, CompleterStep, CompleterWaits, CompleterFires,
           LogReaderStep, ReadLogLine, ReportMark, IsReady, PipelineReady,
           StdoutReaderStep, SignalCrash, Kill, LogstashStep, LogstashReload,
           LogStarted, LogRunning, vars
  <2> QED
    BY <2>1 DEF events
<1> QED
  BY <1>1, <1>2, <1>3, <1>4

NoCompleter == waiting = 0 /\ firing = 0
OneWaits    == waiting = 1 /\ firing = 0
OneFires    == waiting = 0 /\ firing = 1

\* At most one completer of a healthy instance is out, of the test that executes.
CompleterInv ==
  Healthy =>
    \/ NoCompleter
    \/ /\ OneWaits \/ OneFires
       /\ complete /\ caller \in Pending /\ state \in Executing
       /\ OneFires => state = "running_test"

\* How the state moves while the test executes and nothing fails.
LEMMA ExecutingState ==
  ASSUME PointsOK, LoadInv, CompleterInv, [Next]_vars, Healthy', caller \in Active
  PROVE  /\ state = "executing_test" => state' \in Executing
         /\ state = "running_test" => state' = "running_test"
                                        \/ (CompleterFires /\ state' = "ready_for_test")
         /\ state = "ready_for_test" => state' = "ready_for_test"
<1> USE DEF Active, Pending, Executing, Healthy, machine, Execute
<1>0. Healthy
  BY HealthyBefore
<1>1. CASE SetupTest \/ ExecuteTest \/ Teardown
  BY <1>1 DEF SetupTest, ExecuteTest, Teardown
<1>2. CASE CallerStep
  <2>1. CASE AwaitResults
    BY <2>1 DEF AwaitResults, WaitDone, WaitFails
  <2> QED
    BY <1>2, <2>1
       DEF CallerStep, WaitForState, IssueCommand, WritePipelines, ResetEvents,
           MakePipelines, FillPipelines, ConfigReload, GetResults, TakeEvents
<1>3. CASE CompleterWaits
  BY <1>3 DEF CompleterWaits
<1>4. CASE CompleterFires
  <2>1. firing > 0
    BY <1>4 DEF CompleterFires
  <2>2. state = "running_test"
    BY <1>0, <2>1 DEF CompleterInv, NoCompleter, OneWaits, OneFires
  <2>3. state' = "ready_for_test"
    BY <1>4, <2>2 DEF CompleterFires, NextState
  <2> QED
    BY <1>4, <2>2, <2>3
<1>5. CASE LogReaderStep
  <2>1. CASE PipelineReady
    <3>1. state # "ready_for_test"
      BY <2>1 DEF PipelineReady, LoadInv, StateInv, Idle
    <3>2. state \in Executing => state' = "running_test"
      BY <2>1 DEF PipelineReady, NextState
    <3> QED
      BY <3>1, <3>2
  <2> QED
    BY <1>5, <2>1 DEF LogReaderStep, ReadLogLine, ReportMark, IsReady
<1>6. CASE StdoutReaderStep
  BY <1>6 DEF StdoutReaderStep, ReceiveEvent, CheckEvents
<1>7. CASE SignalCrash \/ Kill
  BY <1>7, CompleteState DEF SignalCrash, Kill, PointsOK
<1>8. CASE LogstashStep
  BY <1>8 DEF LogstashStep, LogstashReload, LogStarted, LogRunning
<1>9. CASE UNCHANGED vars
  BY <1>9 DEF vars
<1> QED
  BY <1>1, <1>2, <1>3, <1>4, <1>5, <1>6, <1>7, <1>8, <1>9 DEF Next, CompleterStep

-----------------------------------------------------------------------------
(* Whose events are where *)

Drained   == stdout = << >> /\ stdoutReader = "idle"
OfTest(s) == \A i \in 1..Len(s) : s[i] = test
NewInput  == \E name \in file \ running : IsInput(name)

\* Nothing is under way between two tests, and the next reload starts none
\* unless it is that of a test.
DrainInv == (Drained \/ caller \in Active) /\ (sighup /\ NewInput => caller \in Pending)

\* Events are reset before the reload, and from then on those of the test come.
OwnInv ==
  /\ caller \in {"make", "fill", "signal"} => received = << >> /\ expected = want
  /\ caller \in Active => OfTest(received) /\ OfTest(stdout) /\ expected = want

\* A test becomes ready_for_test by its completion only.
ProgressInv ==
  /\ caller \in Pending => /\ state \in Executing \cup {"ready_for_test"}
                           /\ state = "ready_for_test" => complete
  /\ caller = "late" => outcome = "ok" /\ complete /\ state = "ready_for_test"

TestInv == Healthy => DrainInv /\ OwnInv /\ ProgressInv

\* The steps that check for completion, of a healthy instance.
LEMMA CheckSteps ==
  ASSUME FlagsOK, CountsOK, EventsOK, NumbersOK, Healthy, TestInv, CompleterInv,
         GetResults \/ CheckEvents
  PROVE  /\ CheckComplete /\ UNCHANGED machine /\ caller \in Active
         /\ caller' \in Active /\ (caller \in Pending <=> caller' \in Pending)
         /\ complete => complete' /\ waiting' = waiting /\ firing' = firing
         /\ ~complete => /\ NoCompleter /\ caller' \in Pending /\ state \in Executing
                         /\ NoCompleter' \/ (complete' /\ OneWaits')
<1> USE DEF Active, Pending
<1>1. CheckComplete /\ UNCHANGED machine
  BY DEF GetResults, CheckEvents
<1>2. /\ caller \in Active
      /\ caller' \in Active /\ (caller \in Pending <=> caller' \in Pending)
  <2>1. CASE GetResults
    BY <2>1 DEF GetResults
  <2>2. CASE CheckEvents
    BY <2>2 DEF CheckEvents, TestInv, DrainInv, Drained
  <2> QED
    BY <2>1, <2>2
<1>3. complete => complete' /\ waiting' = waiting /\ firing' = firing
  BY <1>1, CheckFacts
<1>4. ASSUME ~complete
      PROVE  /\ NoCompleter /\ caller' \in Pending /\ state \in Executing
             /\ NoCompleter' \/ (complete' /\ OneWaits')
  <2>1. NoCompleter
    BY <1>4 DEF CompleterInv
  <2>2. caller' \in Pending /\ state \in Executing
    BY <1>2, <1>4 DEF TestInv, ProgressInv
  <2>3. firing' = 0
    BY <1>1, <2>1, CheckFacts DEF NoCompleter
  <2>4. ~complete' => waiting' = 0
    BY <1>1, <2>1, CheckFacts DEF NoCompleter
  <2>5. complete' => waiting' = 1
    <3>1. complete' => waiting' = waiting + 1
      BY <1>1, <1>4, CheckFacts
    <3> QED
      BY <2>1, <3>1 DEF NoCompleter
  <2> QED
    BY <2>1, <2>2, <2>3, <2>4, <2>5 DEF NoCompleter, OneWaits
<1> QED
  BY <1>1, <1>2, <1>3, <1>4

LEMMA CompleterInvStep ==
  ASSUME FlagsOK, PointsOK, CountsOK, EventsOK, NumbersOK, LoadInv, TestInv,
         CompleterInv, [Next]_vars
  PROVE  CompleterInv'
<1> SUFFICES ASSUME Healthy'
             PROVE  \/ NoCompleter'
                    \/ /\ OneWaits' \/ OneFires'
                       /\ complete' /\ caller' \in Pending /\ state' \in Executing
                       /\ OneFires' => state' = "running_test"
  BY DEF CompleterInv
<1>0. Healthy
  BY HealthyBefore
<1>1. CASE GetResults \/ CheckEvents
  <2>1. CASE complete
    <3>1. /\ complete' /\ waiting' = waiting /\ firing' = firing /\ state' = state
          /\ caller \in Pending => caller' \in Pending
      BY <1>0, <1>1, <2>1, CheckSteps DEF machine
    <3> QED
      BY <1>0, <3>1 DEF CompleterInv, NoCompleter, OneWaits, OneFires
  <2>2. CASE ~complete
    BY <1>0, <1>1, <2>2, CheckSteps DEF machine, OneWaits, OneFires
  <2> QED
    BY <2>1, <2>2
<1>2. CASE CompleterWaits
  <2>1. OneWaits /\ complete /\ caller \in Pending
    BY <1>0, <1>2 DEF CompleterWaits, CompleterInv, NoCompleter, OneFires
  <2>2. OneFires'
    BY <1>2, <2>1 DEF CompleterWaits, OneWaits, OneFires
  <2>3. state' = "running_test"
    BY <1>0, <1>2 DEF CompleterWaits, Healthy, machine
  <2>4. UNCHANGED <<complete, caller>>
    BY <1>2 DEF CompleterWaits, events
  <2> QED
    BY <2>1, <2>2, <2>3, <2>4 DEF Executing
<1>3. CASE CompleterFires
  <2>1. OneFires
    BY <1>0, <1>3 DEF CompleterFires, CompleterInv, NoCompleter, OneWaits
  <2> QED
    BY <1>3, <2>1 DEF CompleterFires, OneFires, NoCompleter
<1>4. CASE ~(GetResults \/ CheckEvents \/ CompleterWaits \/ CompleterFires)
  <2> USE DEF Next, SetupTest, ExecuteTest, Teardown, CallerStep, WaitForState,
              IssueCommand, WritePipelines, ResetEvents, MakePipelines, FillPipelines,
              ConfigReload, AwaitResults, TakeEvents, CompleterStep, LogReaderStep,
              ReadLogLine, ReportMark, IsReady, PipelineReady, StdoutReaderStep,
              ReceiveEvent, SignalCrash, Kill, LogstashStep, LogstashReload, LogStarted,
              LogRunning, vars
  <2>1. UNCHANGED completers
    BY <1>4
  <2>2. CASE caller \notin Pending
    BY <1>0, <2>1, <2>2 DEF CompleterInv, completers, NoCompleter
  <2>3. CASE caller \in Pending /\ AwaitResults
    <3>1. state = "ready_for_test"
      BY <1>0, <2>3 DEF WaitDone, WaitFails, Awaited, Healthy
    <3>2. NoCompleter
      BY <1>0, <3>1 DEF CompleterInv, Executing
    <3> QED
      BY <2>1, <3>2 DEF completers, NoCompleter
  <2>4. CASE caller \in Pending /\ ~AwaitResults
    <3>1. UNCHANGED <<caller, complete>>
      BY <1>4, <2>4 DEF Pending, events
    <3>2. state \in Executing => state' \in Executing
                                   /\ (state = "running_test" => state' = "running_test")
      BY <1>4, <2>4, ExecutingState DEF Executing, Active
    <3> QED
      BY <1>0, <2>1, <3>1, <3>2
         DEF CompleterInv, completers, NoCompleter, OneWaits, OneFires
  <2> QED
    BY <2>2, <2>3, <2>4
<1> QED
  BY <1>1, <1>2, <1>3, <1>4

\* Only the reload of a test loads an input pipeline.
LEMMA NoInput ==
  ASSUME op \in {"setup", "teardown"}, file = BaseNames \cup Loaded
  PROVE  ~NewInput
<1> SUFFICES ASSUME NEW name \in file, IsInput(name) PROVE FALSE
  BY DEF NewInput
<1>1. \A a, b, m, n : <<a, m>> = <<b, n>> => a = b
  OBVIOUS
<1>2. PICK n \in 1..MaxTests : name = <<"lfv_input", n>>
  BY DEF IsInput, InputName
<1>3. name \in BaseNames \cup SutNames(session)
  BY DEF Loaded
<1>4. PICK a \in Base \cup Sut, m \in {0, session} : name = <<a, m>>
  BY <1>3 DEF BaseNames, SutNames
<1> QED
  BY <1>1, <1>2, <1>4, NamesAssumption

LEMMA DrainInvStep ==
  ASSUME Headroom, FlagsOK, PointsOK, CountsOK, EventsOK, NumbersOK, LoadInv, CallerInv,
         TestInv, CompleterInv, [Next]_vars, Healthy'
  PROVE  DrainInv'
<1> USE DEF Active, Pending, logstash, readers
<1>0. Healthy /\ DrainInv /\ OwnInv /\ ProgressInv
  BY HealthyBefore DEF TestInv
<1>1. CASE UNCHANGED <<stdout, stdoutReader, sighup, file, running>>
           /\ (caller \notin Active \/ caller' = caller)
  BY <1>0, <1>1 DEF DrainInv, Drained, NewInput
<1>2. CASE GetResults \/ CheckEvents
  <2>1. caller' \in Active /\ (caller \in Pending <=> caller' \in Pending)
    BY <1>0, <1>2, CheckSteps
  <2>2. UNCHANGED <<sighup, file, running>>
    BY <1>2 DEF GetResults, CheckEvents
  <2> QED
    BY <1>0, <2>1, <2>2 DEF DrainInv, NewInput
<1>3. CASE ReceiveEvent
  BY <1>0, <1>3 DEF ReceiveEvent, DrainInv, Drained, NewInput
<1>4. CASE LogstashReload
  <2>1. ~sighup' /\ caller' = caller /\ stdoutReader' = stdoutReader
        /\ (NewInput \/ stdout' = stdout) /\ sighup
    BY <1>4 DEF LogstashReload, NewInput
  <2> QED
    BY <1>0, <2>1 DEF DrainInv, Drained
<1>5. CASE WritePipelines
  <2>1. ~sighup /\ Drained
    BY <1>0, <1>5 DEF WritePipelines, LoadInv, StateInv, Reloading, Idle, Settled, DrainInv
  <2>2. UNCHANGED <<stdout, stdoutReader, sighup>>
    BY <1>5 DEF WritePipelines
  <2> QED
    BY <2>1, <2>2 DEF DrainInv, Drained
<1>6. CASE ConfigReload
  <2>1. ~sighup /\ Drained /\ file = BaseNames \cup Loaded
    BY <1>0, <1>6
       DEF ConfigReload, LoadInv, StateInv, Reloading, Idle, Settled, DrainInv, CallerInv
  <2>2. UNCHANGED <<stdout, stdoutReader, file, running>>
    BY <1>6 DEF ConfigReload
  <2>3. sighup' => caller' = OnSuccess[op]
    BY <1>6, <2>1 DEF ConfigReload
  <2>4. op = "execute" \/ ~NewInput
    BY <2>1, NoInput DEF PointsOK
  <2>5. sighup' /\ NewInput => caller' = "check"
    BY <2>3, <2>4 DEF OnSuccess
  <2> QED
    BY <2>1, <2>2, <2>5 DEF DrainInv, Drained, NewInput
<1>7. CASE AwaitResults
  <2>1. state = "ready_for_test" /\ caller' = "late"
    BY <1>0, <1>7 DEF AwaitResults, WaitDone, WaitFails, Awaited, Healthy
  <2>2. ~sighup
    BY <2>1 DEF LoadInv, StateInv, Idle, Settled
  <2>3. sighup' = sighup
    BY <1>7 DEF AwaitResults
  <2> QED
    BY <2>1, <2>2, <2>3 DEF DrainInv
<1>8. CASE TakeEvents
  <2>1. Drained /\ caller = "late"
    BY <1>0, <1>8 DEF TakeEvents, ProgressInv, Drained
  <2>2. UNCHANGED <<stdout, stdoutReader, sighup, file, running>>
    BY <1>8 DEF TakeEvents
  <2> QED
    BY <1>0, <2>1, <2>2 DEF DrainInv, Drained, NewInput
<1>9. CASE ~(GetResults \/ CheckEvents \/ ReceiveEvent \/ LogstashReload
             \/ WritePipelines \/ ConfigReload \/ AwaitResults \/ TakeEvents)
  BY <1>1, <1>9
     DEF Next, SetupTest, ExecuteTest, Teardown, CallerStep, WaitForState, IssueCommand,
         ResetEvents, MakePipelines, FillPipelines, CompleterStep, CompleterWaits,
         CompleterFires, LogReaderStep, ReadLogLine, ReportMark, IsReady, PipelineReady,
         StdoutReaderStep, SignalCrash, Kill, LogstashStep, LogStarted, LogRunning, vars
<1> QED
  BY <1>2, <1>3, <1>4, <1>5, <1>6, <1>7, <1>8, <1>9

\* An event moves from Logstash's output to the events received.
LEMMA OwnReceived ==
  ASSUME EventsOK, OfTest(stdout), ReceiveEvent
  PROVE  /\ OfTest(stdout)'
         /\ OfTest(received) => OfTest(received)'
         /\ Len(received) \in Nat /\ Len(received') = Len(received) + 1
<1>1. /\ stdout \in Seq(Nat) /\ stdout # << >> /\ stdout' = Tail(stdout)
      /\ received \in Seq(Nat) /\ received' = Append(received, Head(stdout))
      /\ test' = test
  BY DEF ReceiveEvent, EventsOK, request
<1>2. Len(stdout) \in Nat \ {0}
  BY <1>1, EmptySeq
<1>3. /\ Tail(stdout) \in Seq(Nat) /\ Len(Tail(stdout)) = Len(stdout) - 1
      /\ \A i \in 1..Len(Tail(stdout)) : Tail(stdout)[i] = stdout[i + 1]
      /\ Head(stdout) = stdout[1] /\ Head(stdout) \in Nat
  BY <1>1, HeadTailProperties
<1>4. Head(stdout) = test
  BY <1>2, <1>3 DEF OfTest
<1>5. \A i \in 1..Len(Tail(stdout)) : Tail(stdout)[i] = test
  BY <1>2, <1>3 DEF OfTest
<1>6. /\ Len(received) \in Nat /\ Len(received') = Len(received) + 1
      /\ \A i \in 1..Len(received) : received'[i] = received[i]
      /\ received'[Len(received) + 1] = Head(stdout)
  BY <1>1, <1>3, AppendProperties, LenProperties
<1>7. OfTest(received) => \A i \in 1..Len(received') : received'[i] = test
  BY <1>4, <1>6 DEF OfTest
<1> QED
  BY <1>1, <1>5, <1>6, <1>7 DEF OfTest

\* Logstash adds the events of the test.
LEMMA ReloadPrints ==
  ASSUME EventsOK, NumbersOK, LogstashReload
  PROVE  \A i \in 1..Len(stdout') : \/ stdout'[i] = test
                                    \/ i \in 1..Len(stdout) /\ stdout'[i] = stdout[i]
<1>1. stdout \in Seq(Nat) /\ test \in Nat
  BY DEF EventsOK, NumbersOK
<1>2. CASE stdout' = stdout
  BY <1>2
<1>3. ASSUME NEW n \in (want - MaxMissing)..(want + MaxSurplus),
             stdout' = stdout \o [i \in 1..n |-> test]
      PROVE  \A i \in 1..Len(stdout') : \/ stdout'[i] = test
                                        \/ i \in 1..Len(stdout) /\ stdout'[i] = stdout[i]
  <2>1. n \in Int
    BY <1>3
  <2> DEFINE printed == [i \in 1..n |-> test]
  <2>2. printed \in Seq(Nat)
    BY <1>1, <2>1, Printed
  <2>3. \A i \in 1..Len(printed) : printed[i] = test
    <3>1. DOMAIN printed = 1..Len(printed) /\ DOMAIN printed = 1..n
      BY <2>2, LenProperties
    <3> QED
      BY <3>1
  <2>4. stdout' = stdout \o printed
    BY <1>3
  <2> HIDE DEF printed
  <2>5. /\ Len(stdout) \in Nat /\ Len(printed) \in Nat
        /\ Len(stdout \o printed) = Len(stdout) + Len(printed)
        /\ \A i \in 1..Len(stdout) + Len(printed) :
             (stdout \o printed)[i] =
               IF i <= Len(stdout) THEN stdout[i] ELSE printed[i - Len(stdout)]
    BY <1>1, <2>2, ConcatProperties, LenProperties
  <2>6. SUFFICES ASSUME NEW i \in 1..Len(stdout \o printed)
                 PROVE  \/ (stdout \o printed)[i] = test
                        \/ i \in 1..Len(stdout) /\ (stdout \o printed)[i] = stdout[i]
    BY <2>4
  <2>7. CASE i <= Len(stdout)
    BY <2>5, <2>7
  <2>8. CASE ~(i <= Len(stdout))
    <3>1. i - Len(stdout) \in 1..Len(printed)
      BY <2>5, <2>8
    <3> QED
      BY <2>3, <2>5, <2>8, <3>1
  <2> QED
    BY <2>7, <2>8
<1> QED
  BY <1>2, <1>3 DEF LogstashReload

LEMMA OwnPrinted ==
  ASSUME EventsOK, NumbersOK, OfTest(stdout), LogstashReload
  PROVE  OfTest(stdout)'
<1>1. test' = test
  BY DEF LogstashReload, request
<1> QED
  BY <1>1, ReloadPrints DEF OfTest

LEMMA OwnInvStep ==
  ASSUME FlagsOK, PointsOK, CountsOK, EventsOK, NumbersOK, LoadInv, CallerInv, TestInv,
         CompleterInv, [Next]_vars, Healthy'
  PROVE  OwnInv'
<1> USE DEF Active, Pending
<1>0. Healthy /\ DrainInv /\ OwnInv /\ ProgressInv
  BY HealthyBefore DEF TestInv
<1>1. CASE GetResults \/ CheckEvents
  <2>1. CheckComplete /\ caller \in Active
    BY <1>0, <1>1, CheckSteps
  <2>2. UNCHANGED <<received, expected>> /\ caller' \in Active
    BY <1>0, <1>1, <2>1, CheckFacts, CheckSteps
  <2>3. UNCHANGED <<stdout, want, test>>
    BY <1>1 DEF GetResults, CheckEvents, request, logstash
  <2> QED
    BY <1>0, <2>1, <2>2, <2>3 DEF OwnInv, OfTest
<1>2. CASE ReceiveEvent
  <2>1. caller \in Active /\ UNCHANGED <<caller, expected, want>>
    BY <1>0, <1>2 DEF ReceiveEvent, DrainInv, Drained, request
  <2>2. OfTest(received)' /\ OfTest(stdout)'
    BY <1>0, <1>2, <2>1, OwnReceived DEF OwnInv
  <2> QED
    BY <1>0, <2>1, <2>2 DEF OwnInv
<1>3. CASE LogstashReload
  <2>1. UNCHANGED <<caller, received, expected, want, test>>
    BY <1>3 DEF LogstashReload, events, request
  <2>2. caller \in Active => OfTest(stdout)'
    BY <1>0, <1>3, OwnPrinted DEF OwnInv
  <2> QED
    BY <1>0, <2>1, <2>2 DEF OwnInv, OfTest
<1>4. CASE ResetEvents
  BY <1>4 DEF ResetEvents, OwnInv, request
<1>5. CASE ConfigReload
  <2>1. received = << >> /\ expected = want /\ stdout = << >>
    BY <1>0, <1>5 DEF ConfigReload, OwnInv, DrainInv, Drained
  <2>2. UNCHANGED <<received, expected, stdout, want, test>>
    BY <1>5 DEF ConfigReload, events, request
  <2>3. caller' \notin {"make", "fill", "signal"}
    BY <1>5, CallerGoes DEF ConfigReload, PointsOK
  <2>4. Len(received') = 0 /\ Len(stdout') = 0
    BY <2>1, <2>2
  <2> QED
    BY <2>1, <2>2, <2>3, <2>4 DEF OwnInv, OfTest
<1>6. CASE WaitForState \/ WritePipelines
  <2>1. caller' \in {"command", "events", "session", "destroy", "discarded"}
    BY <1>6, CallerGoes DEF WaitForState, WritePipelines, PointsOK
  <2> QED
    BY <2>1 DEF OwnInv
<1>7. CASE IssueCommand \/ MakePipelines \/ FillPipelines \/ TakeEvents
           \/ SetupTest \/ ExecuteTest \/ Teardown
  BY <1>0, <1>7
     DEF IssueCommand, MakePipelines, FillPipelines, TakeEvents, SetupTest, ExecuteTest,
         Teardown, OwnInv, events, request
<1>8. CASE ~CallerStep /\ ~(CheckEvents \/ ReceiveEvent \/ LogstashReload
                              \/ SetupTest \/ ExecuteTest \/ Teardown)
  <2>1. UNCHANGED <<caller, received, expected, stdout, want, test>>
    BY <1>8
       DEF Next, CompleterStep, CompleterWaits, CompleterFires, LogReaderStep,
           ReadLogLine, ReportMark, IsReady, PipelineReady, StdoutReaderStep, SignalCrash,
           Kill, LogstashStep, LogStarted, LogRunning, vars, events, request, logstash
  <2> QED
    BY <1>0, <2>1 DEF OwnInv, OfTest
<1>9. CASE AwaitResults
  <2>1. caller \in Active /\ UNCHANGED <<received, expected, stdout, want, test>>
        /\ caller' \in Active
    BY <1>9 DEF AwaitResults, events, request, logstash
  <2> QED
    BY <1>0, <2>1 DEF OwnInv, OfTest
<1> QED
  BY <1>1, <1>2, <1>3, <1>4, <1>5, <1>6, <1>7, <1>8, <1>9 DEF CallerStep

LEMMA ProgressInvStep ==
  ASSUME FlagsOK, PointsOK, CountsOK, EventsOK, NumbersOK, LoadInv, CallerInv, TestInv,
         CompleterInv, [Next]_vars, Healthy'
  PROVE  ProgressInv'
<1> USE DEF Active, Pending
<1>0. Healthy /\ DrainInv /\ OwnInv /\ ProgressInv
  BY HealthyBefore DEF TestInv
<1>1. CASE GetResults \/ CheckEvents
  <2>1. complete => complete'
    BY <1>0, <1>1, CheckSteps
  <2>2. /\ state' = state /\ outcome' = outcome
        /\ (caller' = "late" => caller = "late") /\ (caller' \in Pending => caller \in Pending)
    BY <1>1 DEF GetResults, CheckEvents, machine, answer
  <2> QED
    BY <1>0, <2>1, <2>2 DEF ProgressInv
<1>2. CASE AwaitResults
  <2>1. state = "ready_for_test" /\ state' = state /\ outcome' = "ok" /\ caller' = "late"
        /\ caller = "results" /\ complete' = complete
    BY <1>0, <1>2 DEF AwaitResults, WaitDone, WaitFails, Awaited, Healthy, machine, events
  <2> QED
    BY <1>0, <2>1 DEF ProgressInv
<1>3. CASE ConfigReload
  <2>1. state = Stage[op] /\ state' = state
    BY <1>0, <1>3
       DEF ConfigReload, LoadInv, StateInv, Issued, Reloading, Healthy, machine
  <2>2. caller' \in {"session", "destroy", "discarded", "check", "pooled"}
        /\ (caller' = "check" => op = "execute")
    BY <1>3, CallerGoes, CallerGoesOn DEF ConfigReload, PointsOK
  <2> QED
    BY <2>1, <2>2 DEF ProgressInv, Stage, Executing
<1>4. CASE caller \in Active /\ ~(GetResults \/ CheckEvents \/ AwaitResults \/ TakeEvents)
  <2>1. UNCHANGED <<caller, complete, outcome>>
    BY <1>4
       DEF Next, SetupTest, ExecuteTest, Teardown, CallerStep, WaitForState, IssueCommand,
           WritePipelines, ResetEvents, MakePipelines, FillPipelines, ConfigReload,
           CompleterStep, CompleterWaits, CompleterFires, LogReaderStep, ReadLogLine,
           ReportMark, IsReady, PipelineReady, StdoutReaderStep, ReceiveEvent,
           SignalCrash, Kill, LogstashStep, LogstashReload, LogStarted, LogRunning, vars,
           events, answer
  <2>2. CompleterFires => complete
    BY <1>0 DEF CompleterFires, CompleterInv, NoCompleter
  <2>3. caller \in Pending =>
          state' \in Executing \/ (state' = "ready_for_test" /\ complete)
    BY <1>0, <1>4, <2>2, ExecutingState DEF ProgressInv, Executing
  <2>4. caller = "late" => state' = "ready_for_test"
    BY <1>0, <1>4, ExecutingState DEF ProgressInv
  <2> QED
    BY <1>0, <2>1, <2>3, <2>4 DEF ProgressInv, Executing
<1>5. CASE TakeEvents
  BY <1>5 DEF TakeEvents, ProgressInv
<1>6. CASE caller \notin Active /\ ~ConfigReload /\ ~CheckEvents
  <2>1. caller' \notin Active
    BY <1>6, CallerGoes
       DEF Next, SetupTest, ExecuteTest, Teardown, CallerStep, WaitForState, IssueCommand,
           WritePipelines, ResetEvents, MakePipelines, FillPipelines, GetResults,
           AwaitResults, TakeEvents,
           CompleterStep, CompleterWaits, CompleterFires, LogReaderStep, ReadLogLine,
           ReportMark, IsReady, PipelineReady, StdoutReaderStep, ReceiveEvent,
           SignalCrash, Kill, LogstashStep, LogstashReload, LogStarted, LogRunning, vars,
           PointsOK
  <2> QED
    BY <2>1 DEF ProgressInv
<1> QED
  BY <1>1, <1>2, <1>3, <1>4, <1>5, <1>6

-----------------------------------------------------------------------------
(* What GetResults returns *)

\* These hold also when the instance has become unhealthy after the wait.
ResultInv ==
  ~done /\ outcome = "ok" =>
    /\ caller = "late" => /\ ~sighup /\ Len(received) >= want
                          /\ OfTest(received) /\ OfTest(stdout)
    /\ caller = "session" => Len(results) >= want /\ OfTest(results)

LEMMA ResultInvStep ==
  ASSUME PointsOK, EventsOK, NumbersOK, LoadInv, CallerInv, CountInv, TestInv, ResultInv,
         [Next]_vars
  PROVE  ResultInv'
<1> SUFFICES ASSUME ~done', outcome' = "ok"
             PROVE  /\ caller' = "late" => /\ ~sighup' /\ Len(received') >= want'
                                           /\ OfTest(received)' /\ OfTest(stdout)'
                    /\ caller' = "session" => Len(results') >= want' /\ OfTest(results)'
  BY DEF ResultInv
<1>0. ~done
  BY HealthyBefore
<1>1. CASE AwaitResults
  <2>1. state = "ready_for_test" /\ caller = "results" /\ caller' = "late"
    BY <1>1 DEF AwaitResults, WaitDone, WaitFails, Awaited
  <2>2. ~sighup
    BY <2>1 DEF LoadInv, StateInv, Idle, Settled
  <2>3. OfTest(received) /\ OfTest(stdout) /\ expected = want /\ complete
    BY <1>0, <2>1 DEF TestInv, Healthy, OwnInv, ProgressInv, Active, Pending
  <2>4. UNCHANGED <<sighup, received, want, test, stdout>>
    BY <1>1 DEF AwaitResults, events, request, logstash
  <2>5. Len(received) >= want
    BY <2>3 DEF CountInv
  <2> QED
    BY <2>1, <2>2, <2>3, <2>4, <2>5 DEF OfTest
<1>2. CASE TakeEvents
  <2>1. caller = "late" /\ outcome = "ok" /\ caller' = "session" /\ results' = received
        /\ UNCHANGED <<want, test>>
    BY <1>2 DEF TakeEvents, request
  <2> QED
    BY <1>0, <2>1 DEF ResultInv, OfTest
<1>3. CASE ReceiveEvent
  <2>1. UNCHANGED <<caller, outcome, sighup, want, test, results>>
    BY <1>3 DEF ReceiveEvent, request, answer
  <2>2. CASE caller = "late"
    <3>1. OfTest(stdout) /\ OfTest(received) /\ Len(received) >= want /\ ~sighup
      BY <1>0, <2>1, <2>2 DEF ResultInv
    <3>2. OfTest(received)' /\ OfTest(stdout)' /\ Len(received) \in Nat
          /\ Len(received') = Len(received) + 1
      BY <1>3, <3>1, OwnReceived
    <3>3. Len(received') >= want'
      BY <2>1, <3>1, <3>2 DEF NumbersOK
    <3> QED
      BY <2>1, <2>2, <3>1, <3>2, <3>3
  <2>3. CASE caller # "late"
    BY <1>0, <2>1, <2>3 DEF ResultInv, OfTest
  <2> QED
    BY <2>2, <2>3
<1>4. CASE LogstashReload
  <2>1. UNCHANGED <<caller, outcome, want, test, results>> /\ sighup
    BY <1>4 DEF LogstashReload, request, answer
  <2> QED
    BY <1>0, <2>1 DEF ResultInv, OfTest
<1>5. CASE ~(AwaitResults \/ TakeEvents \/ ReceiveEvent \/ LogstashReload)
  <2>1. outcome = "ok" /\ caller \in {"late", "session"}
        /\ UNCHANGED <<caller, sighup, received, stdout, results, want, test>>
    <3>1. ~SetupTest /\ ~ExecuteTest /\ ~Teardown
      BY DEF SetupTest, ExecuteTest, Teardown
    <3>2. outcome = "ok" /\ caller \in {"late", "session"}
      BY <1>5, <3>1
         DEF Next, CallerStep, WaitForState, IssueCommand, WritePipelines, ResetEvents,
             MakePipelines, FillPipelines, ConfigReload, GetResults, CompleterStep,
             CompleterWaits, CompleterFires, LogReaderStep, ReadLogLine, ReportMark,
             IsReady, PipelineReady, StdoutReaderStep, CheckEvents, SignalCrash, Kill,
             LogstashStep, LogStarted, LogRunning, vars, answer, CallerInv
    <3>3. ~CallerStep
      BY <1>5, <3>2
         DEF CallerStep, WaitForState, IssueCommand, WritePipelines, ResetEvents,
             MakePipelines, FillPipelines, ConfigReload, GetResults
    <3> QED
      BY <1>5, <3>1, <3>2, <3>3
         DEF Next, CompleterStep, CompleterWaits, CompleterFires, LogReaderStep,
             ReadLogLine, ReportMark, IsReady, PipelineReady, StdoutReaderStep,
             CheckEvents, CheckComplete, SignalCrash, Kill, LogstashStep, LogStarted,
             LogRunning, vars, events, request, answer, logstash
  <2> QED
    BY <1>0, <2>1 DEF ResultInv, OfTest
<1> QED
  BY <1>1, <1>2, <1>3, <1>4, <1>5

\* Without faults no undefined transition is taken.
LEMMA HealthyStep ==
  ASSUME Faults = {}, PointsOK, LoadInv, CompleterInv, Healthy, [Next]_vars
  PROVE  Healthy'
<1> USE DEF Healthy, machine, Execute
<1>1. CASE SetupTest \/ ExecuteTest \/ Teardown
  BY <1>1 DEF SetupTest, ExecuteTest, Teardown
<1>2. CASE CallerStep
  <2>1. CASE IssueCommand
    <3>1. state = Goal[op]
      BY <2>1 DEF IssueCommand, LoadInv, StateInv
    <3> QED
      BY <2>1, <3>1, CommandState DEF IssueCommand, PointsOK
  <2>2. CASE WaitForState \/ AwaitResults
    BY <2>2 DEF WaitForState, AwaitResults, WaitDone, WaitFails
  <2> QED
    BY <1>2, <2>1, <2>2
       DEF CallerStep, WritePipelines, ResetEvents, MakePipelines, FillPipelines,
           ConfigReload, GetResults, TakeEvents
<1>3. CASE CompleterWaits
  BY <1>3 DEF CompleterWaits
<1>4. CASE CompleterFires
  <2>1. state = "running_test"
    BY <1>4 DEF CompleterFires, CompleterInv, NoCompleter, OneWaits, OneFires
  <2> QED
    BY <1>4, <2>1 DEF CompleterFires, NextState
<1>5. CASE LogReaderStep
  <2>1. CASE PipelineReady
    <3>1. state \in {"started", "setting_up_test", "executing_test"}
      BY <2>1 DEF PipelineReady, PointsOK, States, LoadInv, StateInv, Idle
    <3> QED
      BY <2>1, <3>1 DEF PipelineReady, NextState
  <2> QED
    BY <1>5, <2>1 DEF LogReaderStep, ReadLogLine, ReportMark, IsReady
<1>6. CASE StdoutReaderStep
  BY <1>6 DEF StdoutReaderStep, ReceiveEvent, CheckEvents
<1>7. CASE SignalCrash \/ Kill
  BY <1>7 DEF SignalCrash, Kill
<1>8. CASE LogstashStep
  BY <1>8 DEF LogstashStep, LogstashReload, LogStarted, LogRunning
<1>9. CASE UNCHANGED vars
  BY <1>9 DEF vars
<1> QED
  BY <1>1, <1>2, <1>3, <1>4, <1>5, <1>6, <1>7, <1>8, <1>9 DEF Next, CompleterStep

-----------------------------------------------------------------------------
(* Theorems about tests *)

TestsInv ==
  /\ CallerInv /\ CountInv /\ CompleterInv /\ TestInv /\ ResultInv
  /\ Faults = {} => Healthy

LEMMA Tests ==
  Orderly /\ Headroom => (Spec => [](Types /\ LoadInv /\ TestsInv))
<1> SUFFICES ASSUME Orderly, Headroom PROVE Spec => [](Types /\ LoadInv /\ TestsInv)
  OBVIOUS
<1>1. Init => TestsInv
  <2> SUFFICES ASSUME Init PROVE TestsInv
    OBVIOUS
  <2>1. state = "started"
    BY DEF Init, NextState
  <2>2. CallerInv /\ CountInv /\ CompleterInv /\ ResultInv
    BY DEF Init, CallerInv, Active, Pending, CountInv, CompleterInv, NoCompleter, ResultInv
  <2>3. TestInv
    BY DEF Init, TestInv, DrainInv, Drained, OwnInv, ProgressInv, Active, Pending
  <2>4. Healthy
    BY <2>1 DEF Init, Healthy
  <2> QED
    BY <2>2, <2>3, <2>4 DEF TestsInv
<1>2. Types /\ LoadInv /\ TestsInv /\ [Next]_vars => TestsInv'
  <2> SUFFICES ASSUME Types, LoadInv, TestsInv, [Next]_vars PROVE TestsInv'
    OBVIOUS
  <2>1. CallerInv' /\ CountInv' /\ CompleterInv' /\ ResultInv'
    BY CallerInvStep, CountInvStep, CompleterInvStep, ResultInvStep DEF TestsInv, Types
  <2>2. TestInv'
    BY DrainInvStep, OwnInvStep, ProgressInvStep DEF TestsInv, Types, TestInv
  <2>3. (Faults = {} => Healthy)'
    BY HealthyStep DEF TestsInv, Types
  <2> QED
    BY <2>1, <2>2, <2>3 DEF TestsInv
<1> QED
  BY <1>1, <1>2, Load, TypesInvariant, PTL DEF Spec

\* A healthy instance has at most one goroutine out to complete a test, and
\* only while a test executes: none is left for the next test, whichever way
\* GetResults and ReceiveEvent race (controller.go: checkComplete).
THEOREM CompletersAreOfTheTest == Orderly /\ Headroom => (Spec => []NoStrayCompleter)
<1> SUFFICES ASSUME Orderly, Headroom PROVE Spec => []NoStrayCompleter
  OBVIOUS
<1>1. TestsInv => NoStrayCompleter
  BY DEF TestsInv, CompleterInv, Healthy, NoCompleter, OneWaits, OneFires, Executing,
         NoStrayCompleter
<1> QED
  BY <1>1, Tests, PTL

\* What GetResults returns without an error is of the test just executed, and
\* not less than expected, for any faults but a shutdown in between
\* (controller.go: GetResults; events.go).
THEOREM ResultsAreOwn == Orderly /\ Headroom => (Spec => []ResultsAreOfTheTest)
<1> SUFFICES ASSUME Orderly, Headroom PROVE Spec => []ResultsAreOfTheTest
  OBVIOUS
<1>1. TestsInv => ResultsAreOfTheTest
  BY DEF TestsInv, ResultInv, OfTest, ResultsAreOfTheTest
<1> QED
  BY <1>1, Tests, PTL

\* Without faults the state machine never takes an undefined transition
\* (statemachine.go: stateTransitionsTable; controller.go).
THEOREM HealthIsKept == Orderly /\ Headroom => (Spec => []StaysHealthy)
<1> SUFFICES ASSUME Orderly, Headroom PROVE Spec => []StaysHealthy
  OBVIOUS
<1>1. TestsInv => StaysHealthy
  BY DEF TestsInv, Healthy, StaysHealthy
<1> QED
  BY <1>1, Tests, PTL

-----------------------------------------------------------------------------
(* The controller as a session sees it *)

\* No event is of a test to come.
PastInv == \A i \in 1..Len(stdout) : stdout[i] \in 0..test

\* What was written last is loaded before it is replaced, and the events of a test
\* come after its reload.  What is collected without an error is all there is.
ArrivalInv ==
  /\ caller \in {"command", "write"} => running = file
  /\ Healthy /\ caller \in Active => IF sighup THEN stdout = << >> ELSE running = file
  /\ ~done /\ outcome = "ok" => /\ caller = "late" => running = file
                                /\ caller = "session" => Drained /\ ~sighup

LEMMA PastInvStep ==
  ASSUME EventsOK, NumbersOK, PastInv, [Next]_vars
  PROVE  PastInv'
<1> USE DEF PastInv, NumbersOK
<1>1. CASE LogstashReload
  <2>1. test' = test
    BY <1>1 DEF LogstashReload, request
  <2> QED
    BY <1>1, <2>1, ReloadPrints
<1>2. CASE ReceiveEvent
  <2>1. /\ stdout \in Seq(Nat) /\ stdout # << >> /\ stdout' = Tail(stdout) /\ test' = test
    BY <1>2 DEF ReceiveEvent, EventsOK, request
  <2>2. Len(stdout) \in Nat \ {0}
    BY <2>1, EmptySeq
  <2>3. /\ Len(Tail(stdout)) = Len(stdout) - 1
        /\ \A i \in 1..Len(Tail(stdout)) : Tail(stdout)[i] = stdout[i + 1]
    BY <2>1, HeadTailProperties
  <2> QED
    BY <2>1, <2>2, <2>3
<1>3. CASE ExecuteTest
  BY <1>3 DEF ExecuteTest, logstash
<1>4. CASE ~LogstashReload /\ ~ReceiveEvent /\ ~ExecuteTest
  <2>1. UNCHANGED <<stdout, test>>
    BY <1>4
       DEF Next, SetupTest, Teardown, CallerStep, WaitForState, IssueCommand,
           WritePipelines, ResetEvents, MakePipelines, FillPipelines, ConfigReload,
           GetResults, AwaitResults, TakeEvents, CompleterStep, CompleterWaits,
           CompleterFires, LogReaderStep, ReadLogLine, ReportMark, IsReady, PipelineReady,
           StdoutReaderStep, CheckEvents, SignalCrash, Kill, LogstashStep, LogStarted,
           LogRunning, vars, request, logstash
  <2> QED
    BY <2>1
<1> QED
  BY <1>1, <1>2, <1>3, <1>4

LEMMA ArrivalInvStep ==
  ASSUME Headroom, FlagsOK, PointsOK, CountsOK, EventsOK, NumbersOK, LoadInv, CallerInv,
         CompleterInv, TestInv, ResultInv, ArrivalInv, [Next]_vars
  PROVE  ArrivalInv'
<1> USE DEF Active, Pending
<1>0. (~done' => ~done) /\ (Healthy' => Healthy /\ DrainInv)
  BY HealthyBefore DEF TestInv
<1>1. (caller \in {"command", "write"} => running = file)'
  <2>1. CASE WaitForState
    <3>1. caller' = "command" => state \in {"ready", "ready_for_test"}
      BY <2>1, CallerGoes, CommandState
         DEF WaitForState, WaitDone, WaitFails, Awaited, PointsOK
    <3>2. caller' # "write" /\ UNCHANGED <<running, file>>
      BY <2>1, CallerGoes DEF WaitForState, PointsOK, logstash
    <3> QED
      BY <3>1, <3>2 DEF LoadInv, StateInv
  <2>2. CASE WritePipelines \/ ConfigReload
    BY <2>2, CallerGoes DEF WritePipelines, ConfigReload, PointsOK
  <2>3. CASE LogstashReload
    BY <2>3 DEF LogstashReload
  <2>4. CASE ~(WaitForState \/ WritePipelines \/ ConfigReload \/ LogstashReload)
    <3>1. UNCHANGED <<running, file>>
          /\ (caller' \in {"command", "write"} => caller \in {"command", "write"})
      BY <2>4
         DEF Next, SetupTest, ExecuteTest, Teardown, CallerStep, IssueCommand,
             ResetEvents, MakePipelines, FillPipelines, GetResults, AwaitResults,
             TakeEvents, CompleterStep, CompleterWaits, CompleterFires, LogReaderStep,
             ReadLogLine, ReportMark, IsReady, PipelineReady, StdoutReaderStep,
             ReceiveEvent, CheckEvents, SignalCrash, Kill, LogstashStep, LogStarted,
             LogRunning, vars, logstash
    <3> QED
      BY <3>1 DEF ArrivalInv
  <2> QED
    BY <2>1, <2>2, <2>3, <2>4
<1>2. ASSUME Healthy', caller' \in Active
      PROVE  IF sighup' THEN stdout' = << >> ELSE running' = file'
  <2>1. CASE ConfigReload
    <3>1. stdout' = << >>
      BY <1>0, <1>2, <2>1 DEF ConfigReload, DrainInv, Drained
    <3>2. sighup'
      BY <1>2, <2>1, CallerGoes DEF ConfigReload, PointsOK
    <3> QED
      BY <3>1, <3>2
  <2>2. CASE LogstashReload
    BY <2>2 DEF LogstashReload
  <2>3. CASE ReceiveEvent
    BY <1>0, <1>2, <2>3 DEF ReceiveEvent, ArrivalInv
  <2>4. CASE ~(ConfigReload \/ LogstashReload \/ ReceiveEvent)
    <3>1. caller \in Active /\ UNCHANGED <<sighup, stdout, running, file>>
      BY <1>2, <2>4, CallerGoes
         DEF Next, SetupTest, ExecuteTest, Teardown, CallerStep, WaitForState,
             IssueCommand, WritePipelines, ResetEvents, MakePipelines, FillPipelines,
             GetResults, AwaitResults, TakeEvents, CompleterStep, CompleterWaits,
             CompleterFires, LogReaderStep, ReadLogLine, ReportMark, IsReady,
             PipelineReady, StdoutReaderStep, CheckEvents, SignalCrash, Kill,
             LogstashStep, LogStarted, LogRunning, vars, logstash, PointsOK
    <3> QED
      BY <1>0, <1>2, <3>1 DEF ArrivalInv
  <2> QED
    BY <2>1, <2>2, <2>3, <2>4
<1>3. ASSUME ~done', outcome' = "ok"
      PROVE  /\ caller' = "late" => running' = file'
             /\ caller' = "session" => Drained' /\ ~sighup'
  <2>1. CASE AwaitResults
    BY <1>3, <2>1
       DEF AwaitResults, WaitDone, WaitFails, Awaited, LoadInv, StateInv, logstash
  <2>2. CASE TakeEvents
    BY <1>0, <1>3, <2>2 DEF TakeEvents, ResultInv, Drained, readers, logstash
  <2>3. CASE LogstashReload
    BY <1>0, <1>3, <2>3 DEF LogstashReload, ArrivalInv, readers, answer
  <2>4. CASE StdoutReaderStep
    BY <1>0, <1>3, <2>4
       DEF StdoutReaderStep, ReceiveEvent, CheckEvents, ArrivalInv, Drained, answer,
           logstash
  <2>5. CASE ~(AwaitResults \/ TakeEvents \/ LogstashReload \/ StdoutReaderStep)
    <3>1. ~SetupTest /\ ~ExecuteTest /\ ~Teardown
      BY <1>3 DEF SetupTest, ExecuteTest, Teardown
    <3>2. outcome = "ok" /\ caller \in {"late", "session"}
      BY <1>3, <2>5, <3>1
         DEF Next, CallerStep, WaitForState, IssueCommand, WritePipelines, ResetEvents,
             MakePipelines, FillPipelines, ConfigReload, GetResults, CompleterStep,
             CompleterWaits, CompleterFires, LogReaderStep, ReadLogLine, ReportMark,
             IsReady, PipelineReady, SignalCrash, Kill, LogstashStep, LogStarted,
             LogRunning, vars, answer, CallerInv
    <3>3. ~CallerStep
      BY <2>5, <3>2
         DEF CallerStep, WaitForState, IssueCommand, WritePipelines, ResetEvents,
             MakePipelines, FillPipelines, ConfigReload, GetResults
    <3>4. UNCHANGED <<caller, sighup, stdout, stdoutReader, running, file>>
      BY <2>5, <3>1, <3>3
         DEF Next, CompleterStep, CompleterWaits, CompleterFires, LogReaderStep,
             ReadLogLine, ReportMark, IsReady, PipelineReady, SignalCrash, Kill,
             LogstashStep, LogStarted, LogRunning, vars, readers, logstash
    <3> QED
      BY <1>0, <1>3, <3>2, <3>4 DEF ArrivalInv, Drained
  <2> QED
    BY <2>1, <2>2, <2>3, <2>4, <2>5
<1> QED
  BY <1>1, <1>2, <1>3 DEF ArrivalInv

\* Steps of which the session sees at most that the instance has become unhealthy.
LEMMA HiddenStep ==
  ASSUME UNCHANGED <<At, Service!request, Service!service, Service!answer>>,
         state = "unknown" => state' = "unknown",
         (state' = "unknown" /\ state # "unknown") => Faults # {},
         done' = done
  PROVE  [Service!Next]_(Service!vars)
<1>1. CASE (state = "unknown") <=> (state' = "unknown")
  BY <1>1 DEF Service!vars, Service!health
<1>2. CASE state # "unknown" /\ state' = "unknown"
  BY <1>2 DEF Service!Next, Service!Sicken
<1> QED
  BY <1>1, <1>2

LEMMA ServiceUnchanged ==
  ASSUME UNCHANGED <<caller, request, answer, received, running, file>>
  PROVE  UNCHANGED <<At, Service!request, Service!service, Service!answer>>
<1>1. UNCHANGED <<At, Wanted, Asked>>
  BY DEF At, Wanted, Asked, Loaded, request
<1> QED
  BY <1>1 DEF Service!request, Service!service, Service!answer, request, answer

\* Unknown is final, and neither it nor a cancelled context comes without faults.
LEMMA Sickening ==
  ASSUME PointsOK, TestsInv, TestsInv', [Next]_vars
  PROVE  /\ state = "unknown" => state' = "unknown"
         /\ (state = "unknown" \/ done \/ state' = "unknown" \/ done') => Faults # {}
<1>1. state = "unknown" => state' = "unknown"
  BY HealthyBefore
<1> QED
  BY <1>1 DEF TestsInv, Healthy

\* Where the session is while the operation proceeds.
LEMMA AtPoints ==
  /\ caller \in {"wait", "command", "write", "events"} => At = "called"
  /\ caller \in {"make", "fill", "signal"} => At = "asked"
  /\ caller \in {"check", "results"} => At = "testing"
  /\ caller = "late" => At = "collecting"
  /\ caller \in {"pooled", "session", "destroy", "discarded"} => At = caller
BY DEF At

LEMMA LoadedNamesNext ==
  (PointsOK /\ NumbersOK /\ caller # "pooled" => BaseNames \cup Loaded \subseteq Names)'
<1>1. PointsOK /\ NumbersOK /\ caller # "pooled" => BaseNames \cup Loaded \subseteq Names
  BY LoadedNames
<1> QED
  BY <1>1, PTL

\* The session calls.
LEMMA ServiceCalls ==
  ASSUME Types, Types', SetupTest \/ ExecuteTest \/ Teardown
  PROVE  Service!Next
<1>1. caller' = "wait" /\ At' = "called" /\ Wanted' \subseteq Names
  <2>1. caller' = "wait"
    BY DEF SetupTest, ExecuteTest, Teardown
  <2>2. At' = "called"
    BY <2>1 DEF At
  <2>3. (BaseNames \cup Loaded \subseteq Names)'
    BY <2>1, LoadedNamesNext DEF Types
  <2> QED
    BY <2>1, <2>2, <2>3 DEF Wanted
<1>2. Asked' = Asked
  BY <1>1 DEF SetupTest, ExecuteTest, Teardown, Asked
<1>3. UNCHANGED <<Service!service, results, Service!health>> /\ outcome' = "none"
  BY <1>2 DEF SetupTest, ExecuteTest, Teardown, Service!service, Service!health, events,
              logstash, machine
<1>4. CASE SetupTest
  <2>1. Service!Call("setup")
    BY <1>1, <1>3, <1>4 DEF Service!Call, SetupTest
  <2>2. Service!SetupTest
    BY <1>4, <2>1, AtPoints DEF Service!SetupTest, SetupTest
  <2> QED
    BY <2>2 DEF Service!Next
<1>5. CASE ExecuteTest
  <2>1. Service!Call("execute")
    BY <1>1, <1>3, <1>5 DEF Service!Call, ExecuteTest
  <2>2. Service!ExecuteTest
    BY <1>5, <2>1, AtPoints, ControllerAssumption DEF Service!ExecuteTest, ExecuteTest
  <2> QED
    BY <2>2 DEF Service!Next
<1>6. CASE Teardown
  <2>1. Service!Call("teardown")
    BY <1>1, <1>3, <1>6 DEF Service!Call, Teardown
  <2>2. Service!Teardown
    BY <1>6, <2>1, AtPoints DEF Service!Teardown, Teardown
  <2> QED
    BY <2>2 DEF Service!Next
<1> QED
  BY <1>4, <1>5, <1>6

\* The operation proceeds.
LEMMA ServiceProceeds ==
  ASSUME Types, Types', TestsInv, TestsInv', LoadInv, ArrivalInv,
         WaitForState \/ IssueCommand \/ WritePipelines \/ ResetEvents \/ MakePipelines
           \/ FillPipelines \/ ConfigReload
  PROVE  [Service!Next]_(Service!vars)
<1>0. [Next]_vars /\ op \in {"setup", "execute", "teardown"}
  BY DEF Next, CallerStep, Types, PointsOK
<1>1. /\ UNCHANGED <<op, want, test, answer, running, done>>
      /\ caller # "pooled" /\ Loaded' = Loaded
  BY DEF WaitForState, IssueCommand, WritePipelines, ResetEvents, MakePipelines,
         FillPipelines, ConfigReload, WaitDone, WaitFails, Execute, machine, request,
         logstash, Loaded
<1>2. UNCHANGED <<op, Wanted, want, test>> /\ UNCHANGED Service!answer
  <2>1. caller' = "pooled" => op = "teardown"
    BY <1>0
       DEF WaitForState, IssueCommand, WritePipelines, ResetEvents, MakePipelines,
           FillPipelines, ConfigReload, OnError, OnSuccess
  <2>2. caller' = "pooled" => Loaded = {}
    BY <2>1 DEF Loaded
  <2> QED
    BY <1>1, <2>2 DEF Wanted, Service!answer, answer
<1>3. \* steps that the session does not see
  ASSUME At' = At, Asked' = Asked, received' = received
  PROVE  [Service!Next]_(Service!vars)
  BY <1>0, <1>1, <1>2, <1>3, HiddenStep, Sickening
     DEF Service!request, Service!service, Types
<1>4. \* errors
  ASSUME caller' = OnError[op], Faults # {}, At \in {"called", "asked"},
         Asked' = Asked, received' = received, state' = state \/ state' = "unknown"
  PROVE  Service!Refused
  <2>1. At' = OnError[op]
    BY <1>0, <1>4 DEF At, OnError
  <2>2. UNCHANGED <<Service!request, Service!service, Service!answer, done>>
    BY <1>1, <1>2, <1>4 DEF Service!request, Service!service
  <2>3. (state = "unknown")' \in {state = "unknown", TRUE}
    BY <1>4
  <2> QED
    BY <1>4, <2>1, <2>2, <2>3 DEF Service!Refused, OnError
<1>5. CASE WaitForState
  <2>1. At = "called" /\ Asked = file /\ UNCHANGED <<file, received>>
    BY <1>5 DEF WaitForState, At, Asked, events
  <2>2. CASE caller' = "command"
    BY <1>3, <2>1, <2>2 DEF At, Asked
  <2>3. CASE WaitFails /\ caller' = OnError[op]
    <3>1. Faults # {} /\ (state' = state \/ state' = "unknown")
      BY <1>0, <2>3, Sickening DEF WaitFails, Types, machine
    <3>2. Asked' = file'
      BY <1>0, <2>3 DEF Asked, OnError
    <3> QED
      BY <1>4, <2>1, <2>3, <3>1, <3>2 DEF Service!Next
  <2> QED
    BY <1>5, <2>2, <2>3 DEF WaitForState
<1>6. CASE WritePipelines
  <2>1. At = "called" /\ Asked = file /\ running = file /\ UNCHANGED <<state, received>>
    BY <1>6 DEF WritePipelines, At, Asked, ArrivalInv, events, machine
  <2>2. CASE caller' = "events"
    BY <1>1, <1>3, <2>1, <2>2 DEF At, Asked
  <2>3. CASE "reload" \in Faults /\ caller' = OnError[op] /\ UNCHANGED file
    <3>1. Asked' = file'
      BY <1>0, <2>3 DEF Asked, OnError
    <3> QED
      BY <1>4, <2>1, <2>3, <3>1 DEF Service!Next
  <2> QED
    BY <1>6, <2>2, <2>3 DEF WritePipelines
<1>7. CASE ResetEvents
  <2>1. /\ At = "called" /\ Asked = running /\ file = BaseNames \cup Loaded
        /\ At' = "asked" /\ Asked' = file' /\ received' = << >>
        /\ UNCHANGED <<file, state>>
    BY <1>7 DEF ResetEvents, At, Asked, TestsInv, CallerInv, machine
  <2>2. Asked' = Wanted
    BY <1>1, <2>1 DEF Wanted
  <2>3. Service!Ask
    BY <1>1, <1>2, <2>1, <2>2 DEF Service!Ask, Service!request, Service!health
  <2> QED
    BY <2>3 DEF Service!Next
<1>8. CASE ConfigReload
  <2>1. At = "asked" /\ Asked = file /\ UNCHANGED <<state, received, file>>
    BY <1>8 DEF ConfigReload, At, Asked, events, machine
  <2>2. CASE caller' = OnSuccess[op]
    <3>1. At' = [setup |-> "session", execute |-> "testing", teardown |-> "pooled"][op]
          /\ Asked' = file'
      BY <1>0, <2>2 DEF At, Asked, OnSuccess
    <3>2. Service!Accepted
      BY <1>1, <1>2, <2>1, <3>1
         DEF Service!Accepted, Service!request, Service!service, Service!health
    <3> QED
      BY <3>2 DEF Service!Next
  <2>3. CASE "reload" \in Faults /\ caller' = OnError[op]
    <3>1. Asked' = file'
      BY <1>0, <2>3 DEF Asked, OnError
    <3> QED
      BY <1>4, <2>1, <2>3, <3>1 DEF Service!Next
  <2> QED
    BY <1>8, <2>2, <2>3 DEF ConfigReload
<1>9. CASE IssueCommand \/ MakePipelines \/ FillPipelines
  <2>1. /\ caller \in {"command", "make", "fill"} /\ caller' \in {"write", "fill", "signal"}
        /\ (caller = "command" <=> caller' = "write") /\ UNCHANGED <<file, received>>
    BY <1>9 DEF IssueCommand, MakePipelines, FillPipelines, events
  <2> QED
    BY <1>3, <2>1 DEF At, Asked
<1> QED
  BY <1>5, <1>6, <1>7, <1>8, <1>9

\* GetResults.
LEMMA ServiceResults ==
  ASSUME Types, Types', TestsInv, TestsInv', LoadInv, GetResults \/ AwaitResults \/ TakeEvents
  PROVE  [Service!Next]_(Service!vars)
<1>0. [Next]_vars
  BY DEF Next, CallerStep
<1>1. /\ op = "execute" /\ caller \in Active /\ caller' \in Active \cup {"session"}
      /\ UNCHANGED <<request, running, file, received, done>>
  BY CheckFacts
     DEF GetResults, AwaitResults, TakeEvents, WaitDone, WaitFails, Types, TestsInv, CallerInv,
         Active, Pending, logstash, events, machine
<1>2. /\ UNCHANGED <<Service!request, Service!service>> /\ Asked = file
  BY <1>1
     DEF Service!request, Service!service, request, Wanted, Asked, Loaded, Active, Pending
<1>3. CASE GetResults
  <2>1. UNCHANGED <<At, Service!answer, state>>
    BY <1>3 DEF GetResults, At, Service!answer, answer, machine
  <2> QED
    BY <1>1, <1>2, <2>1, HiddenStep
<1>4. CASE AwaitResults
  <2>1. caller = "results" /\ At = "testing" /\ At' = "collecting" /\ results' = results
    BY <1>4 DEF AwaitResults, At
  <2>2. CASE WaitDone /\ outcome' = "ok"
    <3>1. state = "ready_for_test" /\ state' = state /\ running = file
      BY <2>1, <2>2 DEF WaitDone, Awaited, machine, LoadInv, StateInv
    <3>2. done \/ Len(received) >= want
      BY <2>1, <3>1
         DEF TestsInv, TestInv, Healthy, ProgressInv, OwnInv, CountInv, Active, Pending
    <3>3. Service!ResultsReady
      BY <1>1, <1>2, <2>1, <2>2, <3>1, <3>2
         DEF Service!ResultsReady, Service!health
    <3> QED
      BY <3>3 DEF Service!Next
  <2>3. CASE WaitFails /\ outcome' = "error"
    <3>1. Faults # {} /\ (state' = "unknown" \/ (state' = state /\ done))
      BY <1>0, <2>3, Sickening DEF WaitFails, Types, machine
    <3>2. (state = "unknown")' \in {state = "unknown", TRUE} /\ ((state = "unknown")' \/ done)
      BY <3>1
    <3>3. Service!ResultsFail
      BY <1>1, <1>2, <2>1, <2>3, <3>1, <3>2 DEF Service!ResultsFail
    <3> QED
      BY <3>3 DEF Service!Next
  <2> QED
    BY <1>4, <2>2, <2>3 DEF AwaitResults
<1>5. CASE TakeEvents
  <2>1. /\ At = "collecting" /\ At' = "session" /\ results' = received
        /\ UNCHANGED <<outcome, state>>
    BY <1>5 DEF TakeEvents, At, machine
  <2>2. Service!Collect
    BY <1>1, <1>2, <2>1 DEF Service!Collect, Service!health
  <2> QED
    BY <2>2 DEF Service!Next
<1> QED
  BY <1>3, <1>4, <1>5

\* An event.
LEMMA ServiceReceives ==
  ASSUME Types, TestsInv, PastInv, ArrivalInv, ReceiveEvent
  PROVE  Service!Receive
<1>1. /\ received' = Append(received, Head(stdout)) /\ stdout # << >>
      /\ UNCHANGED <<caller, request, answer, running, file, machine>>
  BY DEF ReceiveEvent, logstash
<1>2. Len(stdout) \in Nat \ {0} /\ Head(stdout) = stdout[1]
  <2>1. stdout \in Seq(Nat) /\ Len(stdout) # 0
    BY <1>1, EmptySeq DEF Types, EventsOK
  <2> QED
    BY <1>1, <2>1, LenProperties, HeadTailProperties
<1>3. Head(stdout) \in 0..test
  BY <1>2 DEF PastInv
<1>4. ASSUME Service!Intact
      PROVE  Head(stdout) = test /\ caller \in Active /\ running = file
  <2>1. OfTest(stdout) => Head(stdout) = test
    BY <1>2 DEF OfTest
  <2>2. CASE Healthy
    BY <1>1, <2>1, <2>2 DEF TestsInv, TestInv, DrainInv, Drained, OwnInv, ArrivalInv
  <2>3. CASE ~Healthy
    <3>1. ~done /\ outcome = "ok"
      BY <1>4, <2>3 DEF Service!Intact, Healthy
    <3>2. caller = "late"
      BY <1>1, <3>1 DEF TestsInv, CallerInv, ArrivalInv, Drained
    <3> QED
      BY <2>1, <3>1, <3>2 DEF TestsInv, ResultInv, ArrivalInv, Active
  <2> QED
    BY <2>2, <2>3
<1>5. caller \in Active => At \in {"testing", "collecting"} /\ Asked = file
  BY DEF Active, Pending, At, Asked
<1>6. UNCHANGED <<At, Service!request, Asked, running, Service!answer, Service!health>>
  BY <1>1
     DEF At, Wanted, Asked, Loaded, request, answer, machine, Service!request,
         Service!answer, Service!health
<1> QED
  BY <1>1, <1>3, <1>4, <1>5, <1>6 DEF Service!Receive

\* Logstash reads pipelines.yml.
LEMMA ServiceLoads ==
  ASSUME PointsOK, LoadInv, LogstashReload
  PROVE  [Service!Next]_(Service!vars)
<1>1. /\ running' = file
      /\ UNCHANGED <<caller, request, answer, file, received, machine>>
  BY DEF LogstashReload, events
<1>2. caller \notin {"events", "make", "fill", "signal"}
  BY DEF LogstashReload, LoadInv, StateInv, Reloading, Idle, Settled
<1>3. Asked = file /\ Asked' = file /\ At # "asked"
  BY <1>1, <1>2 DEF Asked, At, PointsOK, CallerPoints
<1>4. UNCHANGED <<At, Service!request, Service!answer, Service!health>>
  BY <1>1
     DEF At, Wanted, Loaded, request, answer, machine, Service!request, Service!answer,
         Service!health
<1>5. CASE running = file
  BY <1>1, <1>3, <1>4, <1>5 DEF Service!vars, Service!service
<1>6. CASE running # file
  BY <1>1, <1>3, <1>4, <1>6 DEF Service!Next, Service!Load
<1> QED
  BY <1>5, <1>6

LEMMA ServiceStep ==
  ASSUME Types, Types', LoadInv, TestsInv, TestsInv', PastInv, ArrivalInv, [Next]_vars
  PROVE  [Service!Next]_(Service!vars)
<1>1. CASE SetupTest \/ ExecuteTest \/ Teardown
  BY <1>1, ServiceCalls
<1>2. CASE CallerStep
  BY <1>2, ServiceProceeds, ServiceResults DEF CallerStep
<1>3. CASE ReceiveEvent
  BY <1>3, ServiceReceives DEF Service!Next
<1>4. CASE LogstashReload
  BY <1>4, ServiceLoads DEF Types
<1>5. CASE Kill
  <2>1. UNCHANGED <<At, Service!request, Service!service, Service!answer, state>>
    BY <1>5, ServiceUnchanged DEF Kill, events, logstash
  <2>2. Faults # {}
    BY <1>5, Sickening DEF Kill, Types
  <2> QED
    BY <1>5, <2>1, <2>2 DEF Kill, Service!Next, Service!Stop
<1>6. CASE CompleterStep \/ LogReaderStep \/ CheckEvents \/ SignalCrash \/ LogStarted
           \/ LogRunning \/ UNCHANGED vars
  <2>1. UNCHANGED <<caller, request, answer, received, running, file, done>>
    BY <1>6, CheckFacts
       DEF CompleterStep, CompleterWaits, CompleterFires, LogReaderStep, ReadLogLine,
           ReportMark, IsReady, PipelineReady, CheckEvents, CheckComplete, SignalCrash,
           LogStarted, LogRunning, vars, Execute, machine, events, logstash
  <2> QED
    BY <2>1, ServiceUnchanged, HiddenStep, Sickening DEF Types
<1> QED
  BY <1>1, <1>2, <1>3, <1>4, <1>5, <1>6 DEF Next, StdoutReaderStep, LogstashStep

LEMMA ServiceInit == Init => Service!Init
<1> SUFFICES ASSUME Init PROVE Service!Init
  OBVIOUS
<1>1. state # "unknown"
  BY DEF Init, NextState
<1>2. At = "pooled" /\ Wanted = BaseNames /\ Asked = BaseNames
  BY DEF Init, At, Wanted, Asked
<1>3. BaseNames \subseteq Names
  BY DEF Names
<1> QED
  BY <1>1, <1>2, <1>3 DEF Init, Service!Init

LEMMA Arrivals ==
  Orderly /\ Headroom => (Spec => [](Types /\ LoadInv /\ TestsInv /\ PastInv /\ ArrivalInv))
<1> SUFFICES ASSUME Orderly, Headroom
             PROVE  Spec => [](Types /\ LoadInv /\ TestsInv /\ PastInv /\ ArrivalInv)
  OBVIOUS
<1>1. Init => PastInv /\ ArrivalInv
  <2> SUFFICES ASSUME Init PROVE PastInv /\ ArrivalInv
    OBVIOUS
  <2>1. Len(stdout) = 0
    BY DEF Init
  <2> QED
    BY <2>1 DEF Init, PastInv, ArrivalInv, Active, Pending
<1>2. Types /\ LoadInv /\ TestsInv /\ PastInv /\ ArrivalInv /\ [Next]_vars
        => PastInv' /\ ArrivalInv'
  BY PastInvStep, ArrivalInvStep DEF Types, TestsInv
<1> QED
  BY <1>1, <1>2, Tests, PTL DEF Spec

\* For its session the controller is ControllerService: it serves the operations
\* one by one, the pipelines Logstash is to run change only when it runs those
\* asked for before, every event comes between the reload of its test and the
\* collection of the events, and without faults every operation succeeds
\* (controller.go; session.go).
THEOREM ServiceRefinement == Orderly /\ Headroom => (Spec => ImplementsService)
<1> SUFFICES ASSUME Orderly, Headroom PROVE Spec => ImplementsService
  OBVIOUS
<1>1. Types /\ Types' /\ LoadInv /\ TestsInv /\ TestsInv' /\ PastInv /\ ArrivalInv
        /\ [Next]_vars => [Service!Next]_(Service!vars)
  BY ServiceStep
<1> QED
  BY <1>1, ServiceInit, Arrivals, PTL DEF Spec, ImplementsService, Service!Spec

=================================================================================
