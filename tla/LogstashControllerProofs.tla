------------------------ MODULE LogstashControllerProofs ------------------------
(***************************************************************************)
(* Proofs about LogstashController for any pipelines, any number of        *)
(* sessions, tests and events, and any set of faults; nothing is assumed   *)
(* of Headroom and Orderly.  First the types, then what rests on what the  *)
(* transition table does with the commands that the caller does not issue  *)
(* itself.                                                                 *)
(***************************************************************************)
EXTENDS LogstashController, SequenceTheorems, TLAPS

\* The transition table maps states to states.
LEMMA NextStateType ==
  \A s \in States, c \in Commands : NextState(s, c) \in States
BY SMTT(30) DEF NextState, States, Commands

FlagsOK ==
  /\ done \in BOOLEAN /\ complete \in BOOLEAN /\ markPending \in BOOLEAN
  /\ sighup \in BOOLEAN /\ announce \in BOOLEAN

PointsOK ==
  /\ state \in States
  /\ caller \in CallerPoints /\ op \in {"setup", "execute", "teardown"}
  /\ outcome \in {"none", "ok", "error"}
  /\ logReader \in {"idle", "isReady", "command", "mark"}
  /\ stdoutReader \in {"idle", "check"}

\* A session that is set up has a number, and so has a test that is executed.
NumbersOK ==
  /\ want \in Nat /\ session \in 0..MaxSessions /\ testexec \in 0..MaxTests
  /\ test \in Nat /\ expected \in Nat
  /\ caller # "pooled" => session # 0
  /\ op = "execute" => testexec # 0

CountsOK == waiting \in Nat /\ firing \in Nat

EventsOK == received \in Seq(Nat) /\ results \in Seq(Nat) /\ stdout \in Seq(Nat)

NamesOK ==
  /\ known \subseteq Names /\ readySet \subseteq known
  /\ caller = "fill" => readySet = {}
  /\ file \subseteq Names /\ running \subseteq Names /\ starting \subseteq Names
  /\ log \in Seq(Line)

Types == FlagsOK /\ PointsOK /\ NumbersOK /\ CountsOK /\ EventsOK /\ NamesOK

LEMMA FlagsStep == ASSUME FlagsOK, [Next]_vars PROVE FlagsOK'
<1> USE DEF FlagsOK, machine, events, readers, logstash, Execute
<1>1. CASE SetupTest \/ ExecuteTest \/ Teardown
  BY <1>1 DEF SetupTest, ExecuteTest, Teardown
<1>2. CASE CallerStep
  <2>1. CASE WaitForState \/ AwaitResults
    BY <2>1 DEF WaitForState, AwaitResults, WaitDone, WaitFails
  <2>2. CASE IssueCommand \/ WritePipelines \/ ResetEvents \/ ConfigReload
    BY <2>2 DEF IssueCommand, WritePipelines, ResetEvents, ConfigReload
  <2>3. CASE MakePipelines \/ FillPipelines \/ TakeEvents
    BY <2>3 DEF MakePipelines, FillPipelines, TakeEvents
  <2>4. CASE GetResults
    BY <2>4 DEF GetResults, CheckComplete
  <2> QED
    BY <1>2, <2>1, <2>2, <2>3, <2>4 DEF CallerStep
<1>3. CASE CompleterStep
  BY <1>3 DEF CompleterStep, CompleterWaits, CompleterFires
<1>4. CASE LogReaderStep
  BY <1>4 DEF LogReaderStep, ReadLogLine, ReportMark, IsReady, PipelineReady
<1>5. CASE StdoutReaderStep
  BY <1>5 DEF StdoutReaderStep, ReceiveEvent, CheckEvents, CheckComplete
<1>6. CASE SignalCrash \/ Kill
  BY <1>6 DEF SignalCrash, Kill
<1>7. CASE LogstashStep
  BY <1>7 DEF LogstashStep, LogstashReload, LogStarted, LogRunning
<1>8. CASE UNCHANGED vars
  BY <1>8 DEF vars
<1> QED
  BY <1>1, <1>2, <1>3, <1>4, <1>5, <1>6, <1>7, <1>8 DEF Next

LEMMA PointsStep == ASSUME PointsOK, [Next]_vars PROVE PointsOK'
<1> USE NextStateType DEF PointsOK, machine, request, answer, readers, Execute, Commands
<1>1. CASE SetupTest \/ ExecuteTest \/ Teardown
  BY <1>1 DEF SetupTest, ExecuteTest, Teardown, CallerPoints
<1>2. CASE CallerStep
  <2>1. OnError[op] \in CallerPoints /\ OnSuccess[op] \in CallerPoints
        /\ Command[op] \in Commands
    BY DEF OnError, OnSuccess, Command, CallerPoints
  <2> HIDE DEF Commands
  <2> USE DEF CallerPoints
  <2>2. CASE WaitForState \/ AwaitResults
    BY <2>1, <2>2 DEF WaitForState, AwaitResults, WaitDone, WaitFails, States
  <2>3. CASE IssueCommand \/ WritePipelines \/ ResetEvents \/ ConfigReload
    BY <2>1, <2>3 DEF IssueCommand, WritePipelines, ResetEvents, ConfigReload
  <2>4. CASE MakePipelines \/ FillPipelines \/ TakeEvents \/ GetResults
    BY <2>4 DEF MakePipelines, FillPipelines, TakeEvents, GetResults
  <2> QED
    BY <1>2, <2>2, <2>3, <2>4 DEF CallerStep
<1>3. CASE CompleterStep
  BY <1>3 DEF CompleterStep, CompleterWaits, CompleterFires, States
<1>4. CASE LogReaderStep
  BY <1>4 DEF LogReaderStep, ReadLogLine, ReportMark, IsReady, PipelineReady, AfterLine
<1>5. CASE StdoutReaderStep
  BY <1>5 DEF StdoutReaderStep, ReceiveEvent, CheckEvents
<1>6. CASE SignalCrash \/ Kill
  BY <1>6 DEF SignalCrash, Kill
<1>7. CASE LogstashStep
  BY <1>7 DEF LogstashStep, LogstashReload, LogStarted, LogRunning
<1>8. CASE UNCHANGED vars
  BY <1>8 DEF vars
<1> QED
  BY <1>1, <1>2, <1>3, <1>4, <1>5, <1>6, <1>7, <1>8 DEF Next

LEMMA NumbersStep == ASSUME PointsOK, NumbersOK, [Next]_vars PROVE NumbersOK'
<1> USE ControllerAssumption DEF NumbersOK, events, request
<1>1. CASE SetupTest \/ ExecuteTest \/ Teardown
  BY <1>1 DEF SetupTest, ExecuteTest, Teardown
<1>2. CASE CallerStep
  <2>1. CASE ResetEvents
    BY <2>1 DEF ResetEvents
  <2>2. CASE GetResults
    BY <2>2 DEF GetResults, CheckComplete
  <2>3. CASE WaitForState \/ WritePipelines \/ ConfigReload
    BY <2>3 DEF WaitForState, WritePipelines, ConfigReload
  <2>4. CASE IssueCommand \/ MakePipelines \/ FillPipelines \/ AwaitResults \/ TakeEvents
    BY <2>4 DEF IssueCommand, MakePipelines, FillPipelines, AwaitResults, TakeEvents
  <2>5. caller # "pooled"
    BY <1>2 DEF CallerStep, WaitForState, IssueCommand, WritePipelines, ResetEvents,
                MakePipelines, FillPipelines, ConfigReload, GetResults, AwaitResults,
                TakeEvents
  <2> QED
    BY <1>2, <2>1, <2>2, <2>3, <2>4 DEF CallerStep
<1>3. CASE CompleterStep
  BY <1>3 DEF CompleterStep, CompleterWaits, CompleterFires
<1>4. CASE LogReaderStep
  BY <1>4 DEF LogReaderStep, ReadLogLine, ReportMark, IsReady, PipelineReady
<1>5. CASE StdoutReaderStep
  BY <1>5 DEF StdoutReaderStep, ReceiveEvent, CheckEvents, CheckComplete
<1>6. CASE SignalCrash \/ Kill
  BY <1>6 DEF SignalCrash, Kill
<1>7. CASE LogstashStep
  BY <1>7 DEF LogstashStep, LogstashReload, LogStarted, LogRunning
<1>8. CASE UNCHANGED vars
  BY <1>8 DEF vars
<1> QED
  BY <1>1, <1>2, <1>3, <1>4, <1>5, <1>6, <1>7, <1>8 DEF Next

LEMMA CountsStep == ASSUME CountsOK, [Next]_vars PROVE CountsOK'
<1> USE DEF CountsOK, completers
<1>1. CASE SetupTest \/ ExecuteTest \/ Teardown
  BY <1>1 DEF SetupTest, ExecuteTest, Teardown
<1>2. CASE CallerStep
  <2>1. CASE GetResults
    BY <2>1 DEF GetResults, CheckComplete
  <2> QED
    BY <1>2, <2>1 DEF CallerStep, WaitForState, IssueCommand, WritePipelines, ResetEvents,
                MakePipelines, FillPipelines, ConfigReload, AwaitResults, TakeEvents
<1>3. CASE CompleterStep
  BY <1>3 DEF CompleterStep, CompleterWaits, CompleterFires
<1>4. CASE LogReaderStep
  BY <1>4 DEF LogReaderStep, ReadLogLine, ReportMark, IsReady, PipelineReady
<1>5. CASE StdoutReaderStep
  BY <1>5 DEF StdoutReaderStep, ReceiveEvent, CheckEvents, CheckComplete
<1>6. CASE SignalCrash \/ Kill
  BY <1>6 DEF SignalCrash, Kill
<1>7. CASE LogstashStep
  BY <1>7 DEF LogstashStep, LogstashReload, LogStarted, LogRunning
<1>8. CASE UNCHANGED vars
  BY <1>8 DEF vars
<1> QED
  BY <1>1, <1>2, <1>3, <1>4, <1>5, <1>6, <1>7, <1>8 DEF Next

\* What Logstash prints for a test.
LEMMA Printed ==
  ASSUME NEW s \in Seq(Nat), test \in Nat, NEW n \in Int
  PROVE  /\ [i \in 1..n |-> test] \in Seq(Nat)
         /\ s \o [i \in 1..n |-> test] \in Seq(Nat)
<1>1. [i \in 1..n |-> test] \in Seq(Nat)
  <2>1. CASE n \in Nat
    BY <2>1
  <2>2. CASE n \notin Nat
    <3>1. 1..n = 1..0
      BY <2>2
    <3>2. [i \in 1..0 |-> test] \in Seq(Nat)
      OBVIOUS
    <3> QED
      BY <3>1, <3>2
  <2> QED
    BY <2>1, <2>2
<1> QED
  BY <1>1, ConcatProperties

LEMMA EventsStep == ASSUME NumbersOK, EventsOK, [Next]_vars PROVE EventsOK'
<1> USE DEF EventsOK, events, answer, logstash
<1>1. CASE SetupTest \/ ExecuteTest \/ Teardown
  BY <1>1 DEF SetupTest, ExecuteTest, Teardown
<1>2. CASE CallerStep
  <2>1. CASE ResetEvents
    BY <2>1 DEF ResetEvents
  <2>2. CASE GetResults \/ TakeEvents
    BY <2>2 DEF GetResults, CheckComplete, TakeEvents
  <2>3. CASE WaitForState \/ WritePipelines \/ ConfigReload
    BY <2>3 DEF WaitForState, WritePipelines, ConfigReload
  <2>4. CASE IssueCommand \/ MakePipelines \/ FillPipelines \/ AwaitResults
    BY <2>4 DEF IssueCommand, MakePipelines, FillPipelines, AwaitResults
  <2> QED
    BY <1>2, <2>1, <2>2, <2>3, <2>4 DEF CallerStep
<1>3. CASE CompleterStep
  BY <1>3 DEF CompleterStep, CompleterWaits, CompleterFires
<1>4. CASE LogReaderStep
  BY <1>4 DEF LogReaderStep, ReadLogLine, ReportMark, IsReady, PipelineReady
<1>5. CASE StdoutReaderStep
  <2>1. CASE ReceiveEvent
    <3>1. Head(stdout) \in Nat /\ Tail(stdout) \in Seq(Nat)
      BY <2>1, HeadTailProperties DEF ReceiveEvent
    <3>2. Append(received, Head(stdout)) \in Seq(Nat)
      BY <3>1, AppendProperties
    <3> QED
      BY <2>1, <3>1, <3>2 DEF ReceiveEvent
  <2>2. CASE CheckEvents
    BY <2>2 DEF CheckEvents, CheckComplete
  <2> QED
    BY <1>5, <2>1, <2>2 DEF StdoutReaderStep
<1>6. CASE SignalCrash \/ Kill
  BY <1>6 DEF SignalCrash, Kill
<1>7. CASE LogstashStep
  <2>1. CASE LogstashReload
    <3>1. \A n \in (want - MaxMissing)..(want + MaxSurplus) :
            stdout \o [i \in 1..n |-> test] \in Seq(Nat)
      BY Printed DEF NumbersOK
    <3> QED
      BY <2>1, <3>1 DEF LogstashReload
  <2> QED
    BY <1>7, <2>1 DEF LogstashStep, LogStarted, LogRunning
<1>8. CASE UNCHANGED vars
  BY <1>8 DEF vars
<1> QED
  BY <1>1, <1>2, <1>3, <1>4, <1>5, <1>6, <1>7, <1>8 DEF Next

LEMMA LoadedNames ==
  ASSUME PointsOK, NumbersOK, caller # "pooled"
  PROVE  BaseNames \cup Loaded \subseteq Names
<1>0. BaseNames \subseteq Names
  BY DEF Names
<1>1. session \in 0..MaxSessions /\ testexec \in 0..MaxTests
      /\ MaxSessions \in Nat /\ MaxTests \in Nat
  BY ControllerAssumption DEF NumbersOK
<1>2. CASE session \in 1..MaxSessions /\ op \in {"setup", "teardown"}
  BY <1>0, <1>2 DEF Loaded, Names
<1>3. CASE session \in 1..MaxSessions /\ op = "execute" /\ testexec \in 1..MaxTests
  BY <1>0, <1>3 DEF Loaded, Names
<1> QED
  BY <1>1, <1>2, <1>3 DEF NumbersOK, PointsOK

LEMMA NamesStep == ASSUME PointsOK, NumbersOK, NamesOK, [Next]_vars PROVE NamesOK'
<1> USE DEF NamesOK, pipelines, logstash
<1>0. BaseNames \subseteq Names /\ MarkName \in Names
  BY DEF Names
<1>1. CASE SetupTest \/ ExecuteTest \/ Teardown
  BY <1>1 DEF SetupTest, ExecuteTest, Teardown
<1>2. CASE CallerStep
  <2>0. caller # "pooled" => Loaded \subseteq Names
    BY LoadedNames
  <2>1. CASE WritePipelines
    BY <1>0, <2>0, <2>1 DEF WritePipelines, OnError, PointsOK
  <2>2. CASE MakePipelines
    BY <2>2 DEF MakePipelines
  <2>3. CASE FillPipelines
    BY <1>0, <2>0, <2>3 DEF FillPipelines
  <2>4. CASE WaitForState \/ ConfigReload
    BY <2>4 DEF WaitForState, ConfigReload, OnError, OnSuccess, PointsOK
  <2>5. CASE IssueCommand \/ ResetEvents \/ GetResults \/ AwaitResults \/ TakeEvents
    BY <2>5 DEF IssueCommand, ResetEvents, GetResults, AwaitResults, TakeEvents
  <2> QED
    BY <1>2, <2>1, <2>2, <2>3, <2>4, <2>5 DEF CallerStep
<1>3. CASE CompleterStep
  BY <1>3 DEF CompleterStep, CompleterWaits, CompleterFires
<1>4. CASE LogReaderStep
  <2>1. CASE ReadLogLine
    <3>1. Head(log) \in Line /\ Tail(log) \in Seq(Line)
      BY <2>1, HeadTailProperties DEF ReadLogLine
    <3>2. Head(log).names \subseteq Names
      BY <3>1 DEF Line
    <3> QED
      BY <2>1, <3>1, <3>2 DEF ReadLogLine, SetReady
  <2>2. CASE ReportMark
    BY <1>0, <2>2 DEF ReportMark, SetReady
  <2> QED
    BY <1>4, <2>1, <2>2 DEF LogReaderStep, IsReady, PipelineReady
<1>5. CASE StdoutReaderStep
  BY <1>5 DEF StdoutReaderStep, ReceiveEvent, CheckEvents
<1>6. CASE SignalCrash \/ Kill
  BY <1>6 DEF SignalCrash, Kill
<1>7. CASE LogstashStep
  <2>1. CASE LogstashReload
    BY <2>1 DEF LogstashReload
  <2>2. CASE LogStarted
    <3>1. PICK name \in starting : /\ log' = Append(log, [kind |-> "started", names |-> {name}])
                                   /\ starting' = starting \ {name}
      BY <2>2 DEF LogStarted
    <3>2. [kind |-> "started", names |-> {name}] \in Line
      BY DEF Line
    <3>3. log' \in Seq(Line)
      BY <3>1, <3>2, AppendProperties
    <3> QED
      BY <2>2, <3>1, <3>3 DEF LogStarted
  <2>3. CASE LogRunning
    <3>1. [kind |-> "running", names |-> running] \in Line
      BY DEF Line
    <3>2. log' \in Seq(Line)
      BY <2>3, <3>1, AppendProperties DEF LogRunning
    <3> QED
      BY <2>3, <3>2 DEF LogRunning
  <2> QED
    BY <1>7, <2>1, <2>2, <2>3 DEF LogstashStep
<1>8. CASE UNCHANGED vars
  BY <1>8 DEF vars
<1> QED
  BY <1>1, <1>2, <1>3, <1>4, <1>5, <1>6, <1>7, <1>8 DEF Next

LEMMA TypesInvariant == Spec => []Types
<1>1. Init => Types
  <2> SUFFICES ASSUME Init PROVE Types
    OBVIOUS
  <2> USE DEF Init
  <2>1. FlagsOK
    BY DEF FlagsOK
  <2>2. PointsOK
    BY DEF PointsOK, CallerPoints, NextState, States
  <2>3. NumbersOK /\ CountsOK
    BY ControllerAssumption DEF NumbersOK, CountsOK
  <2>4. EventsOK
    BY DEF EventsOK
  <2>5. NamesOK
    BY DEF NamesOK, Names
  <2> QED
    BY <2>1, <2>2, <2>3, <2>4, <2>5 DEF Types
<1>2. Types /\ [Next]_vars => Types'
  BY FlagsStep, PointsStep, NumbersStep, CountsStep, EventsStep, NamesStep DEF Types
<1> QED
  BY <1>1, <1>2, PTL DEF Spec

\* Types, for any pipelines, numbers and faults (controller.go, events.go,
\* pipelines.go).
THEOREM ControllerTypes == Spec => []TypeOK
<1>1. Types => TypeOK
  BY DEF Types, FlagsOK, PointsOK, NumbersOK, CountsOK, EventsOK, NamesOK, TypeOK
<1> QED
  BY <1>1, TypesInvariant, PTL

-----------------------------------------------------------------------------
Operations == {"setup", "execute", "teardown"}

\* Commands of the log processor, of completers and of SignalCrash.
Uninvited == {"pipeline-ready", "test-complete", "crash"}

\* No command leads out of the unknown state.
LEMMA UnknownStays == \A c \in Commands : NextState("unknown", c) = "unknown"
BY DEF NextState, Commands

\* In a state in which the caller issues commands, the commands of the others
\* change nothing or make the instance unhealthy.
LEMMA UninvitedIsHarmless ==
  \A s \in {"ready", "ready_for_test", "unknown"}, c \in Uninvited :
    NextState(s, c) \in {s, "unknown"}
BY DEF NextState, Uninvited

AwaitInv == op \in Operations /\ CommandInAwaitedState

\* Steps of the others while the caller stays where it is.
LEMMA OthersStep ==
  ASSUME AwaitInv, UNCHANGED <<caller, op>>,
         \/ state' \in {state, "unknown"}
         \/ \E c \in Uninvited : state' = NextState(state, c)
  PROVE  AwaitInv'
<1>1. Goal[op] \in {"ready", "ready_for_test"}
  BY DEF AwaitInv, Operations, Goal
<1>2. CASE caller = "command"
  <2>1. state \in {"ready", "ready_for_test", "unknown"}
    BY <1>1, <1>2 DEF AwaitInv, CommandInAwaitedState
  <2>2. state' \in {state, "unknown"}
    BY <2>1, UninvitedIsHarmless
  <2> QED
    BY <1>2, <2>2 DEF AwaitInv, CommandInAwaitedState, Goal
<1>3. CASE caller # "command"
  BY <1>3 DEF AwaitInv, CommandInAwaitedState
<1> QED
  BY <1>2, <1>3

\* Between waitForState and executeCommand the mutex is free, and log
\* processor, completers and timeouts go on; yet an operation of the session
\* issues its command in the state it waited for, or in the unknown state
\* (controller.go: SetupTest, ExecuteTest, Teardown).
THEOREM CommandsAreTimely == Spec => []CommandInAwaitedState
<1>1. Init => AwaitInv
  BY DEF Init, AwaitInv, Operations, CommandInAwaitedState
<1>2. AwaitInv /\ [Next]_vars => AwaitInv'
  <2> SUFFICES ASSUME AwaitInv, [Next]_vars PROVE AwaitInv'
    OBVIOUS
  <2> USE DEF machine, request, Execute
  <2>1. CASE SetupTest \/ ExecuteTest \/ Teardown
    BY <2>1 DEF SetupTest, ExecuteTest, Teardown, AwaitInv, Operations,
                CommandInAwaitedState
  <2>2. CASE CallerStep
    <3>1. CASE WaitForState
      BY <3>1 DEF WaitForState, WaitDone, WaitFails, Awaited, OnError, AwaitInv,
                  Operations, CommandInAwaitedState, Goal
    <3>2. CASE IssueCommand
      BY <3>2 DEF IssueCommand, AwaitInv, CommandInAwaitedState
    <3>3. CASE WritePipelines
      BY <3>3 DEF WritePipelines, OnError, AwaitInv, Operations,
                  CommandInAwaitedState
    <3>4. CASE ResetEvents \/ MakePipelines \/ FillPipelines
      BY <3>4 DEF ResetEvents, MakePipelines, FillPipelines, AwaitInv,
                  CommandInAwaitedState
    <3>5. CASE ConfigReload
      BY <3>5 DEF ConfigReload, OnError, OnSuccess, AwaitInv, Operations,
                  CommandInAwaitedState
    <3>6. CASE GetResults \/ AwaitResults \/ TakeEvents
      BY <3>6 DEF GetResults, AwaitResults, TakeEvents, AwaitInv,
                  CommandInAwaitedState
    <3> QED
      BY <2>2, <3>1, <3>2, <3>3, <3>4, <3>5, <3>6 DEF CallerStep
  <2>3. CASE CompleterStep
    BY <2>3, OthersStep
       DEF CompleterStep, CompleterWaits, CompleterFires, Uninvited
  <2>4. CASE LogReaderStep
    BY <2>4, OthersStep
       DEF LogReaderStep, ReadLogLine, ReportMark, IsReady, PipelineReady,
           Uninvited
  <2>5. CASE StdoutReaderStep
    BY <2>5, OthersStep DEF StdoutReaderStep, ReceiveEvent, CheckEvents
  <2>6. CASE SignalCrash \/ Kill
    BY <2>6, OthersStep DEF SignalCrash, Kill, Uninvited
  <2>7. CASE LogstashStep
    BY <2>7, OthersStep
       DEF LogstashStep, LogstashReload, LogStarted, LogRunning
  <2>8. CASE UNCHANGED vars
    BY <2>8, OthersStep DEF vars
  <2> QED
    BY <2>1, <2>2, <2>3, <2>4, <2>5, <2>6, <2>7, <2>8 DEF Next
<1>3. AwaitInv => CommandInAwaitedState
  BY DEF AwaitInv
<1> QED
  BY <1>1, <1>2, <1>3, PTL DEF Spec

\* An unhealthy controller never becomes healthy again, whatever it is asked to
\* do and whatever Logstash does (statemachine.go: executeCommand), so that the
\* pool may discard it after one look at IsHealthy.
THEOREM UnhealthyForGood == Spec => UnknownIsFinal
<1>1. op \in Operations /\ [Next]_vars => (op \in Operations)'
  <2> SUFFICES ASSUME op \in Operations, Next PROVE (op \in Operations)'
    BY DEF vars, request
  <2> USE DEF request, Operations
  <2>1. CASE SetupTest \/ ExecuteTest \/ Teardown
    BY <2>1 DEF SetupTest, ExecuteTest, Teardown
  <2>2. CASE CallerStep
    BY <2>2 DEF CallerStep, WaitForState, IssueCommand, WritePipelines,
                ResetEvents, MakePipelines, FillPipelines, ConfigReload,
                GetResults, AwaitResults, TakeEvents
  <2>3. CASE CompleterStep \/ LogReaderStep \/ StdoutReaderStep
    BY <2>3 DEF CompleterStep, CompleterWaits, CompleterFires, LogReaderStep,
                ReadLogLine, ReportMark, IsReady, PipelineReady,
                StdoutReaderStep, ReceiveEvent, CheckEvents
  <2>4. CASE SignalCrash \/ Kill \/ LogstashStep
    BY <2>4 DEF SignalCrash, Kill, LogstashStep, LogstashReload, LogStarted,
                LogRunning
  <2> QED
    BY <2>1, <2>2, <2>3, <2>4 DEF Next
<1>2. op \in Operations /\ [Next]_vars => [state = "unknown" => state' = "unknown"]_vars
  <2> SUFFICES ASSUME op \in Operations, Next, state = "unknown"
               PROVE  state' = "unknown"
    OBVIOUS
  <2> USE DEF machine, Execute, Commands
  <2>1. CASE SetupTest \/ ExecuteTest \/ Teardown
    BY <2>1 DEF SetupTest, ExecuteTest, Teardown
  <2>2. CASE CallerStep
    <3>1. CASE WaitForState \/ AwaitResults
      BY <2>2, <3>1 DEF WaitForState, AwaitResults, WaitDone, WaitFails
    <3>2. CASE IssueCommand
      <4>1. Command[op] \in Commands
        BY DEF Command, Operations
      <4> QED
        BY <3>2, <4>1, UnknownStays DEF IssueCommand
    <3> QED
      BY <2>2, <3>1, <3>2
         DEF CallerStep, WritePipelines, ResetEvents, MakePipelines,
             FillPipelines, ConfigReload, GetResults, TakeEvents
  <2>3. CASE CompleterStep
    BY <2>3, UnknownStays DEF CompleterStep, CompleterWaits, CompleterFires
  <2>4. CASE LogReaderStep
    BY <2>4, UnknownStays
       DEF LogReaderStep, ReadLogLine, ReportMark, IsReady, PipelineReady
  <2>5. CASE StdoutReaderStep
    BY <2>5 DEF StdoutReaderStep, ReceiveEvent, CheckEvents
  <2>6. CASE SignalCrash \/ Kill
    BY <2>6, UnknownStays DEF SignalCrash, Kill
  <2>7. CASE LogstashStep
    BY <2>7 DEF LogstashStep, LogstashReload, LogStarted, LogRunning
  <2> QED
    BY <2>1, <2>2, <2>3, <2>4, <2>5, <2>6, <2>7 DEF Next
<1>3. Init => op \in Operations
  BY DEF Init, Operations
<1> QED
  BY <1>1, <1>2, <1>3, PTL DEF Spec, UnknownIsFinal

=================================================================================
