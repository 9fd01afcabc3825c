-------------------------------- MODULE TestRun --------------------------------
(***************************************************************************)
(* A run of the tests, from the first Logstash process, or the session in  *)
(* the daemon, to the exit status, in the program's three modes:           *)
(*   "sockets"  standalone --sockets, on ParallelProcess;                  *)
(*   "stdin"    standalone, one logstash/process.go per test case set;     *)
(*   "daemon"   daemon run, the client of the daemon (daemon/run/run.go).  *)
(* They share TestCaseSet.Compare (testcase/testcase.go) and the observer  *)
(* that prints the summary, a goroutine of its own (SummaryObserver).      *)
(***************************************************************************)
EXTENDS ParallelProcess, SummaryObserver

CONSTANT Modes \* modes of this instance

ASSUME ModesAssumption == Modes \subseteq {"sockets", "stdin", "daemon"}

VARIABLES
  mode,
  at,       \* the event Compare looks at
  ok,       \* the local variable ok of runTests, runParallelTests and Run
  failed,   \* test case sets whose Compare returned an error that is reported
  session,  \* the client's session in the daemon
  temp      \* what the Invocation holds: "dir", and the open files "log" and "io"

runVars == <<mode, at, ok, failed, session, temp>>
allVars == <<vars, summaryVars, runVars>>

RunTypeOK ==
  /\ TypeOK
  /\ mode \in Modes /\ at \in 1..MaxLines + 1 /\ ok \in BOOLEAN
  /\ failed \subseteq Stream
  /\ session \in {"none", "open", "closed", "kept"}
  /\ temp \subseteq {"dir", "log", "io"}
  /\ updates \in Seq({StartEvent, EndEvent}
                       \cup {Comparison(i, b) : i \in Stream, b \in BOOLEAN})
  /\ observer \in {"none", "starting", "handle", "changes", "done", "panic"}
  /\ position \in 0..Len(updates) /\ made \in BOOLEAN
  /\ counted \in Seq({Comparison(i, b) : i \in Stream, b \in BOOLEAN})
  /\ printed \in BOOLEAN

FirstStep == [sockets |-> "streams", stdin |-> "process"]

\* With --quiet there is no observer; in daemon mode it comes with the session.
RunInit ==
  /\ Init
  /\ mode \in Modes /\ main = IF mode = "daemon" THEN "setup" ELSE "invoke"
  /\ at = 1 /\ ok = TRUE /\ failed = {} /\ session = "none" /\ temp = {}
  /\ SummaryInit(IF mode = "daemon" THEN {"none"} ELSE {"none", "starting"})

-----------------------------------------------------------------------------
(* The returns of Standalone.Run and Test.Run: what is deferred is run *)

Leave(value) ==
  IF mode = "daemon"
    THEN main' = "teardown" /\ outcome' = value /\ UNCHANGED <<streams, sockets>>
    ELSE Return(value)

-----------------------------------------------------------------------------
(* The Invocation of Standalone.Run *)

\* What is left when NewInvocation fails at a step: the file for inputs and
\* outputs stays open when the settings of Logstash cannot be copied or written.
Left == [mkdir |-> {}, subdirs |-> {}, log |-> {}, pipelines |-> {}, ioconfig |-> {},
         settings |-> {"io"}]

NewInvocation ==
  /\ main = "invoke"
  /\ \/ main' = FirstStep[mode] /\ temp' = {"dir", "log", "io"} /\ UNCHANGED outcome
     \/ /\ "prepare" \in Faults
        /\ \E step \in DOMAIN Left : temp' = Left[step]
        /\ main' = "returned" /\ outcome' = "error"
  /\ UNCHANGED <<cur, input, streams, sockets, output, logstash, events, err,
                 summaryVars, mode, at, ok, failed, session>>

\* The deferred call.
Release ==
  /\ main = "release" /\ main' = "returned" /\ temp' = {}
  /\ UNCHANGED <<cur, input, streams, sockets, output, logstash, result,
                 summaryVars, mode, at, ok, failed, session>>

-----------------------------------------------------------------------------
(* runTests: NewProcess, Start, the input on stdin, and Wait *)

NewProcess ==
  /\ main = "process"
  /\ \/ /\ main' = "write" /\ logstash' = "running"
        /\ known' = known \cup {cur} /\ receiver' = Set(receiver, cur, "open")
        /\ tag' = Set(tag, cur, cur) /\ conn' = Set(conn, cur, "connected")
        /\ UNCHANGED <<listener, dirs, acceptor, sender, outcome>>
     \/ /\ Faults \cap {"prepare", "spawn"} # {}
        /\ Return("error") /\ UNCHANGED <<tag, logstash>>
  /\ UNCHANGED <<cur, lines, expected, sent, output, events, err, summaryVars, runVars>>

\* A write to the pipe of a process that has ended fails.
WriteStdin ==
  /\ main = "write" /\ sent[cur] < lines[cur]
  /\ IF Alive
       THEN /\ sent' = Set(sent, cur, sent[cur] + 1)
            /\ UNCHANGED <<main, outcome, streams, sockets>>
       ELSE Return("error") /\ UNCHANGED sent
  /\ UNCHANGED <<cur, lines, expected, tag, output, logstash, events, err,
                 summaryVars, runVars>>

CloseStdin ==
  /\ main = "write" /\ sent[cur] = lines[cur]
  /\ main' = "wait" /\ conn' = Set(conn, cur, "eof")
  /\ UNCHANGED <<cur, input, streams, acceptor, sender, output, logstash, result,
                 summaryVars, runVars>>

\* Process.Wait: an error of the process, or a line that is not an event, ends
\* the run.
WaitForProcess ==
  /\ main = "wait" /\ ~Alive
  /\ IF logstash # "ended" \/ cur \in garbled
       THEN Return("error") /\ UNCHANGED events
       ELSE /\ main' = "compare" /\ events' = Set(events, cur, file[cur])
            /\ UNCHANGED <<outcome, streams, sockets>>
  /\ UNCHANGED <<cur, input, output, logstash, err, summaryVars, runVars>>

-----------------------------------------------------------------------------
(* Test.Run of the daemon's client *)

\* The call, the deferred TeardownTest, and the start of the observer.
SetupTest ==
  /\ main = "setup"
  /\ \/ /\ main' = "execute" /\ session' = "open" /\ observer' = "starting"
        /\ UNCHANGED outcome
     \/ /\ "rpc" \in Faults
        /\ main' = "returned" /\ outcome' = "error" /\ UNCHANGED <<session, observer>>
  /\ UNCHANGED <<cur, input, streams, sockets, output, logstash, events, err,
                 updates, position, made, counted, printed, mode, at, ok, failed, temp>>

\* The daemon has run the lines and answers with events, the expected ones or
\* others, which postProcessResults puts in order and json.Unmarshal reads.
ExecuteTest ==
  /\ main = "execute"
  /\ \/ /\ sent' = Set(sent, cur, lines[cur]) /\ taken' = Set(taken, cur, lines[cur])
        /\ \E n \in 0..MaxLines : \E answer \in [1..n -> {cur, 0}] :
             events' = Set(events, cur, answer)
        /\ main' = "compare" /\ UNCHANGED outcome
     \/ /\ Faults \cap {"rpc", "garbage"} # {}
        /\ main' = "teardown" /\ outcome' = "error"
        /\ UNCHANGED <<sent, taken, events>>
  /\ UNCHANGED <<cur, lines, expected, tag, streams, sockets, file, garbled,
                 logstash, err, summaryVars, runVars>>

\* The deferred call: if it fails, its error replaces the result.
TeardownTest ==
  /\ main = "teardown" /\ main' = "returned"
  /\ \/ session' = "closed" /\ UNCHANGED outcome
     \/ "rpc" \in Faults /\ session' = "kept" /\ outcome' = "error"
  /\ UNCHANGED <<cur, input, streams, sockets, output, logstash, events, err,
                 summaryVars, mode, at, ok, failed, temp>>

-----------------------------------------------------------------------------
(* TestCaseSet.Compare, and the loop around it *)

Wanted(i) == [n \in 1..expected[i] |-> i]

Comparing == main = "compare"
SameLength == Len(events[cur]) = expected[cur]

\* After the last test case set runTests and runParallelTests return, and release
\* what they hold.
GoOn ==
  /\ at' = 1
  /\ IF cur < Tests
       THEN /\ main' = [sockets |-> "compare", stdin |-> "process",
                        daemon |-> "execute"][mode]
            /\ cur' = cur + 1 /\ UNCHANGED <<streams, sockets>>
       ELSE /\ main' = "end" /\ UNCHANGED cur
            /\ IF mode = "daemon" THEN UNCHANGED <<streams, sockets>> ELSE Cleanup
  /\ UNCHANGED <<input, output, logstash, result, mode, session, temp>>

\* Faulty: the last test case set decides.
LastDecides(same) == ok' = same /\ GoOn

\* Compare has returned for cur.
Compared(same) == ok' = (ok /\ same) /\ GoOn

CompareLengths ==
  /\ Comparing /\ ~SameLength
  /\ Update(Comparison(cur, FALSE)) /\ Compared(FALSE) /\ UNCHANGED failed

CompareNothing ==
  /\ Comparing /\ SameLength /\ events[cur] = << >>
  /\ Update(Comparison(cur, TRUE)) /\ Compared(TRUE) /\ UNCHANGED failed

CompareEvent ==
  /\ Comparing /\ SameLength /\ at <= Len(events[cur])
  /\ Update(Comparison(cur, events[cur][at] = Wanted(cur)[at]))
  /\ at' = at + 1
  /\ UNCHANGED <<vars, mode, ok, failed, session, temp>>

CompareEnds ==
  /\ Comparing /\ SameLength /\ at > Len(events[cur]) /\ at > 1
  /\ Compared(events[cur] = Wanted(cur)) /\ UNCHANGED <<failed, summaryVars>>

\* The events cannot be written to files, or the diff command cannot be run or
\* ends with a status other than 0 and 1.
\* With sockets the error is reported and the loop goes on.
CompareFails ==
  /\ Comparing /\ SameLength /\ at <= Len(events[cur]) /\ "diff" \in Faults
  /\ IF mode = "sockets"
       THEN Compared(FALSE) /\ failed' = failed \cup {cur}
       ELSE /\ Leave("error")
            /\ UNCHANGED <<cur, input, output, logstash, events, err, runVars>>
  /\ UNCHANGED summaryVars

CompareStep ==
  CompareLengths \/ CompareNothing \/ CompareEvent \/ CompareEnds \/ CompareFails

-----------------------------------------------------------------------------
(* The end of Run *)

EndRun ==
  /\ main = "end" /\ main' = "finalize"
  /\ Update(EndEvent)
  /\ UNCHANGED <<cur, input, streams, sockets, output, logstash, result, runVars>>

\* Faulty: Run does not wait for the observer.
EndsAtOnce ==
  /\ main = "finalize" /\ Leave(IF ok THEN "pass" ELSE "fail")
  /\ UNCHANGED <<cur, input, output, logstash, events, err, runVars, summaryVars>>

FinalizeRun ==
  /\ main = "finalize"
  /\ IF observer = "none" THEN UNCHANGED summaryVars ELSE Finalize
  /\ Leave(IF ok THEN "pass" ELSE "fail")
  /\ UNCHANGED <<cur, input, output, logstash, events, err, runVars>>

-----------------------------------------------------------------------------
Inputs == IF mode = "stdin" THEN {cur} ELSE Stream

MainStep ==
  \/ ParallelStep /\ UNCHANGED <<summaryVars, runVars>>
  \/ NewInvocation \/ Release \/ NewProcess \/ WriteStdin \/ CloseStdin \/ WaitForProcess
  \/ SetupTest \/ ExecuteTest \/ TeardownTest
  \/ CompareStep \/ EndRun \/ FinalizeRun

LogstashStep ==
  /\ LogstashEnds(Inputs) \/ \E i \in Inputs : Connect(i) \/ Process(i) \/ Finish(i)
  /\ UNCHANGED <<summaryVars, runVars>>

Acceptor(i) == AcceptorStep(i) /\ UNCHANGED <<summaryVars, runVars>>

Misfortune ==
  /\ LogstashFails \/ \E i \in Inputs : Garble(i)
  /\ UNCHANGED <<summaryVars, runVars>>

\* A panic of the observer and log.Fatalf are the end of the program.
Running == observer # "panic" /\ outcome # "fatal"

RunNext ==
  /\ Running
  /\ \/ MainStep \/ LogstashStep \/ Misfortune
     \/ \E i \in Stream : Acceptor(i)
     \/ ObserverStep /\ UNCHANGED <<vars, runVars>>

Spec == RunInit /\ [][RunNext]_allVars

\* The goroutines run, Logstash does what it is there for, and the daemon
\* answers.
Fairness ==
  /\ WF_allVars(Running /\ MainStep) /\ WF_allVars(Running /\ LogstashStep)
  /\ WF_allVars(Running /\ ObserverStep /\ UNCHANGED <<vars, runVars>>)
  /\ \A i \in Stream : WF_allVars(Running /\ Acceptor(i))

FairSpec == Spec /\ Fairness

-----------------------------------------------------------------------------
\* The program ends: "Wait blocks until the started Logstash process
\* terminates", which it does once Close has closed the sender of each stream
\* (parallel_process.go), and Finalize meets the observer (summary.go).  This is
\* for MinLines > 0: with a test case set without lines and without Write, Close
\* may find no sender yet, the input is never ended, and Wait waits for good.
RunReturns == <>(main = "returned")

\* Tests pass only if every input line of every test case set was sent and led
\* to exactly the events its own set expects, also when an error of Logstash is
\* tolerated (parallel_process.go: getSocketInOutPlugins, Wait; standalone.go:
\* runParallelTests, runTests; run.go: Run).  After the tolerated IOError
\* nothing says that the lines of a set that expects no events were processed.
PassIsRight ==
  outcome = "pass" =>
    \A i \in Stream : /\ sent[i] = lines[i] /\ events[i] = Wanted(i)
                      /\ logstash # "ioerror" => taken[i] = lines[i]

\* The summary is printed before a run with a verdict ends, has a result for
\* every test case set whose comparison could be carried out, and agrees with
\* the exit status (summary.go: Start, Finalize; testcase.go: Compare).
SummaryIsRight ==
  main = "returned" /\ outcome \in {"pass", "fail"} /\ observer # "none" =>
    /\ printed
    /\ \A i \in Stream \ failed : \E n \in DOMAIN counted : counted[n].path = i
    /\ outcome = "pass" <=> failed = {} /\ \A n \in DOMAIN counted : counted[n].status

\* A run that log.Fatalf does not end leaves nothing in the file system of the
\* streams that runParallelTests has put into testStreams (no socket with its
\* directory, no temporary file, no listener), no directory of the invocation,
\* and no session in the daemon unless the call to end it failed
\* (NewTestStream, CleanupTestStreams, Wait; NewInvocation, Release; run.go: Run).
NothingLeftBehind ==
  main = "returned" /\ outcome # "fatal" =>
    /\ \A i \in known : listener[i] # "open" /\ receiver[i] = "removed" /\ i \notin dirs
    /\ session # "open" /\ "dir" \notin temp

\* Cleanup "closes and removes all temporary resources for a TestStream"
\* (parallel_process.go).  Of the run as a whole the code does not keep this: a
\* stream without its temporary file is forgotten, and log.Fatalf, where a
\* stream cannot listen, skips the Cleanup of the others and Release.
NoStreamForgotten == main = "returned" => dirs = {}

\* A line that "couldn't be interpreted as an event" (eventreader.go) is
\* reported as an error, and does not pass for a successful test.  The code does
\* not keep this: the next round of the loop in Wait overwrites the error.
GarbageIsReported == outcome # "none" /\ garbled # {} => outcome # "pass"

\* Release "frees all allocated resources connected to this process".  The code
\* does not keep this: after an error of Write nobody ends Logstash.
NoOrphan == main = "returned" => ~Alive

=================================================================================
