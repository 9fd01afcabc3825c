---------------------------- MODULE LogstashInstance ----------------------------
(***************************************************************************)
(* One Logstash process of the daemon: instance.go and processors.go of    *)
(* daemon/instance/logstash, with SignalCrash and Kill of the controller.  *)
(* What the controller does with events and log lines is LogstashController; *)
(* here they are only handed over.                                         *)
(*                                                                         *)
(* Goroutines, each with a control point of its own: the caller of Start,  *)
(* the processors of stdout, stderr and the log file, the goroutine        *)
(* shutdownSignalHandler, and the one in which package exec copies stdin.  *)
(***************************************************************************)
EXTENDS Integers, Sequences

CONSTANTS
  MaxLines,  \* bound: lines Logstash prints on stdout
  Faults     \* faults of this instance, a subset of FaultKinds

FaultKinds ==
  {"spawn",  \* the pipes or the process cannot be made
   "tail",   \* tail.TailFile fails
   "crash",  \* Logstash ends unasked
   "long"}   \* Logstash prints a line longer than bufio.MaxScanTokenSize

ASSUME InstanceAssumption == MaxLines \in Nat /\ Faults \subseteq FaultKinds

Reader == {"stdout", "stderr", "log"}
Kind   == {"event", "noise", "long"}

VARIABLES
  start,     \* control point of Start
  started,   \* the channel logstashStarted is closed
  cancelled, \* ctxShutdown is done
  killed,    \* ctxKill is done
  reader,    \* [Reader -> control point of the processor]
  group,     \* counter of logstashShutdownWG
  stopper,   \* control point of shutdownSignalHandler
  stdin,     \* control point of the goroutine that copies stdinBlockReader
  child,     \* the process
  heeds,     \* Logstash ends on SIGTERM
  unasked,   \* it ended without a signal
  printed,   \* kinds of the lines printed so far
  pipe,      \* stdout: the numbers of the lines not read yet
  overlong,  \* a line too long for the scanner was written to stderr
  logged,    \* a line of the log file is not read yet
  received,  \* numbers of the lines given to Controller.ReceiveEvent
  crashed    \* the state machine was given the command crash

contexts == <<cancelled, killed>>
process  == <<child, heeds, unasked>>
output   == <<printed, pipe, overlong, logged>>
vars == <<start, started, contexts, reader, group, stopper, stdin, process,
          output, received, crashed>>

TypeOK ==
  /\ start \in {"begin", "spawn", "announce", "tail", "returned", "failed"}
  /\ started \in BOOLEAN /\ contexts \in BOOLEAN \X BOOLEAN
  /\ reader \in [Reader -> {"none", "select", "scan", "closed", "crash", "kill",
                            "ended"}]
  /\ group \in 0..3
  /\ stopper \in {"none", "select", "signal", "reap", "group", "done"}
  /\ stdin \in {"none", "reading", "ended"}
  /\ child \in {"unborn", "running", "terminating", "ended", "waited"}
  /\ heeds \in BOOLEAN /\ unasked \in BOOLEAN
  /\ printed \in Seq(Kind) /\ Len(printed) <= MaxLines
  /\ pipe \in Seq(1..MaxLines) /\ received \in Seq(1..MaxLines)
  /\ overlong \in BOOLEAN /\ logged \in BOOLEAN /\ crashed \in BOOLEAN

\* New and Controller.Launch, up to the call of Start.
Init ==
  /\ start = "begin" /\ started = FALSE
  /\ cancelled = FALSE /\ killed = FALSE
  /\ reader = [r \in Reader |-> "none"] /\ group = 0
  /\ stopper = "none" /\ stdin = "none"
  /\ child = "unborn" /\ heeds \in BOOLEAN /\ unasked = FALSE
  /\ printed = << >> /\ pipe = << >> /\ overlong = FALSE /\ logged = FALSE
  /\ received = << >> /\ crashed = FALSE

-----------------------------------------------------------------------------
(* Start *)

\* The deferred function: an error cancels the context of the instance.
Fail == start' = "failed" /\ cancelled' = TRUE

StartProcessors ==
  /\ start = "begin"
  /\ \/ /\ start' = "spawn"
        /\ group' = 2
        /\ reader' = [reader EXCEPT !["stdout"] = "select",
                                    !["stderr"] = "select"]
        /\ UNCHANGED cancelled
     \/ "spawn" \in Faults /\ Fail /\ UNCHANGED <<group, reader>>
  /\ UNCHANGED <<started, killed, stopper, stdin, process, output, received,
                 crashed>>

\* exec.CommandContext starts nothing once ctxKill is done.
Spawn ==
  /\ start = "spawn"
  /\ \/ ~killed /\ start' = "announce" /\ child' = "running" /\ stdin' = "reading"
        /\ UNCHANGED cancelled
     \/ (killed \/ "spawn" \in Faults) /\ Fail /\ UNCHANGED <<child, stdin>>
  /\ UNCHANGED <<started, killed, reader, group, stopper, heeds, unasked, output,
                 received, crashed>>

Announce ==
  /\ start = "announce"
  /\ start' = "tail" /\ started' = TRUE
  /\ UNCHANGED <<contexts, reader, group, stopper, stdin, process, output,
                 received, crashed>>

\* Faulty: the log processor is not added to the group.
TailLogNoAdd ==
  /\ start = "tail"
  /\ \/ /\ start' = "returned"
        /\ reader' = [reader EXCEPT !["log"] = "select"]
        /\ stopper' = "select"
        /\ UNCHANGED <<group, cancelled>>
     \/ "tail" \in Faults /\ Fail /\ UNCHANGED <<group, reader, stopper>>
  /\ UNCHANGED <<started, killed, stdin, process, output, received, crashed>>

TailLog ==
  /\ start = "tail"
  /\ \/ /\ start' = "returned"
        /\ group' = group + 1
        /\ reader' = [reader EXCEPT !["log"] = "select"]
        /\ stopper' = "select"
        /\ UNCHANGED cancelled
     \/ "tail" \in Faults /\ Fail /\ UNCHANGED <<group, reader, stopper>>
  /\ UNCHANGED <<started, killed, stdin, process, output, received, crashed>>

Start == StartProcessors \/ Spawn \/ Announce \/ TailLog

-----------------------------------------------------------------------------
(* stdoutProcessor and stderrProcessor.  What Logstash writes to stderr is only
   logged, and left out here but for a line that is too long. *)

\* The deferred call of logstashShutdownWG.Done.
End(r) == reader' = [reader EXCEPT ![r] = "ended"] /\ group' = group - 1

Goto(r, point) == reader' = [reader EXCEPT ![r] = point] /\ UNCHANGED group

\* The first select, ready in one or both of its cases.
AwaitStart(r) ==
  /\ r # "log" /\ reader[r] = "select"
  /\ \/ started /\ Goto(r, "scan")
     \/ cancelled /\ End(r)
  /\ UNCHANGED <<start, started, contexts, stopper, stdin, process, output,
                 received, crashed>>

\* Only lines that look like an event are handed over; the scanner gives up at
\* a line that is too long.
ScanLine ==
  /\ reader["stdout"] = "scan" /\ pipe # << >>
  /\ pipe' = Tail(pipe)
  /\ LET kind == printed[Head(pipe)] IN
       /\ received' = IF kind = "event" THEN Append(received, Head(pipe))
                                        ELSE received
       /\ Goto("stdout", IF kind = "long" THEN "closed" ELSE "scan")
  /\ UNCHANGED <<start, started, contexts, stopper, stdin, process, printed,
                 overlong, logged, crashed>>

\* Faulty: the end of the process is taken for the end of the stream.
ScanEndsEarly(r) ==
  /\ r # "log" /\ reader[r] = "scan"
  /\ child \in {"ended", "waited"}
  /\ Goto(r, "closed")
  /\ UNCHANGED <<start, started, contexts, stopper, stdin, process, output,
                 received, crashed>>

\* The end of the stream, or the error after exec has closed the pipe; on
\* stderr also the error at a line that is too long, whatever the process does.
ScanEnds(r) ==
  /\ r # "log" /\ reader[r] = "scan"
  /\ \/ child \in {"ended", "waited"} /\ (r = "stdout" => pipe = << >>)
     \/ r = "stderr" /\ overlong
  /\ Goto(r, "closed")
  /\ UNCHANGED <<start, started, contexts, stopper, stdin, process, output,
                 received, crashed>>

\* Faulty: the end of the stream is always taken for a crash.
AfterScanAlwaysCrash(r) ==
  /\ reader[r] = "closed"
  /\ Goto(r, "crash")
  /\ UNCHANGED <<start, started, contexts, stopper, stdin, process, output,
                 received, crashed>>

\* Faulty: the end of the stream is never taken for a crash.
AfterScanNoCrash(r) ==
  /\ reader[r] = "closed"
  /\ End(r)
  /\ UNCHANGED <<start, started, contexts, stopper, stdin, process, output,
                 received, crashed>>

\* "Termination of stdout scanner is only expected, if shutdown is in progress."
AfterScan(r) ==
  /\ reader[r] = "closed"
  /\ IF cancelled THEN End(r) ELSE Goto(r, "crash")
  /\ UNCHANGED <<start, started, contexts, stopper, stdin, process, output,
                 received, crashed>>

\* Controller.SignalCrash: the command, then Kill.
SignalCrash(r) ==
  /\ reader[r] = "crash"
  /\ crashed' = TRUE
  /\ Goto(r, "kill")
  /\ UNCHANGED <<start, started, contexts, stopper, stdin, process, output,
                 received>>

Kill(r) ==
  /\ reader[r] = "kill"
  /\ cancelled' = TRUE
  /\ End(r)
  /\ UNCHANGED <<start, started, killed, stopper, stdin, process, output,
                 received, crashed>>

(* logstashLogProcessor: one round of its loop *)
ReadLog ==
  /\ reader["log"] = "select"
  /\ \/ logged /\ logged' = FALSE /\ Goto("log", "select")
     \/ cancelled /\ End("log") /\ UNCHANGED logged
  /\ UNCHANGED <<start, started, contexts, stopper, stdin, process, printed, pipe,
                 overlong, received, crashed>>

-----------------------------------------------------------------------------
(* shutdownSignalHandler and stopLogstash *)

AwaitShutdown ==
  /\ stopper = "select" /\ cancelled
  /\ stopper' = "signal"
  /\ UNCHANGED <<start, started, contexts, reader, group, stdin, process, output,
                 received, crashed>>

\* SIGTERM; the error for a process that has ended is only logged.
Terminate ==
  /\ stopper = "signal"
  /\ stopper' = "reap"
  /\ child' = IF child = "running" THEN "terminating" ELSE child
  /\ UNCHANGED <<start, started, contexts, reader, group, stdin, heeds, unasked,
                 output, received, crashed>>

\* Faulty: the end of the process is not waited for.
ReapNoWait ==
  /\ stopper = "reap"
  /\ stopper' = "group"
  /\ UNCHANGED <<start, started, contexts, reader, group, stdin, process, output,
                 received, crashed>>

\* child.Wait returns once the process has ended and its stdin is copied, and
\* closes the pipes: of what is not read only lines in the scanner's buffer,
\* some first ones, remain.
Reap ==
  /\ stopper = "reap" /\ child = "ended" /\ stdin = "ended"
  /\ stopper' = "group" /\ child' = "waited"
  /\ \E n \in 0..Len(pipe) : pipe' = SubSeq(pipe, 1, n)
  /\ UNCHANGED <<start, started, contexts, reader, group, stdin, heeds, unasked,
                 printed, overlong, logged, received, crashed>>

\* logstashShutdownWG.Wait returns, and shutdownWG.Done is called.
Release ==
  /\ stopper = "group" /\ group = 0
  /\ stopper' = "done"
  /\ UNCHANGED <<start, started, contexts, reader, group, stdin, process, output,
                 received, crashed>>

Stop == AwaitShutdown \/ Terminate \/ Reap \/ Release

\* Faulty: stdin is blocked until ctxKill is done.
StdinEndsKilled ==
  /\ stdin = "reading" /\ killed
  /\ stdin' = "ended"
  /\ UNCHANGED <<start, started, contexts, reader, group, stopper, process, output,
                 received, crashed>>

\* stdinBlockReader.Read returns io.EOF.
StdinEnds ==
  /\ stdin = "reading" /\ cancelled
  /\ stdin' = "ended"
  /\ UNCHANGED <<start, started, contexts, reader, group, stopper, process, output,
                 received, crashed>>

-----------------------------------------------------------------------------
(* The daemon and Logstash *)

\* shutdown() of the daemon, or Controller.Kill of the pool's housekeeping.
Shutdown ==
  /\ ~cancelled
  /\ cancelled' = TRUE
  /\ UNCHANGED <<start, started, killed, reader, group, stopper, stdin, process,
                 output, received, crashed>>

\* killFunc(): ctxShutdown is derived from ctxKill.
KillAll ==
  /\ ~killed
  /\ killed' = TRUE /\ cancelled' = TRUE
  /\ UNCHANGED <<start, started, reader, group, stopper, stdin, process, output,
                 received, crashed>>

Alive == child \in {"running", "terminating"}

WriteStdout(kind) ==
  /\ Alive /\ Len(printed) < MaxLines
  /\ kind = "long" => "long" \in Faults
  /\ printed' = Append(printed, kind)
  /\ pipe' = Append(pipe, Len(printed'))
  /\ UNCHANGED <<start, started, contexts, reader, group, stopper, stdin, process,
                 overlong, logged, received, crashed>>

WriteStderr ==
  /\ Alive /\ "long" \in Faults /\ ~overlong
  /\ overlong' = TRUE
  /\ UNCHANGED <<start, started, contexts, reader, group, stopper, stdin, process,
                 printed, pipe, logged, received, crashed>>

WriteLog ==
  /\ Alive /\ ~logged
  /\ logged' = TRUE
  /\ UNCHANGED <<start, started, contexts, reader, group, stopper, stdin, process,
                 printed, pipe, overlong, received, crashed>>

Told == (child = "terminating" /\ heeds) \/ killed

ProcessEnds ==
  /\ Alive
  /\ Told \/ "crash" \in Faults
  /\ child' = "ended"
  /\ unasked' = (child = "running" /\ ~killed)
  /\ UNCHANGED <<start, started, contexts, reader, group, stopper, stdin, heeds,
                 output, received, crashed>>

-----------------------------------------------------------------------------
ReaderStep(r) ==
  AwaitStart(r) \/ ScanEnds(r) \/ AfterScan(r) \/ SignalCrash(r) \/ Kill(r)

Next ==
  \/ Start \/ Stop \/ StdinEnds
  \/ \E r \in Reader : ReaderStep(r)
  \/ ScanLine \/ ReadLog
  \/ Shutdown \/ KillAll
  \/ \E kind \in Kind : WriteStdout(kind)
  \/ WriteStderr \/ WriteLog \/ ProcessEnds

Spec == Init /\ [][Next]_vars

\* Goroutines run; in ReadLog's select a case that stays ready is taken in the
\* end, though lines may keep coming.  Logstash ends when it heeds a SIGTERM or
\* is killed, and need not do anything else.
Fairness ==
  /\ WF_vars(Start) /\ WF_vars(Stop) /\ WF_vars(StdinEnds) /\ WF_vars(ScanLine)
  /\ \A r \in Reader : WF_vars(ReaderStep(r))
  /\ WF_vars(cancelled /\ ReadLog /\ group' # group)
  /\ WF_vars(Told /\ ProcessEnds)

FairSpec == Spec /\ Fairness

-----------------------------------------------------------------------------
\* A line that stdoutProcessor cannot read.
Choked == \E n \in DOMAIN printed : printed[n] = "long"

\* The lines that stdoutProcessor has yet to read.
ToRead == IF reader["stdout"] \in {"none", "select", "scan"} THEN pipe ELSE << >>

\* Until the instance is told to stop, every event that Logstash prints is
\* given to the controller, once and in order, or will be read, also when
\* Logstash has crashed: stdoutProcessor reports the crash after the last event,
\* and child.Wait does not close the pipe under the scanner (processors.go:
\* stdoutProcessor; instance.go: stopLogstash).
NoEventLost ==
  LET read == Len(printed) - Len(ToRead)
  IN  ~cancelled /\ ~Choked =>
        /\ \A n \in DOMAIN ToRead : ToRead[n] = read + n
        /\ {received[n] : n \in DOMAIN received} = {n \in 1..read : printed[n] = "event"}
        /\ \A m, n \in DOMAIN received : m < n => received[m] < received[n]

\* The controller hears of a crash only if Logstash ended unasked, or wrote a
\* line to stdout or stderr that the scanner cannot take, with which a running
\* process is taken for a crashed one; never because of a stop, whenever it comes
\* (processors.go: the last select of both processors).
CrashHasCause ==
  crashed => unasked \/ Choked \/ overlong

\* The daemon's WaitGroup is released only when the process is reaped and no
\* goroutine of the instance is left (instance.go: shutdownSignalHandler).
ReleasedMeansGone ==
  stopper = "done" =>
    /\ child = "waited" /\ stdin = "ended"
    /\ \A r \in Reader : reader[r] = "ended"

\* A crash of Logstash is noticed (processors.go), unless the instance is being
\* stopped.
CrashNoticed == unasked ~> (crashed \/ cancelled)

\* An instance that is told to stop, or notices a crash, ends and releases the
\* daemon's WaitGroup, unless Logstash ignores SIGTERM and is not killed
\* (instance.go: stopLogstash, which waits for the copying of stdin as well);
\* and "if there has been an error during Start, cancel the context to signal
\* shutdown to all potentially running Go routines of instance", which ends
\* them.  An error of TailFile, which is not among the faults, leaves the
\* process running, the scanners reading, and the WaitGroup incremented.
StopsWhenTold ==
  /\ (start = "returned" /\ cancelled) ~> (stopper = "done" \/ ~(heeds \/ killed))
  /\ start = "failed" ~> \A r \in Reader : reader[r] \in {"none", "ended"}

\* Refinement: the launch and the process as the daemon sees them.
Launch == CASE start = "returned" -> "started"
            [] start = "failed"   -> "failed"
            [] OTHER              -> "starting"

Process == CASE child = "unborn"                     -> "none"
             [] child \in {"running", "terminating"} -> child
             [] OTHER -> IF stopper = "done" THEN "reaped" ELSE "dead"

Life == INSTANCE InstanceLife
          WITH launch <- Launch, process <- Process,
               MayFail <- Faults \cap {"spawn", "tail"} # {},
               MayCrash <- "crash" \in Faults

\* The instance is what the daemon relies on: only the process of a launch that
\* has succeeded is stopped, none is started once the daemon kills, and Done of
\* the daemon's WaitGroup is called once, by a launch that has succeeded and
\* after the end of its process (instance.go: Start, shutdownSignalHandler;
\* daemon.go: logstashControllerFactory).
ImplementsLife == Life!Spec

=================================================================================
