---------------------------- MODULE ParallelProcess ----------------------------
(***************************************************************************)
(* Standalone mode with --sockets, up to the comparison: runParallelTests  *)
(* of app/standalone/standalone.go on logstash/parallel_process.go.  One   *)
(* Logstash process serves all test case sets, each of which has a stream: *)
(* a Unix socket for its input lines and a file for its events.  TestRun   *)
(* adds the comparison, the other modes and the rest of the run.           *)
(*                                                                         *)
(* Concurrent actors: the program's main goroutine, one accepting          *)
(* goroutine per stream, and Logstash, external, which connects to the     *)
(* sockets, writes one event for each line to the file that belongs to the *)
(* line's tag, and ends when all its inputs are at their end.              *)
(***************************************************************************)
EXTENDS Integers, Sequences

CONSTANTS
  Tests,    \* number of test case sets
  MinLines, \* input lines of a test case set, at least ...
  MaxLines, \* ... and at most
  Faults    \* faults of this instance, a subset of FaultKinds

FaultKinds ==
  {"stream",   \* the temporary directory or file of a stream cannot be made
   "listen",   \* its socket cannot be made
   "prepare",  \* the input and output plugins or arguments cannot be made
   "spawn",    \* the process cannot be started
   "slow",     \* Logstash connects later than Write waits
   "crash",    \* Logstash ends early with an error
   "ioerror",  \* it ends early with the IOError that Wait tolerates
   "garbage",  \* a file gets a line at its end that is not an event
   "diff",     \* the diff command cannot compare two events
   "rpc"}      \* a call to the daemon fails

ASSUME ParallelAssumption ==
  /\ Tests \in Nat \ {0}
  /\ MinLines \in Nat /\ MaxLines \in Nat /\ MinLines <= MaxLines
  /\ Faults \subseteq FaultKinds

Stream == 1..Tests

VARIABLES
  lines,    \* [Stream -> number of input lines of the test case set]
  expected, \* [Stream -> number of events it expects]
  main,     \* control point of runParallelTests
  cur,      \* the stream it works on
  sent,     \* [Stream -> lines written]
  tag,      \* [Stream -> @metadata.__lfv_testcase in its fields]
  known,    \* streams in testStreams
  listener, \* [Stream -> "none", "open" or "closed"]
  acceptor, \* [Stream -> control point of its goroutine]
  sender,   \* [Stream -> "nil" or "open"], TestStream.sender
  receiver, \* [Stream -> "none", "open" or "removed"], the temporary file
  dirs,     \* streams whose temporary directory exists, with the socket in it
  conn,     \* [Stream -> Logstash's side of the connection]
  taken,    \* [Stream -> lines Logstash has processed]
  file,     \* [Stream -> the events in the file: the stream it is of, or 0]
  garbled,  \* streams whose file has a line that is not an event
  logstash, \* the process
  events,   \* [Stream -> result.Events]
  err,      \* whether the local variable err of Wait is an error
  outcome   \* the verdict of the run

input   == <<lines, expected, sent, tag>>
streams == <<known, listener, receiver, dirs>>
sockets == <<acceptor, sender, conn>>
output  == <<taken, file, garbled>>
result  == <<events, err, outcome>>
vars == <<main, cur, input, streams, sockets, output, logstash, result>>

TypeOK ==
  /\ lines \in [Stream -> MinLines..MaxLines]
  /\ main \in {"streams", "start", "feed", "read", "compare", "end", "finalize",
               "returned", "process", "write", "wait", "setup", "execute", "teardown",
               "invoke", "release"}
  /\ expected \in [Stream -> 0..MaxLines]
  /\ cur \in 1..Tests + 1
  /\ sent \in [Stream -> 0..MaxLines] /\ tag \in [Stream -> Stream \cup {0}]
  /\ known \subseteq Stream /\ dirs \subseteq Stream
  /\ listener \in [Stream -> {"none", "open", "closed"}]
  /\ acceptor \in [Stream -> {"none", "accept", "assign", "close", "ready"}]
  /\ sender \in [Stream -> {"nil", "open"}]
  /\ receiver \in [Stream -> {"none", "open", "removed"}]
  /\ conn \in [Stream -> {"none", "connected", "eof", "finished"}]
  /\ taken \in [Stream -> 0..MaxLines] /\ file \in [Stream -> Seq(Stream \cup {0})]
  /\ garbled \subseteq Stream
  /\ logstash \in {"unborn", "running", "ended", "failed", "ioerror"}
  /\ events \in [Stream -> Seq(Stream \cup {0})] /\ err \in BOOLEAN
  /\ outcome \in {"none", "pass", "fail", "error", "fatal"}

Init ==
  /\ lines \in [Stream -> MinLines..MaxLines]
  /\ expected \in {e \in [Stream -> 0..MaxLines] :
                    \A i \in Stream : e[i] \in {0, lines[i]}}
  /\ cur = 1
  /\ sent = [i \in Stream |-> 0] /\ tag = [i \in Stream |-> 0]
  /\ known = {} /\ listener = [i \in Stream |-> "none"]
  /\ acceptor = [i \in Stream |-> "none"] /\ sender = [i \in Stream |-> "nil"]
  /\ receiver = [i \in Stream |-> "none"] /\ dirs = {}
  /\ conn = [i \in Stream |-> "none"] /\ taken = [i \in Stream |-> 0]
  /\ file = [i \in Stream |-> << >>] /\ garbled = {}
  /\ logstash = "unborn"
  /\ events = [i \in Stream |-> << >>] /\ err = FALSE /\ outcome = "none"

Set(f, i, value) == [f EXCEPT ![i] = value]

-----------------------------------------------------------------------------
(* Release of the streams and the returns of runParallelTests *)

\* CleanupTestStreams: a sender that the accepting goroutine has not stored
\* yet is not closed.  The socket is removed with its directory: closing the
\* listener does not unlink it.
Cleanup ==
  /\ listener' = [i \in Stream |-> IF i \in known /\ listener[i] = "open"
                                     THEN "closed" ELSE listener[i]]
  /\ receiver' = [i \in Stream |-> IF i \in known THEN "removed" ELSE receiver[i]]
  /\ dirs'     = dirs \ known
  /\ sender'   = [i \in Stream |-> IF i \in known THEN "nil" ELSE sender[i]]
  /\ conn'     = [i \in Stream |-> IF i \in known /\ sender[i] = "open" THEN "eof"
                                                                      ELSE conn[i]]
  /\ UNCHANGED <<known, acceptor>>

\* A return runs what is deferred: the same Cleanup, and then the Release of the
\* caller.
Return(value) == main' = "release" /\ outcome' = value /\ Cleanup

-----------------------------------------------------------------------------
(* runParallelTests up to the start of Logstash *)

NewTestStream ==
  /\ main = "streams" /\ cur <= Tests
  /\ dirs' = dirs \cup {cur}
  /\ listener' = Set(listener, cur, "open")
  /\ acceptor' = Set(acceptor, cur, "accept")
  /\ receiver' = Set(receiver, cur, "open")
  /\ known' = known \cup {cur}
  /\ cur' = cur + 1
  /\ UNCHANGED <<main, input, sender, conn, output, logstash, result>>

\* An error of NewTestStream, and Cleanup of the streams before: without its
\* directory nothing is made of the stream; without its file the stream, its
\* directory, its socket and its goroutine are forgotten.
NewTestStreamFails ==
  /\ main = "streams" /\ cur <= Tests /\ "stream" \in Faults
  /\ main' = "release" /\ outcome' = "error"
  /\ \E left \in {{}, {cur}} :
       /\ dirs' = (dirs \cup left) \ known
       /\ listener' = [i \in Stream |-> IF i \in known THEN "closed"
                                        ELSE IF i \in left THEN "open" ELSE listener[i]]
       /\ acceptor' = [i \in Stream |-> IF i \in left THEN "accept" ELSE acceptor[i]]
  /\ receiver' = [i \in Stream |-> IF i \in known THEN "removed" ELSE receiver[i]]
  /\ UNCHANGED <<cur, input, known, sender, conn, output, logstash, events, err>>

\* log.Fatalf in NewTestStream: the program ends at once, and nothing that is
\* deferred is run.
ListenFails ==
  /\ main = "streams" /\ cur <= Tests /\ "listen" \in Faults
  /\ main' = "returned" /\ outcome' = "fatal"
  /\ dirs' = dirs \cup {cur}
  /\ UNCHANGED <<cur, input, known, listener, receiver, sockets, output, logstash,
                 events, err>>

\* getSocketInOutPlugins: the tag that routes a line's event to a file.
Tags == [i \in Stream |-> i]

\* Faulty: an error of NewParallelProcess does not run Cleanup.
PrepareKeepsStreams ==
  /\ main = "streams" /\ cur = Tests + 1
  /\ tag' = Tags
  /\ \/ main' = "start" /\ UNCHANGED outcome
     \/ "prepare" \in Faults /\ main' = "release" /\ outcome' = "error"
  /\ UNCHANGED <<cur, lines, expected, sent, streams, sockets, output, logstash, events, err>>

\* NewParallelProcess; Cleanup is run at once if it fails, and Release is not
\* deferred yet.
Prepare ==
  /\ main = "streams" /\ cur = Tests + 1
  /\ tag' = Tags
  /\ \/ main' = "start" /\ UNCHANGED <<streams, sockets, outcome>>
     \/ "prepare" \in Faults /\ Return("error")
  /\ UNCHANGED <<cur, lines, expected, sent, output, logstash, events, err>>

Start ==
  /\ main = "start"
  /\ \/ /\ main' = "feed" /\ logstash' = "running"
        /\ UNCHANGED <<streams, sockets, outcome>>
     \/ "spawn" \in Faults /\ Return("error") /\ UNCHANGED logstash
  /\ cur' = 1
  /\ UNCHANGED <<input, output, events, err>>

-----------------------------------------------------------------------------
(* The goroutine of NewTestStream *)

\* AcceptUnix returns a connection, or an error after the listener is closed.
Accept(i) ==
  /\ acceptor[i] = "accept"
  /\ \/ conn[i] # "none" /\ acceptor' = Set(acceptor, i, "assign")
     \/ listener[i] = "closed" /\ acceptor' = Set(acceptor, i, "close")
  /\ UNCHANGED <<main, cur, input, streams, sender, conn, output, logstash,
                 result>>

Assign(i) ==
  /\ acceptor[i] = "assign"
  /\ acceptor' = Set(acceptor, i, "close")
  /\ sender' = Set(sender, i, "open")
  /\ UNCHANGED <<main, cur, input, streams, conn, output, logstash, result>>

CloseListener(i) ==
  /\ acceptor[i] = "close"
  /\ acceptor' = Set(acceptor, i, "ready")
  /\ listener' = Set(listener, i, "closed")
  /\ UNCHANGED <<main, cur, input, known, receiver, dirs, sender, conn, output,
                 logstash, result>>

AcceptorStep(i) == Accept(i) \/ Assign(i) \/ CloseListener(i)

-----------------------------------------------------------------------------
(* TestStream.Write and Close *)

Feeding == main = "feed" /\ cur <= Tests
Alive   == logstash = "running"

\* Write, once senderReady is closed; it fails when Logstash is gone.
Write ==
  /\ Feeding /\ sent[cur] < lines[cur]
  /\ acceptor[cur] = "ready"
  /\ IF Alive
       THEN /\ sent' = Set(sent, cur, sent[cur] + 1)
            /\ UNCHANGED <<main, outcome, streams, sockets>>
       ELSE Return("error") /\ UNCHANGED sent
  /\ UNCHANGED <<cur, lines, expected, tag, output, logstash, events, err>>

\* The timer of Write; it matters when Logstash is slow, and when it has ended.
WriteTimesOut ==
  /\ Feeding /\ sent[cur] < lines[cur]
  /\ acceptor[cur] # "ready"
  /\ "slow" \in Faults \/ ~Alive
  /\ Return("error")
  /\ UNCHANGED <<cur, input, output, logstash, events, err>>

\* Faulty: the stream is left open.
CloseStreamNot ==
  /\ Feeding /\ sent[cur] = lines[cur]
  /\ cur' = cur + 1
  /\ UNCHANGED <<main, input, streams, sockets, output, logstash, result>>

\* Close does not wait for the accepting goroutine: without a line to write,
\* there may be no sender yet.
CloseStream ==
  /\ Feeding /\ sent[cur] = lines[cur]
  /\ sender' = Set(sender, cur, "nil")
  /\ conn' = IF sender[cur] = "open" THEN Set(conn, cur, "eof") ELSE conn
  /\ cur' = cur + 1
  /\ UNCHANGED <<main, input, streams, acceptor, output, logstash, result>>

-----------------------------------------------------------------------------
(* ParallelProcess.Wait and the comparison *)

\* child.Wait returns; one kind of failure is taken for a success.
Wait ==
  /\ main = "feed" /\ cur = Tests + 1
  /\ logstash \in {"ended", "failed", "ioerror"}
  /\ IF logstash = "failed"
       THEN Return("error") /\ UNCHANGED cur
       ELSE /\ main' = "read" /\ cur' = 1
            /\ UNCHANGED <<outcome, streams, sockets>>
  /\ UNCHANGED <<input, output, logstash, events, err>>

\* One round of the loop in Wait: readEvents of the stream's file, up to the
\* first line that is not an event, and the removal of the file.
ReadEvents ==
  /\ main = "read" /\ cur <= Tests
  /\ events' = Set(events, cur, file[cur])
  /\ err' = (cur \in garbled)
  /\ receiver' = Set(receiver, cur, "removed")
  /\ cur' = cur + 1
  /\ UNCHANGED <<main, input, known, listener, dirs, sockets, output, logstash, outcome>>

ReadEnds ==
  /\ main = "read" /\ cur = Tests + 1
  /\ IF err THEN Return("error") /\ UNCHANGED cur
            ELSE main' = "compare" /\ cur' = 1 /\ UNCHANGED <<outcome, streams, sockets>>
  /\ UNCHANGED <<input, output, logstash, events, err>>

ParallelStep ==
  \/ NewTestStream \/ NewTestStreamFails \/ ListenFails \/ Prepare \/ Start
  \/ Write \/ WriteTimesOut \/ CloseStream
  \/ Wait \/ ReadEvents \/ ReadEnds

-----------------------------------------------------------------------------
(* Logstash, external *)

Connect(i) ==
  /\ Alive /\ conn[i] = "none" /\ listener[i] = "open"
  /\ conn' = Set(conn, i, "connected")
  /\ UNCHANGED <<main, cur, input, streams, acceptor, sender, output, logstash,
                 result>>

\* The event of a line is the expected one, another one (0), or dropped.
Process(i) ==
  /\ Alive /\ conn[i] \in {"connected", "eof"} /\ taken[i] < sent[i]
  /\ taken' = Set(taken, i, taken[i] + 1)
  /\ \E reply \in {<<i>>, <<0>>, << >>} :
       file' = [file EXCEPT ![tag[i]] = @ \o reply]
  /\ UNCHANGED <<main, cur, input, streams, sockets, garbled, logstash, result>>

Finish(i) ==
  /\ Alive /\ conn[i] = "eof" /\ taken[i] = sent[i]
  /\ conn' = Set(conn, i, "finished")
  /\ UNCHANGED <<main, cur, input, streams, acceptor, sender, output, logstash,
                 result>>

Garble(i) ==
  /\ "garbage" \in Faults
  /\ Alive /\ conn[i] = "finished"
  /\ garbled' = garbled \cup {i}
  /\ UNCHANGED <<main, cur, input, streams, sockets, taken, file, logstash, result>>

LogstashEnds(inputs) ==
  /\ Alive /\ \A i \in inputs : conn[i] = "finished"
  /\ logstash' = "ended"
  /\ UNCHANGED <<main, cur, input, streams, sockets, output, result>>

\* It may end early, which breaks the connections that are open.
LogstashFails ==
  /\ Alive
  /\ \/ "crash" \in Faults /\ logstash' = "failed"
     \/ "ioerror" \in Faults /\ logstash' = "ioerror"
  /\ UNCHANGED <<main, cur, input, streams, sockets, output, result>>

=================================================================================
