------------------------------ MODULE TestRunProofs ------------------------------
(***************************************************************************)
(* Proofs about TestRun for any number of test case sets, lines and events *)
(* and any faults, in the three modes: what a run leaves behind, that it   *)
(* passes only if it should, and that the summary tells what happened.     *)
(*                                                                         *)
(* The invariant says which part of the work is done at each control point *)
(* of the main goroutine: the streams that are sent completely (Fed), the  *)
(* sets that are judged (Judged), the updates the observer was given so    *)
(* far and how many of them it has read.                                   *)
(***************************************************************************)
EXTENDS TestRun, SequenceTheorems, TLAPS

-----------------------------------------------------------------------------
(* Types *)

PointsOK ==
  /\ main \in {"streams", "start", "feed", "read", "compare", "end", "finalize",
               "returned", "process", "write", "wait", "setup", "execute", "teardown",
               "invoke", "release"}
  /\ mode \in Modes /\ ok \in BOOLEAN /\ err \in BOOLEAN
  /\ logstash \in {"unborn", "running", "ended", "failed", "ioerror"}
  /\ outcome \in {"none", "pass", "fail", "error", "fatal"}
  /\ session \in {"none", "open", "closed", "kept"}
  /\ temp \subseteq {"dir", "log", "io"}

\* Each mode has its control points, and a verdict only at the end.
Points ==
  [sockets |-> {"invoke", "streams", "start", "feed", "read", "compare", "end", "finalize",
                "release", "returned"},
   stdin   |-> {"invoke", "process", "write", "wait", "compare", "end", "finalize",
                "release", "returned"},
   daemon  |-> {"setup", "execute", "compare", "end", "finalize", "teardown", "returned"}]

ModeOK ==
  /\ main \in Points[mode]
  /\ outcome # "none" <=> main \in {"release", "teardown", "returned"}

\* What is to be compared is the set cur, and in the loops over all sets cur may
\* be one more.
CurOK ==
  /\ cur \in 1..Tests + 1 /\ (main \in {"invoke", "setup"} => cur = 1)
  /\ main \notin {"streams", "feed", "read", "start", "release", "returned"} => cur <= Tests
  /\ mode # "sockets" => cur <= Tests

InputOK ==
  /\ lines \in [Stream -> MinLines..MaxLines] /\ expected \in [Stream -> 0..MaxLines]
  /\ sent \in [Stream -> 0..MaxLines] /\ tag \in [Stream -> Stream \cup {0}]
  /\ \A i \in Stream : sent[i] <= lines[i]

StreamsOK ==
  /\ known \subseteq Stream /\ failed \subseteq Stream /\ dirs \subseteq Stream
  /\ listener \in [Stream -> {"none", "open", "closed"}]
  /\ receiver \in [Stream -> {"none", "open", "removed"}]
  /\ acceptor \in [Stream -> {"none", "accept", "assign", "close", "ready"}]
  /\ sender \in [Stream -> {"nil", "open"}]
  /\ conn \in [Stream -> {"none", "connected", "eof", "finished"}]

\* A line is processed after it was sent.
OutputOK ==
  /\ taken \in [Stream -> 0..MaxLines] /\ garbled \subseteq Stream
  /\ file \in [Stream -> Seq(Stream \cup {0})]
  /\ events \in [Stream -> Seq(Stream \cup {0})]
  /\ \A i \in Stream : taken[i] <= sent[i]

\* Compare is at an event of cur only if their number is right.
AtOK ==
  /\ at \in 1..MaxLines + 1
  /\ main = "compare" => at = 1 \/ (SameLength /\ at <= expected[cur] + 1)
  /\ main \notin {"compare", "release", "teardown", "returned"} => at = 1
  /\ outcome \in {"pass", "fail"} => at = 1

Types == PointsOK /\ ModeOK /\ CurOK /\ InputOK /\ StreamsOK /\ OutputOK /\ AtOK

-----------------------------------------------------------------------------
(* What is left behind *)

Closing == {"end", "finalize", "release", "returned"}

LeftInv ==
  /\ mode = "daemon" => known = {} /\ temp = {}
  /\ mode # "daemon" => session = "none"
  /\ main \in Closing /\ outcome # "fatal" =>
       \A i \in known : listener[i] # "open" /\ receiver[i] = "removed" /\ i \notin dirs
  /\ main = "invoke" => known = {} /\ temp = {}
  /\ main = "returned" => session # "open" /\ (outcome # "fatal" => "dir" \notin temp)
  /\ main = "setup" => session = "none"

-----------------------------------------------------------------------------
(* What is sent and processed *)

Verdict == outcome \in {"pass", "fail"}

\* The streams all lines of which were sent.
Fed ==
  IF Verdict \/ main \in {"read", "end", "finalize"} THEN Stream
  ELSE IF main \in {"feed", "process", "write", "execute"} THEN 1..cur - 1
  ELSE IF main = "wait" THEN 1..cur
  ELSE IF main = "compare" THEN IF mode = "sockets" THEN Stream ELSE 1..cur
  ELSE {}

\* Processes that a run with a verdict may have had.
Survivors == [sockets |-> {"ended", "ioerror"}, stdin |-> {"ended"}, daemon |-> {"unborn"}]

SentInv ==
  /\ \A i \in Fed : sent[i] = lines[i]
  /\ outcome = "none" =>
       \A i \in Stream : conn[i] \in {"eof", "finished"} => sent[i] = lines[i]
  /\ \A i \in Stream : conn[i] = "finished" => taken[i] = sent[i]
  /\ logstash = "ended" => \A i \in Stream : taken[i] = sent[i]
  /\ mode = "stdin" => \A i \in Stream \ {cur} : taken[i] = sent[i]
  /\ mode = "daemon" => logstash = "unborn" /\ \A i \in Stream : taken[i] = sent[i]
  /\ Verdict \/ main \in {"read", "compare", "end", "finalize"} => logstash \in Survivors[mode]

-----------------------------------------------------------------------------
(* What is compared *)

\* The test case sets that Compare has returned for.
Judged ==
  IF Verdict \/ main \in {"end", "finalize"} THEN Stream
  ELSE IF main \in {"compare", "process", "write", "wait", "execute"} THEN 1..cur - 1
  ELSE {}

JudgedInv ==
  /\ ok => \A i \in Judged : events[i] = Wanted(i)
  /\ Verdict => (outcome = "pass" <=> ok)

-----------------------------------------------------------------------------
(* What the observer is told, and knows *)

Results == {Comparison(i, b) : i \in Stream, b \in BOOLEAN}

IsComparison(u) == \E i \in Stream, b \in BOOLEAN : u = Comparison(i, b)

Told == {k \in 2..Len(updates) : IsComparison(updates[k])}

Before == {"finalize", "release", "teardown", "returned"}

UpdatesInv ==
  /\ updates \in Seq({StartEvent, EndEvent} \cup Results)
  /\ updates # << >> /\ updates[1] = StartEvent
  /\ \A k \in 2..Len(updates) : IsComparison(updates[k]) \/ k = Len(updates)
  /\ \A k \in 2..Len(updates) : updates[k] # StartEvent
  /\ main \notin Before => \A k \in 2..Len(updates) : IsComparison(updates[k])

\* The statuses told so far are those of the sets judged, and of the events of
\* cur that were compared.
Agree == \A n \in 1..at - 1 : events[cur][n] = cur

ToldInv ==
  /\ \A i \in Judged \ failed : \E k \in Told : updates[k].path = i
  /\ main = "compare" /\ at > 1 => \E k \in Told : updates[k].path = cur
  /\ ok /\ Agree <=> failed = {} /\ \A k \in Told : updates[k].status

ObserverOK ==
  /\ observer \in {"none", "starting", "handle", "changes", "done", "panic"}
  /\ position \in 0..Len(updates) /\ made \in BOOLEAN /\ printed \in BOOLEAN
  /\ counted \in Seq(Results)
  /\ observer \in {"handle", "changes", "done"} => position >= 1

\* How far the observer has come, and what it has counted.
ObserverInv ==
  /\ observer # "panic"
  /\ observer \in {"none", "starting"} => position = 0 /\ counted = << >>
  /\ observer = "starting" => Len(updates) = 1
  /\ observer = "handle" => (position > 1 => made)
  /\ observer \in {"changes", "done"} => made
  /\ observer = "handle" => Len(counted) = IF position = 1 THEN 0 ELSE position - 2
  /\ observer = "changes" /\ ~printed => Len(counted) = position - 1
  /\ printed => /\ observer \in {"changes", "done"} /\ position = Len(updates)
                /\ Len(updates) >= 2 /\ Len(counted) = Len(updates) - 2
                /\ updates[position] = EndEvent
  /\ observer = "done" => printed
  /\ \A n \in 1..Len(counted) : counted[n] = updates[n + 1]
  /\ Verdict /\ observer # "none" => printed
  /\ main = "setup" => observer = "none" /\ Len(updates) = 1

-----------------------------------------------------------------------------
(* Types, step by step *)

LEMMA ReturnFacts ==
  ASSUME NEW value, Return(value)
  PROVE  /\ main' = "release" /\ outcome' = value
         /\ Cleanup /\ UNCHANGED <<known, acceptor>>
BY DEF Return, Cleanup

\* What Logstash does, or suffers, does not touch the program.
LEMMA LogstashFrame ==
  ASSUME LogstashStep \/ Misfortune
  PROVE  /\ UNCHANGED <<main, cur, input, streams, acceptor, sender, result, summaryVars, runVars>>
         /\ logstash = "running" /\ logstash' \in {"running", "ended", "failed", "ioerror"}
<1>1. ASSUME LogstashEnds(Inputs) \/ LogstashFails, UNCHANGED <<summaryVars, runVars>>
      PROVE  /\ UNCHANGED <<main, cur, input, streams, acceptor, sender, result, summaryVars, runVars>>
             /\ logstash = "running" /\ logstash' \in {"running", "ended", "failed", "ioerror"}
  BY <1>1 DEF LogstashEnds, LogstashFails, Alive, sockets
<1>2. ASSUME NEW i \in Inputs, Connect(i) \/ Process(i) \/ Finish(i) \/ Garble(i),
             UNCHANGED <<summaryVars, runVars>>
      PROVE  /\ UNCHANGED <<main, cur, input, streams, acceptor, sender, result, summaryVars, runVars>>
             /\ logstash = "running" /\ logstash' \in {"running", "ended", "failed", "ioerror"}
  BY <1>2 DEF Connect, Process, Finish, Garble, Alive, sockets
<1> QED
  BY <1>1, <1>2 DEF LogstashStep, Misfortune

\* An accepting goroutine.
LEMMA AcceptorFrame ==
  ASSUME NEW i, Acceptor(i)
  PROVE  UNCHANGED <<main, cur, input, known, receiver, dirs, conn, output, logstash, result,
                     summaryVars, runVars>>
BY DEF Acceptor, AcceptorStep, Accept, Assign, CloseListener, streams

LEMMA PointsStep ==
  ASSUME PointsOK, ModeOK, [RunNext]_allVars
  PROVE  PointsOK' /\ ModeOK'
<1> USE ModesAssumption DEF PointsOK, ModeOK, Points, result, runVars, vars
<1>1. CASE ParallelStep /\ UNCHANGED <<summaryVars, runVars>>
  <2>1. CASE NewTestStream \/ NewTestStreamFails \/ ListenFails \/ Prepare
    BY <1>1, <2>1, ReturnFacts DEF NewTestStream, NewTestStreamFails, ListenFails, Prepare
  <2>2. CASE Start \/ Write \/ WriteTimesOut
    BY <1>1, <2>2, ReturnFacts DEF Start, Write, WriteTimesOut, Feeding
  <2>3. CASE CloseStream \/ Wait
    BY <1>1, <2>3, ReturnFacts DEF CloseStream, Wait, Feeding
  <2>4. CASE ReadEvents
    <3>1. err' \in BOOLEAN
      <4>1. err' = (cur \in garbled)
        BY <2>4 DEF ReadEvents
      <4>2. CASE cur \in garbled
        BY <4>1, <4>2
      <4>3. CASE cur \notin garbled
        BY <4>1, <4>3
      <4> QED
        BY <4>2, <4>3
    <3>2. UNCHANGED <<main, mode, ok, logstash, outcome, session, temp>>
      BY <1>1, <2>4 DEF ReadEvents
    <3> QED
      BY <3>1, <3>2
  <2>5. CASE ReadEnds
    BY <1>1, <2>5, ReturnFacts DEF ReadEnds
  <2> QED
    BY <1>1, <2>1, <2>2, <2>3, <2>4, <2>5 DEF ParallelStep
<1>2. CASE NewInvocation
  BY <1>2 DEF NewInvocation, FirstStep, Left
<1>3. CASE Release
  BY <1>3 DEF Release
<1>4. CASE NewProcess
  BY <1>4, ReturnFacts DEF NewProcess
<1>5. CASE WriteStdin
  BY <1>5, ReturnFacts DEF WriteStdin
<1>6. CASE CloseStdin
  BY <1>6, ReturnFacts DEF CloseStdin
<1>7. CASE WaitForProcess
  BY <1>7, ReturnFacts DEF WaitForProcess
<1>8. CASE SetupTest
  BY <1>8 DEF SetupTest
<1>9. CASE ExecuteTest
  BY <1>9 DEF ExecuteTest
<1>10. CASE TeardownTest
  BY <1>10 DEF TeardownTest
<1>11. CASE CompareStep
  <2>1. ASSUME NEW same \in BOOLEAN, Comparing, Compared(same) PROVE PointsOK' /\ ModeOK'
    BY <2>1 DEF Compared, GoOn, Comparing
  <2>2. CASE CompareLengths
    BY <2>1, <2>2 DEF CompareLengths
  <2>3. CASE CompareNothing
    BY <2>1, <2>3 DEF CompareNothing
  <2>4. CASE CompareEvent
    BY <2>4 DEF CompareEvent, Comparing
  <2>5. CASE CompareEnds
    BY <2>1, <2>5 DEF CompareEnds
  <2>6. CASE CompareFails
    <3>1. CASE mode = "sockets"
      BY <2>1, <2>6, <3>1 DEF CompareFails
    <3>2. CASE mode # "sockets"
      <4>1. /\ main' = (IF mode = "daemon" THEN "teardown" ELSE "release")
            /\ outcome' = "error" /\ UNCHANGED <<err, logstash, runVars>>
        BY <2>6, <3>2, ReturnFacts DEF CompareFails, Leave
      <4> QED
        BY <2>6, <3>2, <4>1 DEF CompareFails, Comparing
    <3> QED
      BY <3>1, <3>2
  <2> QED
    BY <1>11, <2>2, <2>3, <2>4, <2>5, <2>6 DEF CompareStep
<1>12. CASE EndRun
  BY <1>12 DEF EndRun
<1>13. CASE FinalizeRun
  BY <1>13, ReturnFacts DEF FinalizeRun, Leave
<1>14. CASE LogstashStep \/ Misfortune
  <2>1. /\ UNCHANGED <<main, mode, ok, err, outcome, session, temp>>
        /\ logstash' \in {"running", "ended", "failed", "ioerror"}
    BY <1>14, LogstashFrame
  <2> QED
    BY <2>1
<1>15. ASSUME NEW i \in Stream, Acceptor(i) PROVE PointsOK' /\ ModeOK'
  <2>1. UNCHANGED <<main, mode, ok, err, logstash, outcome, session, temp>>
    BY <1>15, AcceptorFrame
  <2> QED
    BY <2>1
<1>16. CASE ObserverStep /\ UNCHANGED <<vars, runVars>>
  BY <1>16
<1>17. CASE UNCHANGED allVars
  BY <1>17 DEF allVars
<1> QED
  BY <1>1, <1>2, <1>3, <1>4, <1>5, <1>6, <1>7, <1>8, <1>9, <1>10, <1>11, <1>12,
     <1>13, <1>14, <1>15, <1>16, <1>17 DEF RunNext, MainStep

\* Where the loop over the test case sets goes after Compare.
LEMMA ComparedFacts ==
  ASSUME PointsOK, ModeOK, Comparing, NEW same, Compared(same)
  PROVE  /\ ok' = (ok /\ same) /\ at' = 1
         /\ UNCHANGED <<input, output, logstash, result, mode, session, temp, known, acceptor>>
         /\ \/ /\ cur < Tests /\ cur' = cur + 1 /\ UNCHANGED <<streams, sockets>>
               /\ \/ mode = "sockets" /\ main' = "compare"
                  \/ mode = "stdin" /\ main' = "process"
                  \/ mode = "daemon" /\ main' = "execute"
            \/ /\ ~(cur < Tests) /\ cur' = cur /\ main' = "end"
               /\ \/ mode = "daemon" /\ UNCHANGED <<streams, sockets>>
                  \/ mode # "daemon" /\ Cleanup
<1>1. mode \in {"sockets", "stdin", "daemon"}
  BY ModesAssumption DEF PointsOK
<1>2. CASE cur < Tests
  BY <1>1, <1>2 DEF Compared, GoOn, streams, sockets
<1>3. CASE ~(cur < Tests)
  BY <1>1, <1>3 DEF Compared, GoOn, Cleanup, streams, sockets
<1> QED
  BY <1>2, <1>3

\* Where an error of the diff command leads to without --sockets.
LEMMA FailFacts ==
  ASSUME CompareFails, mode # "sockets"
  PROVE  /\ outcome' = "error" /\ UNCHANGED <<cur, input, output, logstash, events, err, runVars,
                                             summaryVars, known, acceptor>>
         /\ \/ mode = "daemon" /\ main' = "teardown" /\ UNCHANGED <<streams, sockets>>
            \/ mode # "daemon" /\ main' = "release" /\ Cleanup
<1>1. CASE mode = "daemon"
  BY <1>1 DEF CompareFails, Leave, streams, sockets
<1>2. CASE mode # "daemon"
  BY <1>2, ReturnFacts DEF CompareFails, Leave
<1> QED
  BY <1>1, <1>2

LEMMA FinalizeFacts ==
  ASSUME FinalizeRun
  PROVE  /\ main = "finalize" /\ outcome' = (IF ok THEN "pass" ELSE "fail")
         /\ UNCHANGED <<cur, input, output, logstash, events, err, runVars, known, acceptor>>
         /\ \/ mode = "daemon" /\ main' = "teardown" /\ UNCHANGED <<streams, sockets>>
            \/ mode # "daemon" /\ main' = "release" /\ Cleanup
<1>1. CASE mode = "daemon"
  BY <1>1 DEF FinalizeRun, Leave, streams, sockets
<1>2. CASE mode # "daemon"
  BY <1>2, ReturnFacts DEF FinalizeRun, Leave
<1> QED
  BY <1>1, <1>2

LEMMA CurStep ==
  ASSUME PointsOK, ModeOK, CurOK, [RunNext]_allVars
  PROVE  CurOK'
<1>0. Tests \in Nat \ {0} /\ mode \in {"sockets", "stdin", "daemon"}
  BY ParallelAssumption, ModesAssumption DEF PointsOK
<1> USE <1>0 DEF CurOK, ModeOK, Points, runVars
<1>1. CASE ParallelStep /\ UNCHANGED <<summaryVars, runVars>>
  <2>1. CASE NewTestStream \/ NewTestStreamFails \/ ListenFails \/ Prepare
    BY <1>1, <2>1, ReturnFacts DEF NewTestStream, NewTestStreamFails, ListenFails, Prepare
  <2>2. CASE Start
    BY <1>1, <2>2, ReturnFacts DEF Start
  <2>3. CASE Write \/ WriteTimesOut
    BY <1>1, <2>3, ReturnFacts DEF Write, WriteTimesOut, Feeding
  <2>4. CASE CloseStream
    BY <1>1, <2>4 DEF CloseStream, Feeding
  <2>5. CASE Wait
    BY <1>1, <2>5, ReturnFacts DEF Wait
  <2>6. CASE ReadEvents \/ ReadEnds
    BY <1>1, <2>6, ReturnFacts DEF ReadEvents, ReadEnds
  <2> QED
    BY <1>1, <2>1, <2>2, <2>3, <2>4, <2>5, <2>6 DEF ParallelStep
<1>2. CASE NewInvocation
  BY <1>2 DEF NewInvocation, FirstStep
<1>3. CASE Release \/ TeardownTest \/ EndRun
  BY <1>3 DEF Release, TeardownTest, EndRun
<1>4. CASE NewProcess
  BY <1>4, ReturnFacts DEF NewProcess
<1>5. CASE WriteStdin \/ CloseStdin
  BY <1>5, ReturnFacts DEF WriteStdin, CloseStdin
<1>6. CASE WaitForProcess
  BY <1>6, ReturnFacts DEF WaitForProcess
<1>7. CASE SetupTest \/ ExecuteTest
  BY <1>7 DEF SetupTest, ExecuteTest
<1>8. CASE CompareStep
  <2>1. ASSUME NEW same, Comparing, Compared(same) PROVE CurOK'
    BY <2>1, ComparedFacts DEF Comparing
  <2>2. CASE CompareLengths \/ CompareNothing \/ CompareEnds
    BY <2>1, <2>2 DEF CompareLengths, CompareNothing, CompareEnds
  <2>3. CASE CompareEvent
    BY <2>3 DEF CompareEvent, vars
  <2>4. CASE CompareFails
    BY <2>1, <2>4, FailFacts DEF CompareFails, Comparing
  <2> QED
    BY <1>8, <2>2, <2>3, <2>4 DEF CompareStep
<1>9. CASE FinalizeRun
  BY <1>9, FinalizeFacts
<1>10. CASE LogstashStep \/ Misfortune
  BY <1>10, LogstashFrame
<1>11. ASSUME NEW i \in Stream, Acceptor(i) PROVE CurOK'
  BY <1>11, AcceptorFrame
<1>12. CASE UNCHANGED <<vars, runVars>> \/ UNCHANGED allVars
  BY <1>12 DEF vars, allVars
<1> QED
  BY <1>1, <1>2, <1>3, <1>4, <1>5, <1>6, <1>7, <1>8, <1>9, <1>10, <1>11, <1>12
     DEF RunNext, MainStep

\* One line more is sent to a stream that has not got all of them.
LEMMA SentOneMore ==
  ASSUME InputOK, MaxLines \in Nat, NEW c \in Stream, sent[c] < lines[c],
         sent' = [sent EXCEPT ![c] = sent[c] + 1]
  PROVE  sent' \in [Stream -> 0..MaxLines] /\ \A i \in Stream : sent'[i] <= lines[i]
<1>1. sent \in [Stream -> 0..MaxLines] /\ \A i \in Stream : sent[i] <= lines[i]
  BY DEF InputOK
<1>2. lines[c] \in MinLines..MaxLines /\ MinLines \in Nat
  BY ParallelAssumption DEF InputOK
<1>3. sent[c] + 1 \in 0..MaxLines /\ sent[c] + 1 <= lines[c]
  BY <1>1, <1>2
<1>4. sent' \in [Stream -> 0..MaxLines]
  BY <1>1, <1>3
<1>5. ASSUME NEW i \in Stream PROVE sent'[i] <= lines[i]
  <2>1. CASE i = c
    BY <1>1, <1>3, <2>1
  <2>2. CASE i # c
    BY <1>1, <2>2
  <2> QED
    BY <2>1, <2>2
<1> QED
  BY <1>4, <1>5

LEMMA InputStep ==
  ASSUME PointsOK, ModeOK, CurOK, InputOK, [RunNext]_allVars
  PROVE  InputOK'
<1>0. Tests \in Nat \ {0} /\ MinLines \in Nat /\ MaxLines \in Nat
  BY ParallelAssumption
<1> USE <1>0 DEF InputOK, input, Stream, Set
<1>1. CASE ParallelStep
  <2>1. CASE Prepare
    BY <2>1 DEF Prepare, Tags
  <2>2. CASE Write
    <3>1. /\ cur \in Stream /\ sent[cur] < lines[cur]
          /\ sent' \in {sent, [sent EXCEPT ![cur] = sent[cur] + 1]}
          /\ UNCHANGED <<lines, expected, tag>>
      BY <2>2 DEF Write, Feeding, CurOK
    <3>2. CASE sent' = sent
      BY <3>1, <3>2
    <3>3. CASE sent' = [sent EXCEPT ![cur] = sent[cur] + 1]
      <4>1. sent' \in [Stream -> 0..MaxLines] /\ \A i \in Stream : sent'[i] <= lines[i]
        BY <3>1, <3>3, SentOneMore
      <4> QED
        BY <3>1, <4>1
    <3> QED
      BY <3>1, <3>2, <3>3
  <2>3. CASE NewTestStream \/ NewTestStreamFails \/ ListenFails \/ Start \/ WriteTimesOut
    BY <2>3 DEF NewTestStream, NewTestStreamFails, ListenFails, Start, WriteTimesOut
  <2>4. CASE CloseStream \/ Wait \/ ReadEvents \/ ReadEnds
    BY <2>4 DEF CloseStream, Wait, ReadEvents, ReadEnds
  <2> QED
    BY <1>1, <2>1, <2>2, <2>3, <2>4 DEF ParallelStep
<1>2. CASE NewProcess
  <2>1. cur \in Stream /\ UNCHANGED <<lines, expected, sent>>
        /\ tag' \in {tag, [tag EXCEPT ![cur] = cur]}
    BY <1>2 DEF NewProcess, CurOK, Return
  <2> QED
    BY <2>1
<1>3. CASE WriteStdin
  <2>1. cur \in Stream /\ sent[cur] < lines[cur]
    BY <1>3 DEF WriteStdin, CurOK
  <2>3. CASE Alive
    <3>1. /\ sent' = [sent EXCEPT ![cur] = sent[cur] + 1]
          /\ UNCHANGED <<lines, expected, tag>>
      BY <1>3, <2>3 DEF WriteStdin
    <3>2. sent' \in [Stream -> 0..MaxLines] /\ \A i \in Stream : sent'[i] <= lines[i]
      BY <2>1, <3>1, SentOneMore
    <3> QED
      BY <3>1, <3>2
  <2>4. CASE ~Alive
    BY <1>3, <2>4 DEF WriteStdin
  <2> QED
    BY <2>3, <2>4
<1>4. CASE ExecuteTest
  <2>1. cur \in Stream
    BY <1>4 DEF ExecuteTest, CurOK
  <2>2. /\ UNCHANGED <<lines, expected, tag>>
        /\ sent' = sent \/ sent' = [sent EXCEPT ![cur] = lines[cur]]
    BY <1>4 DEF ExecuteTest
  <2>3. lines[cur] \in 0..MaxLines /\ lines[cur] <= lines[cur]
    BY <2>1
  <2>4. CASE sent' = [sent EXCEPT ![cur] = lines[cur]]
    BY <2>1, <2>2, <2>3, <2>4
  <2> QED
    BY <2>2, <2>4
<1>5. CASE NewInvocation \/ Release \/ CloseStdin \/ WaitForProcess
  BY <1>5 DEF NewInvocation, Release, CloseStdin, WaitForProcess
<1>6. CASE SetupTest \/ TeardownTest \/ EndRun
  BY <1>6 DEF SetupTest, TeardownTest, EndRun
<1>7. CASE CompareStep
  <2>1. ASSUME NEW same, Comparing, Compared(same) PROVE InputOK'
    BY <2>1, ComparedFacts
  <2>2. CASE CompareLengths \/ CompareNothing \/ CompareEnds
    BY <2>1, <2>2 DEF CompareLengths, CompareNothing, CompareEnds
  <2>3. CASE CompareEvent
    BY <2>3 DEF CompareEvent, vars
  <2>4. CASE CompareFails
    BY <2>1, <2>4, FailFacts DEF CompareFails
  <2> QED
    BY <1>7, <2>2, <2>3, <2>4 DEF CompareStep
<1>8. CASE FinalizeRun
  BY <1>8, FinalizeFacts
<1>9. CASE LogstashStep \/ Misfortune
  BY <1>9, LogstashFrame
<1>10. ASSUME NEW i \in Stream, Acceptor(i) PROVE InputOK'
  BY <1>10, AcceptorFrame
<1>11. CASE UNCHANGED <<vars, runVars>> \/ UNCHANGED allVars
  BY <1>11 DEF vars, allVars
<1> QED
  BY <1>1, <1>2, <1>3, <1>4, <1>5, <1>6, <1>7, <1>8, <1>9, <1>10, <1>11
     DEF RunNext, MainStep

LEMMA CleanupFacts ==
  ASSUME StreamsOK, Cleanup, UNCHANGED failed
  PROVE  /\ StreamsOK' /\ known' = known
         /\ \A i \in known : listener'[i] # "open" /\ receiver'[i] = "removed" /\ i \notin dirs'
         /\ \A i \in Stream : conn'[i] = conn[i] \/ conn'[i] = "eof"
BY DEF StreamsOK, Cleanup

LEMMA StreamsStep ==
  ASSUME PointsOK, ModeOK, CurOK, StreamsOK, [RunNext]_allVars
  PROVE  StreamsOK'
<1>0. Tests \in Nat \ {0}
  BY ParallelAssumption
<1> USE <1>0 DEF runVars, streams, sockets
<1> DEFINE Same == UNCHANGED <<known, listener, receiver, dirs, acceptor, sender, conn, failed>>
<1>1. Same => StreamsOK'
  BY DEF StreamsOK
<1>2. ASSUME NEW value, Return(value), UNCHANGED failed PROVE StreamsOK'
  BY <1>2, ReturnFacts, CleanupFacts
<1> USE <1>1, <1>2
<1>3. CASE ParallelStep /\ UNCHANGED <<summaryVars, runVars>>
  <2>1. CASE NewTestStream
    BY <1>3, <2>1 DEF NewTestStream, StreamsOK, Stream, Set, CurOK
  <2>7. CASE NewTestStreamFails
    <3>1. PICK left \in {{}, {cur}} :
            /\ dirs' = (dirs \cup left) \ known
            /\ listener' = [i \in Stream |-> IF i \in known THEN "closed"
                                             ELSE IF i \in left THEN "open" ELSE listener[i]]
            /\ acceptor' = [i \in Stream |-> IF i \in left THEN "accept" ELSE acceptor[i]]
      BY <2>7 DEF NewTestStreamFails
    <3>2. left \subseteq Stream
      BY <2>7 DEF NewTestStreamFails, CurOK, Stream
    <3> QED
      BY <1>3, <2>7, <3>1, <3>2 DEF NewTestStreamFails, StreamsOK
  <2>8. CASE ListenFails
    <3>1. cur \in Stream
      BY <2>8 DEF ListenFails, CurOK, Stream
    <3> QED
      BY <1>3, <2>8, <3>1 DEF ListenFails, StreamsOK
  <2>2. CASE Prepare \/ Start
    BY <1>3, <2>2 DEF Prepare, Start
  <2>3. CASE Write \/ WriteTimesOut
    BY <1>3, <2>3 DEF Write, WriteTimesOut
  <2>4. CASE CloseStream
    BY <1>3, <2>4 DEF CloseStream, StreamsOK, Stream, Set
  <2>5. CASE Wait \/ ReadEnds
    BY <1>3, <2>5 DEF Wait, ReadEnds
  <2>6. CASE ReadEvents
    BY <1>3, <2>6 DEF ReadEvents, StreamsOK, Stream, Set
  <2> QED
    BY <1>3, <2>1, <2>2, <2>3, <2>4, <2>5, <2>6, <2>7, <2>8 DEF ParallelStep
<1>4. CASE NewProcess
  <2>1. cur \in Stream /\ UNCHANGED failed
    BY <1>4 DEF NewProcess, CurOK, Stream
  <2>2. \/ Return("error")
        \/ /\ known' = known \cup {cur} /\ receiver' = [receiver EXCEPT ![cur] = "open"]
           /\ conn' = [conn EXCEPT ![cur] = "connected"]
           /\ UNCHANGED <<listener, dirs, acceptor, sender>>
    BY <1>4 DEF NewProcess, Set
  <2> QED
    BY <2>1, <2>2 DEF StreamsOK
<1>5. CASE CloseStdin
  BY <1>5 DEF CloseStdin, StreamsOK, Stream, Set
<1>6. CASE WriteStdin \/ WaitForProcess
  BY <1>6 DEF WriteStdin, WaitForProcess
<1>7. CASE NewInvocation \/ Release \/ SetupTest \/ ExecuteTest \/ TeardownTest \/ EndRun
  BY <1>7 DEF NewInvocation, Release, SetupTest, ExecuteTest, TeardownTest, EndRun
<1>8. CASE CompareStep
  <2>1. ASSUME NEW same, Comparing, Compared(same), UNCHANGED failed PROVE StreamsOK'
    BY <2>1, ComparedFacts, CleanupFacts
  <2>2. CASE CompareLengths \/ CompareNothing \/ CompareEnds
    BY <2>1, <2>2 DEF CompareLengths, CompareNothing, CompareEnds
  <2>3. CASE CompareEvent
    BY <2>3 DEF CompareEvent, vars
  <2>4. CASE CompareFails
    <3>1. CASE mode # "sockets"
      BY <2>4, <3>1, FailFacts, CleanupFacts
    <3>2. CASE mode = "sockets"
      <4>1. Comparing /\ Compared(FALSE) /\ failed' = failed \cup {cur}
        BY <2>4, <3>2 DEF CompareFails
      <4>3. cur \in Stream
        BY <4>1 DEF Comparing, CurOK, Stream
      <4>2. /\ UNCHANGED <<known, acceptor>>
            /\ Cleanup \/ UNCHANGED <<listener, receiver, dirs, sender, conn>>
        BY <4>1, ComparedFacts
      <4> QED
        BY <4>1, <4>2, <4>3 DEF StreamsOK, Cleanup
    <3> QED
      BY <3>1, <3>2
  <2> QED
    BY <1>8, <2>2, <2>3, <2>4 DEF CompareStep
<1>9. CASE FinalizeRun
  BY <1>9, FinalizeFacts, CleanupFacts
<1>10. CASE LogstashStep \/ Misfortune
  <2>1. conn' \in [Stream -> {"none", "connected", "eof", "finished"}]
    <3>1. CASE UNCHANGED conn
      BY <3>1 DEF StreamsOK
    <3>2. ASSUME NEW i \in Inputs, Connect(i) \/ Finish(i)
          PROVE  conn' \in [Stream -> {"none", "connected", "eof", "finished"}]
      BY <3>2 DEF Connect, Finish, Set, StreamsOK
    <3> QED
      BY <1>10, <3>1, <3>2 DEF LogstashStep, Misfortune, LogstashEnds, LogstashFails, Process, Garble
  <2> QED
    BY <1>10, <2>1, LogstashFrame DEF StreamsOK
<1>11. ASSUME NEW i \in Stream, Acceptor(i) PROVE StreamsOK'
  BY <1>11 DEF Acceptor, AcceptorStep, Accept, Assign, CloseListener, StreamsOK, Set
<1>12. CASE UNCHANGED <<vars, runVars>> \/ UNCHANGED allVars
  BY <1>12 DEF vars, allVars
<1> QED
  BY <1>3, <1>4, <1>5, <1>6, <1>7, <1>8, <1>9, <1>10, <1>11, <1>12
     DEF RunNext, MainStep

\* Logstash adds the event of a line to a file.
LEMMA ProcessFacts ==
  ASSUME InputOK, OutputOK, NEW i \in Stream, Process(i)
  PROVE  /\ taken' = [taken EXCEPT ![i] = taken[i] + 1]
         /\ taken[i] < sent[i] /\ taken[i] + 1 \in 0..MaxLines
         /\ taken[i] + 1 <= sent[i]
         /\ file' \in [Stream -> Seq(Stream \cup {0})]
         /\ UNCHANGED garbled
<1>1. taken[i] < sent[i] /\ taken' = [taken EXCEPT ![i] = taken[i] + 1] /\ UNCHANGED garbled
  BY DEF Process, Set
<1>2. taken[i] + 1 \in 0..MaxLines /\ taken[i] + 1 <= sent[i]
  <2>1. taken[i] \in Int /\ sent[i] \in Int /\ taken[i] >= 0 /\ sent[i] <= MaxLines
    BY ParallelAssumption DEF InputOK, OutputOK
  <2> QED
    BY <1>1, <2>1, ParallelAssumption
<1>3. PICK reply \in {<<i>>, <<0>>, << >>} : file' = [file EXCEPT ![tag[i]] = @ \o reply]
  BY DEF Process
<1>4. reply \in Seq(Stream \cup {0})
  <2>1. CASE reply = <<i>>
    BY <2>1
  <2>2. CASE reply = <<0>>
    BY <2>2
  <2>3. CASE reply = << >>
    BY <2>3, EmptySeq
  <2> QED
    BY <2>1, <2>2, <2>3
<1>5. \A j \in Stream : file[j] \o reply \in Seq(Stream \cup {0})
  BY <1>4, ConcatProperties DEF OutputOK
<1>6. file' \in [Stream -> Seq(Stream \cup {0})]
  BY <1>3, <1>5 DEF OutputOK
<1> QED
  BY <1>1, <1>2, <1>6

LEMMA OutputStep ==
  ASSUME PointsOK, ModeOK, CurOK, InputOK, OutputOK, [RunNext]_allVars
  PROVE  OutputOK'
<1>0. Tests \in Nat \ {0} /\ MinLines \in Nat /\ MaxLines \in Nat
  BY ParallelAssumption
<1> USE <1>0
<1> DEFINE Same == UNCHANGED <<sent, taken, garbled, file, events>>
<1>1. Same => OutputOK'
  BY DEF OutputOK
<1> USE DEF input, output, result
<1>13. ASSUME cur \in Stream, sent' = Set(sent, cur, sent[cur] + 1) \/ UNCHANGED sent,
              UNCHANGED <<taken, garbled, file, events>>
       PROVE  OutputOK'
  <2>1. \A i \in Stream : sent[i] \in Int /\ taken[i] \in Int /\ taken[i] <= sent[i]
    BY DEF InputOK, OutputOK
  <2>2. \A i \in Stream : taken[i] <= sent'[i]
    BY <1>13, <2>1 DEF Set, InputOK
  <2> QED
    BY <1>13, <2>2 DEF OutputOK
<1>2. CASE ParallelStep
  <2>1. CASE Write
    BY <2>1, <1>1, <1>13 DEF Write, Feeding, CurOK, Stream
  <2>2. CASE ReadEvents
    BY <2>2 DEF ReadEvents, Set, OutputOK, Stream
  <2>3. CASE \/ NewTestStream \/ NewTestStreamFails \/ ListenFails
             \/ Prepare \/ Start \/ WriteTimesOut
    BY <2>3, <1>1 DEF NewTestStream, NewTestStreamFails, ListenFails, Prepare, Start, WriteTimesOut
  <2>4. CASE CloseStream \/ Wait \/ ReadEnds
    BY <2>4, <1>1 DEF CloseStream, Wait, ReadEnds
  <2> QED
    BY <1>2, <2>1, <2>2, <2>3, <2>4 DEF ParallelStep
<1>3. CASE WriteStdin
  <2>1. CASE Alive
    BY <1>3, <2>1, <1>13 DEF WriteStdin, CurOK, Stream
  <2>2. CASE ~Alive
    BY <1>1, <1>3, <2>2 DEF WriteStdin
  <2> QED
    BY <2>1, <2>2
<1>4. CASE ExecuteTest
  <2>1. CASE UNCHANGED <<sent, taken, events>>
    BY <1>1, <1>4, <2>1 DEF ExecuteTest
  <2>2. CASE ~UNCHANGED <<sent, taken, events>>
    <3>1. /\ sent' = Set(sent, cur, lines[cur]) /\ taken' = Set(taken, cur, lines[cur])
          /\ \E n \in 0..MaxLines : \E answer \in [1..n -> {cur, 0}] :
               events' = Set(events, cur, answer)
          /\ UNCHANGED <<file, garbled>>
      BY <1>4, <2>2 DEF ExecuteTest
    <3>2. cur \in Stream
      BY <1>4 DEF ExecuteTest, CurOK, Stream
    <3>3. lines[cur] \in 0..MaxLines /\ lines[cur] <= lines[cur]
      BY <3>2 DEF InputOK
    <3>4. taken' \in [Stream -> 0..MaxLines] /\ \A i \in Stream : taken'[i] <= sent'[i]
      BY <3>1, <3>2, <3>3 DEF Set, OutputOK, InputOK
    <3>5. ASSUME NEW n \in 0..MaxLines, NEW answer \in [1..n -> {cur, 0}]
          PROVE  answer \in Seq(Stream \cup {0})
      <4>1. answer \in [1..n -> Stream \cup {0}] /\ n \in Nat
        BY <3>2
      <4> QED
        BY <4>1, SeqDef
    <3>6. events' \in [Stream -> Seq(Stream \cup {0})]
      BY <3>1, <3>2, <3>5 DEF Set, OutputOK
    <3> QED
      BY <3>1, <3>4, <3>6 DEF OutputOK
  <2> QED
    BY <2>1, <2>2
<1>5. CASE WaitForProcess
  BY <1>5, <1>1 DEF WaitForProcess, Set, OutputOK
<1>6. CASE NewInvocation \/ Release \/ NewProcess \/ CloseStdin
  BY <1>6, <1>1 DEF NewInvocation, Release, NewProcess, CloseStdin
<1>7. CASE SetupTest \/ TeardownTest \/ EndRun
  BY <1>7, <1>1 DEF SetupTest, TeardownTest, EndRun
<1>8. CASE CompareStep
  <2>1. ASSUME NEW same, Comparing, Compared(same) PROVE OutputOK'
    BY <2>1, <1>1, ComparedFacts
  <2>2. CASE CompareLengths \/ CompareNothing \/ CompareEnds
    BY <2>1, <2>2 DEF CompareLengths, CompareNothing, CompareEnds
  <2>3. CASE CompareEvent
    BY <2>3, <1>1 DEF CompareEvent, vars
  <2>4. CASE CompareFails
    BY <2>1, <2>4, <1>1, FailFacts DEF CompareFails
  <2> QED
    BY <1>8, <2>2, <2>3, <2>4 DEF CompareStep
<1>9. CASE FinalizeRun
  BY <1>9, <1>1, FinalizeFacts
<1>10. CASE LogstashStep \/ Misfortune
  <2>1. ASSUME NEW i \in Stream, Process(i), UNCHANGED <<sent, events>> PROVE OutputOK'
    BY <2>1, ProcessFacts DEF OutputOK, InputOK
  <2>2. ASSUME NEW i \in Stream, Garble(i), UNCHANGED <<sent, events>> PROVE OutputOK'
    BY <2>2 DEF OutputOK, Garble
  <2>3. \A i \in Inputs : i \in Stream
    BY <1>10, LogstashFrame DEF Inputs, ModeOK, Points, CurOK, Stream
  <2>4. UNCHANGED <<sent, events>>
    BY <1>10, LogstashFrame
  <2>5. CASE UNCHANGED <<taken, garbled, file>>
    BY <2>4, <2>5, <1>1
  <2> QED
    BY <1>10, <2>1, <2>2, <2>3, <2>4, <2>5
       DEF LogstashStep, Misfortune, LogstashEnds, LogstashFails, Connect, Finish
<1>11. ASSUME NEW i \in Stream, Acceptor(i) PROVE OutputOK'
  BY <1>11, <1>1, AcceptorFrame
<1>12. CASE UNCHANGED <<vars, runVars>> \/ UNCHANGED allVars
  BY <1>12, <1>1 DEF vars, allVars
<1> QED
  BY <1>2, <1>3, <1>4, <1>5, <1>6, <1>7, <1>8, <1>9, <1>10, <1>11, <1>12
     DEF RunNext, MainStep

LEMMA AtStep ==
  ASSUME Types, [RunNext]_allVars
  PROVE  AtOK'
<1>0. MaxLines \in Nat /\ 1 \in 1..MaxLines + 1
  BY ParallelAssumption
<1>1. ASSUME main \notin {"compare", "release", "teardown", "returned"}, UNCHANGED at
      PROVE  AtOK'
  BY <1>1, <1>0 DEF Types, AtOK
<1>2. ASSUME UNCHANGED <<main, cur, expected, events, at, outcome>> PROVE AtOK'
  BY <1>2 DEF Types, AtOK, SameLength
<1>3. at' = 1 => AtOK'
  BY <1>0 DEF AtOK
<1>4. ASSUME main' \in {"release", "teardown", "returned"}, UNCHANGED at,
             outcome' = outcome \/ outcome' = "error"
      PROVE  AtOK'
  BY <1>4 DEF Types, AtOK
<1> USE DEF runVars, input, result
<1>5. CASE ParallelStep /\ UNCHANGED <<summaryVars, runVars>>
  BY <1>1, <1>5 DEF ParallelStep, NewTestStream, NewTestStreamFails, ListenFails, Prepare, Start,
       Write, WriteTimesOut, CloseStream, Feeding, Wait, ReadEvents, ReadEnds
<1>6. CASE NewInvocation \/ NewProcess \/ WriteStdin \/ CloseStdin \/ WaitForProcess
  BY <1>1, <1>6 DEF NewInvocation, NewProcess, WriteStdin, CloseStdin, WaitForProcess
<1>7. CASE SetupTest \/ ExecuteTest \/ EndRun \/ FinalizeRun
  BY <1>1, <1>7 DEF SetupTest, ExecuteTest, EndRun, FinalizeRun
<1>8. CASE Release \/ TeardownTest
  BY <1>4, <1>8 DEF Release, TeardownTest
<1>9. CASE CompareStep
  <2>1. CASE CompareLengths \/ CompareNothing \/ CompareEnds
    BY <1>3, <2>1 DEF CompareLengths, CompareNothing, CompareEnds, Compared, GoOn
  <2>2. CASE CompareEvent
    <3>1. /\ main = "compare" /\ Len(events[cur]) = expected[cur] /\ at <= Len(events[cur])
          /\ at' = at + 1 /\ UNCHANGED <<main, cur, expected, events, outcome>>
      BY <2>2 DEF CompareEvent, Comparing, SameLength, vars
    <3>2. outcome = "none" /\ expected[cur] \in 0..MaxLines /\ at \in 1..MaxLines + 1
      BY <3>1 DEF Types, ModeOK, CurOK, InputOK, AtOK, Stream
    <3> QED
      BY <1>0, <3>1, <3>2 DEF AtOK, SameLength
  <2>3. CASE CompareFails
    <3>1. CASE mode = "sockets"
      BY <1>3, <2>3, <3>1 DEF CompareFails, Compared, GoOn
    <3>2. CASE mode # "sockets"
      BY <1>4, <2>3, <3>2, FailFacts
    <3> QED
      BY <3>1, <3>2
  <2> QED
    BY <1>9, <2>1, <2>2, <2>3 DEF CompareStep
<1>10. CASE LogstashStep \/ Misfortune
  BY <1>2, <1>10, LogstashFrame
<1>11. ASSUME NEW i \in Stream, Acceptor(i) PROVE AtOK'
  BY <1>2, <1>11, AcceptorFrame
<1>12. CASE UNCHANGED <<vars, runVars>> \/ UNCHANGED allVars
  BY <1>2, <1>12 DEF vars, allVars
<1> QED
  BY <1>5, <1>6, <1>7, <1>8, <1>9, <1>10, <1>11, <1>12 DEF RunNext, MainStep

LEMMA TypesStep ==
  ASSUME Types, [RunNext]_allVars
  PROVE  Types'
BY PointsStep, CurStep, InputStep, StreamsStep, OutputStep, AtStep DEF Types

LEMMA TypesInit ==
  ASSUME RunInit
  PROVE  Types
<1>0. /\ Tests \in Nat \ {0} /\ MinLines \in Nat /\ MaxLines \in Nat
      /\ mode \in {"sockets", "stdin", "daemon"}
  BY ParallelAssumption, ModesAssumption DEF RunInit
<1>1. PointsOK /\ ModeOK /\ CurOK
  <2>1. /\ main = (IF mode = "daemon" THEN "setup" ELSE "invoke") /\ mode \in Modes
        /\ ok = TRUE /\ err = FALSE /\ logstash = "unborn" /\ outcome = "none"
        /\ session = "none" /\ temp = {} /\ cur = 1
    BY DEF RunInit, Init
  <2>2. PointsOK
    BY <2>1 DEF PointsOK
  <2>3. ModeOK /\ CurOK
    BY <1>0, <2>1 DEF ModeOK, Points, CurOK
  <2> QED
    BY <2>2, <2>3
<1>2. InputOK
  BY <1>0 DEF RunInit, Init, InputOK, Stream
<1>3. StreamsOK
  BY <1>0 DEF RunInit, Init, StreamsOK
<1>4. OutputOK
  BY <1>0, EmptySeq DEF RunInit, Init, OutputOK
<1>5. AtOK
  BY <1>0 DEF RunInit, Init, AtOK
<1> QED
  BY <1>1, <1>2, <1>3, <1>4, <1>5 DEF Types

-----------------------------------------------------------------------------
(* What is left behind, step by step *)

LEMMA LeftStep ==
  ASSUME Types, LeftInv, [RunNext]_allVars
  PROVE  LeftInv'
<1>0. SUFFICES ASSUME outcome # "fatal" PROVE LeftInv'
  <2>1. ASSUME outcome = "fatal" PROVE LeftInv'
    BY <2>1 DEF RunNext, Running, allVars, vars, streams, result, runVars, LeftInv, Closing
  <2> QED
    BY <2>1
<1>1. ASSUME UNCHANGED <<mode, temp, session, known>>, main' \notin Closing \cup {"invoke", "setup"}
      PROVE  LeftInv'
  BY <1>1 DEF LeftInv, Closing
<1>2. ASSUME UNCHANGED <<mode, temp, session, known>>, main' \in {"release", "end"}, Cleanup
      PROVE  LeftInv'
  <2>1. \A i \in known : listener'[i] # "open" /\ receiver'[i] = "removed" /\ i \notin dirs'
    BY <1>2 DEF Types, StreamsOK, Cleanup
  <2> QED
    BY <1>2, <2>1 DEF LeftInv
<1>3. ASSUME UNCHANGED <<mode, temp, session, known, listener, receiver, dirs>>,
             main' = main \/ (main \in Closing /\ main' \in {"finalize", "release"})
                          \/ (mode = "daemon" /\ main' = "end")
      PROVE  LeftInv'
  BY <1>0, <1>3 DEF LeftInv, Closing
<1> USE DEF runVars, streams, sockets
<1>5. CASE ParallelStep /\ UNCHANGED <<summaryVars, runVars>>
  <2>1. CASE NewTestStream
    <3>1. mode # "daemon" /\ main' = "streams" /\ UNCHANGED <<mode, temp, session>>
      BY <1>5, <2>1 DEF NewTestStream, Types, ModeOK, Points
    <3> QED
      BY <3>1 DEF LeftInv, Closing
  <2>2. CASE NewTestStreamFails
    <3>1. /\ main' = "release" /\ UNCHANGED <<mode, temp, session, known>>
          /\ \A i \in known : listener'[i] = "closed" /\ receiver'[i] = "removed" /\ i \notin dirs'
      BY <1>5, <2>2 DEF NewTestStreamFails, Types, StreamsOK
    <3> QED
      BY <3>1 DEF LeftInv
  <2>8. CASE ListenFails
    <3>1. /\ mode # "daemon" /\ main' = "returned" /\ outcome' = "fatal"
          /\ UNCHANGED <<mode, temp, session, known>>
      BY <1>5, <2>8 DEF ListenFails, Types, ModeOK, Points
    <3> QED
      BY <3>1 DEF LeftInv
  <2>3. CASE Prepare \/ Start
    BY <1>1, <1>2, <1>5, <2>3, ReturnFacts DEF Prepare, Start, Closing
  <2>4. CASE Write \/ WriteTimesOut
    BY <1>1, <1>2, <1>5, <2>4, ReturnFacts DEF Write, WriteTimesOut, Feeding, Closing
  <2>5. CASE CloseStream
    BY <1>1, <1>5, <2>5 DEF CloseStream, Feeding, Closing
  <2>6. CASE Wait \/ ReadEnds
    BY <1>1, <1>2, <1>5, <2>6, ReturnFacts DEF Wait, ReadEnds, Closing
  <2>7. CASE ReadEvents
    BY <1>1, <1>5, <2>7 DEF ReadEvents, Closing
  <2> QED
    BY <1>5, <2>1, <2>2, <2>3, <2>4, <2>5, <2>6, <2>7, <2>8 DEF ParallelStep
<1>6. CASE NewInvocation
  <2>1. mode \in {"sockets", "stdin"} /\ known = {} /\ session = "none"
    BY <1>6, ModesAssumption DEF NewInvocation, LeftInv, Types, PointsOK, ModeOK, Points
  <2>2. /\ UNCHANGED <<mode, session, known>>
        /\ \/ main' \in {"streams", "process"}
           \/ main' = "returned" /\ "dir" \notin temp'
    BY <1>6, <2>1 DEF NewInvocation, FirstStep, Left
  <2> QED
    BY <2>1, <2>2 DEF LeftInv, Closing
<1>7. CASE Release
  BY <1>0, <1>7 DEF Release, LeftInv, Types, ModeOK, Points, Closing
<1>8. CASE NewProcess
  <2>1. CASE Return("error")
    BY <1>2, <1>8, <2>1, ReturnFacts DEF NewProcess
  <2>2. CASE ~Return("error")
    <3>1. main' = "write" /\ mode # "daemon" /\ UNCHANGED <<mode, temp, session>>
      BY <1>8, <2>2 DEF NewProcess, Types, ModeOK, Points
    <3> QED
      BY <3>1 DEF LeftInv, Closing
  <2> QED
    BY <2>1, <2>2
<1>9. CASE WriteStdin \/ CloseStdin \/ WaitForProcess
  BY <1>1, <1>2, <1>9, ReturnFacts DEF WriteStdin, CloseStdin, WaitForProcess, Closing
<1>10. CASE SetupTest \/ TeardownTest
  <2>1. mode = "daemon"
    BY <1>10, ModesAssumption DEF SetupTest, TeardownTest, Types, PointsOK, ModeOK, Points
  <2> QED
    BY <1>10, <2>1 DEF SetupTest, TeardownTest, LeftInv, Closing
<1>11. CASE ExecuteTest
  BY <1>1, <1>11 DEF ExecuteTest, Closing
<1>12. CASE CompareStep
  <2>1. ASSUME NEW same, Comparing, Compared(same) PROVE LeftInv'
    <3>1. PointsOK /\ ModeOK
      BY DEF Types
    <3> QED
      BY <1>1, <1>2, <1>3, <2>1, <3>1, ComparedFacts DEF Closing
  <2>2. CASE CompareLengths \/ CompareNothing \/ CompareEnds
    BY <2>1, <2>2 DEF CompareLengths, CompareNothing, CompareEnds
  <2>3. CASE CompareEvent
    BY <1>3, <2>3 DEF CompareEvent, vars
  <2>4. CASE CompareFails
    BY <1>1, <1>2, <2>1, <2>4, FailFacts DEF CompareFails, Closing
  <2> QED
    BY <1>12, <2>2, <2>3, <2>4 DEF CompareStep
<1>13. CASE EndRun
  BY <1>3, <1>13 DEF EndRun, Closing
<1>14. CASE FinalizeRun
  BY <1>1, <1>2, <1>14, FinalizeFacts DEF Closing
<1>15. CASE LogstashStep \/ Misfortune
  BY <1>3, <1>15, LogstashFrame
<1>16. ASSUME NEW i \in Stream, Acceptor(i) PROVE LeftInv'
  <2>1. UNCHANGED <<main, mode, temp, session, known, receiver, dirs, outcome>>
    BY <1>16, AcceptorFrame DEF result
  <2>2. UNCHANGED listener \/ listener' = [listener EXCEPT ![i] = "closed"]
    BY <1>16 DEF Acceptor, AcceptorStep, Accept, Assign, CloseListener, Set
  <2>3. listener \in [Stream -> {"none", "open", "closed"}] /\ known \subseteq Stream
    BY DEF Types, StreamsOK
  <2> QED
    BY <2>1, <2>2, <2>3 DEF LeftInv
<1>17. CASE UNCHANGED <<vars, runVars>> \/ UNCHANGED allVars
  BY <1>3, <1>17 DEF vars, allVars
<1> QED
  BY <1>5, <1>6, <1>7, <1>8, <1>9, <1>10, <1>11, <1>12, <1>13, <1>14, <1>15, <1>16, <1>17
     DEF RunNext, MainStep

-----------------------------------------------------------------------------
(* What is sent and processed, step by step *)

LEMMA SentFrame ==
  ASSUME SentInv,
         UNCHANGED <<main, mode, outcome, logstash, sent, lines, taken>>,
         \/ mode = "sockets" /\ main \in {"streams", "compare", "release", "returned", "read"}
         \/ UNCHANGED cur,
         \A i \in Stream : conn'[i] = conn[i] \/ conn'[i] = "connected"
  PROVE  SentInv'
BY DEF SentInv, Fed, Verdict, Survivors

\* A return with an error, or with the verdict that is known.
LEMMA SentReturn ==
  ASSUME SentInv, UNCHANGED <<cur, mode, sent, lines, taken, logstash>>,
         main' \in {"release", "teardown", "returned"},
         \/ outcome' \in {"error", "fatal"}
         \/ outcome' = outcome /\ outcome # "none"
         \/ main = "finalize" /\ outcome' \in {"pass", "fail"},
         \A i \in Stream : conn'[i] = conn[i] \/ conn'[i] = "eof"
  PROVE  SentInv'
BY DEF SentInv, Fed, Verdict, Survivors

\* One more line of cur is sent.
LEMMA SentMore ==
  ASSUME Types, SentInv, logstash = "running", sent[cur] < lines[cur],
         sent' = Set(sent, cur, sent[cur] + 1), outcome = "none",
         main \in {"feed", "write"}, cur <= Tests,
         UNCHANGED <<main, cur, mode, outcome, logstash, lines, taken, conn>>
  PROVE  SentInv'
<1>1. Tests \in Nat /\ cur \in Stream
  BY ParallelAssumption DEF Types, CurOK, Stream
<1>2. mode # "daemon" /\ conn[cur] \notin {"eof", "finished"}
  <2>1. mode # "daemon"
    BY DEF Types, ModeOK, Points
  <2>2. sent[cur] # lines[cur]
    BY <1>1, ParallelAssumption DEF Types, InputOK
  <2> QED
    BY <1>1, <2>1, <2>2 DEF SentInv
<1>3. sent' = [sent EXCEPT ![cur] = sent[cur] + 1] /\ sent \in [Stream -> 0..MaxLines]
  BY DEF Set, Types, InputOK
<1>4. \A i \in Stream \ {cur} : sent'[i] = sent[i]
  BY <1>3
<1>5. Fed' = 1..cur - 1 /\ Fed = 1..cur - 1
  BY DEF Fed, Verdict
<1>6. \A i \in Fed' : i \in Stream \ {cur} /\ i \in Fed
  BY <1>1, <1>5 DEF Stream
<1> QED
  BY <1>1, <1>2, <1>4, <1>6 DEF SentInv, Verdict

\* The input of cur is closed.
LEMMA SentClosed ==
  ASSUME Types, SentInv, sent[cur] = lines[cur], outcome = "none", cur <= Tests,
         \/ main = "feed" /\ main' = "feed" /\ cur' = cur + 1 /\ mode = "sockets"
         \/ main = "write" /\ main' = "wait" /\ UNCHANGED cur,
         conn' = conn \/ conn' = Set(conn, cur, "eof"),
         UNCHANGED <<mode, outcome, logstash, sent, lines, taken>>
  PROVE  SentInv'
<1>1. Tests \in Nat /\ cur \in Stream
  BY ParallelAssumption DEF Types, CurOK, Stream
<1>2. \A i \in Stream : conn'[i] = conn[i] \/ (i = cur /\ conn'[i] = "eof")
  BY DEF Set, Types, StreamsOK
<1>3. Fed = 1..cur - 1 /\ \A i \in Fed' : i \in 1..cur
  BY <1>1 DEF Fed, Verdict, Stream
<1>4. \A i \in Fed' : sent[i] = lines[i]
  BY <1>1, <1>3 DEF SentInv, Stream
<1> QED
  BY <1>1, <1>2, <1>4 DEF SentInv, Verdict

\* Compare has returned for cur.
LEMMA SentCompared ==
  ASSUME Types, SentInv, Comparing, NEW same, Compared(same)
  PROVE  SentInv'
<1>1. Tests \in Nat \ {0} /\ cur \in Stream /\ outcome = "none"
      /\ mode \in {"sockets", "stdin", "daemon"}
  BY ParallelAssumption, ModesAssumption
     DEF Types, PointsOK, ModeOK, CurOK, Stream, Comparing
<1>2. PointsOK /\ ModeOK
  BY DEF Types
<1>3. /\ UNCHANGED <<mode, outcome, logstash, sent, lines, taken>>
      /\ \A i \in Stream : conn'[i] = conn[i] \/ conn'[i] = "eof"
  <2>1. Cleanup => \A i \in Stream : conn'[i] = conn[i] \/ conn'[i] = "eof"
    BY DEF Cleanup
  <2> QED
    BY <1>2, <2>1, ComparedFacts DEF input, output, result, sockets
<1>4. logstash \in Survivors[mode]
  BY DEF SentInv, Comparing
<1>5. mode = "stdin" => \A i \in Stream : taken[i] = sent[i]
  BY <1>4 DEF SentInv, Survivors
<1>6. Fed = IF mode = "sockets" THEN Stream ELSE 1..cur
  BY <1>1 DEF Fed, Comparing, Verdict
<1>7. CASE cur < Tests
  <2>1. /\ cur' = cur + 1 /\ UNCHANGED conn
        /\ \/ mode = "sockets" /\ main' = "compare"
           \/ mode = "stdin" /\ main' = "process"
           \/ mode = "daemon" /\ main' = "execute"
    BY <1>2, <1>7, ComparedFacts DEF sockets
  <2>2. Fed' = IF mode = "sockets" THEN Stream ELSE 1..cur
    BY <1>1, <1>3, <2>1 DEF Fed, Verdict, Stream
  <2> QED
    BY <1>1, <1>3, <1>4, <1>5, <1>6, <2>1, <2>2 DEF SentInv, Verdict
<1>8. CASE ~(cur < Tests)
  <2>1. cur' = cur /\ main' = "end"
    BY <1>2, <1>8, ComparedFacts
  <2>2. Fed = Stream /\ Fed' = Stream
    BY <1>1, <1>6, <1>8, <2>1 DEF Fed, Stream
  <2>3. \A i \in Stream : sent'[i] = lines'[i]
    BY <1>3, <2>2 DEF SentInv
  <2> QED
    BY <1>3, <1>4, <1>5, <2>1, <2>2, <2>3 DEF SentInv, Verdict
<1> QED
  BY <1>7, <1>8

\* What Logstash does, or suffers.
LEMMA SentLogstash ==
  ASSUME Types, SentInv, LogstashStep \/ Misfortune
  PROVE  SentInv'
<1>1. /\ UNCHANGED <<main, cur, mode, outcome, sent, lines>> /\ logstash = "running"
  BY LogstashFrame DEF input, result, runVars
<1>2. /\ mode \in {"sockets", "stdin"} /\ ~Verdict
      /\ main \notin {"read", "compare", "end", "finalize"}
  BY <1>1, ModesAssumption DEF SentInv, Survivors, Types, PointsOK
<1>3. /\ Inputs = IF mode = "stdin" THEN {cur} ELSE Stream
      /\ mode = "sockets" \/ cur \in Stream
  BY <1>2, ParallelAssumption DEF Inputs, Types, CurOK, Stream
<1>4. Fed' = Fed /\ ~Verdict'
  BY <1>1, <1>2 DEF Fed, Verdict
<1> USE DEF sockets, output
<1>5. ASSUME NEW i \in Inputs, Connect(i) PROVE SentInv'
  <2>1. \A j \in Stream : conn'[j] = conn[j] \/ conn'[j] = "connected"
    BY <1>5 DEF Connect, Set, Types, StreamsOK
  <2> QED
    BY <1>1, <1>5, <2>1, SentFrame DEF Connect
<1>6. ASSUME NEW i \in Inputs, Process(i) PROVE SentInv'
  <2>1. /\ conn[i] # "finished" /\ UNCHANGED <<conn, logstash>>
        /\ \A j \in Stream \ {i} : taken'[j] = taken[j]
    BY <1>6 DEF Process, Set, Types, OutputOK
  <2> QED
    BY <1>1, <1>2, <1>3, <1>4, <2>1 DEF SentInv, Verdict
<1>7. ASSUME NEW i \in Inputs, Finish(i) PROVE SentInv'
  <2>1. /\ conn[i] = "eof" /\ taken[i] = sent[i] /\ UNCHANGED <<taken, logstash>>
        /\ \A j \in Stream : conn'[j] = conn[j] \/ j = i
    BY <1>7 DEF Finish, Set, Types, StreamsOK
  <2> QED
    BY <1>1, <1>2, <1>3, <1>4, <2>1 DEF SentInv, Verdict
<1>8. ASSUME NEW i \in Inputs, Garble(i) PROVE SentInv'
  BY <1>1, <1>8, SentFrame DEF Garble
<1>9. CASE LogstashEnds(Inputs)
  <2>1. /\ UNCHANGED <<conn, taken>> /\ \A i \in Inputs : conn[i] = "finished"
    BY <1>9 DEF LogstashEnds
  <2>2. \A i \in Stream : taken[i] = sent[i]
    BY <1>2, <1>3, <2>1 DEF SentInv
  <2> QED
    BY <1>1, <1>2, <1>4, <2>1, <2>2 DEF SentInv
<1>10. CASE LogstashFails
  <2>1. UNCHANGED <<conn, taken>> /\ logstash' # "ended"
    BY <1>10 DEF LogstashFails
  <2> QED
    BY <1>1, <1>2, <1>4, <2>1 DEF SentInv
<1> QED
  BY <1>5, <1>6, <1>7, <1>8, <1>9, <1>10 DEF LogstashStep, Misfortune

LEMMA SentStep ==
  ASSUME Types, SentInv, [RunNext]_allVars
  PROVE  SentInv'
<1> USE DEF runVars, input, output, sockets, result
<1>0. /\ Tests \in Nat \ {0} /\ mode \in {"sockets", "stdin", "daemon"}
      /\ main \in Points[mode]
      /\ outcome # "none" <=> main \in {"release", "teardown", "returned"}
      /\ cur \in 1..Tests + 1 /\ (main \in {"invoke", "setup"} => cur = 1)
  BY ParallelAssumption, ModesAssumption DEF Types, PointsOK, ModeOK, CurOK
<1>1. ASSUME Return("error"), UNCHANGED <<cur, mode, sent, lines, taken, logstash>>
      PROVE  SentInv'
  <2>1. \A i \in Stream : conn'[i] = conn[i] \/ conn'[i] = "eof"
    BY <1>1 DEF Return, Cleanup
  <2> QED
    BY <1>1, <2>1, SentReturn DEF Return
<1>2. CASE ParallelStep /\ UNCHANGED <<summaryVars, runVars>>
  <2>1. CASE NewTestStream
    BY <1>0, <1>2, <2>1, SentFrame DEF NewTestStream, Points
  <2>2. CASE NewTestStreamFails \/ ListenFails
    BY <1>2, <2>2, SentReturn DEF NewTestStreamFails, ListenFails
  <2>3. CASE Prepare
    <3>1. CASE Return("error")
      BY <1>1, <1>2, <2>3, <3>1 DEF Prepare
    <3>2. CASE ~Return("error")
      <4>1. main = "streams" /\ main' = "start" /\ outcome = "none"
            /\ UNCHANGED <<cur, mode, outcome, logstash, sent, lines, taken, conn>>
        BY <1>0, <1>2, <2>3, <3>2 DEF Prepare
      <4> QED
        BY <4>1 DEF SentInv, Fed, Verdict
    <3> QED
      BY <3>1, <3>2
  <2>4. CASE Start
    <3>1. main = "start" /\ outcome = "none" /\ mode = "sockets"
      BY <1>0, <2>4 DEF Start, Points
    <3>2. CASE Return("error")
      <4>1. \A i \in Stream : conn'[i] = conn[i] \/ conn'[i] = "eof"
        BY <3>2 DEF Return, Cleanup
      <4>2. UNCHANGED <<mode, sent, lines, taken>> /\ logstash' \in {logstash, "running"}
        BY <1>2, <2>4 DEF Start
      <4>3. main' = "release" /\ outcome' = "error"
        BY <3>2 DEF Return
      <4> QED
        BY <3>1, <4>1, <4>2, <4>3 DEF SentInv, Fed, Verdict
    <3>3. CASE ~Return("error")
      <4>1. /\ main' = "feed" /\ logstash' = "running" /\ cur' = 1
            /\ UNCHANGED <<mode, outcome, sent, lines, taken, conn>>
        BY <1>2, <2>4, <3>3 DEF Start
      <4> QED
        BY <3>1, <4>1 DEF SentInv, Fed, Verdict
    <3> QED
      BY <3>2, <3>3
  <2>5. CASE Write
    <3>1. CASE Alive
      BY <1>0, <1>2, <2>5, <3>1, SentMore DEF Write, Feeding, Alive
    <3>2. CASE ~Alive
      BY <1>1, <1>2, <2>5, <3>2 DEF Write
    <3> QED
      BY <3>1, <3>2
  <2>6. CASE WriteTimesOut
    BY <1>1, <1>2, <2>6 DEF WriteTimesOut
  <2>7. CASE CloseStream
    BY <1>0, <1>2, <2>7, SentClosed DEF CloseStream, Feeding, Points
  <2>8. CASE Wait
    <3>1. CASE logstash = "failed"
      BY <1>1, <1>2, <2>8, <3>1 DEF Wait
    <3>2. CASE logstash # "failed"
      <4>1. /\ main = "feed" /\ main' = "read" /\ cur = Tests + 1
            /\ logstash \in {"ended", "ioerror"} /\ mode = "sockets" /\ outcome = "none"
            /\ UNCHANGED <<mode, outcome, logstash, sent, lines, taken, conn>>
        BY <1>0, <1>2, <2>8, <3>2 DEF Wait, Points
      <4>2. Fed = Stream /\ Fed' = Stream
        BY <1>0, <4>1 DEF Fed, Verdict, Stream
      <4> QED
        BY <4>1, <4>2 DEF SentInv, Survivors, Verdict
    <3> QED
      BY <3>1, <3>2
  <2>9. CASE ReadEvents
    BY <1>0, <1>2, <2>9, SentFrame DEF ReadEvents, Points
  <2>10. CASE ReadEnds
    <3>1. CASE err
      BY <1>1, <1>2, <2>10, <3>1 DEF ReadEnds
    <3>2. CASE ~err
      <4>1. /\ main = "read" /\ main' = "compare" /\ mode = "sockets"
            /\ UNCHANGED <<mode, outcome, logstash, sent, lines, taken, conn>>
        BY <1>0, <1>2, <2>10, <3>2 DEF ReadEnds, Points
      <4> QED
        BY <4>1 DEF SentInv, Fed, Verdict
    <3> QED
      BY <3>1, <3>2
  <2> QED
    BY <1>2, <2>1, <2>2, <2>3, <2>4, <2>5, <2>6, <2>7, <2>8, <2>9, <2>10 DEF ParallelStep
<1>3. CASE NewInvocation
  <2>1. /\ main = "invoke" /\ cur = 1 /\ outcome = "none" /\ mode \in {"sockets", "stdin"}
        /\ UNCHANGED <<cur, mode, logstash, sent, lines, taken, conn>>
    BY <1>0, <1>3 DEF NewInvocation, Points
  <2>2. \/ main' \in {"streams", "process"} /\ UNCHANGED outcome
        \/ main' = "returned" /\ outcome' = "error"
    BY <1>3, <2>1 DEF NewInvocation, FirstStep
  <2> QED
    BY <2>1, <2>2 DEF SentInv, Fed, Verdict
<1>4. CASE Release \/ TeardownTest
  BY <1>0, <1>4, SentReturn DEF Release, TeardownTest
<1>5. CASE NewProcess
  <2>1. main = "process" /\ mode = "stdin" /\ cur \in Stream /\ outcome = "none"
    BY <1>0, <1>5 DEF NewProcess, Points, Types, CurOK, Stream
  <2>2. CASE Return("error")
    <3>1. UNCHANGED <<cur, mode, sent, lines, taken>> /\ logstash' \in {logstash, "running"}
      BY <1>5 DEF NewProcess
    <3>2. \A i \in Stream : conn'[i] = conn[i] \/ conn'[i] = "eof"
      BY <2>2 DEF Return, Cleanup
    <3>3. main' = "release" /\ outcome' = "error"
      BY <2>2 DEF Return
    <3> QED
      BY <2>1, <3>1, <3>2, <3>3 DEF SentInv, Fed, Verdict
  <2>3. CASE ~Return("error")
    <3>1. /\ main' = "write" /\ logstash' = "running" /\ conn' = Set(conn, cur, "connected")
          /\ UNCHANGED <<cur, mode, outcome, sent, lines, taken>>
      BY <1>5, <2>3 DEF NewProcess
    <3>2. \A i \in Stream : conn'[i] = conn[i] \/ conn'[i] = "connected"
      BY <3>1 DEF Set, Types, StreamsOK
    <3> QED
      BY <2>1, <3>1, <3>2 DEF SentInv, Fed, Verdict
  <2> QED
    BY <2>2, <2>3
<1>6. CASE WriteStdin
  <2>1. CASE Alive
    BY <1>0, <1>6, <2>1, SentMore DEF WriteStdin, Alive, Types, CurOK
  <2>2. CASE ~Alive
    BY <1>1, <1>6, <2>2 DEF WriteStdin
  <2> QED
    BY <2>1, <2>2
<1>7. CASE CloseStdin
  BY <1>0, <1>7, SentClosed DEF CloseStdin, Types, CurOK
<1>8. CASE WaitForProcess
  <2>1. CASE logstash # "ended" \/ cur \in garbled
    BY <1>1, <1>8, <2>1 DEF WaitForProcess
  <2>2. CASE ~(logstash # "ended" \/ cur \in garbled)
    <3>1. /\ main = "wait" /\ main' = "compare" /\ logstash = "ended" /\ mode = "stdin"
          /\ UNCHANGED <<cur, mode, outcome, logstash, sent, lines, taken, conn>>
      BY <1>0, <1>8, <2>2 DEF WaitForProcess, Points
    <3> QED
      BY <3>1 DEF SentInv, Fed, Verdict, Survivors
  <2> QED
    BY <2>1, <2>2
<1>9. CASE SetupTest
  <2>1. /\ main = "setup" /\ cur = 1 /\ outcome = "none"
        /\ UNCHANGED <<cur, mode, logstash, sent, lines, taken, conn>>
        /\ \/ main' = "execute" /\ UNCHANGED outcome
           \/ main' = "returned" /\ outcome' = "error"
    BY <1>0, <1>9 DEF SetupTest
  <2> QED
    BY <2>1 DEF SentInv, Fed, Verdict
<1>10. CASE ExecuteTest
  <2>1. main = "execute" /\ mode = "daemon" /\ cur \in Stream /\ outcome = "none"
    BY <1>0, <1>10 DEF ExecuteTest, Points, Types, CurOK, Stream
  <2>2. CASE main' = "teardown"
    BY <1>10, <2>2, SentReturn DEF ExecuteTest
  <2>3. CASE main' # "teardown"
    <3>1. /\ main' = "compare" /\ UNCHANGED <<cur, mode, outcome, logstash, lines, conn>>
          /\ sent' = Set(sent, cur, lines[cur]) /\ taken' = Set(taken, cur, lines[cur])
      BY <1>10, <2>3 DEF ExecuteTest
    <3>2. /\ sent'[cur] = lines[cur] /\ taken'[cur] = lines[cur]
          /\ \A i \in Stream \ {cur} : sent'[i] = sent[i] /\ taken'[i] = taken[i]
      BY <2>1, <3>1 DEF Set, Types, InputOK, OutputOK
    <3>3. Fed = 1..cur - 1 /\ Fed' = 1..cur
      BY <2>1, <3>1 DEF Fed, Verdict
    <3>4. \A i \in Fed' : sent'[i] = lines'[i]
      BY <2>1, <3>1, <3>2, <3>3, <1>0 DEF SentInv, Stream
    <3> QED
      BY <2>1, <3>1, <3>2, <3>4 DEF SentInv, Survivors, Verdict
  <2> QED
    BY <2>2, <2>3
<1>11. CASE CompareStep
  <2>1. CASE CompareLengths \/ CompareNothing \/ CompareEnds
    BY <2>1, SentCompared DEF CompareLengths, CompareNothing, CompareEnds
  <2>2. CASE CompareEvent
    BY <2>2, SentFrame DEF CompareEvent, vars
  <2>3. CASE CompareFails
    <3>1. CASE mode = "sockets"
      BY <2>3, <3>1, SentCompared DEF CompareFails
    <3>2. CASE mode # "sockets"
      <4>1. \A i \in Stream : conn'[i] = conn[i] \/ conn'[i] = "eof"
        BY <2>3, <3>2, FailFacts DEF Cleanup
      <4> QED
        BY <2>3, <3>2, <4>1, FailFacts, SentReturn
    <3> QED
      BY <3>1, <3>2
  <2> QED
    BY <1>11, <2>1, <2>2, <2>3 DEF CompareStep
<1>12. CASE EndRun
  <2>1. /\ main = "end" /\ main' = "finalize"
        /\ UNCHANGED <<cur, mode, outcome, logstash, sent, lines, taken, conn>>
    BY <1>12 DEF EndRun
  <2> QED
    BY <2>1 DEF SentInv, Fed, Verdict
<1>13. CASE FinalizeRun
  <2>1. \A i \in Stream : conn'[i] = conn[i] \/ conn'[i] = "eof"
    BY <1>13, FinalizeFacts DEF Cleanup
  <2> QED
    BY <1>13, <2>1, FinalizeFacts, SentReturn
<1>14. ASSUME NEW i \in Stream, Acceptor(i) PROVE SentInv'
  BY <1>14, AcceptorFrame, SentFrame
<1>15. CASE UNCHANGED <<vars, runVars>> \/ UNCHANGED allVars
  BY <1>15, SentFrame DEF vars, allVars
<1> QED
  BY <1>2, <1>3, <1>4, <1>5, <1>6, <1>7, <1>8, <1>9, <1>10, <1>11, <1>12, <1>13,
     <1>14, <1>15, SentLogstash DEF RunNext, MainStep

-----------------------------------------------------------------------------
(* What is compared, step by step *)

\* Outside of Compare no more sets are judged, and those that are keep their
\* events.
Keeps ==
  /\ Judged' \subseteq Judged /\ \A i \in Judged' : events'[i] = events[i]
  /\ UNCHANGED <<ok, failed, at>>
  /\ expected' = expected
  /\ at = 1 \/ UNCHANGED <<cur, events>>
  /\ main' = "compare" => main = "compare" \/ at = 1
  /\ \/ outcome' \in {outcome, "error", "fatal"}
     \/ outcome' = IF ok THEN "pass" ELSE "fail"

LEMMA KeepsFrame ==
  ASSUME Types, UNCHANGED <<ok, failed, at, expected, outcome>>,
         \A i \in Judged' : i \in Judged /\ events'[i] = events[i],
         main \notin {"compare", "release", "teardown", "returned"} \/ UNCHANGED <<cur, events>>,
         main' = "compare" => main \notin {"release", "teardown", "returned"}
  PROVE  Keeps
BY DEF Keeps, Types, AtOK

LEMMA KeepsSame ==
  ASSUME Types, UNCHANGED <<main, cur, ok, failed, at, outcome, expected, events>>
  PROVE  Keeps
BY DEF Keeps, Judged, Verdict

LEMMA KeepsReturn ==
  ASSUME Types, main' \in {"release", "teardown", "returned"},
         outcome' \in {"error", "fatal"},
         UNCHANGED <<ok, failed, at, expected>>,
         main \notin {"compare", "release", "teardown", "returned"} \/ UNCHANGED <<cur, events>>
  PROVE  Keeps
BY DEF Keeps, Judged, Verdict, Types, AtOK

\* Compare has returned for cur.
LEMMA JudgedMore ==
  ASSUME Types, Comparing, NEW same, Compared(same)
  PROVE  /\ cur \in Stream /\ outcome = "none" /\ UNCHANGED <<outcome, expected, events>>
         /\ ok' = (ok /\ same) /\ at' = 1
         /\ \A i \in Judged' : i \in Judged \/ i = cur
<1>1. /\ Tests \in Nat \ {0} /\ cur \in Stream /\ outcome = "none"
      /\ mode \in {"sockets", "stdin", "daemon"} /\ PointsOK /\ ModeOK
  BY ParallelAssumption, ModesAssumption
     DEF Types, PointsOK, ModeOK, CurOK, Stream, Comparing
<1>2. ok' = (ok /\ same) /\ at' = 1 /\ UNCHANGED <<outcome, expected, events>>
  BY <1>1, ComparedFacts DEF input, result
<1>3. Judged = 1..cur - 1
  BY <1>1 DEF Judged, Comparing, Verdict
<1>4. Judged' = 1..cur
  <2>1. CASE cur < Tests
    <3>1. cur' = cur + 1 /\ main' \in {"compare", "process", "execute"} /\ outcome' = "none"
      BY <1>1, <2>1, ComparedFacts DEF result
    <3>2. cur \in Int /\ cur' - 1 = cur
      BY <1>1, <3>1 DEF Stream
    <3> QED
      BY <3>1, <3>2 DEF Judged, Verdict
  <2>2. CASE ~(cur < Tests)
    <3>1. cur = Tests /\ main' = "end"
      BY <1>1, <2>2, ComparedFacts DEF Stream
    <3> QED
      BY <1>1, <3>1 DEF Judged, Stream
  <2> QED
    BY <2>1, <2>2
<1> QED
  BY <1>1, <1>2, <1>3, <1>4 DEF Stream

LEMMA JudgedCompared ==
  ASSUME Types, JudgedInv, Comparing, NEW same, Compared(same),
         same => events[cur] = Wanted(cur)
  PROVE  JudgedInv'
<1>1. /\ outcome = "none" /\ UNCHANGED <<outcome, expected, events>>
      /\ ok' = (ok /\ same) /\ \A i \in Judged' : i \in Judged \/ i = cur
  BY JudgedMore
<1>2. ok' => \A i \in Judged' : events'[i] = Wanted(i)'
  BY <1>1 DEF JudgedInv, Wanted
<1> QED
  BY <1>1, <1>2 DEF JudgedInv, Verdict

\* Nothing is what a set without expected events wants.
LEMMA NothingWanted ==
  ASSUME Types, Comparing, SameLength, events[cur] = << >>
  PROVE  events[cur] = Wanted(cur)
<1>1. expected[cur] = 0
  BY DEF SameLength
<1>2. Wanted(cur) = << >>
  BY <1>1 DEF Wanted
<1> QED
  BY <1>2

LEMMA KeepsStep ==
  ASSUME Types, [RunNext]_allVars
  PROVE  Keeps \/ CompareStep
<1> USE DEF runVars, input, output, result
<1>0. /\ Tests \in Nat \ {0} /\ mode \in {"sockets", "stdin", "daemon"}
      /\ main \in Points[mode]
      /\ outcome # "none" <=> main \in {"release", "teardown", "returned"}
      /\ cur \in 1..Tests + 1 /\ (main \in {"invoke", "setup"} => cur = 1)
  BY ParallelAssumption, ModesAssumption DEF Types, PointsOK, ModeOK, CurOK
<1>1. ASSUME Return("error"), UNCHANGED <<ok, failed, at, expected>>,
             main \notin {"compare", "release", "teardown", "returned"}
      PROVE  Keeps
  BY <1>1, KeepsReturn DEF Return
<1>2. CASE ParallelStep /\ UNCHANGED <<summaryVars, runVars>>
  <2>1. CASE NewTestStream
    <3>1. Judged' = {}
      BY <1>0, <1>2, <2>1 DEF NewTestStream, Judged, Verdict
    <3> QED
      BY <1>2, <2>1, <3>1, KeepsFrame DEF NewTestStream
  <2>2. CASE NewTestStreamFails \/ ListenFails
    BY <1>2, <2>2, KeepsReturn DEF NewTestStreamFails, ListenFails
  <2>3. CASE Prepare \/ Start
    <3>1. CASE Return("error")
      BY <1>1, <1>2, <2>3, <3>1 DEF Prepare, Start
    <3>2. CASE ~Return("error")
      <4>1. Judged' = {}
        BY <1>0, <2>3, <3>2 DEF Prepare, Start, Judged, Verdict
      <4> QED
        BY <1>2, <2>3, <3>2, <4>1, KeepsFrame DEF Prepare, Start
    <3> QED
      BY <3>1, <3>2
  <2>4. CASE Write \/ WriteTimesOut
    BY <1>1, <1>2, <2>4, KeepsSame DEF Write, WriteTimesOut, Feeding
  <2>5. CASE CloseStream
    <3>1. Judged' = {}
      BY <1>0, <1>2, <2>5 DEF CloseStream, Feeding, Judged, Verdict
    <3> QED
      BY <1>2, <2>5, <3>1, KeepsFrame DEF CloseStream, Feeding
  <2>6. CASE Wait
    <3>1. CASE Return("error")
      BY <1>1, <1>2, <2>6, <3>1 DEF Wait
    <3>2. CASE ~Return("error")
      <4>1. Judged' = {}
        BY <1>0, <2>6, <3>2 DEF Wait, Judged, Verdict
      <4> QED
        BY <1>2, <2>6, <3>2, <4>1, KeepsFrame DEF Wait
    <3> QED
      BY <3>1, <3>2
  <2>7. CASE ReadEvents
    <3>1. Judged' = {}
      BY <1>0, <1>2, <2>7 DEF ReadEvents, Judged, Verdict
    <3> QED
      BY <1>2, <2>7, <3>1, KeepsFrame DEF ReadEvents
  <2>8. CASE ReadEnds
    <3>1. CASE Return("error")
      BY <1>1, <1>2, <2>8, <3>1 DEF ReadEnds
    <3>2. CASE ~Return("error")
      <4>1. Judged' = {}
        BY <1>0, <2>8, <3>2 DEF ReadEnds, Judged, Verdict
      <4> QED
        BY <1>2, <2>8, <3>2, <4>1, KeepsFrame DEF ReadEnds
    <3> QED
      BY <3>1, <3>2
  <2> QED
    BY <1>2, <2>1, <2>2, <2>3, <2>4, <2>5, <2>6, <2>7, <2>8 DEF ParallelStep
<1>3. CASE NewInvocation
  <2>1. CASE main' = "returned"
    BY <1>0, <1>3, <2>1, KeepsReturn DEF NewInvocation, FirstStep, Points
  <2>2. CASE main' # "returned"
    <3>1. /\ main = "invoke" /\ main' \in {"streams", "process"} /\ cur' = 1
          /\ UNCHANGED <<ok, failed, at, outcome, expected, events>> /\ outcome = "none"
      BY <1>0, <1>3, <2>2 DEF NewInvocation, FirstStep, Points
    <3>2. Judged' = {}
      BY <3>1 DEF Judged, Verdict
    <3> QED
      BY <3>1, <3>2, KeepsFrame
  <2> QED
    BY <2>1, <2>2
<1>4. CASE Release \/ TeardownTest
  <2>1. CASE outcome' = "error"
    BY <1>4, <2>1, KeepsReturn DEF Release, TeardownTest
  <2>2. CASE outcome' # "error"
    <3>1. /\ main \in {"release", "teardown"} /\ main' = "returned"
          /\ UNCHANGED <<cur, ok, failed, at, outcome, expected, events>>
      BY <1>4, <2>2 DEF Release, TeardownTest
    <3>2. Judged' = Judged
      BY <3>1 DEF Judged, Verdict
    <3> QED
      BY <3>1, <3>2, KeepsFrame
  <2> QED
    BY <2>1, <2>2
<1>5. CASE NewProcess
  <2>1. CASE Return("error")
    BY <1>1, <1>5, <2>1 DEF NewProcess
  <2>2. CASE ~Return("error")
    <3>1. Judged' = Judged
      BY <1>5, <2>2 DEF NewProcess, Judged, Verdict
    <3> QED
      BY <1>5, <2>2, <3>1, KeepsFrame DEF NewProcess
  <2> QED
    BY <2>1, <2>2
<1>6. CASE WriteStdin
  BY <1>1, <1>6, KeepsSame DEF WriteStdin
<1>7. CASE CloseStdin
  <2>1. Judged' = Judged
    BY <1>7 DEF CloseStdin, Judged, Verdict
  <2> QED
    BY <1>7, <2>1, KeepsFrame DEF CloseStdin
<1>8. CASE WaitForProcess \/ ExecuteTest
  <2>1. CASE outcome' = "error"
    BY <1>0, <1>1, <1>8, <2>1, KeepsReturn DEF WaitForProcess, ExecuteTest, Return
  <2>2. CASE outcome' # "error"
    <3>1. /\ main \in {"wait", "execute"} /\ main' = "compare"
          /\ UNCHANGED <<cur, ok, failed, at, outcome, expected>>
          /\ \E value : events' = Set(events, cur, value)
      BY <1>8, <2>2 DEF WaitForProcess, ExecuteTest, Return
    <3>2. Judged = 1..cur - 1 /\ Judged' = 1..cur - 1
      BY <1>0, <3>1 DEF Judged, Verdict
    <3>3. \A i \in 1..cur - 1 : i \in Stream \ {cur}
      BY <1>0 DEF Stream
    <3>4. \A i \in Judged' : events'[i] = events[i]
      BY <3>1, <3>2, <3>3 DEF Set, Types, OutputOK
    <3> QED
      BY <3>1, <3>2, <3>4, KeepsFrame
  <2> QED
    BY <2>1, <2>2
<1>9. CASE SetupTest
  <2>1. CASE main' = "returned"
    BY <1>9, <2>1, KeepsReturn DEF SetupTest
  <2>2. CASE main' # "returned"
    <3>1. /\ main = "setup" /\ main' = "execute" /\ cur' = 1
          /\ UNCHANGED <<ok, failed, at, outcome, expected, events>> /\ outcome = "none"
      BY <1>0, <1>9, <2>2 DEF SetupTest
    <3>2. Judged' = {}
      BY <3>1 DEF Judged, Verdict
    <3> QED
      BY <3>1, <3>2, KeepsFrame
  <2> QED
    BY <2>1, <2>2
<1>12. CASE EndRun
  <2>1. Judged' = Judged
    BY <1>12 DEF EndRun, Judged, Verdict
  <2> QED
    BY <1>12, <2>1, KeepsFrame DEF EndRun
<1>13. CASE FinalizeRun
  <2>1. /\ outcome' = (IF ok THEN "pass" ELSE "fail") /\ main = "finalize"
        /\ main' # "compare" /\ UNCHANGED <<ok, failed, at, cur, expected, events>>
    BY <1>13, FinalizeFacts
  <2>2. Judged = Stream /\ Judged' = Stream
    BY <2>1 DEF Judged, Verdict
  <2> QED
    BY <2>1, <2>2 DEF Keeps
<1>14. CASE LogstashStep \/ Misfortune
  BY <1>14, LogstashFrame, KeepsSame
<1>15. ASSUME NEW i \in Stream, Acceptor(i) PROVE Keeps
  BY <1>15, AcceptorFrame, KeepsSame
<1>16. CASE UNCHANGED <<vars, runVars>> \/ UNCHANGED allVars
  BY <1>16, KeepsSame DEF vars, allVars
<1> QED
  BY <1>2, <1>3, <1>4, <1>5, <1>6, <1>7, <1>8, <1>9, <1>12, <1>13,
     <1>14, <1>15, <1>16 DEF RunNext, MainStep

LEMMA JudgedStep ==
  ASSUME Types, JudgedInv, [RunNext]_allVars
  PROVE  JudgedInv'
<1>1. CASE Keeps
  BY <1>1 DEF Keeps, JudgedInv, Wanted, Verdict
<1>2. CASE CompareStep
  <2>1. CASE CompareLengths
    BY <2>1, JudgedCompared DEF CompareLengths
  <2>2. CASE CompareNothing
    BY <2>2, NothingWanted, JudgedCompared DEF CompareNothing
  <2>3. CASE CompareEvent
    BY <2>3 DEF CompareEvent, vars, input, result, JudgedInv, Judged, Wanted, Verdict
  <2>4. CASE CompareEnds
    BY <2>4, JudgedCompared DEF CompareEnds
  <2>5. CASE CompareFails
    <3>1. CASE mode = "sockets"
      BY <2>5, <3>1, JudgedCompared DEF CompareFails
    <3>2. CASE mode # "sockets"
      <4>1. main' \in {"release", "teardown"} /\ outcome' = "error"
        BY <2>5, <3>2, FailFacts
      <4> QED
        BY <4>1 DEF JudgedInv, Judged, Verdict
    <3> QED
      BY <3>1, <3>2
  <2> QED
    BY <1>2, <2>1, <2>2, <2>3, <2>4, <2>5 DEF CompareStep
<1> QED
  BY <1>1, <1>2, KeepsStep

-----------------------------------------------------------------------------
(* What the observer is told, step by step *)

LEMMA UpdateCases ==
  ASSUME Types, [RunNext]_allVars
  PROVE  \/ UNCHANGED updates /\ (main' \notin Before => main \notin Before)
         \/ EndRun
         \/ CompareStep /\ main = "compare" /\ \E b \in BOOLEAN : Update(Comparison(cur, b))
<1> USE DEF summaryVars, Before
<1>1. CASE ParallelStep /\ UNCHANGED <<summaryVars, runVars>>
  BY <1>1 DEF ParallelStep, NewTestStream, NewTestStreamFails, ListenFails, Prepare, Start,
       Write, WriteTimesOut, CloseStream, Feeding, Wait, ReadEvents, ReadEnds
<1>2. CASE NewInvocation \/ Release \/ NewProcess \/ WriteStdin \/ CloseStdin \/ WaitForProcess
  BY <1>2 DEF NewInvocation, Release, NewProcess, WriteStdin, CloseStdin, WaitForProcess
<1>3. CASE SetupTest \/ ExecuteTest \/ TeardownTest
  BY <1>3 DEF SetupTest, ExecuteTest, TeardownTest
<1>4. CASE CompareLengths \/ CompareNothing
  BY <1>4 DEF CompareStep, CompareLengths, CompareNothing, Comparing
<1>5. CASE CompareEvent
  <2>1. (events[cur][at] = Wanted(cur)[at]) \in BOOLEAN
    OBVIOUS
  <2> QED
    BY <1>5, <2>1 DEF CompareStep, CompareEvent, Comparing
<1>6. CASE CompareEnds \/ CompareFails
  BY <1>6 DEF CompareEnds, CompareFails, Comparing
<1>7. CASE FinalizeRun
  <2>1. UNCHANGED updates
    BY <1>7 DEF FinalizeRun, Finalize
  <2> QED
    BY <1>7, <2>1, FinalizeFacts
<1>8. CASE LogstashStep \/ Misfortune
  BY <1>8, LogstashFrame
<1>9. ASSUME NEW i \in Stream, Acceptor(i) PROVE UNCHANGED <<main, updates>>
  BY <1>9, AcceptorFrame
<1>10. CASE ObserverStep /\ UNCHANGED <<vars, runVars>>
  BY <1>10 DEF vars, ObserverStep, Observe, HandleStart, HandleComparison, HandleEnd, NextValue
<1>11. CASE UNCHANGED allVars
  BY <1>11 DEF allVars, vars
<1> QED
  BY <1>1, <1>2, <1>3, <1>4, <1>5, <1>6, <1>7, <1>8, <1>9, <1>10, <1>11
     DEF RunNext, MainStep, CompareStep

LEMMA KindFacts ==
  /\ \A u : IsComparison(u) <=> u \in Results
  /\ \A u \in Results : u # StartEvent /\ u # EndEvent /\ u.kind = "comparison"
                        /\ u.path \in Stream /\ u.status \in BOOLEAN
  /\ StartEvent # EndEvent /\ StartEvent.kind = "start" /\ EndEvent.kind = "end"
  /\ \A i, b : Comparison(i, b).path = i /\ Comparison(i, b).status = b
BY DEF Results, IsComparison, Comparison, StartEvent, EndEvent

\* One more value of the property.
LEMMA UpdateFacts ==
  ASSUME UpdatesInv, NEW u \in {StartEvent, EndEvent} \cup Results, Update(u)
  PROVE  /\ updates' \in Seq({StartEvent, EndEvent} \cup Results)
         /\ Len(updates) \in Nat \ {0} /\ Len(updates') = Len(updates) + 1
         /\ updates'[Len(updates) + 1] = u
         /\ \A k \in 1..Len(updates) : updates'[k] = updates[k]
<1>1. updates' = Append(updates, u) /\ updates \in Seq({StartEvent, EndEvent} \cup Results)
  BY DEF Update, UpdatesInv
<1>2. Len(updates) \in Nat \ {0}
  BY <1>1, EmptySeq DEF UpdatesInv
<1> QED
  BY <1>1, <1>2, AppendProperties

LEMMA UpdatesStep ==
  ASSUME Types, UpdatesInv, [RunNext]_allVars
  PROVE  UpdatesInv'
<1>1. CASE UNCHANGED updates /\ (main' \notin Before => main \notin Before)
  BY <1>1 DEF UpdatesInv
<1>2. ASSUME main \notin Before, NEW u \in {EndEvent} \cup Results, Update(u),
             u = EndEvent => main' \in Before
      PROVE  UpdatesInv'
  <2>1. /\ updates' \in Seq({StartEvent, EndEvent} \cup Results)
        /\ Len(updates) \in Nat \ {0} /\ Len(updates') = Len(updates) + 1
        /\ updates'[Len(updates) + 1] = u
        /\ \A k \in 1..Len(updates) : updates'[k] = updates[k]
    BY <1>2, UpdateFacts
  <2>2. updates' # << >> /\ updates'[1] = StartEvent
    BY <2>1, EmptySeq DEF UpdatesInv
  <2>3. ASSUME NEW k \in 2..Len(updates')
        PROVE  /\ IsComparison(updates'[k]) \/ (k = Len(updates') /\ u = EndEvent)
               /\ updates'[k] # StartEvent
    <3>1. CASE k = Len(updates')
      BY <1>2, <2>1, <3>1, KindFacts
    <3>2. CASE k # Len(updates')
      <4>1. k \in 2..Len(updates) /\ updates'[k] = updates[k]
        BY <2>1, <3>2
      <4> QED
        BY <1>2, <4>1 DEF UpdatesInv
    <3> QED
      BY <3>1, <3>2
  <2> QED
    BY <1>2, <2>1, <2>2, <2>3 DEF UpdatesInv
<1>3. CASE EndRun
  BY <1>2, <1>3 DEF EndRun, Before
<1>4. CASE main = "compare" /\ \E b \in BOOLEAN : Update(Comparison(cur, b))
  <2>1. cur \in Stream
    BY <1>4, ParallelAssumption DEF Types, CurOK, Stream
  <2>2. PICK b \in BOOLEAN : Update(Comparison(cur, b))
    BY <1>4
  <2>3. Comparison(cur, b) \in Results /\ Comparison(cur, b) # EndEvent
    BY <2>1, KindFacts DEF Results
  <2> QED
    BY <1>2, <1>4, <2>2, <2>3 DEF Before
<1> QED
  BY <1>1, <1>3, <1>4, UpdateCases

\* One more result of a comparison.
LEMMA ToldFacts ==
  ASSUME UpdatesInv, cur \in Stream, NEW b \in BOOLEAN, Update(Comparison(cur, b))
  PROVE  /\ Told' = Told \cup {Len(updates) + 1}
         /\ \A k \in Told : updates'[k] = updates[k]
         /\ updates'[Len(updates) + 1].path = cur
         /\ updates'[Len(updates) + 1].status = b
<1>1. Comparison(cur, b) \in Results
  BY DEF Results
<1>2. /\ Len(updates) \in Nat \ {0} /\ Len(updates') = Len(updates) + 1
      /\ updates'[Len(updates) + 1] = Comparison(cur, b)
      /\ \A k \in 1..Len(updates) : updates'[k] = updates[k]
  BY <1>1, UpdateFacts
<1>3. 2..Len(updates') = 2..Len(updates) \cup {Len(updates) + 1}
  BY <1>2
<1>4. IsComparison(updates'[Len(updates) + 1])
  BY <1>1, <1>2, KindFacts
<1>5. \A k \in 2..Len(updates) : updates'[k] = updates[k]
  BY <1>2
<1>6. Told' = Told \cup {Len(updates) + 1}
  BY <1>3, <1>4, <1>5 DEF Told
<1> QED
  BY <1>2, <1>5, <1>6, KindFacts DEF Told

\* What was told is not affected by the end of the run.
LEMMA ToldKept ==
  ASSUME UpdatesInv, UNCHANGED updates \/ EndRun
  PROVE  Told' = Told /\ \A k \in Told : updates'[k] = updates[k]
<1>1. CASE UNCHANGED updates
  BY <1>1 DEF Told
<1>2. CASE EndRun
  <2>1. /\ Len(updates) \in Nat \ {0} /\ Len(updates') = Len(updates) + 1
        /\ updates'[Len(updates) + 1] = EndEvent
        /\ \A k \in 1..Len(updates) : updates'[k] = updates[k]
    BY <1>2, UpdateFacts DEF EndRun
  <2>2. 2..Len(updates') = 2..Len(updates) \cup {Len(updates) + 1}
    BY <2>1
  <2>3. ~IsComparison(updates'[Len(updates) + 1])
    BY <2>1, KindFacts
  <2>4. \A k \in 2..Len(updates) : updates'[k] = updates[k]
    BY <2>1
  <2> QED
    BY <2>2, <2>3, <2>4 DEF Told
<1> QED
  BY <1>1, <1>2

\* Outside of Compare.
LEMMA ToldKeeps ==
  ASSUME Types, UpdatesInv, ToldInv, Keeps, UNCHANGED updates \/ EndRun
  PROVE  ToldInv'
<1>1. Told' = Told /\ \A k \in Told : updates'[k] = updates[k]
  BY ToldKept
<1>2. Agree' <=> Agree
  <2>1. CASE at = 1
    BY <2>1 DEF Keeps, Agree
  <2>2. CASE UNCHANGED <<cur, events>>
    BY <2>2 DEF Keeps, Agree
  <2> QED
    BY <2>1, <2>2 DEF Keeps
<1>3. \A i \in Judged' \ failed' : \E k \in Told' : updates'[k].path = i
  BY <1>1 DEF Keeps, ToldInv
<1>4. main' = "compare" /\ at' > 1 => \E k \in Told' : updates'[k].path = cur'
  BY <1>1 DEF Keeps, ToldInv
<1>5. (\A k \in Told' : updates'[k].status) <=> \A k \in Told : updates[k].status
  BY <1>1
<1> QED
  BY <1>2, <1>3, <1>4, <1>5 DEF Keeps, ToldInv

\* Compare has returned for cur, and was judged as the observer was told.
LEMMA ToldCompared ==
  ASSUME Types, ToldInv, Comparing, NEW same \in BOOLEAN, Compared(same),
         \A i \in Judged \ failed : \E k \in Told' : updates'[k].path = i,
         cur \in failed' \/ \E k \in Told' : updates'[k].path = cur,
         failed \subseteq failed',
         ok /\ same <=> failed' = {} /\ \A k \in Told' : updates'[k].status
  PROVE  ToldInv'
<1>1. /\ ok' = (ok /\ same) /\ at' = 1
      /\ \A i \in Judged' : i \in Judged \/ i = cur
  BY JudgedMore
<1>4. \A i \in Judged' \ failed' : \E k \in Told' : updates'[k].path = i
  BY <1>1
<1>5. Agree' /\ ~(at' > 1)
  BY <1>1 DEF Agree
<1>6. ok' /\ Agree' <=> failed' = {} /\ \A k \in Told' : updates'[k].status
  BY <1>1, <1>5
<1> QED
  BY <1>4, <1>5, <1>6 DEF ToldInv

\* Compare looks at the next event of cur.
LEMMA ToldEvent ==
  ASSUME Types, UpdatesInv, ToldInv, CompareEvent
  PROVE  ToldInv'
<1>1. /\ main = "compare" /\ at' = at + 1
      /\ UNCHANGED <<main, cur, outcome, events, ok, failed>>
  BY DEF CompareEvent, Comparing, vars, result
<1>2. /\ cur \in Stream /\ at \in Nat /\ at >= 1 /\ at \in 1..expected[cur]
      /\ Wanted(cur)[at] = cur
  <2>1. cur \in Stream /\ expected[cur] \in Nat /\ at \in 1..MaxLines + 1
    BY <1>1, ParallelAssumption DEF Types, CurOK, InputOK, AtOK, Stream
  <2>2. at <= expected[cur]
    BY DEF CompareEvent, SameLength
  <2> QED
    BY <2>1, <2>2 DEF Wanted
<1>3. Judged' = Judged
  BY <1>1 DEF Judged, Verdict
<1>4. Agree' <=> Agree /\ events[cur][at] = cur
  <2>1. 1..at' - 1 = 1..at - 1 \cup {at}
    BY <1>1, <1>2
  <2> QED
    BY <1>1, <2>1 DEF Agree
<1>5. ASSUME NEW b \in BOOLEAN, Update(Comparison(cur, b)), b <=> events[cur][at] = cur
      PROVE  ToldInv'
  <2>1. /\ Told' = Told \cup {Len(updates) + 1}
        /\ \A k \in Told : updates'[k] = updates[k]
        /\ updates'[Len(updates) + 1].path = cur
        /\ updates'[Len(updates) + 1].status = b
    BY <1>2, <1>5, ToldFacts
  <2>2. \A i \in Judged' \ failed' : \E k \in Told' : updates'[k].path = i
    BY <1>1, <1>3, <2>1 DEF ToldInv
  <2>3. \E k \in Told' : updates'[k].path = cur'
    BY <1>1, <2>1
  <2>4. (\A k \in Told' : updates'[k].status) <=> b /\ \A k \in Told : updates[k].status
    BY <2>1
  <2>5. ok' /\ Agree' <=> failed' = {} /\ \A k \in Told' : updates'[k].status
    BY <1>1, <1>4, <1>5, <2>4 DEF ToldInv
  <2> QED
    BY <2>2, <2>3, <2>5 DEF ToldInv
<1>6. Update(Comparison(cur, events[cur][at] = Wanted(cur)[at]))
  BY DEF CompareEvent
<1>7. CASE events[cur][at] = cur
  <2>1. (events[cur][at] = Wanted(cur)[at]) = TRUE
    BY <1>2, <1>7
  <2> QED
    BY <1>5, <1>6, <1>7, <2>1
<1>8. CASE events[cur][at] # cur
  <2>1. (events[cur][at] = Wanted(cur)[at]) = FALSE
    BY <1>2, <1>8
  <2> QED
    BY <1>5, <1>6, <1>8, <2>1
<1> QED
  BY <1>7, <1>8

\* All events of cur are compared: they are the wanted ones if all agree.
LEMMA AgreeFacts ==
  ASSUME Types, CompareEnds
  PROVE  at > 1 /\ (Agree <=> events[cur] = Wanted(cur))
<1>1. /\ main = "compare" /\ SameLength /\ at > Len(events[cur]) /\ at > 1
  BY DEF CompareEnds, Comparing
<1>2. cur \in Stream /\ expected[cur] \in Nat /\ at \in Nat
  BY <1>1, ParallelAssumption DEF Types, CurOK, InputOK, AtOK, Stream
<1>3. at = expected[cur] + 1
  BY <1>1, <1>2 DEF Types, AtOK, SameLength
<1>4. Agree <=> \A n \in 1..expected[cur] : events[cur][n] = cur
  BY <1>2, <1>3 DEF Agree
<1>5. events[cur] \in Seq(Stream \cup {0}) /\ Len(events[cur]) = expected[cur]
  BY <1>1, <1>2 DEF Types, OutputOK, SameLength
<1>6. Wanted(cur) \in [1..expected[cur] -> Stream \cup {0}]
  BY <1>2 DEF Wanted
<1>7. events[cur] \in [1..expected[cur] -> Stream \cup {0}]
  BY <1>5, LenProperties
<1>8. events[cur] = Wanted(cur) <=> \A n \in 1..expected[cur] : events[cur][n] = Wanted(cur)[n]
  <2> DEFINE all == 1..expected[cur]
             f == events[cur]
             g == Wanted(cur)
  <2>1. f \in [all -> Stream \cup {0}] /\ g \in [all -> Stream \cup {0}]
    BY <1>6, <1>7
  <2>2. f = g <=> \A n \in all : f[n] = g[n]
    <3> HIDE DEF all, f, g
    <3> QED
      BY <2>1
  <2> QED
    BY <2>2
<1> QED
  BY <1>1, <1>4, <1>8 DEF Wanted

LEMMA ToldStep ==
  ASSUME Types, UpdatesInv, ToldInv, [RunNext]_allVars
  PROVE  ToldInv'
<1>1. CASE ~CompareStep
  BY <1>1, KeepsStep, UpdateCases, ToldKeeps
<1>2. CASE CompareLengths \/ CompareNothing
  <2>1. PICK b \in BOOLEAN : Update(Comparison(cur, b)) /\ Compared(b)
    BY <1>2 DEF CompareLengths, CompareNothing
  <2>2. Comparing /\ UNCHANGED failed /\ cur \in Stream
    <3>1. main = "compare" /\ UNCHANGED failed
      BY <1>2 DEF CompareLengths, CompareNothing, Comparing
    <3> QED
      BY <3>1, ParallelAssumption DEF Comparing, Types, CurOK, Stream
  <2>3. at = 1 /\ Agree
    <3>1. at = 1
      <4>1. at = 1 \/ (SameLength /\ at <= expected[cur] + 1)
        BY <2>2 DEF Types, AtOK, Comparing
      <4>2. CASE CompareLengths
        BY <4>1, <4>2 DEF CompareLengths
      <4>3. CASE CompareNothing
        BY <4>1, <4>3, ParallelAssumption DEF CompareNothing, SameLength, Types, AtOK
      <4> QED
        BY <1>2, <4>2, <4>3
    <3> QED
      BY <3>1 DEF Agree
  <2>4. /\ Told' = Told \cup {Len(updates) + 1}
        /\ \A k \in Told : updates'[k] = updates[k]
        /\ updates'[Len(updates) + 1].path = cur
        /\ updates'[Len(updates) + 1].status = b
    BY <2>1, <2>2, ToldFacts
  <2>5. (\A k \in Told' : updates'[k].status) <=> b /\ \A k \in Told : updates[k].status
    BY <2>4
  <2>6. ok /\ b <=> failed' = {} /\ \A k \in Told' : updates'[k].status
    BY <2>2, <2>3, <2>5 DEF ToldInv
  <2>7. \A i \in Judged \ failed : \E k \in Told' : updates'[k].path = i
    BY <2>4 DEF ToldInv
  <2> QED
    BY <2>1, <2>2, <2>4, <2>6, <2>7, ToldCompared
<1>3. CASE CompareEvent
  BY <1>3, ToldEvent
<1>4. CASE CompareEnds
  <2>1. PICK b \in BOOLEAN : Compared(b) /\ (b <=> events[cur] = Wanted(cur))
    BY <1>4 DEF CompareEnds
  <2>2. Comparing /\ UNCHANGED <<failed, updates>> /\ at > 1 /\ main = "compare"
    BY <1>4 DEF CompareEnds, Comparing, summaryVars
  <2>3. Told' = Told
    BY <2>2 DEF Told
  <2>4. ok /\ b <=> failed' = {} /\ \A k \in Told' : updates'[k].status
    BY <1>4, <2>1, <2>2, <2>3, AgreeFacts DEF ToldInv
  <2>5. /\ \A i \in Judged \ failed : \E k \in Told' : updates'[k].path = i
        /\ \E k \in Told' : updates'[k].path = cur
    BY <2>2, <2>3 DEF ToldInv
  <2> QED
    BY <2>1, <2>2, <2>4, <2>5, ToldCompared
<1>5. CASE CompareFails
  <2>1. CASE mode = "sockets"
    <3>1. /\ Comparing /\ Compared(FALSE) /\ failed' = failed \cup {cur}
          /\ UNCHANGED updates
      BY <1>5, <2>1 DEF CompareFails, summaryVars
    <3>2. Told' = Told
      BY <3>1 DEF Told
    <3>3. \A i \in Judged \ failed : \E k \in Told' : updates'[k].path = i
      BY <3>1, <3>2 DEF ToldInv
    <3> QED
      BY <3>1, <3>3, ToldCompared
  <2>2. CASE mode # "sockets"
    <3>1. /\ main' \in {"release", "teardown"} /\ outcome' = "error"
          /\ UNCHANGED <<cur, events, at, ok, failed, updates>>
      BY <1>5, <2>2, FailFacts DEF runVars, summaryVars
    <3>2. Judged' = {} /\ Told' = Told /\ (Agree' <=> Agree)
      BY <3>1 DEF Judged, Verdict, Told, Agree
    <3> QED
      BY <3>1, <3>2 DEF ToldInv
  <2> QED
    BY <2>1, <2>2
<1> QED
  BY <1>1, <1>2, <1>3, <1>4, <1>5 DEF CompareStep

-----------------------------------------------------------------------------
(* What the observer knows, step by step *)

LEMMA ObserverCases ==
  ASSUME Types, [RunNext]_allVars
  PROVE  \/ UNCHANGED summaryVars /\ (Verdict' => Verdict) /\ (main' = "setup" => main = "setup")
         \/ /\ main \notin Before /\ main' # "setup" /\ ~Verdict'
            /\ \E u \in {EndEvent} \cup Results : Update(u)
         \/ SetupTest
         \/ FinalizeRun
         \/ ObserverStep /\ UNCHANGED <<vars, runVars>>
<1> DEFINE Quiet == /\ UNCHANGED summaryVars /\ (Verdict' => Verdict)
                    /\ (main' = "setup" => main = "setup")
<1> USE DEF Verdict, result, Before
<1>0. outcome # "none" <=> main \in {"release", "teardown", "returned"}
  BY DEF Types, ModeOK
<1>1. CASE ParallelStep /\ UNCHANGED <<summaryVars, runVars>>
  <2>1. Quiet
    BY <1>1 DEF ParallelStep, NewTestStream, NewTestStreamFails, ListenFails, Prepare, Start, Return,
         Write, WriteTimesOut, CloseStream, Feeding, Wait, ReadEvents, ReadEnds
  <2> QED
    BY <2>1
<1>2. CASE NewInvocation
  <2>1. main' # "setup"
    BY <1>2, ModesAssumption DEF NewInvocation, FirstStep, Types, PointsOK, ModeOK, Points
  <2> QED
    BY <1>2, <2>1 DEF NewInvocation
<1>3. CASE Release \/ NewProcess \/ WriteStdin \/ CloseStdin \/ WaitForProcess
  BY <1>3 DEF Release, NewProcess, WriteStdin, CloseStdin, WaitForProcess, Return
<1>4. CASE ExecuteTest \/ TeardownTest
  BY <1>4 DEF ExecuteTest, TeardownTest, summaryVars
<1>5. CASE EndRun
  BY <1>0, <1>5 DEF EndRun
<1>6. CASE CompareStep
  <2>1. main = "compare" /\ outcome = "none" /\ main' # "setup" /\ cur \in Stream
    <3>1. main = "compare" /\ outcome = "none" /\ cur \in Stream
      <4>1. main = "compare"
        BY <1>6 DEF CompareStep, CompareLengths, CompareNothing, CompareEvent, CompareEnds,
             CompareFails, Comparing
      <4> QED
        BY <1>0, <4>1, ParallelAssumption DEF Types, CurOK, Stream
    <3>2. ASSUME NEW same, Comparing, Compared(same) PROVE main' # "setup"
      <4>1. PointsOK /\ ModeOK
        BY DEF Types
      <4> QED
        BY <3>2, <4>1, ComparedFacts
    <3>3. main' # "setup"
      <4>1. CASE CompareLengths \/ CompareNothing \/ CompareEnds
        BY <3>2, <4>1 DEF CompareLengths, CompareNothing, CompareEnds
      <4>2. CASE CompareEvent
        BY <3>1, <4>2 DEF CompareEvent, vars
      <4>3. CASE CompareFails
        BY <3>2, <4>3, FailFacts DEF CompareFails
      <4> QED
        BY <1>6, <4>1, <4>2, <4>3 DEF CompareStep
    <3> QED
      BY <3>1, <3>3
  <2>2. outcome' \in {"none", "error"}
    <3>1. ASSUME NEW same, Comparing, Compared(same) PROVE outcome' = "none"
      <4>1. PointsOK /\ ModeOK
        BY DEF Types
      <4> QED
        BY <2>1, <3>1, <4>1, ComparedFacts
    <3>2. CASE CompareLengths \/ CompareNothing \/ CompareEnds
      BY <3>1, <3>2 DEF CompareLengths, CompareNothing, CompareEnds
    <3>3. CASE CompareEvent
      BY <2>1, <3>3 DEF CompareEvent, vars
    <3>4. CASE CompareFails
      BY <3>1, <3>4, FailFacts DEF CompareFails
    <3> QED
      BY <1>6, <3>2, <3>3, <3>4 DEF CompareStep
  <2>3. CASE UNCHANGED summaryVars
    BY <2>1, <2>2, <2>3
  <2>4. CASE \E b \in BOOLEAN : Update(Comparison(cur, b))
    BY <2>1, <2>2, <2>4 DEF Results
  <2>5. (events[cur][at] = Wanted(cur)[at]) \in BOOLEAN
    OBVIOUS
  <2> QED
    BY <1>6, <2>3, <2>4, <2>5
       DEF CompareStep, CompareLengths, CompareNothing, CompareEvent, CompareEnds, CompareFails
<1>7. CASE LogstashStep \/ Misfortune
  BY <1>7, LogstashFrame
<1>8. ASSUME NEW i \in Stream, Acceptor(i) PROVE Quiet
  BY <1>8, AcceptorFrame
<1>9. CASE UNCHANGED allVars
  BY <1>9 DEF allVars, vars
<1> QED
  BY <1>1, <1>2, <1>3, <1>4, <1>5, <1>6, <1>7, <1>8, <1>9 DEF RunNext, MainStep

LEMMA ObserverOKStep ==
  ASSUME Types, UpdatesInv, ObserverOK, [RunNext]_allVars
  PROVE  ObserverOK'
<1>0. /\ updates \in Seq({StartEvent, EndEvent} \cup Results)
      /\ Len(updates) \in Nat \ {0}
  BY EmptySeq DEF UpdatesInv
<1>1. CASE UNCHANGED summaryVars
  BY <1>1 DEF ObserverOK, summaryVars
<1>2. ASSUME NEW u \in {EndEvent} \cup Results, Update(u) PROVE ObserverOK'
  <2>1. Len(updates') = Len(updates) + 1 /\ UNCHANGED <<observer, position, made, counted, printed>>
    BY <1>2, UpdateFacts DEF Update
  <2> QED
    BY <1>0, <2>1 DEF ObserverOK
<1>3. CASE SetupTest
  BY <1>3 DEF SetupTest, ObserverOK
<1>4. CASE FinalizeRun
  BY <1>4 DEF FinalizeRun, Finalize, ObserverOK, summaryVars
<1>5. CASE ObserverStep
  <2>1. CASE Observe
    BY <1>0, <2>1 DEF Observe, ObserverOK
  <2>2. CASE HandleStart \/ HandleEnd
    BY <2>2, EmptySeq DEF HandleStart, HandleEnd, Handles, ObserverOK
  <2>3. CASE HandleComparison
    <3>1. position \in 1..Len(updates) /\ updates[position].kind = "comparison"
      BY <1>0, <2>3 DEF HandleComparison, Handles, ObserverOK
    <3>2. updates[position] \in Results
      <4>1. updates[position] \in {StartEvent, EndEvent} \cup Results
        BY <1>0, <3>1, ElementOfSeq
      <4> QED
        BY <3>1, <4>1, KindFacts
    <3>3. counted' \in Seq(Results)
      BY <2>3, <3>2, AppendProperties DEF HandleComparison, ObserverOK
    <3>4. observer' \in {"changes", "panic"}
      BY <2>3 DEF HandleComparison
    <3> QED
      BY <2>3, <3>1, <3>3, <3>4 DEF HandleComparison, ObserverOK
  <2>4. CASE NextValue
    BY <1>0, <2>4 DEF NextValue, ObserverOK
  <2> QED
    BY <1>5, <2>1, <2>2, <2>3, <2>4 DEF ObserverStep
<1> QED
  BY <1>1, <1>2, <1>3, <1>4, <1>5, ObserverCases

\* One more value of the property, while the tests are compared.
LEMMA ObserverUpdate ==
  ASSUME Prompt, UpdatesInv, ObserverOK, ObserverInv, main \notin Before,
         main' # "setup", ~Verdict', NEW u \in {EndEvent} \cup Results, Update(u)
  PROVE  ObserverInv'
<1>1. /\ Len(updates) \in Nat \ {0} /\ Len(updates') = Len(updates) + 1
      /\ \A k \in 1..Len(updates) : updates'[k] = updates[k]
  BY UpdateFacts
<1>2. observer # "starting" /\ UNCHANGED <<observer, position, made, counted, printed>>
  BY DEF Update
<1>3. ~printed
  <2>1. SUFFICES ASSUME printed PROVE FALSE
    OBVIOUS
  <2>2. Len(updates) \in 2..Len(updates) /\ updates[Len(updates)] = EndEvent
    BY <1>1, <2>1 DEF ObserverInv
  <2>3. IsComparison(updates[Len(updates)])
    BY <2>2 DEF UpdatesInv
  <2> QED
    BY <2>2, <2>3, KindFacts
<1>4. position \in Nat /\ position <= Len(updates) /\ Len(counted) \in Nat
  BY <1>1 DEF ObserverOK
<1>5. \A n \in 1..Len(counted) : n + 1 \in 1..Len(updates)
  <2>1. Len(counted) = 0 \/ Len(counted) <= position - 1
    <3>1. CASE observer \in {"none", "starting"}
      BY <3>1 DEF ObserverInv
    <3>2. CASE observer = "handle"
      BY <1>4, <3>2 DEF ObserverInv, ObserverOK
    <3>3. CASE observer \in {"changes", "done"}
      BY <1>3, <1>4, <3>3 DEF ObserverInv
    <3> QED
      BY <3>1, <3>2, <3>3 DEF ObserverInv, ObserverOK
  <2> QED
    BY <1>1, <1>4, <2>1
<1>6. \A n \in 1..Len(counted') : counted'[n] = updates'[n + 1]
  BY <1>1, <1>2, <1>5 DEF ObserverInv
<1> QED
  BY <1>2, <1>3, <1>6 DEF ObserverInv

\* The goroutine of the observer.
LEMMA ObserverGoes ==
  ASSUME UpdatesInv, ObserverOK, ObserverInv, ObserverStep, UNCHANGED <<vars, runVars>>
  PROVE  ObserverInv'
<1>0. /\ Len(updates) \in Nat \ {0} /\ position \in Nat /\ Len(counted) \in Nat
      /\ UNCHANGED <<main, outcome>> /\ updates[1] = StartEvent
  BY EmptySeq DEF UpdatesInv, ObserverOK, vars, result
<1>1. CASE Observe
  <2>1. /\ observer = "starting" /\ observer' = "handle" /\ position' = 1
        /\ Len(counted) = 0 /\ ~printed /\ UNCHANGED <<updates, made, counted, printed>>
    BY <1>1 DEF Observe, ObserverInv
  <2> QED
    BY <1>0, <2>1 DEF ObserverInv, Verdict
<1>2. ASSUME observer = "handle", position > 1
      PROVE  /\ made /\ ~printed /\ Len(counted) = position - 2
             /\ position \in 2..Len(updates) /\ updates[position] # StartEvent
             /\ updates[position] = EndEvent => position = Len(updates)
             /\ updates[position] = EndEvent \/ updates[position] \in Results
  <2>1. position \in 2..Len(updates)
    BY <1>0, <1>2 DEF ObserverOK
  <2>2. IsComparison(updates[position]) \/ position = Len(updates)
    BY <2>1 DEF UpdatesInv
  <2>3. updates[position] \in {StartEvent, EndEvent} \cup Results
    BY <1>0, <2>1, ElementOfSeq DEF UpdatesInv
  <2> QED
    BY <1>0, <1>2, <2>1, <2>2, <2>3, KindFacts DEF UpdatesInv, ObserverInv
<1>3. CASE HandleStart
  <2>1. /\ observer = "handle" /\ updates[position].kind = "start" /\ observer' = "changes"
        /\ made' = TRUE /\ counted' = << >> /\ UNCHANGED <<updates, position, printed>>
    BY <1>3 DEF HandleStart, Handles
  <2>2. position = 1
    BY <1>0, <1>2, <2>1, KindFacts DEF ObserverOK
  <2>3. ~printed
    BY <2>1 DEF ObserverInv
  <2>4. Len(counted') = 0
    BY <2>1
  <2>5. \A n \in 1..Len(counted') : counted'[n] = updates'[n + 1]
    BY <2>4
  <2> QED
    BY <1>0, <2>1, <2>2, <2>3, <2>4, <2>5 DEF ObserverInv, Verdict
<1>4. CASE HandleComparison
  <2>1. /\ observer = "handle" /\ updates[position].kind = "comparison"
        /\ observer' = (IF made THEN "changes" ELSE "panic")
        /\ counted' = Append(counted, updates[position])
        /\ UNCHANGED <<updates, position, made, printed>>
    BY <1>4 DEF HandleComparison, Handles
  <2>2. position > 1
    BY <1>0, <2>1, KindFacts DEF ObserverOK
  <2>3. made /\ ~printed /\ Len(counted) = position - 2 /\ updates[position] \in Results
    BY <1>2, <2>1, <2>2, KindFacts
  <2>4. /\ Len(counted') = position - 1 /\ counted'[position - 1] = updates[position]
        /\ \A n \in 1..position - 2 : counted'[n] = counted[n]
    BY <1>0, <2>1, <2>3, AppendProperties DEF ObserverOK
  <2>5. \A n \in 1..Len(counted') : counted'[n] = updates'[n + 1]
    <3>1. SUFFICES ASSUME NEW n \in 1..position - 1 PROVE counted'[n] = updates[n + 1]
      BY <2>1, <2>4
    <3>2. CASE n = position - 1
      BY <1>0, <2>4, <3>2
    <3>3. CASE n # position - 1
      <4>1. n \in 1..position - 2
        BY <1>0, <3>3
      <4> QED
        BY <2>3, <2>4, <4>1 DEF ObserverInv
    <3> QED
      BY <3>2, <3>3
  <2> QED
    BY <1>0, <2>1, <2>3, <2>4, <2>5 DEF ObserverInv, Verdict
<1>5. CASE HandleEnd
  <2>1. /\ observer = "handle" /\ updates[position].kind = "end" /\ observer' = "done"
        /\ printed' = TRUE /\ UNCHANGED <<updates, position, made, counted>>
    BY <1>5 DEF HandleEnd, Handles
  <2>2. position > 1
    BY <1>0, <2>1, KindFacts DEF ObserverOK
  <2>3. updates[position] = EndEvent
    BY <1>2, <2>1, <2>2, KindFacts
  <2> QED
    BY <1>0, <1>2, <2>1, <2>2, <2>3 DEF ObserverInv, Verdict
<1>6. CASE NextValue
  <2>1. /\ observer = "changes" /\ position < Len(updates) /\ observer' = "handle"
        /\ position' = position + 1 /\ UNCHANGED <<updates, made, counted, printed>>
    BY <1>6 DEF NextValue
  <2>2. ~printed /\ made /\ Len(counted) = position - 1 /\ position >= 1
    BY <1>0, <2>1 DEF ObserverInv, ObserverOK
  <2> QED
    BY <1>0, <2>1, <2>2 DEF ObserverInv, Verdict
<1> QED
  BY <1>1, <1>3, <1>4, <1>5, <1>6 DEF ObserverStep

LEMMA ObserverInvStep ==
  ASSUME Prompt, Types, UpdatesInv, ObserverOK, ObserverInv, [RunNext]_allVars
  PROVE  ObserverInv'
<1>1. CASE /\ UNCHANGED summaryVars /\ (Verdict' => Verdict)
           /\ (main' = "setup" => main = "setup")
  BY <1>1 DEF ObserverInv, summaryVars
<1>2. CASE SetupTest
  <2>1. /\ main = "setup" /\ main' # "setup" /\ outcome' \in {outcome, "error"}
        /\ UNCHANGED <<updates, position, made, counted, printed>>
        /\ observer' \in {"none", "starting"}
    BY <1>2 DEF SetupTest, ObserverInv
  <2>2. /\ observer = "none" /\ Len(updates) = 1 /\ position = 0 /\ counted = << >>
        /\ ~printed /\ outcome = "none"
    BY <2>1 DEF ObserverInv, Types, ModeOK
  <2> QED
    BY <2>1, <2>2 DEF ObserverInv, Verdict
<1>3. CASE FinalizeRun
  <2>1. /\ main' # "setup" /\ UNCHANGED <<updates, position, made, counted, printed>>
        /\ \/ observer = "none" /\ observer' = "none"
           \/ observer = "done" /\ observer' = "changes"
    BY <1>3, FinalizeFacts DEF FinalizeRun, Finalize, summaryVars
  <2> QED
    BY <2>1 DEF ObserverInv
<1> QED
  BY <1>1, <1>2, <1>3, ObserverCases, ObserverUpdate, ObserverGoes

-----------------------------------------------------------------------------
(* The invariant *)

RunInv ==
  /\ Types /\ LeftInv /\ SentInv /\ JudgedInv
  /\ UpdatesInv /\ ToldInv /\ ObserverOK
  /\ Prompt => ObserverInv

LEMMA RunInvInit ==
  ASSUME RunInit
  PROVE  RunInv
<1>0. /\ Tests \in Nat \ {0} /\ mode \in {"sockets", "stdin", "daemon"}
      /\ main = (IF mode = "daemon" THEN "setup" ELSE "invoke")
      /\ outcome = "none" /\ cur = 1 /\ at = 1 /\ ok = TRUE /\ failed = {}
      /\ logstash = "unborn" /\ session = "none" /\ temp = {} /\ known = {}
      /\ sent = [i \in Stream |-> 0] /\ taken = [i \in Stream |-> 0]
      /\ conn = [i \in Stream |-> "none"]
  BY ParallelAssumption, ModesAssumption DEF RunInit, Init
<1>1. /\ updates = <<StartEvent>> /\ position = 0 /\ made = FALSE /\ counted = << >>
      /\ printed = FALSE /\ observer \in (IF mode = "daemon" THEN {"none"} ELSE {"none", "starting"})
  BY DEF RunInit, SummaryInit
<1>2. Len(updates) = 1 /\ updates[1] = StartEvent /\ Len(counted) = 0
  BY <1>1
<1>3. LeftInv
  BY <1>0 DEF LeftInv, Closing
<1>4. SentInv
  BY <1>0 DEF SentInv, Fed, Verdict
<1>5. JudgedInv
  BY <1>0 DEF JudgedInv, Judged, Verdict
<1>6. UpdatesInv
  <2>1. updates \in Seq({StartEvent, EndEvent} \cup Results) /\ updates # << >>
    BY <1>1
  <2> QED
    BY <1>2, <2>1 DEF UpdatesInv
<1>7. ToldInv
  BY <1>0, <1>2 DEF ToldInv, Judged, Told, Agree, Verdict
<1>8. ObserverOK /\ ObserverInv
  <2>1. observer \in {"none", "starting"} /\ (main = "setup" => observer = "none")
    BY <1>0, <1>1
  <2>2. ObserverOK
    <3>1. counted \in Seq(Results)
      BY <1>1, EmptySeq
    <3>2. position \in 0..Len(updates)
      BY <1>1, <1>2
    <3> QED
      BY <1>1, <2>1, <3>1, <3>2 DEF ObserverOK
  <2>3. ~Verdict
    BY <1>0 DEF Verdict
  <2> QED
    BY <1>1, <1>2, <2>1, <2>2, <2>3 DEF ObserverInv
<1> QED
  BY <1>3, <1>4, <1>5, <1>6, <1>7, <1>8, TypesInit DEF RunInv

LEMMA RunInvStep ==
  ASSUME RunInv, [RunNext]_allVars
  PROVE  RunInv'
BY TypesStep, LeftStep, SentStep, JudgedStep, UpdatesStep, ToldStep, ObserverOKStep,
   ObserverInvStep DEF RunInv

LEMMA RunInvHolds == Spec => []RunInv
BY RunInvInit, RunInvStep, PTL DEF Spec

-----------------------------------------------------------------------------
(* The theorems *)

\* Type correctness of the whole run, in the three modes.
THEOREM RunTypes == Spec => []RunTypeOK
<1>1. RunInv => RunTypeOK
  <2>1. SUFFICES ASSUME RunInv PROVE RunTypeOK
    OBVIOUS
  <2>2. TypeOK
    BY <2>1 DEF RunInv, Types, PointsOK, CurOK, InputOK, StreamsOK, OutputOK, TypeOK
  <2>3. /\ mode \in Modes /\ at \in 1..MaxLines + 1 /\ ok \in BOOLEAN
        /\ failed \subseteq Stream /\ session \in {"none", "open", "closed", "kept"}
        /\ temp \subseteq {"dir", "log", "io"}
    BY <2>1 DEF RunInv, Types, PointsOK, StreamsOK, AtOK
  <2>4. /\ updates \in Seq({StartEvent, EndEvent} \cup Results) /\ ObserverOK
    BY <2>1 DEF RunInv, UpdatesInv
  <2> QED
    BY <2>2, <2>3, <2>4 DEF RunTypeOK, ObserverOK, Results
<1> QED
  BY <1>1, RunInvHolds, PTL

\* On every way out but log.Fatalf the deferred calls of Run, runParallelTests
\* and runTests remove the temporary files of the streams in testStreams, their
\* sockets with the directories, and the directory of the invocation, and end
\* the session in the daemon (CleanupTestStreams, Release, TeardownTest).
THEOREM NothingStays == Spec => []NothingLeftBehind
<1>1. RunInv => NothingLeftBehind
  BY DEF RunInv, LeftInv, Closing, NothingLeftBehind
<1> QED
  BY <1>1, RunInvHolds, PTL

\* A run that passes has sent every line of every test case set, and got exactly
\* the events that the set expects (runParallelTests, runTests, Test.Run;
\* Compare).
THEOREM VerdictIsEarned == Spec => []PassIsRight
<1>1. RunInv => PassIsRight
  <2>1. SUFFICES ASSUME RunInv, outcome = "pass", NEW i \in Stream
                 PROVE  /\ sent[i] = lines[i] /\ events[i] = Wanted(i)
                        /\ logstash # "ioerror" => taken[i] = lines[i]
    BY DEF PassIsRight
  <2>2. Verdict /\ Fed = Stream /\ Judged = Stream
    BY <2>1 DEF Verdict, Fed, Judged
  <2>3. sent[i] = lines[i]
    BY <2>1, <2>2 DEF RunInv, SentInv
  <2>4. events[i] = Wanted(i)
    BY <2>1, <2>2 DEF RunInv, JudgedInv
  <2>5. mode \in {"sockets", "stdin", "daemon"}
    BY <2>1, ModesAssumption DEF RunInv, Types, PointsOK
  <2>6. CASE logstash = "ended"
    BY <2>1, <2>3, <2>4, <2>6 DEF RunInv, SentInv
  <2>7. CASE logstash = "ioerror"
    BY <2>3, <2>4, <2>7
  <2>8. CASE mode = "daemon"
    BY <2>1, <2>3, <2>4, <2>8 DEF RunInv, SentInv
  <2>9. logstash \in Survivors[mode]
    BY <2>1, <2>2 DEF RunInv, SentInv
  <2> QED
    BY <2>5, <2>6, <2>7, <2>8, <2>9 DEF Survivors
<1> QED
  BY <1>1, RunInvHolds, PTL

\* If the goroutine of the observer calls Observe before the first Update, the
\* summary is printed before a run with a verdict ends, has every test case set
\* that could be compared, and agrees with the exit status (summary.go: Start,
\* Finalize; testcase.go: Compare).
THEOREM SummaryAgrees == Prompt => (Spec => []SummaryIsRight)
<1>1. ASSUME Prompt, RunInv PROVE SummaryIsRight
  <2>1. SUFFICES ASSUME main = "returned", outcome \in {"pass", "fail"}, observer # "none"
                 PROVE  /\ printed
                        /\ \A i \in Stream \ failed :
                             \E n \in DOMAIN counted : counted[n].path = i
                        /\ outcome = "pass" <=>
                             failed = {} /\ \A n \in DOMAIN counted : counted[n].status
    BY DEF SummaryIsRight
  <2>2. /\ printed /\ Len(updates) >= 2 /\ Len(counted) = Len(updates) - 2
        /\ updates[Len(updates)] = EndEvent
        /\ \A n \in 1..Len(counted) : counted[n] = updates[n + 1]
    BY <1>1, <2>1 DEF RunInv, ObserverInv, Verdict
  <2>3. DOMAIN counted = 1..Len(counted) /\ Len(updates) \in Nat
    BY <1>1, LenProperties DEF RunInv, ObserverOK, UpdatesInv
  <2>4. Told = 2..Len(updates) - 1
    <3>1. \A k \in 2..Len(updates) : IsComparison(updates[k]) \/ k = Len(updates)
      BY <1>1 DEF RunInv, UpdatesInv
    <3>2. ~IsComparison(updates[Len(updates)])
      BY <2>2, KindFacts
    <3> QED
      BY <2>2, <2>3, <3>1, <3>2 DEF Told
  <2>5. \A k \in Told : k - 1 \in DOMAIN counted /\ counted[k - 1] = updates[k]
    BY <2>2, <2>3, <2>4
  <2>6. \A n \in DOMAIN counted : n + 1 \in Told /\ counted[n] = updates[n + 1]
    BY <2>2, <2>3, <2>4
  <2>7. Judged = Stream /\ Agree /\ (outcome = "pass" <=> ok)
    BY <1>1, <2>1 DEF RunInv, Judged, Verdict, Types, AtOK, Agree, JudgedInv
  <2>8. \A i \in Stream \ failed : \E n \in DOMAIN counted : counted[n].path = i
    <3>1. SUFFICES ASSUME NEW i \in Stream \ failed
                   PROVE  \E n \in DOMAIN counted : counted[n].path = i
      OBVIOUS
    <3>2. PICK k \in Told : updates[k].path = i
      BY <1>1, <2>7 DEF RunInv, ToldInv
    <3> QED
      BY <2>5, <3>2
  <2>9. (\A k \in Told : updates[k].status) <=> \A n \in DOMAIN counted : counted[n].status
    BY <2>5, <2>6
  <2>10. outcome = "pass" <=> failed = {} /\ \A n \in DOMAIN counted : counted[n].status
    BY <1>1, <2>7, <2>9 DEF RunInv, ToldInv
  <2> QED
    BY <2>2, <2>8, <2>10
<1>2. ASSUME Prompt PROVE Spec => []SummaryIsRight
  <2>1. RunInv => SummaryIsRight
    BY <1>1, <1>2
  <2> QED
    BY <2>1, RunInvHolds, PTL
<1> QED
  BY <1>2

=============================================================================
