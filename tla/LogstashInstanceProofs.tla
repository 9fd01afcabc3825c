------------------------- MODULE LogstashInstanceProofs -------------------------
(***************************************************************************)
(* Proofs about LogstashInstance for any number of lines and any faults:   *)
(* types, with the bounds of the WaitGroup, what is left when the WaitGroup *)
(* of the daemon is released, the causes of a reported crash, that no      *)
(* event is lost, and that it implements InstanceLife.                     *)
(***************************************************************************)
EXTENDS LogstashInstance, SequenceTheorems, TLAPS

\* A processor that has yet to call logstashShutdownWG.Done.
Busy(r) == reader[r] \notin {"none", "ended"}
Count(r) == IF Busy(r) THEN 1 ELSE 0

\* The lines, which no goroutine shares.
LinesOK ==
  /\ printed \in Seq(Kind) /\ Len(printed) <= MaxLines
  /\ pipe \in Seq(1..Len(printed)) /\ received \in Seq(1..Len(printed))
  /\ logged \in BOOLEAN

\* The control points, and what they say about each other: the WaitGroup counts
\* the processors, and which of them are there follows from that of Start.
ControlOK ==
  /\ start \in {"begin", "spawn", "announce", "tail", "returned", "failed"}
  /\ reader \in [Reader -> {"none", "select", "scan", "closed", "crash", "kill",
                            "ended"}]
  /\ group = Count("stdout") + Count("stderr") + Count("log")
  /\ stopper \in {"none", "select", "signal", "reap", "group", "done"}
  /\ stdin \in {"none", "reading", "ended"}
  /\ child \in {"unborn", "running", "terminating", "ended", "waited"}

FlagsOK ==
  /\ started \in BOOLEAN /\ cancelled \in BOOLEAN /\ killed \in BOOLEAN
  /\ heeds \in BOOLEAN /\ unasked \in BOOLEAN /\ crashed \in BOOLEAN
  /\ overlong \in BOOLEAN

StartOK ==
  /\ start = "begin" =>
       reader["stdout"] = "none" /\ reader["stderr"] = "none"
  /\ start \notin {"begin", "failed"} =>
       reader["stdout"] # "none" /\ reader["stderr"] # "none"
  /\ start = "returned" <=> reader["log"] # "none"
  /\ start = "returned" <=> stopper # "none"
  /\ reader["log"] \in {"none", "select", "ended"}

GoneOK ==
  /\ stopper \in {"group", "done"} => child = "waited" /\ stdin = "ended"
  /\ stopper = "done" => \A r \in Reader : reader[r] = "ended"

\* Nothing but the end of the process or a line that is too long ends a scanner.
CauseOK ==
  /\ killed => cancelled
  /\ stopper \notin {"none", "select"} => cancelled
  /\ child \in {"terminating", "waited"} => cancelled
  /\ start \in {"begin", "spawn"} => child = "unborn"
  /\ start \in {"announce", "tail", "returned"} => child # "unborn"
  /\ child = "ended" => unasked \/ cancelled
  /\ unasked => child \in {"ended", "waited"}
  /\ \A r \in Reader : reader[r] = "closed" =>
       child \in {"ended", "waited"} \/ Choked \/ overlong
  /\ \A r \in Reader : reader[r] = "crash" => unasked \/ Choked \/ overlong
  /\ CrashHasCause

\* The lines are read in order up to one, those after it are in the pipe.
Read == Len(printed) - Len(pipe)

Kept ==
  /\ Len(pipe) <= Len(printed)
  /\ \A n \in 1..Len(pipe) : pipe[n] = Read + n
  /\ \A n \in 1..Len(received) : received[n] <= Read /\ printed[received[n]] = "event"
  /\ \A i \in 1..Read : printed[i] = "event" => \E n \in 1..Len(received) : received[n] = i
  /\ \A m, n \in 1..Len(received) : m < n => received[m] < received[n]
  /\ reader["stdout"] \notin {"none", "select", "scan"} =>
       pipe = << >> /\ child \in {"ended", "waited"}

KeptOK == ~cancelled /\ ~Choked => Kept

Inv == LinesOK /\ FlagsOK /\ ControlOK /\ StartOK /\ GoneOK /\ CauseOK /\ KeptOK

LEMMA InitInv == Init => Inv
<1> SUFFICES ASSUME Init PROVE Inv
  OBVIOUS
<1> USE DEF Init, Reader
<1>1. LinesOK
  <2>1. \A S : << >> \in Seq(S)
    OBVIOUS
  <2>2. Len(<< >>) = 0 /\ MaxLines \in Nat
    BY InstanceAssumption
  <2>3. Len(printed) <= MaxLines
    BY <2>2
  <2>4. printed \in Seq(Kind) /\ pipe \in Seq(1..Len(printed))
        /\ received \in Seq(1..Len(printed)) /\ logged \in BOOLEAN
    BY <2>1
  <2> QED
    BY <2>3, <2>4 DEF LinesOK
<1>2. FlagsOK
  BY DEF FlagsOK
<1>3. ControlOK
  <2>1. \A r \in Reader : reader[r] = "none"
    OBVIOUS
  <2>2. group = Count("stdout") + Count("stderr") + Count("log")
    <3>1. Count("stdout") = 0 /\ Count("stderr") = 0 /\ Count("log") = 0
      BY <2>1 DEF Count, Busy
    <3>2. group = 0
      OBVIOUS
    <3> QED
      BY <3>1, <3>2
  <2>3. reader \in [Reader -> {"none", "select", "scan", "closed", "crash", "kill", "ended"}]
    OBVIOUS
  <2> QED
    BY <2>2, <2>3 DEF ControlOK
<1>4. StartOK /\ GoneOK
  BY DEF StartOK, GoneOK
<1>5. CauseOK
  BY DEF CauseOK, CrashHasCause
<1>6. KeptOK
  <2>1. Len(printed) = 0 /\ Len(pipe) = 0 /\ Len(received) = 0
    OBVIOUS
  <2> QED
    BY <2>1 DEF KeptOK, Kept, Read
<1> QED
  BY <1>1, <1>2, <1>3, <1>4, <1>5, <1>6 DEF Inv

\* What is printed stays: a line that was too long is still there.
LEMMA WriteLines ==
  ASSUME LinesOK, NEW kind \in Kind, WriteStdout(kind)
  PROVE  LinesOK' /\ (Choked => Choked')
<1> DEFINE n == Len(printed)
<1>1. /\ printed' = Append(printed, kind) /\ printed' \in Seq(Kind)
      /\ Len(printed') = n + 1 /\ n \in Nat /\ n + 1 <= MaxLines
      /\ \A i \in 1..n : printed'[i] = printed[i]
  BY AppendProperties, InstanceAssumption DEF LinesOK, WriteStdout
<1>2. \A s \in Seq(1..n) : s \in Seq(1..n + 1)
  BY <1>1
<1>3. pipe' \in Seq(1..n + 1)
  <2>1. n + 1 \in 1..n + 1
    BY <1>1
  <2>2. pipe' = Append(pipe, n + 1) /\ pipe \in Seq(1..n + 1)
    BY <1>1, <1>2 DEF WriteStdout, LinesOK
  <2> QED
    BY <2>1, <2>2, AppendProperties
<1>4. DOMAIN printed = 1..n /\ DOMAIN printed' = 1..n + 1
  BY <1>1 DEF LinesOK
<1>5. received' \in Seq(1..n + 1) /\ logged' \in BOOLEAN
  BY <1>2 DEF LinesOK, WriteStdout
<1>6. LinesOK'
  BY <1>1, <1>3, <1>5 DEF LinesOK
<1>7. Choked => Choked'
  BY <1>1, <1>4 DEF Choked
<1> QED
  BY <1>6, <1>7

\* Reading takes a line from the front.
LEMMA ScanLines ==
  ASSUME LinesOK, ScanLine
  PROVE  /\ LinesOK'
         /\ printed[Head(pipe)] = "long" => Choked
<1>1. Head(pipe) \in 1..Len(printed) /\ Tail(pipe) \in Seq(1..Len(printed))
  BY HeadTailProperties DEF LinesOK, ScanLine
<1>2. received' \in Seq(1..Len(printed))
  BY <1>1, AppendProperties DEF LinesOK, ScanLine
<1>3. LinesOK'
  BY <1>1, <1>2 DEF LinesOK, ScanLine
<1>4. printed[Head(pipe)] = "long" => Choked
  BY <1>1 DEF LinesOK, Choked
<1> QED
  BY <1>3, <1>4

\* Wait keeps some first lines.
LEMMA ReapLines == ASSUME LinesOK, Reap PROVE LinesOK'
<1>1. ASSUME NEW n \in 0..Len(pipe) PROVE SubSeq(pipe, 1, n) \in Seq(1..Len(printed))
  BY SubSeqProperties DEF LinesOK
<1>2. pipe' \in Seq(1..Len(printed))
  BY <1>1 DEF Reap
<1> QED
  BY <1>2 DEF LinesOK, Reap

-----------------------------------------------------------------------------
(* The steps, one by one *)

\* The lines, and what was too long among them.
LEMMA LinesStep ==
  ASSUME LinesOK, [Next]_vars
  PROVE  LinesOK' /\ (Choked => Choked')
<1> USE DEF contexts, process, output
<1>1. CASE ScanLine
  BY <1>1, ScanLines DEF ScanLine, Choked
<1>2. CASE Reap
  BY <1>2, ReapLines DEF Reap, Choked
<1>3. ASSUME NEW kind \in Kind, WriteStdout(kind) PROVE LinesOK' /\ (Choked => Choked')
  BY <1>3, WriteLines
<1>4. ASSUME UNCHANGED <<printed, pipe, received>>, logged' \in BOOLEAN
      PROVE  LinesOK' /\ (Choked => Choked')
  BY <1>4 DEF LinesOK, Choked
<1>5. CASE Start
  BY <1>4, <1>5 DEF Start, StartProcessors, Spawn, Announce, TailLog, LinesOK
<1>6. CASE AwaitShutdown \/ Terminate \/ Release \/ StdinEnds
  BY <1>4, <1>6 DEF AwaitShutdown, Terminate, Release, StdinEnds, LinesOK
<1>7. ASSUME NEW r \in Reader, ReaderStep(r) PROVE LinesOK' /\ (Choked => Choked')
  BY <1>4, <1>7 DEF ReaderStep, AwaitStart, ScanEnds, AfterScan, SignalCrash, Kill, LinesOK
<1>8. CASE ReadLog \/ WriteLog \/ WriteStderr
  BY <1>4, <1>8 DEF ReadLog, WriteLog, WriteStderr, LinesOK
<1>9. CASE Shutdown \/ KillAll \/ ProcessEnds \/ UNCHANGED vars
  BY <1>4, <1>9 DEF Shutdown, KillAll, ProcessEnds, vars, LinesOK
<1> QED
  BY <1>1, <1>2, <1>3, <1>5, <1>6, <1>7, <1>8, <1>9 DEF Next, Stop

\* A processor goes on, or calls Done.
LEMMA ReaderMoves ==
  ASSUME ControlOK, NEW r \in Reader, Busy(r),
         UNCHANGED <<start, stopper, stdin, child>>,
         \/ End(r)
         \/ \E point \in {"select", "scan", "closed", "crash", "kill"} : Goto(r, point)
  PROVE  ControlOK'
<1> USE DEF ControlOK, Reader
<1>1. CASE End(r)
  BY <1>1 DEF End, Count, Busy
<1>2. ASSUME NEW point \in {"select", "scan", "closed", "crash", "kill"}, Goto(r, point)
      PROVE  ControlOK'
  BY <1>2 DEF Goto, Count, Busy
<1> QED
  BY <1>1, <1>2

LEMMA FlagsStep ==
  ASSUME FlagsOK, [Next]_vars
  PROVE  FlagsOK'
<1> USE DEF contexts, process, output, FlagsOK
<1>1. CASE Start
  BY <1>1 DEF Start, StartProcessors, Spawn, Announce, TailLog, Fail
<1>2. CASE Stop \/ StdinEnds
  BY <1>2 DEF Stop, AwaitShutdown, Terminate, Reap, Release, StdinEnds
<1>3. ASSUME NEW r \in Reader, ReaderStep(r) PROVE FlagsOK'
  BY <1>3 DEF ReaderStep, AwaitStart, ScanEnds, AfterScan, SignalCrash, Kill
<1>4. CASE ScanLine \/ ReadLog
  BY <1>4 DEF ScanLine, ReadLog
<1>5. CASE Shutdown \/ KillAll \/ WriteStderr \/ WriteLog \/ UNCHANGED vars
  BY <1>5 DEF Shutdown, KillAll, WriteStderr, WriteLog, vars
<1>6. CASE ProcessEnds
  BY <1>6, Zenon DEF ProcessEnds
<1>7. ASSUME NEW kind \in Kind, WriteStdout(kind) PROVE FlagsOK'
  BY <1>7 DEF WriteStdout
<1> QED
  BY <1>1, <1>2, <1>3, <1>4, <1>5, <1>6, <1>7 DEF Next

LEMMA ControlStep ==
  ASSUME ControlOK, StartOK, [Next]_vars
  PROVE  ControlOK'
<1> USE DEF contexts, process, output
<1>1. CASE StartProcessors
  BY <1>1 DEF StartProcessors, Fail, ControlOK, StartOK, Count, Busy, Reader
<1>2. CASE TailLog
  BY <1>2 DEF TailLog, Fail, ControlOK, StartOK, Count, Busy, Reader
<1>3. CASE Spawn \/ Announce
  BY <1>3 DEF Spawn, Announce, Fail, ControlOK, Count, Busy
<1>4. CASE Stop \/ StdinEnds
  BY <1>4 DEF Stop, AwaitShutdown, Terminate, Reap, Release, StdinEnds, ControlOK, Count, Busy
<1>5. ASSUME NEW r \in Reader, ReaderStep(r) PROVE ControlOK'
  <2>1. CASE AwaitStart(r)
    BY <2>1, ReaderMoves DEF AwaitStart, Busy, ControlOK
  <2>2. CASE ScanEnds(r)
    BY <2>2, ReaderMoves DEF ScanEnds, Busy, ControlOK
  <2>3. CASE AfterScan(r)
    BY <2>3, ReaderMoves DEF AfterScan, Busy, ControlOK
  <2>4. CASE SignalCrash(r)
    BY <2>4 DEF SignalCrash, Goto, Busy, Count, ControlOK, Reader
  <2>5. CASE Kill(r)
    BY <2>5, ReaderMoves DEF Kill, Busy, ControlOK
  <2> QED
    BY <1>5, <2>1, <2>2, <2>3, <2>4, <2>5 DEF ReaderStep
<1>6. CASE ScanLine
  BY <1>6, ReaderMoves DEF ScanLine, Busy, ControlOK, Reader
<1>7. CASE ReadLog
  BY <1>7, ReaderMoves DEF ReadLog, Busy, ControlOK, Reader
<1>8. CASE Shutdown \/ KillAll \/ ProcessEnds
  BY <1>8 DEF Shutdown, KillAll, ProcessEnds, ControlOK, Count, Busy
<1>9. ASSUME NEW kind \in Kind, WriteStdout(kind) PROVE ControlOK'
  BY <1>9 DEF WriteStdout, ControlOK, Count, Busy
<1>10. CASE WriteStderr \/ WriteLog \/ UNCHANGED vars
  BY <1>10 DEF WriteStderr, WriteLog, vars, ControlOK, Count, Busy
<1> QED
  BY <1>1, <1>2, <1>3, <1>4, <1>5, <1>6, <1>7, <1>8, <1>9, <1>10 DEF Next, Start

LEMMA StartStep ==
  ASSUME ControlOK, StartOK, [Next]_vars
  PROVE  StartOK'
<1> USE DEF contexts, process, output, ControlOK, StartOK, Reader
<1>1. CASE Start
  BY <1>1 DEF Start, StartProcessors, Spawn, Announce, TailLog, Fail
<1>2. CASE Stop \/ StdinEnds
  BY <1>2 DEF Stop, AwaitShutdown, Terminate, Reap, Release, StdinEnds
<1>3. ASSUME NEW r \in Reader, ReaderStep(r) PROVE StartOK'
  BY <1>3 DEF ReaderStep, AwaitStart, ScanEnds, AfterScan, SignalCrash, Kill, End, Goto
<1>4. CASE ScanLine \/ ReadLog
  BY <1>4 DEF ScanLine, ReadLog, End, Goto
<1>5. CASE Shutdown \/ KillAll \/ ProcessEnds \/ WriteStderr \/ WriteLog \/ UNCHANGED vars
  BY <1>5 DEF Shutdown, KillAll, ProcessEnds, WriteStderr, WriteLog, vars
<1>6. ASSUME NEW kind \in Kind, WriteStdout(kind) PROVE StartOK'
  BY <1>6 DEF WriteStdout
<1> QED
  BY <1>1, <1>2, <1>3, <1>4, <1>5, <1>6 DEF Next

LEMMA GoneStep ==
  ASSUME ControlOK, StartOK, GoneOK, CauseOK, [Next]_vars
  PROVE  GoneOK'
<1> USE DEF contexts, process, output, GoneOK
<1>1. CASE Start
  BY <1>1 DEF Start, StartProcessors, Spawn, Announce, TailLog, Fail, ControlOK, StartOK, Reader
<1>2. CASE Release
  <2>1. \A r \in Reader : reader[r] \in {"none", "ended"}
    BY <1>2 DEF Release, ControlOK, Count, Busy, Reader
  <2>2. \A r \in Reader : reader[r] # "none"
    BY <1>2 DEF Release, StartOK, Reader
  <2> QED
    BY <1>2, <2>1, <2>2 DEF Release
<1>3. CASE AwaitShutdown \/ Terminate \/ Reap \/ StdinEnds
  BY <1>3 DEF AwaitShutdown, Terminate, Reap, StdinEnds
<1>4. ASSUME NEW r \in Reader, ReaderStep(r) PROVE GoneOK'
  BY <1>4 DEF ReaderStep, AwaitStart, ScanEnds, AfterScan, SignalCrash, Kill
<1>5. CASE ScanLine \/ ReadLog
  BY <1>5 DEF ScanLine, ReadLog, Reader
<1>6. CASE Shutdown \/ KillAll \/ ProcessEnds \/ WriteStderr \/ WriteLog \/ UNCHANGED vars
  BY <1>6 DEF Shutdown, KillAll, ProcessEnds, WriteStderr, WriteLog, Alive, vars
<1>7. ASSUME NEW kind \in Kind, WriteStdout(kind) PROVE GoneOK'
  BY <1>7 DEF WriteStdout
<1> QED
  BY <1>1, <1>2, <1>3, <1>4, <1>5, <1>6, <1>7 DEF Next, Stop

LEMMA CauseStep ==
  ASSUME LinesOK, ControlOK, StartOK, CauseOK, [Next]_vars
  PROVE  CauseOK'
<1>0. Choked => Choked'
  BY LinesStep
<1> USE <1>0 DEF contexts, process, output, ControlOK, CauseOK, CrashHasCause, Reader
<1>1. CASE Start
  <2>1. CASE StartProcessors \/ Announce
    BY <1>0, <2>1 DEF StartProcessors, Announce, Fail
  <2>2. CASE Spawn
    BY <1>0, <2>2 DEF Spawn, Fail
  <2>3. CASE TailLog
    BY <1>0, <2>3 DEF TailLog, Fail
  <2> QED
    BY <1>1, <2>1, <2>2, <2>3 DEF Start
<1>2. CASE Stop \/ StdinEnds
  BY <1>0, <1>2 DEF Stop, AwaitShutdown, Terminate, Reap, Release, StdinEnds, StartOK
<1>3. ASSUME NEW r \in Reader, ReaderStep(r) PROVE CauseOK'
  <2>1. CASE AwaitStart(r) \/ ScanEnds(r)
    BY <1>0, <2>1 DEF AwaitStart, ScanEnds, End, Goto
  <2>2. CASE AfterScan(r)
    BY <1>0, <2>2 DEF AfterScan, End, Goto
  <2>3. CASE SignalCrash(r) \/ Kill(r)
    BY <1>0, <2>3 DEF SignalCrash, Kill, End, Goto
  <2> QED
    BY <1>3, <2>1, <2>2, <2>3 DEF ReaderStep
<1>4. CASE ScanLine
  BY <1>0, <1>4, ScanLines DEF ScanLine, Goto
<1>5. CASE ReadLog \/ WriteLog \/ WriteStderr
  BY <1>0, <1>5 DEF ReadLog, WriteLog, WriteStderr, End, Goto
<1>6. CASE Shutdown \/ KillAll
  BY <1>0, <1>6 DEF Shutdown, KillAll
<1>7. CASE ProcessEnds
  BY <1>0, <1>7 DEF ProcessEnds, Alive
<1>8. ASSUME NEW kind \in Kind, WriteStdout(kind) PROVE CauseOK'
  BY <1>0, <1>8 DEF WriteStdout
<1>9. CASE UNCHANGED vars
  BY <1>0, <1>9 DEF vars
<1> QED
  BY <1>1, <1>2, <1>3, <1>4, <1>5, <1>6, <1>7, <1>8, <1>9 DEF Next

\* The next line leaves the pipe, and is given to the controller if it is an
\* event.
LEMMA ScanKeeps ==
  ASSUME LinesOK, ControlOK, Kept, ScanLine, printed[Head(pipe)] # "long"
  PROVE  Kept'
<1>1. /\ Len(pipe) \in Nat \ {0} /\ Len(printed) \in Nat /\ Len(received) \in Nat
      /\ Read \in Nat /\ Head(pipe) = Read + 1 /\ Read + 1 <= Len(printed)
  <2>1. /\ Len(pipe) \in Nat \ {0} /\ Head(pipe) = pipe[1]
        /\ Len(printed) \in Nat /\ Len(received) \in Nat
    BY HeadTailProperties, EmptySeq DEF LinesOK, ScanLine
  <2> QED
    BY <2>1 DEF Kept, Read
<1>2. /\ Len(pipe') = Len(pipe) - 1 /\ UNCHANGED printed
      /\ \A n \in 1..Len(pipe) - 1 : pipe'[n] = pipe[n + 1]
  BY <1>1, HeadTailProperties DEF LinesOK, ScanLine
<1>3. Read' = Read + 1
  BY <1>1, <1>2 DEF Read
<1>4. \A n \in 1..Len(pipe') : pipe'[n] = Read' + n
  BY <1>1, <1>2, <1>3 DEF Kept
<1>5. reader'["stdout"] = "scan"
  BY DEF ScanLine, Goto, ControlOK, Reader
<1>6. CASE printed[Read + 1] = "event"
  <2>1. /\ Len(received') = Len(received) + 1 /\ received'[Len(received) + 1] = Read + 1
        /\ \A n \in 1..Len(received) : received'[n] = received[n]
    BY <1>1, <1>6, AppendProperties DEF LinesOK, ScanLine
  <2>2. \A n \in 1..Len(received') : received'[n] <= Read' /\ printed[received'[n]] = "event"
    <3>1. SUFFICES ASSUME NEW n \in 1..Len(received) + 1
                   PROVE  received'[n] <= Read + 1 /\ printed[received'[n]] = "event"
      BY <1>3, <2>1
    <3>2. CASE n = Len(received) + 1
      BY <1>1, <1>6, <2>1, <3>2
    <3>3. CASE n # Len(received) + 1
      <4>1. n \in 1..Len(received) /\ received[n] \in Nat
        BY <1>1, <3>3, ElementOfSeq DEF LinesOK
      <4> QED
        BY <1>1, <2>1, <4>1 DEF Kept
    <3> QED
      BY <3>2, <3>3
  <2>3. \A i \in 1..Read' : printed[i] = "event" => \E n \in 1..Len(received') : received'[n] = i
    <3>1. SUFFICES ASSUME NEW i \in 1..Read + 1, printed[i] = "event"
                   PROVE  \E n \in 1..Len(received) + 1 : received'[n] = i
      BY <1>3, <2>1
    <3>2. CASE i = Read + 1
      BY <1>1, <2>1, <3>2
    <3>3. CASE i # Read + 1
      <4>1. i \in 1..Read
        BY <1>1, <3>3
      <4>2. PICK n \in 1..Len(received) : received[n] = i
        BY <3>1, <4>1 DEF Kept
      <4> QED
        BY <1>1, <2>1, <4>2
    <3> QED
      BY <3>2, <3>3
  <2>4. \A m, n \in 1..Len(received') : m < n => received'[m] < received'[n]
    <3>1. SUFFICES ASSUME NEW m \in 1..Len(received) + 1, NEW n \in 1..Len(received) + 1, m < n
                   PROVE  received'[m] < received'[n]
      BY <2>1
    <3>2. m \in 1..Len(received) /\ received[m] \in Nat
      BY <1>1, <3>1, ElementOfSeq DEF LinesOK
    <3>3. CASE n = Len(received) + 1
      BY <1>1, <2>1, <3>2, <3>3 DEF Kept
    <3>4. CASE n # Len(received) + 1
      <4>1. n \in 1..Len(received)
        BY <1>1, <3>4
      <4> QED
        BY <2>1, <3>1, <3>2, <4>1 DEF Kept
    <3> QED
      BY <3>3, <3>4
  <2> QED
    BY <1>1, <1>2, <1>3, <1>4, <1>5, <2>2, <2>3, <2>4 DEF Kept
<1>7. CASE printed[Read + 1] # "event"
  <2>1. UNCHANGED received
    BY <1>1, <1>7 DEF ScanLine
  <2>2. \A n \in 1..Len(received) : received[n] \in Nat
    BY ElementOfSeq DEF LinesOK
  <2>3. \A i \in 1..Read + 1 : i = Read + 1 \/ i \in 1..Read
    BY <1>1
  <2>4. \A n \in 1..Len(received) : received[n] <= Read + 1
    BY <1>1, <2>2 DEF Kept
  <2> QED
    BY <1>1, <1>2, <1>3, <1>4, <1>5, <1>7, <2>1, <2>3, <2>4 DEF Kept
<1> QED
  BY <1>6, <1>7

\* What Logstash prints goes into the pipe.
LEMMA WriteKeeps ==
  ASSUME LinesOK, ControlOK, Kept, NEW kind \in Kind, WriteStdout(kind)
  PROVE  Kept'
<1>1. /\ Len(printed) \in Nat /\ Len(pipe) \in Nat
      /\ Len(printed') = Len(printed) + 1 /\ Len(pipe') = Len(pipe) + 1
      /\ pipe'[Len(pipe) + 1] = Len(printed) + 1
      /\ \A n \in 1..Len(pipe) : pipe'[n] = pipe[n]
      /\ \A n \in 1..Len(printed) : printed'[n] = printed[n]
  BY AppendProperties DEF LinesOK, WriteStdout
<1>2. Read' = Read /\ Read \in Nat
  BY <1>1 DEF Kept, Read
<1>3. \A n \in 1..Len(pipe') : pipe'[n] = Read' + n
  <2>1. SUFFICES ASSUME NEW n \in 1..Len(pipe) + 1 PROVE pipe'[n] = Read + n
    BY <1>1, <1>2
  <2>2. CASE n = Len(pipe) + 1
    BY <1>1, <2>2 DEF Read
  <2>3. CASE n # Len(pipe) + 1
    <3>1. n \in 1..Len(pipe)
      BY <1>1, <2>3
    <3> QED
      BY <1>1, <3>1 DEF Kept
  <2> QED
    BY <2>2, <2>3
<1>4. \A n \in 1..Len(received) : received[n] \in 1..Len(printed)
  BY ElementOfSeq DEF LinesOK
<1>5. \A i \in 1..Read : i \in 1..Len(printed)
  BY <1>1, <1>2 DEF Kept, Read
<1>6. reader["stdout"] \in {"none", "select", "scan"}
  BY DEF Kept, WriteStdout, Alive
<1>7. UNCHANGED <<received, reader>>
  BY DEF WriteStdout
<1>8. \A n \in 1..Len(received') :
        received'[n] <= Read' /\ printed'[received'[n]] = "event"
  BY <1>1, <1>2, <1>4, <1>7 DEF Kept
<1>9. \A i \in 1..Read' :
        printed'[i] = "event" => \E n \in 1..Len(received') : received'[n] = i
  BY <1>1, <1>2, <1>5, <1>7 DEF Kept
<1>10. Len(pipe') <= Len(printed')
  BY <1>1 DEF Kept
<1> QED
  BY <1>3, <1>6, <1>7, <1>8, <1>9, <1>10 DEF Kept

LEMMA KeptStep ==
  ASSUME LinesOK, ControlOK, StartOK, CauseOK, KeptOK, [Next]_vars
  PROVE  KeptOK'
<1>1. Choked => Choked'
  BY LinesStep
<1>2. cancelled => cancelled'
  BY DEF Next, Start, StartProcessors, Spawn, Announce, TailLog, Fail, Stop, AwaitShutdown,
     Terminate, Reap, Release, StdinEnds, ReaderStep, AwaitStart, ScanEnds, AfterScan,
     SignalCrash, Kill, ScanLine, ReadLog, Shutdown, KillAll, WriteStdout, WriteStderr,
     WriteLog, ProcessEnds, vars, contexts
<1>3. SUFFICES ASSUME ~cancelled, ~cancelled', ~Choked, ~Choked', Kept PROVE Kept'
  BY <1>1, <1>2 DEF KeptOK
<1> USE DEF contexts, process, output, ControlOK, Reader
<1>4. ASSUME UNCHANGED <<printed, pipe, received>>,
             reader'["stdout"] \notin {"none", "select", "scan"} =>
               pipe = << >> /\ child' \in {"ended", "waited"}
      PROVE  Kept'
  <2>1. printed' = printed /\ pipe' = pipe /\ received' = received /\ Read' = Read
    BY <1>4 DEF Read
  <2> QED
    BY <1>3, <1>4, <2>1 DEF Kept
<1>5. CASE ScanLine
  <2>1. printed[Head(pipe)] # "long"
    BY <1>3, <1>5, ScanLines
  <2> QED
    BY <1>3, <1>5, <2>1, ScanKeeps
<1>6. ASSUME NEW kind \in Kind, WriteStdout(kind) PROVE Kept'
  BY <1>3, <1>6, WriteKeeps
<1>7. CASE Start
  <2>1. UNCHANGED <<printed, pipe, received>>
    BY <1>7 DEF Start, StartProcessors, Spawn, Announce, TailLog
  <2>2. CASE StartProcessors
    BY <1>3, <1>4, <2>1, <2>2 DEF StartProcessors, Fail
  <2>3. CASE Spawn \/ Announce \/ TailLog
    <3>1. reader'["stdout"] = reader["stdout"] /\ start # "begin"
      BY <1>3, <2>3 DEF Spawn, Announce, TailLog, Fail
    <3>2. CASE reader["stdout"] \in {"none", "select", "scan"}
      BY <1>4, <2>1, <3>1, <3>2
    <3>3. CASE reader["stdout"] \notin {"none", "select", "scan"}
      <4>1. pipe = << >> /\ child \in {"ended", "waited"}
        BY <1>3, <3>3 DEF Kept
      <4>2. ~Spawn
        BY <4>1 DEF Spawn, CauseOK
      <4>3. UNCHANGED child
        BY <2>3, <4>2 DEF Announce, TailLog
      <4> QED
        BY <1>4, <2>1, <4>1, <4>3
    <3> QED
      BY <3>2, <3>3
  <2> QED
    BY <1>7, <2>2, <2>3 DEF Start
<1>8. CASE Stop \/ StdinEnds
  BY <1>3, <1>4, <1>8
     DEF Stop, AwaitShutdown, Terminate, Reap, Release, StdinEnds, Kept, CauseOK
<1>9. ASSUME NEW r \in Reader, ReaderStep(r) PROVE Kept'
  <2>1. CASE AwaitStart(r)
    BY <1>3, <1>4, <2>1 DEF AwaitStart, Goto, End, Kept
  <2>2. CASE ScanEnds(r)
    BY <1>3, <1>4, <2>2 DEF ScanEnds, Goto, Kept
  <2>3. CASE AfterScan(r)
    BY <1>3, <1>4, <2>3 DEF AfterScan, Goto, End, Kept
  <2>4. CASE SignalCrash(r) \/ Kill(r)
    BY <1>3, <1>4, <2>4 DEF SignalCrash, Kill, Goto, End, Kept
  <2> QED
    BY <1>9, <2>1, <2>2, <2>3, <2>4 DEF ReaderStep
<1>10. CASE ReadLog \/ WriteLog \/ WriteStderr
  BY <1>3, <1>4, <1>10 DEF ReadLog, WriteLog, WriteStderr, Goto, End, Kept
<1>11. CASE Shutdown \/ KillAll
  BY <1>3, <1>11 DEF Shutdown, KillAll
<1>12. CASE ProcessEnds
  BY <1>3, <1>4, <1>12 DEF ProcessEnds, Kept
<1>13. CASE UNCHANGED vars
  BY <1>3, <1>4, <1>13 DEF vars, Kept
<1> QED
  BY <1>5, <1>6, <1>7, <1>8, <1>9, <1>10, <1>11, <1>12, <1>13 DEF Next

LEMMA Invariance == Spec => []Inv
<1>1. Inv /\ [Next]_vars => Inv'
  BY LinesStep, FlagsStep, ControlStep, StartStep, GoneStep, CauseStep, KeptStep DEF Inv
<1> QED
  BY <1>1, InitInv, PTL DEF Spec

-----------------------------------------------------------------------------
\* Types, for any number of lines and any faults: the counter of
\* logstashShutdownWG stays between zero and three (instance.go: Start;
\* processors.go: the deferred calls of Done).
THEOREM InstanceTypes == Spec => []TypeOK
<1>1. Inv => TypeOK
  <2> SUFFICES ASSUME Inv PROVE TypeOK
    OBVIOUS
  <2>1. \A s \in Seq(1..Len(printed)) : s \in Seq(1..MaxLines)
    <3>1. Len(printed) \in Nat /\ MaxLines \in Nat /\ Len(printed) <= MaxLines
      BY LenProperties, InstanceAssumption DEF Inv, LinesOK
    <3> QED
      BY <3>1
  <2>2. group \in 0..3
    BY DEF Inv, ControlOK, Count
  <2>3. contexts \in BOOLEAN \X BOOLEAN
    BY DEF Inv, FlagsOK, contexts
  <2> QED
    BY <2>1, <2>2, <2>3 DEF Inv, LinesOK, FlagsOK, ControlOK, TypeOK
<1> QED
  BY <1>1, Invariance, PTL

\* Whatever fails and whoever stops it, the instance releases the WaitGroup of
\* the daemon only when its process is reaped and its goroutines have ended
\* (instance.go: shutdownSignalHandler).
THEOREM ReleaseIsLast == Spec => []ReleasedMeansGone
<1>1. Inv => ReleasedMeansGone
  BY DEF Inv, GoneOK, ReleasedMeansGone
<1> QED
  BY <1>1, Invariance, PTL

\* Until the instance is told to stop every event that Logstash prints reaches
\* the controller, once and in order, or is still to be read, however the start,
\* the crash and the readers interleave (processors.go: stdoutProcessor;
\* instance.go: stopLogstash).
THEOREM EventsArrive == Spec => []NoEventLost
<1>1. Inv => NoEventLost
  <2>1. SUFFICES ASSUME Inv, ~cancelled, ~Choked
                 PROVE  LET read == Len(printed) - Len(ToRead)
                        IN  /\ \A n \in DOMAIN ToRead : ToRead[n] = read + n
                            /\ {received[n] : n \in DOMAIN received}
                                 = {n \in 1..read : printed[n] = "event"}
                            /\ \A m, n \in DOMAIN received : m < n => received[m] < received[n]
    BY DEF NoEventLost
  <2>2. Kept /\ LinesOK
    BY <2>1 DEF Inv, KeptOK
  <2>3. ToRead = pipe
    BY <2>2 DEF ToRead, Kept
  <2>4. DOMAIN pipe = 1..Len(pipe) /\ DOMAIN received = 1..Len(received)
    BY <2>2, LenProperties DEF LinesOK
  <2>5. \A n \in 1..Len(received) : received[n] \in 1..Read
    <3>1. \A n \in 1..Len(received) : received[n] \in 1..Len(printed)
      BY <2>2, ElementOfSeq DEF LinesOK
    <3>2. Len(printed) \in Nat /\ Len(pipe) \in Nat
      BY <2>2 DEF LinesOK
    <3> QED
      BY <2>2, <3>1, <3>2 DEF Kept, Read
  <2>6. {received[n] : n \in 1..Len(received)} = {n \in 1..Read : printed[n] = "event"}
    BY <2>2, <2>5 DEF Kept
  <2> QED
    BY <2>2, <2>3, <2>4, <2>6 DEF Kept, Read
<1> QED
  BY <1>1, Invariance, PTL

\* No interleaving of shutdown, kill and the readers makes the controller hear
\* of a crash that has no cause: the end of the process unasked, or a line on
\* stdout or stderr that is too long (processors.go: the last select of both
\* processors).
THEOREM CrashIsReal == Spec => []CrashHasCause
<1>1. Inv => CrashHasCause
  BY DEF Inv, CauseOK
<1> QED
  BY <1>1, Invariance, PTL

-----------------------------------------------------------------------------
(* Refinement *)

\* Every step is one that InstanceLife allows, or stutters there.
LEMMA LifeStep ==
  ASSUME ControlOK, StartOK, GoneOK, CauseOK, [Next]_vars
  PROVE  [Life!Next]_(Life!vars)
<1> USE DEF contexts, process, output, Life!Next, Life!vars, Launch, Process
<1>1. ASSUME UNCHANGED <<Launch, Process, heeds, killed>>
      PROVE  [Life!Next]_(Life!vars)
  BY <1>1
<1>2. CASE StartProcessors
  <2>1. CASE start' = "spawn"
    BY <1>2, <2>1 DEF StartProcessors
  <2>2. CASE start' # "spawn"
    <3>1. Life!LaunchFails
      BY <1>2, <2>2 DEF StartProcessors, Fail, Life!LaunchFails
    <3> QED
      BY <3>1
  <2> QED
    BY <2>1, <2>2
<1>3. CASE Spawn
  <2>1. child = "unborn" /\ stopper # "done"
    BY <1>3 DEF Spawn, StartOK, CauseOK
  <2>2. Life!Spawn \/ Life!LaunchFails
    BY <1>3, <2>1 DEF Spawn, Fail, Life!Spawn, Life!LaunchFails
  <2> QED
    BY <2>2
<1>4. CASE Announce
  BY <1>4 DEF Announce
<1>5. CASE TailLog
  <2>1. stopper = "none" /\ start = "tail"
    BY <1>5 DEF TailLog, StartOK, ControlOK
  <2>2. Process # "none"
    BY <2>1 DEF CauseOK
  <2> QED
    BY <1>5, <2>1, <2>2 DEF TailLog, Fail, Life!LaunchReturns, Life!LaunchFails
<1>6. CASE AwaitShutdown
  BY <1>6 DEF AwaitShutdown
<1>7. CASE Terminate
  <2>1. start = "returned"
    BY <1>7 DEF Terminate, StartOK
  <2>2. CASE child = "running"
    <3>1. Life!SendTerm
      BY <1>7, <2>1, <2>2 DEF Terminate, Life!SendTerm
    <3> QED
      BY <3>1
  <2>3. CASE child # "running"
    BY <1>7, <2>3 DEF Terminate
  <2> QED
    BY <2>2, <2>3
<1>8. CASE Reap
  BY <1>8 DEF Reap
<1>9. CASE Release
  <2>1. start = "returned" /\ child = "waited"
    BY <1>9 DEF Release, StartOK, GoneOK
  <2>2. Life!Reap
    BY <1>9, <2>1 DEF Release, Life!Reap
  <2> QED
    BY <2>2
<1>10. CASE StdinEnds
  BY <1>10 DEF StdinEnds
<1>11. ASSUME NEW r \in Reader, ReaderStep(r) PROVE [Life!Next]_(Life!vars)
  BY <1>11 DEF ReaderStep, AwaitStart, ScanEnds, AfterScan, SignalCrash, Kill
<1>12. CASE ScanLine \/ ReadLog \/ WriteLog \/ WriteStderr
  BY <1>12 DEF ScanLine, ReadLog, WriteLog, WriteStderr
<1>13. CASE Shutdown
  BY <1>13 DEF Shutdown
<1>14. CASE KillAll
  <2>1. Life!KillAll
    BY <1>14 DEF KillAll, Life!KillAll
  <2> QED
    BY <2>1
<1>15. ASSUME NEW kind \in Kind, WriteStdout(kind) PROVE [Life!Next]_(Life!vars)
  BY <1>15 DEF WriteStdout
<1>16. CASE ProcessEnds
  <2>1. stopper # "done" /\ child \in {"running", "terminating"}
    BY <1>16 DEF ProcessEnds, Alive, GoneOK
  <2>2. Life!ProcessEnds
    BY <1>16, <2>1 DEF ProcessEnds, Told, Life!ProcessEnds
  <2> QED
    BY <2>2
<1>17. CASE UNCHANGED vars
  BY <1>17 DEF vars
<1> QED
  BY <1>2, <1>3, <1>4, <1>5, <1>6, <1>7, <1>8, <1>9, <1>10, <1>11, <1>12, <1>13,
     <1>14, <1>15, <1>16, <1>17 DEF Next, Start, Stop

\* For any number of lines and any faults the instance, with its goroutines,
\* channels and contexts, is the one the daemon relies on (instance.go: Start,
\* shutdownSignalHandler; daemon.go: logstashControllerFactory).
THEOREM LifeRefinement == Spec => ImplementsLife
<1>1. Init => Life!Init
  BY DEF Init, Life!Init, Launch, Process
<1>2. Inv /\ [Next]_vars => [Life!Next]_(Life!vars)
  BY LifeStep DEF Inv
<1> QED
  BY <1>1, <1>2, Invariance, PTL DEF Spec, ImplementsLife, Life!Spec

=================================================================================
