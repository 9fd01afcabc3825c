-------------------------------- MODULE DaemonTest --------------------------------
(***************************************************************************)
(* A run of the daemon's client from the configuration files to the        *)
(* verdict, with the data that passes through it: the archive, the         *)
(* session's files and pipelines in the daemon (daemon/session), the       *)
(* events in Logstash, and their comparison (daemon/run/run.go).  What the *)
(* calls may fail with, how the daemon schedules them, and events that     *)
(* come after the sleep of GetResults, are left to TestRun,                *)
(* SessionController and LogstashController.                               *)
(*                                                                         *)
(* Logstash is external: it starts the pipelines it is given, runs the     *)
(* events of an input through the pipelines that listen, in order, and     *)
(* prints what the output pipelines send, in any order of the pipelines.   *)
(***************************************************************************)
EXTENDS LogstashConfig, TestCases

CONSTANT
  Runs \* the runs of this instance: configurations, test case files and flags

\* A configuration with test case files.
IsRun(c) ==
  /\ IsConfiguration(c)
  /\ IsSequence(c.files)
  /\ \A file \in ToSet(c.files) :
       IsSequence(file.cases) /\ \A tc \in ToSet(file.cases) : IsSequence(tc.lines)
  /\ \A line \in DOMAIN c.emits : IsSequence(c.emits[line])
  /\ \A codec \in DOMAIN c.yield : c.yield[codec] \in Nat

ASSUME RunsAssumption == \A c \in Runs : IsRun(Given(c))

SessionID == 1

\* A name Logstash takes for no field reference.
BadName == "[bad"

VARIABLES
  conf,    \* the run's files and flags; they do not change
  main,    \* control point of the client
  zip,     \* the files of the archive
  tests,   \* the test case sets
  session, \* the daemon's files and pipelines: [files, codecs, pipelines]
  cur,     \* the test case set that is executed, testexec of the session
  queue,   \* events on their way out, by output pipeline
  results, \* events printed for cur
  ok,      \* the local variable testsPassed
  outcome

vars == <<conf, main, zip, tests, session, cur, queue, results, ok, outcome>>

NoSession == [files |-> << >>, codecs |-> << >>, pipelines |-> << >>]

TypeOK ==
  /\ conf \in {Given(c) : c \in Runs}
  /\ main \in {"archive", "tests", "setup", "execute", "results", "returned"}
  /\ \A n \in DOMAIN zip : \A p \in ToSet(zip[n].plugins) :
       p.section \in {"input", "filter", "output"} /\ p.id \in Nat \ {NoId}
  /\ \A n \in DOMAIN session.files : \A p \in ToSet(session.files[n].plugins) :
       p.section # "filter" => p.name = "pipeline" /\ p.address # NoAddress
  /\ \A n \in DOMAIN tests : Len(tests[n].events) = Len(tests[n].lines)
  /\ cur \in 1..Len(conf.files) + 1
  /\ \A n \in DOMAIN queue : session.pipelines[n].kind = "out"
  /\ ok \in BOOLEAN
  /\ outcome \in {"none", "error", "panic", "pass", "fail"}

Init ==
  /\ conf \in {Given(c) : c \in Runs}
  /\ main = "archive" /\ zip = << >> /\ tests = << >> /\ session = NoSession
  /\ cur = 1 /\ queue = << >> /\ results = << >> /\ ok = TRUE /\ outcome = "none"

Return(value) == main' = "returned" /\ outcome' = value
Goto(m) == main' = m /\ UNCHANGED outcome

-----------------------------------------------------------------------------
(* The client before the first call *)

\* pipeline.New, pluginmock.FromFile and ZipWithPreprocessor.
BuildArchive ==
  /\ main = "archive"
  /\ IF ZipFails(conf)
       THEN Return("error") /\ UNCHANGED zip
       ELSE Goto("tests") /\ zip' = ZipWithPreprocessor(conf)
  /\ UNCHANGED <<conf, tests, session, cur, queue, results, ok>>

\* DiscoverTests, and the check that the inputs of the tests are there.
DiscoverTests ==
  /\ main = "tests"
  /\ \/ /\ \E n \in DOMAIN conf.files : NewFails(conf.files[n])
        /\ Return("error") /\ UNCHANGED tests
     \/ /\ \E n \in DOMAIN conf.files : NewPanics(conf.files[n])
        /\ Return("panic") /\ UNCHANGED tests
     \/ \E read \in [DOMAIN conf.files -> UNION {New(file) : file \in ToSet(conf.files)}] :
          /\ \A n \in DOMAIN read : ~NewFails(conf.files[n]) /\ read[n] \in New(conf.files[n])
          /\ IF \A n \in DOMAIN read : read[n].plugin \in IdsIn(zip, "input")
               THEN Goto("setup") /\ tests' = read
               ELSE Return("error") /\ UNCHANGED tests
  /\ UNCHANGED <<conf, zip, session, cur, queue, results, ok>>

-----------------------------------------------------------------------------
(* The session in the daemon *)

\* setupTest and the reload it ends with.
SetupTest ==
  /\ main = "setup" /\ Goto("execute")
  /\ session' = [files     |-> [n \in DOMAIN zip |-> SutFile(zip[n], SessionID)],
                 codecs    |-> InputCodecs(zip),
                 pipelines |-> SessionPipelines(conf, zip, SessionID)]
  /\ UNCHANGED <<conf, zip, tests, cur, queue, results, ok>>

InputCodec(s, plugin) ==
  IF plugin \in DOMAIN s.codecs THEN s.codecs[plugin] ELSE "plain"

-----------------------------------------------------------------------------
(* Logstash, in session s *)

Started(s, pipelines, n) ==
  FlattenSeq([k \in DOMAIN s.files |->
                IF /\ pipelines[n].kind = "sut"
                   /\ s.files[k].dir = pipelines[n].config
                  THEN s.files[k].plugins ELSE << >>])

Hears(s, pipelines, n, address) ==
  \/ /\ pipelines[n].kind = "out"
     /\ address = OutputAddress(pipelines[n].config[1])
  \/ \E p \in ToSet(Started(s, pipelines, n)) :
       p.section = "input" /\ p.name = "pipeline" /\ p.address = address

Listeners(s, pipelines, address) == {n \in DOMAIN pipelines : Hears(s, pipelines, n, address)}

SendsTo(s, pipelines, n) ==
  LET outputs == SelectSeq(Started(s, pipelines, n), LAMBDA p : p.section = "output")
  IN  [k \in DOMAIN outputs |-> outputs[k].address]

\* The output pipelines that the outputs of pipeline n lead to, those of the
\* pipelines it sends to included.
Exits(s, pipelines, n) ==
  LET direct(m) == SelectSeq([k \in DOMAIN SendsTo(s, pipelines, m) |->
                                Listeners(s, pipelines, SendsTo(s, pipelines, m)[k])],
                             LAMBDA heard : heard # {})
      next(heard) == LET l == CHOOSE l \in heard : TRUE
                     IN  IF pipelines[l].kind = "out" THEN <<heard>> ELSE direct(l)
  IN  FlattenSeq([k \in DOMAIN direct(n) |-> next(direct(n)[k])])

\* What the generator and its filters make of event k of a test, as it reaches
\* pipeline via.  A name Logstash takes for no field reference makes the ruby
\* filter end with an exception, before the first field is set.
InputGenerator(test, line, k, codec, via) ==
  LET made == Over(Field(Message, line),
                   Over(Field(Version, "1"),
                        Over(Field(<<"codec">>, codec), Field(<<"via">>, via))))
      found == k \in DOMAIN test.events
      given == IF found THEN MergeFields(made, test.events[k]) ELSE made
      bad == found /\ \E p \in DOMAIN test.events[k] : p[1] = BadName
  IN  [id |-> k - 1, out |-> NotShown,
       fields |-> IF bad THEN made
                  ELSE Without(given, {p \in DOMAIN given : p = Message /\ given[p] = Dummy}),
       tags |-> IF bad THEN {"__lfv_ruby_fields_exception"}
                ELSE IF found THEN {} ELSE {"lfv_fields_not_found"},
       meta |-> {"__lfv_id", "__lfv_fields", "__tmp_cache", "user"}]

\* The lines as the codec divides them into events: one each, if not said otherwise.
Decoded(c, test, codec) ==
  LET number == IF codec \in DOMAIN c.yield THEN c.yield[codec] ELSE 1
  IN  FlattenSeq([n \in DOMAIN test.lines |-> [k \in 1..number |-> test.lines[n]]])

\* The configuration under test emits an event and its clones, which have a type
\* of their own, through the exits it chooses by the line.
Emitted(c, s, test, codec, pipelines) ==
  LET lines == Decoded(c, test, codec)
      entries == Listeners(s, pipelines, InputAddress(SessionID, test.plugin))
      through(k, n) ==
        LET exits == Exits(s, pipelines, n)
            emits == IF lines[k] \in DOMAIN c.emits THEN c.emits[lines[k]] ELSE << >>
            chosen == Chosen(emits, {m \in DOMAIN emits : emits[m].exit \in DOMAIN exits})
            event == InputGenerator(test, lines[k], k, codec, pipelines[n].id[3])
        IN  [m \in DOMAIN chosen |->
               [to |-> exits[chosen[m].exit],
                event |-> [event EXCEPT !.fields = Over(Field(<<"type">>, chosen[m].type), @)]]]
  IN  FlattenSeq([k \in DOMAIN lines |->
        FlattenSeq([n \in DOMAIN pipelines |->
                      IF n \in entries THEN through(k, n) ELSE << >>])])

\* The output pipeline marks the event.
OutputPipeline(event, out) ==
  [event EXCEPT !.out = out, !.meta = @ \cup {"__lfv_out_passed"}]

\* What the output pipelines are to print of test case set t, each in its order.
PrintedOf(c, s, test, t) ==
  LET pipelines == Append(s.pipelines, InputPipeline(t))
      emitted == Emitted(c, s, test, InputCodec(s, test.plugin), pipelines)
      of(n) == Chosen(emitted, {k \in DOMAIN emitted : n \in emitted[k].to})
  IN  [n \in {n \in DOMAIN s.pipelines : s.pipelines[n].kind = "out"} |->
         [k \in DOMAIN of(n) |-> OutputPipeline(of(n)[k].event, s.pipelines[n].config[1])]]

Printed(t) == PrintedOf(conf, session, tests[t], t)

-----------------------------------------------------------------------------
(* The test case sets, one by one *)

ExecuteTest ==
  /\ main = "execute" /\ cur <= Len(tests)
  /\ Goto("results") /\ queue' = Printed(cur) /\ results' = << >>
  /\ UNCHANGED <<conf, zip, tests, session, cur, ok>>

\* Logstash prints the next event of an output pipeline.
Arrive(n) ==
  /\ main = "results" /\ n \in DOMAIN queue /\ queue[n] # << >>
  /\ queue' = [queue EXCEPT ![n] = Tail(@)]
  /\ results' = Append(results, Head(queue[n]))
  /\ UNCHANGED <<conf, main, zip, tests, session, cur, ok, outcome>>

\* GetResults, postProcessResults and Compare.
CompareResults ==
  /\ main = "results" /\ \A n \in DOMAIN queue : queue[n] = << >>
  /\ \E sorted \in Sorted(results) :
       ok' = (ok /\ Same([n \in DOMAIN sorted |->
                             PostProcess(sorted[n], tests[cur], conf.debug)], tests[cur]))
  /\ Goto("execute") /\ cur' = cur + 1
  /\ UNCHANGED <<conf, zip, tests, session, queue, results>>

End ==
  /\ main = "execute" /\ cur > Len(tests)
  /\ Return(IF ok THEN "pass" ELSE "fail")
  /\ UNCHANGED <<conf, zip, tests, session, cur, queue, results, ok>>

Next ==
  \/ BuildArchive \/ DiscoverTests \/ SetupTest
  \/ ExecuteTest \/ (\E n \in DOMAIN queue : Arrive(n)) \/ CompareResults \/ End

Spec == Init /\ [][Next]_vars

-----------------------------------------------------------------------------
(* What the documentation promises (README, "Test case file reference" and  *)
(* "Daemon mode").  conf.refused says that the run is one that is refused,   *)
(* conf.reach what is true of each input: its codec, its pipeline (via), and *)
(* the outputs its events come to (outs).                                    *)

\* The fields as they are written, in whatever notation.
Written(data) ==
  LET at(k) == {k \o q : q \in DOMAIN data[k]}
      key(p) == CHOOSE k \in DOMAIN data : p \in at(k)
  IN  [p \in UNION {at(k) : k \in DOMAIN data} |->
         data[key(p)][SubSeq(p, Len(key(p)) + 1, Len(p))]]

\* A field is given twice.
Contradictory(data) ==
  \E j, k \in DOMAIN data : j # k /\ \E p \in DOMAIN data[j], q \in DOMAIN data[k] :
                                      IsPrefix(j \o p, k \o q)

\* Each top-level field is that of the test case, else that of the file, else
\* that of the input; then the ignored ones are taken away.
PromisedFields(file, tc, line, type, input) ==
  LET names(f) == {p[1] : p \in DOMAIN f}
      own == Written(tc.fields)
      all == Written(file.fields)
      made == <<"type">> :> type @@ Message :> line
                @@ <<"codec">> :> input.codec @@ <<"via">> :> input.via
      from(n) == IF n = "type" \/ BadName \in names(own) \cup names(all) THEN made
                 ELSE IF n \in names(own) THEN own
                 ELSE IF n \in names(all) THEN all ELSE made
      shown == {p \in DOMAIN own \cup DOMAIN all \cup DOMAIN made :
                  /\ p \in DOMAIN from(p[1])
                  /\ ~(p = Message /\ from(p[1])[p] = Dummy)
                  /\ \A i \in file.ignored : ~IsPrefix(i, p)}
  IN  [p \in shown |-> from(p[1])[p]]

\* The events of a test case, whose first line is number first of the file: line
\* by line, by the output, the original before its clones.
PromisedOf(c, file, tc, first) ==
  LET input == c.reach[file.plugin]
      lines == IF tc.lines = << >> THEN <<Dummy>> ELSE tc.lines
      bad == \E p \in DOMAIN Written(tc.fields) \cup DOMAIN Written(file.fields) :
               p[1] = BadName
      event(n, e) ==
        [fields |-> PromisedFields(file, tc, lines[n], e.type, input),
         tags   |-> IF c.debug /\ bad THEN {"__lfv_ruby_fields_exception"} ELSE {},
         meta   |-> IF file.exportMetadata THEN {"user"} ELSE {},
         id     |-> IF c.debug THEN first + n - 2 ELSE NotShown,
         out    |-> IF c.debug \/ file.exportOutputs THEN input.outs[e.exit] ELSE NotShown]
      outs == SetToSortSeq(ToSet(input.outs), <)
      at(n, out) == SelectSeq(c.emits[lines[n]],
                              LAMBDA e : e.exit \in DOMAIN input.outs /\ input.outs[e.exit] = out)
  IN  FlattenSeq([n \in DOMAIN lines |->
        FlattenSeq([o \in DOMAIN outs |->
          [k \in DOMAIN at(n, outs[o]) |-> event(n, at(n, outs[o])[k])]])])

Promised(c, file) ==
  LET first(n) == 1 + Len(FlattenSeq([m \in 1..n - 1 |-> InputLines(file.cases[m])]))
  IN  FlattenSeq([n \in DOMAIN file.cases |-> PromisedOf(c, file, file.cases[n], first(n))])

Expected(file) == FlattenSeq([n \in DOMAIN file.cases |-> file.cases[n].expected])

-----------------------------------------------------------------------------

\* What a run says of its inputs is so: each id of an input is found in the files
\* of one pipeline, the inputs with this id have the codec of the run, and no input
\* of the configuration listens where they do.
TellsInputs(c) ==
  LET archive == ZipWithPreprocessor(c)
      has(n, id) == \E file \in ToSet(FilesOf(c.pipelines[n], c)) :
                      \E p \in ToSet(ZipEntry(file, c).plugins) :
                        IsExternal(p, "input") /\ p.id = id
  IN  \A id \in IdsIn(archive, "input") :
        /\ \E n \in DOMAIN c.pipelines : /\ \A m \in DOMAIN c.pipelines : has(m, id) <=> m = n
                                         /\ ReadPipeline(c.pipelines[n]).id = c.reach[id].via
        /\ \A k \in DOMAIN archive : \A p \in ToSet(archive[k].plugins) :
             /\ IsExternal(p, "input") /\ p.id = id =>
                  c.reach[id].codec = IF p.codec = NoCodec THEN "plain" ELSE p.codec
             /\ p.section = "input" /\ p.name = "pipeline" =>
                  p.address # InputAddress(SessionID, id)

\* The events of a test case file enter the configuration at the input it names,
\* in one pipeline, with the codec of that input: session.ExecuteTest puts the
\* address together that ReplaceInputs gave an input, in another call, and looks
\* up the codec by the id.
EntersWherePromised ==
  main = "execute" =>
    \A n \in DOMAIN tests :
      LET input == conf.reach[tests[n].plugin]
          entries == Listeners(session, session.pipelines,
                               InputAddress(SessionID, tests[n].plugin))
      IN  /\ {session.pipelines[k].id[3] : k \in entries} = {input.via}
          /\ Cardinality(entries) = 1
          /\ InputCodec(session, tests[n].plugin) = input.codec

\* What leaves by an output is marked with that output, and no other is: an
\* address a replaced output sends to is heard by one output pipeline, and the
\* pipelines of the session have names of their own (createOutputPipelines).
LeavesMarked ==
  LET pipelines == session.pipelines
      mark(address) == {pipelines[n].config[1] : n \in Listeners(session, pipelines, address)}
  IN  main = "execute" =>
        /\ IsInjective([n \in DOMAIN pipelines |-> pipelines[n].id])
        /\ \A id \in IdsIn(zip, "output") :
             mark(OutputAddress(PluginIDSave(id))) = {PluginIDSave(id)}

\* Each pipeline reads in the session's directory what the client found for it:
\* the client takes the base off the names of the files, the daemon puts its own
\* directory before the paths of pipelines.yml.
FilesFound ==
  main = "execute" =>
    \A n \in DOMAIN conf.pipelines :
      {f.name : f \in {f \in ToSet(session.files) : f.dir = session.pipelines[n].config}}
        = {f.name : f \in ToSet(FilesOf(conf.pipelines[n], conf))}

\* The lines of a test case file: of which test case, and which of its lines.
LinesOf(file) ==
  FlattenSeq([n \in DOMAIN file.cases |-> [k \in DOMAIN InputLines(file.cases[n]) |-> <<n, k>>]])

\* The event has the line and the fields of the test case; what is set to the dummy
\* line is left out, and with a name that is no field reference nothing is set.
OwnFields(e, file, tc, line) ==
  \E global \in ParseAllBracketProperties(file.fields) \ {Panic},
     local \in ParseAllBracketProperties(tc.fields) \ {Panic} :
    LET fields == MergeFields(global, local)
        given == MergeFields(Field(Message, line), fields)
        failed == \E p \in DOMAIN fields : p[1] = BadName
    IN  /\ e.tags = IF failed THEN {"__lfv_ruby_fields_exception"} ELSE {}
        /\ ~failed => \A p \in DOMAIN given \ {<<"type">>} :
                        \/ p = Message /\ given[p] = Dummy
                        \/ p \in DOMAIN e.fields /\ e.fields[p] = given[p]

\* The test case is that of the line of the file that has the event's number.
IsOwn(e, file) ==
  /\ e.id + 1 \in DOMAIN LinesOf(file)
  /\ LET at == LinesOf(file)[e.id + 1]
         tc == file.cases[at[1]]
     IN  OwnFields(e, file, tc, InputLines(tc)[at[2]])

\* Each event has the line and the fields of its own test case.  Lines and fields
\* go to Logstash in two lists (prepareFields, createInput), the fields of an event
\* are found by its number there, and the result bears only that number: for
\* codecs that make one event of a line, it is that of the line in the file.
FieldsAreOwn ==
  LET codec == InputCodec(session, conf.files[cur].plugin)
  IN  main = "results" /\ (codec \in DOMAIN conf.yield => conf.yield[codec] = 1) =>
        \A e \in ToSet(results) \cup UNION {ToSet(queue[n]) : n \in DOMAIN queue} :
          IsOwn(e, conf.files[cur])

\* The verdict of the run is that of its files, in whatever order the events of
\* the outputs arrive: refused if they are to be refused, passed if and only if
\* each test case file expects the events that are promised (Run, from the
\* archive to Compare).  This is for files that give no field twice, which the
\* order of a Go map decides about, and inputs whose codecs make one event of a
\* line, as the fields are assigned to the events by their number.
VerdictIsRight ==
  LET twice == \E file \in ToSet(conf.files) :
                 \/ Contradictory(file.fields)
                 \/ \E tc \in ToSet(file.cases) : Contradictory(tc.fields)
      regular == ~twice /\ \A input \in Range(conf.reach) : conf.yield[input.codec] = 1
      right == \A file \in ToSet(conf.files) : Expected(file) = Promised(conf, file)
  IN  main = "returned" /\ regular =>
        outcome = IF conf.refused THEN "error" ELSE IF right THEN "pass" ELSE "fail"

=================================================================================
