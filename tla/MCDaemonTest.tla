------------------------------- MODULE MCDaemonTest -------------------------------
(***************************************************************************)
(* Configurations, test case files and flags for DaemonTest.               *)
(***************************************************************************)
EXTENDS DaemonTest

MCDummy == "dummy"

\* The id 3 has a "-" in it; its saved form comes after that of 4.
MCSaved == 3 :> 13

Plugin(section, name, id, codec, address) ==
  [section |-> section, name |-> name, id |-> id, codec |-> codec, address |-> address]
In(id, codec) == Plugin("input", "beats", id, codec, NoAddress)
Filter(id) == Plugin("filter", "mutate", id, NoCodec, NoAddress)
Out(id) == Plugin("output", "elasticsearch", id, NoCodec, NoAddress)
PipeIn(id, address) == Plugin("input", "pipeline", id, NoCodec, address)
PipeOut(id, address) == Plugin("output", "pipeline", id, NoCodec, address)
Mock(name, codec, address) == [name |-> name, codec |-> codec, address |-> address]

Base == <<"etc">>
File(dir, name, plugins) == [dir |-> dir, name |-> name, plugins |-> plugins]
Pipeline(id, dir) == [id |-> id, dir |-> dir, absolute |-> FALSE, nested |-> FALSE]
Input(via, codec, outs) == [via |-> via, codec |-> codec, outs |-> outs]

\* Lines a and b choose an output, c is cloned to both, d is dropped.
Lines == {"a", "b", "c", "d", MCDummy}
Emit(exit, type) == [exit |-> exit, type |-> type]
Emits == [l \in Lines |->
            CASE l = "a" -> <<Emit(1, "event")>>
              [] l = "b" -> <<Emit(2, "event")>>
              [] l = "c" -> <<Emit(1, "event"), Emit(2, "event"), Emit(1, "clone")>>
              [] l = "d" -> << >>
              [] l = MCDummy -> <<Emit(1, "event")>>]

Config(pipelines, disk, reach) ==
  [base |-> Base, cwd |-> <<"home">>, implicit |-> << >>, pipelines |-> pipelines, disk |-> disk, mocks |-> << >>,
   addMissingID |-> FALSE, debug |-> FALSE, files |-> << >>, emits |-> Emits,
   yield |-> ("plain" :> 1 @@ "json" :> 1 @@ "multi" :> 2),
   refused |-> FALSE, reach |-> reach]

-----------------------------------------------------------------------------
(* Configurations *)

\* One pipeline, in one file.
One(codec) ==
  Config(<<Pipeline("main", <<"m">>)>>,
         <<File(<<"etc", "m">>, 1, <<In(1, codec), Filter(2), Out(3), Out(4)>>)>>,
         1 :> Input("main", codec, <<13, 4>>))

\* Two pipelines, connected, one in two files and outside of the base.
Two ==
  Config(<<Pipeline("first", <<"p">>),
           [Pipeline("second", <<"opt", "q">>) EXCEPT !.absolute = TRUE]>>,
         <<File(<<"etc", "p">>, 1, <<In(1, "json"), Out(3), PipeOut(5, <<"link">>)>>),
           File(<<"opt", "q">>, 2, <<In(2, NoCodec), PipeIn(6, <<"link">>)>>),
           File(<<"opt", "q">>, 3, <<Filter(7), Out(4)>>),
           File(<<"etc", "r">>, 4, <<In(8, "json"), Out(9)>>)>>,
         1 :> Input("first", "json", <<13, 4>>) @@ 2 :> Input("second", "plain", <<4>>))

\* The configuration of One by --logstash-config, from a working directory.
ByPath(cwd, dir, absolute) ==
  [One("json") EXCEPT !.cwd = cwd, !.implicit = <<[dir |-> dir, absolute |-> absolute]>>,
                      !.reach[1].via = "lfv_implicit"]

Refuse(c) == [c EXCEPT !.refused = TRUE]
WithPlugins(c, n, plugins) == [c EXCEPT !.disk[n].plugins = plugins]

NoIds == WithPlugins(One("json"), 1, <<In(NoId, "json"), Out(4), Out(NoId)>>)

Configs ==
  {One("json"), Two, ByPath(<<"etc">>, <<"m">>, FALSE), ByPath(<<"home">>, <<"etc", "m">>, TRUE),
   \* ids: two missing, and added; the same twice, in a file
   [NoIds EXCEPT !.addMissingID = TRUE, !.reach = 101 :> Input("main", "json", <<4, 103>>)],
   Refuse([NoIds EXCEPT !.reach = 101 :> Input("main", "json", <<4, 103>>)]),
   Refuse(WithPlugins(One("json"), 1, <<In(1, "json"), Filter(1), Out(3)>>)),
   \* mocks: an output and a filter removed, an input with another codec, the
   \* link cut by an input of its own
   [One("json") EXCEPT !.mocks = 2 :> Removed @@ 3 :> Removed
                                   @@ 1 :> Mock("stdin", NoCodec, NoAddress),
                       !.reach = 1 :> Input("main", "plain", <<4>>)],
   [Two EXCEPT !.mocks = 6 :> Mock("stdin", "json", NoAddress) @@ 5 :> Removed,
               !.reach = 1 :> Input("first", "json", <<13>>)
                           @@ 2 :> Input("second", "plain", <<4>>)
                           @@ 6 :> Input("second", "json", <<4>>)],
   Refuse([One("json") EXCEPT !.mocks = 3 :> Removed @@ 4 :> Removed]),
   Refuse([One("json") EXCEPT !.mocks = 1 :> Mock("pipeline", NoCodec, <<"link">>)])}

\* An absolute path below the base, or the working directory.
Absolute ==
  {[One("json") EXCEPT !.pipelines[1] = [@ EXCEPT !.dir = <<"etc", "m">>, !.absolute = TRUE]],
   ByPath(<<"etc">>, <<"etc", "m">>, TRUE)}

-----------------------------------------------------------------------------
(* Test case files, with the expected events to come *)

Case(lines, fields) == [lines |-> lines, fields |-> fields, expected |-> << >>]
TestFile(plugin, fields, cases) ==
  [plugin |-> plugin, fields |-> fields, cases |-> cases, ignored |-> {},
   exportMetadata |-> FALSE, exportOutputs |-> FALSE, wrong |-> {}]

Level == <<"log", "level">>
Name == <<"log", "file">>
Log == <<"log">>

\* Fields: of the file and of the test case, with brackets and without.
FieldFiles ==
  {TestFile(1, Log :> (<<"level">> :> "1" @@ <<"file">> :> "2"),
            <<Case(<<"a">>, Level :> Scalar("3")), Case(<<"b">>, NoFields)>>),
   [TestFile(1, Level :> Scalar("1") @@ Name :> Scalar("2"), <<Case(<<"a", "d">>, NoFields)>>)
      EXCEPT !.ignored = {Name}],
   [TestFile(1, <<"empty">> :> Scalar(EmptyMap), <<Case(<<"a">>, Level :> Scalar("1"))>>)
      EXCEPT !.ignored = {Level}],
   TestFile(1, << >>, <<Case(<< >>, Message :> Scalar("4")), Case(<< >>, << >>)>>),
   TestFile(1, Message :> Scalar("4"), <<Case(<<"c", "a">>, <<BadName>> :> Scalar("5"))>>),
   TestFile(1, Log :> Scalar("1") @@ Level :> Scalar("2"), <<Case(<<"a">>, << >>)>>),
   TestFile(1, Log :> Scalar(EmptyMap) @@ Level :> Scalar("2"), <<Case(<<"a">>, << >>)>>)}

\* Flags of the file, and order.
FlagFiles ==
  {[TestFile(1, << >>, <<Case(<<"b", "a">>, << >>), Case(<<"c">>, << >>)>>)
      EXCEPT !.exportMetadata = m, !.exportOutputs = o] : m, o \in BOOLEAN}

\* The file with the events that are promised, then with one missing, two
\* exchanged or one changed.
Right(c, file) ==
  LET first(n) == 1 + Len(FlattenSeq([m \in 1..n - 1 |-> InputLines(file.cases[m])]))
      events(n) == PromisedOf(c, file, file.cases[n], first(n))
  IN  [file EXCEPT !.cases = [n \in DOMAIN file.cases |->
                                [file.cases[n] EXCEPT !.expected = events(n)]]]

Wrong(file) ==
  LET spoilt(n, e) == [file EXCEPT !.cases[n].expected = e]
      of(n) == file.cases[n].expected
  IN  UNION {{spoilt(n, Front(of(n))),
              spoilt(n, Append(Tail(of(n)), Head(of(n)))),
              spoilt(n, [of(n) EXCEPT ![1].fields = << >>])} :
               n \in {n \in DOMAIN file.cases : file.cases[n].expected # << >>}}

With(c, files) == [c EXCEPT !.files = [n \in DOMAIN files |-> Right(c, files[n])]]

-----------------------------------------------------------------------------
(* Runs *)

\* Each configuration with a file for each of its inputs.
Plain(c) == SetToSeq({TestFile(id, << >>, <<Case(<<"a", "c">>, << >>), Case(<<"b">>, << >>)>>)
                        : id \in DOMAIN c.reach})
ConfigRuns ==
  {With(c, Plain(c)) : c \in Configs}
    \cup {With([Two EXCEPT !.debug = TRUE], Plain(Two)),
          Refuse([One("json") EXCEPT !.files = <<TestFile(2, << >>, << >>)>>]),
          With(One("multi"), <<TestFile(1, << >>, <<Case(<<"a">>, << >>)>>)>>)}
    \cup {Refuse(With(Two, <<TestFile(1, << >>, << >>),
                             [TestFile(2, << >>, << >>) EXCEPT !.wrong = {w}]>>)) : w \in Wrongs}

DataRuns ==
  LET right == {With([One("json") EXCEPT !.debug = d], <<file>>) :
                  file \in FieldFiles \cup FlagFiles, d \in BOOLEAN}
  IN  right \cup UNION {{[c EXCEPT !.files = <<file>>] : file \in Wrong(c.files[1])} : c \in right}

MCRuns == ConfigRuns \cup DataRuns

\* What the theorems of DaemonTestProofs take of the runs is true of these.
ASSUME PathsAssumption == \A c \in MCRuns : KeepsPaths(Given(c))
ASSUME NamesAssumption == \A c \in MCRuns : ZipFails(Given(c)) \/ KeepsNames(Given(c))
ASSUME InputsAssumption == \A c \in MCRuns : ZipFails(Given(c)) \/ TellsInputs(Given(c))

AbsoluteRuns == {With(c, Plain(c)) : c \in Absolute}

===================================================================================
