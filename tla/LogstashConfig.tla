------------------------------ MODULE LogstashConfig ------------------------------
(***************************************************************************)
(* What happens to a Logstash configuration on its way from the user's     *)
(* files to the pipelines of a session: the client applies mocks, checks   *)
(* and adds ids and packs the files (daemon/pluginmock, daemon/pipeline,   *)
(* daemon/logstashconfig), the session replaces inputs and outputs by      *)
(* addresses of its own (daemon/session/session.go).                       *)
(*                                                                         *)
(* A plugin is a record: the section it is in, its name ("pipeline", or    *)
(* any other), its id and codec, and the address it listens or sends to    *)
(* when it is a "pipeline" plugin.  Sections and branches are walked in    *)
(* the order of the file, a sequence of plugins.  Names and ids are        *)
(* numbers in the order of the strings they stand for.                     *)
(***************************************************************************)
EXTENDS Integers, SequencesExt

CONSTANT
  Saved \* pluginIDSave of the ids with other characters than letters and digits

ASSUME SavedAssumption == \A id \in DOMAIN Saved : Saved[id] \in Nat

NoId == 0
NoName == ""
NoCodec == "none"
NoAddress == << >>

\* The elements of a sequence at the given places, in order: what a loop with an
\* append under a condition keeps.
Chosen(s, places) ==
  FlattenSeq([n \in DOMAIN s |-> IF n \in places THEN <<s[n]>> ELSE << >>])

-----------------------------------------------------------------------------
(* Ids *)

\* Distinct ids may become one: "a-b" and "a_b".
PluginIDSave(id) == IF id \in DOMAIN Saved THEN Saved[id] ELSE id

\* The id for plugin n of a file: "id_missing_<name>_<n>".
MissingID(file, n) == 100 * file.name + n

AddMissingIDs(file) ==
  [file EXCEPT !.plugins =
     [n \in DOMAIN file.plugins |->
        IF file.plugins[n].id # NoId
          THEN file.plugins[n]
          ELSE [file.plugins[n] EXCEPT !.id = MissingID(file, n)]]]

\* Inputs and outputs that connect pipelines of the configuration are left alone.
IsExternal(plugin, section) == plugin.section = section /\ plugin.name # "pipeline"

External(plugins, section) ==
  Chosen(plugins, {n \in DOMAIN plugins : IsExternal(plugins[n], section)})

\* Validate: each plugin has an id, or is given one, and no two of a file have
\* the same.
Valid(file, addMissingID) ==
  /\ addMissingID \/ \A n \in DOMAIN file.plugins : file.plugins[n].id # NoId
  /\ LET plugins == AddMissingIDs(file).plugins
     IN  \A m, n \in DOMAIN plugins : m # n => plugins[m].id # plugins[n].id

-----------------------------------------------------------------------------
(* Mocks: a function from ids to plugins, Removed for a mock without one *)

Removed == [name |-> "removed", codec |-> NoCodec, address |-> NoAddress]

Walk(plugin, mocks) ==
  IF plugin.id = NoId \/ plugin.id \notin DOMAIN mocks
    THEN <<plugin>>
    ELSE LET mock == mocks[plugin.id]
         IN  IF mock = Removed
               THEN << >>
               ELSE <<[section |-> plugin.section, name |-> mock.name, id |-> plugin.id,
                       codec |-> mock.codec, address |-> mock.address]>>

ApplyMocks(file, mocks) ==
  [file EXCEPT !.plugins =
     FlattenSeq([n \in DOMAIN file.plugins |-> Walk(file.plugins[n], mocks)])]

-----------------------------------------------------------------------------
(* The archive: pipelines of pipelines.yml and the files their paths match. *)
(* A path is a sequence of names; path.config names all files of a          *)
(* directory.                                                               *)

\* --logstash-config: one pipeline, without a base, so that relative paths and
\* names are those of the working directory.
Implicit(path) == [id |-> "lfv_implicit", dir |-> path.dir, absolute |-> path.absolute,
                   nested |-> FALSE]
Given(conf) ==
  IF conf.implicit = << >> THEN conf
  ELSE [conf EXCEPT !.pipelines = <<Implicit(conf.implicit[1])>>, !.base = conf.cwd]

\* Keys given as "path: config:" and "pipeline: id:" are read by New only, not
\* by extractZip of the daemon.
ProcessNestedKeys(pipeline) == [pipeline EXCEPT !.nested = FALSE]

ConfigDir(pipeline, base) == IF pipeline.absolute THEN pipeline.dir ELSE base \o pipeline.dir

\* Faulty: the base is not taken off.
KeepBase(dir, base) == dir

\* strings.TrimPrefix of the base path.
TrimBase(dir, base) ==
  IF IsPrefix(base, dir) THEN SubSeq(dir, Len(base) + 1, Len(dir)) ELSE dir

Glob(disk, dir) == Chosen(disk, {n \in DOMAIN disk : disk[n].dir = dir})

Preprocessed(file, conf) == ApplyMocks(file, conf.mocks)

ZipEntry(file, conf) ==
  LET checked == IF conf.addMissingID
                   THEN AddMissingIDs(Preprocessed(file, conf))
                   ELSE Preprocessed(file, conf)
  IN  [checked EXCEPT !.dir = TrimBase(file.dir, conf.base)]

FilesOf(pipeline, conf) ==
  Glob(conf.disk, ConfigDir(ProcessNestedKeys(pipeline), conf.base))

ZipWithPreprocessor(conf) ==
  FlattenSeq([n \in DOMAIN conf.pipelines |->
                LET files == FilesOf(conf.pipelines[n], conf)
                IN  [k \in DOMAIN files |-> ZipEntry(files[k], conf)]])

\* The ids of the inputs, or of the outputs, of the archive.
IdsIn(zip, section) ==
  UNION {{p.id : p \in ToSet(External(zip[n].plugins, section))} : n \in DOMAIN zip}

ZipFails(conf) ==
  \/ \E n \in DOMAIN conf.pipelines :
       \E file \in ToSet(FilesOf(conf.pipelines[n], conf)) :
         ~Valid(Preprocessed(file, conf), conf.addMissingID)
  \/ IdsIn(ZipWithPreprocessor(conf), "input") = {}
  \/ IdsIn(ZipWithPreprocessor(conf), "output") = {}

-----------------------------------------------------------------------------
(* The session: what the daemon makes of the archive *)

\* extractZip: pipelines.yml as the user wrote it.
ReadPipeline(pipeline) ==
  IF pipeline.nested
    THEN [pipeline EXCEPT !.id = NoName, !.dir = << >>]
    ELSE pipeline

SutPipeline(pipeline, sid) ==
  [id |-> <<"lfv", sid, ReadPipeline(pipeline).id>>, kind |-> "sut",
   config |-> ReadPipeline(pipeline).dir]

InputAddress(sid, id) == <<"__lfv_input", sid, id>>
OutputAddress(saved) == <<"lfv_output", saved>>

\* The new plugin has neither id nor codec; add_field, tags and type are kept.
ReplaceInput(plugin, sid) ==
  IF IsExternal(plugin, "input")
    THEN [plugin EXCEPT !.name = "pipeline", !.id = NoId, !.codec = NoCodec,
                        !.address = InputAddress(sid, plugin.id)]
    ELSE plugin

\* Faulty: outputs in a branch are not reached.
ReplaceOutputNot(plugin) == plugin

ReplaceOutput(plugin) ==
  IF IsExternal(plugin, "output")
    THEN [plugin EXCEPT !.name = "pipeline", !.id = NoId,
                        !.address = OutputAddress(PluginIDSave(plugin.id))]
    ELSE plugin

SutFile(file, sid) ==
  [file EXCEPT !.plugins =
     [n \in DOMAIN file.plugins |-> ReplaceOutput(ReplaceInput(file.plugins[n], sid))]]

\* The inputs of all files, and those of them that have a codec.
InputsOf(files) ==
  External(FlattenSeq([n \in DOMAIN files |-> files[n].plugins]), "input")
WithCodec(files) ==
  LET inputs == InputsOf(files)
  IN  Chosen(inputs, {n \in DOMAIN inputs : inputs[n].codec # NoCodec})

\* Faulty: one codec is kept, that of the last input.
InputCodecsShared(files) ==
  LET inputs == InputsOf(files)
      with == WithCodec(files)
  IN  [id \in {inputs[n].id : n \in DOMAIN inputs} |->
         IF with = << >> THEN "plain" ELSE with[Len(with)].codec]

\* Codecs of the inputs of all files, by the id of the input: the last one wins.
InputCodecs(files) ==
  LET with == WithCodec(files)
      last(id) == CHOOSE n \in DOMAIN with :
                    /\ with[n].id = id
                    /\ \A m \in DOMAIN with : with[m].id = id => m <= n
  IN  [id \in {with[n].id : n \in DOMAIN with} |-> with[last(id)].codec]

Outputs(file) ==
  LET outputs == External(file.plugins, "output")
  IN  [n \in DOMAIN outputs |-> PluginIDSave(outputs[n].id)]

\* The pipeline that marks what has passed an output, and prints it.
CreateOutputPipelines(outputs) ==
  [n \in DOMAIN outputs |->
     [id |-> <<"lfv_output", outputs[n]>>, kind |-> "out", config |-> <<outputs[n]>>]]

\* Faulty: the pipelines for the outputs of the last file only are kept.
SessionPipelinesLastFile(conf, files, sid) ==
  [n \in DOMAIN conf.pipelines |-> SutPipeline(conf.pipelines[n], sid)]
    \o CreateOutputPipelines(Outputs(files[Len(files)]))

SessionPipelines(conf, files, sid) ==
  [n \in DOMAIN conf.pipelines |-> SutPipeline(conf.pipelines[n], sid)]
    \o FlattenSeq([n \in DOMAIN files |-> CreateOutputPipelines(Outputs(files[n]))])

InputPipeline(testexec) ==
  [id |-> <<"lfv_input", testexec>>, kind |-> "in", config |-> <<testexec>>]

-----------------------------------------------------------------------------
(* What a configuration is *)

IsSequence(s) == s \in Seq(ToSet(s))

\* Logstash asks for the address of a "pipeline" plugin.
IsPlugin(p) ==
  /\ p = [section |-> p.section, name |-> p.name, id |-> p.id, codec |-> p.codec,
          address |-> p.address]
  /\ p.section \in {"input", "filter", "output"} /\ p.id \in Nat
  /\ p.name = "pipeline" => p.address # NoAddress

IsMock(m) ==
  /\ m = [name |-> m.name, codec |-> m.codec, address |-> m.address]
  /\ m.name = "pipeline" => m.address # NoAddress

IsFile(f) ==
  /\ f = [dir |-> f.dir, name |-> f.name, plugins |-> f.plugins]
  /\ IsSequence(f.dir) /\ f.name \in Nat
  /\ IsSequence(f.plugins) /\ \A p \in ToSet(f.plugins) : IsPlugin(p)

IsPipeline(p) ==
  /\ p = [id |-> p.id, dir |-> p.dir, absolute |-> p.absolute, nested |-> p.nested]
  /\ IsSequence(p.dir)

IsConfiguration(conf) ==
  /\ IsSequence(conf.base)
  /\ IsSequence(conf.pipelines) /\ \A p \in ToSet(conf.pipelines) : IsPipeline(p)
  /\ IsSequence(conf.disk) /\ \A f \in ToSet(conf.disk) : IsFile(f)
  /\ \A id \in DOMAIN conf.mocks : IsMock(conf.mocks[id])

\* Paths by which the session finds what the client has packed: not given by
\* nested keys, not absolute and below the base, and none both absolute and
\* relative.
KeepsPaths(conf) ==
  \A m \in DOMAIN conf.pipelines :
    LET pipeline == conf.pipelines[m]
    IN  /\ ~pipeline.nested
        /\ pipeline.absolute => ~IsPrefix(conf.base, pipeline.dir)
        /\ \A n \in DOMAIN conf.pipelines :
             conf.pipelines[n].dir = pipeline.dir =>
               conf.pipelines[n].absolute = pipeline.absolute

\* Names by which the outputs are told apart: no two pipelines have the same, no
\* two outputs of the archive have the same when they are saved (New compares the
\* ids of a file only), and no input of the configuration listens where the
\* pipeline for an output does.
KeepsNames(conf) ==
  LET zip == ZipWithPreprocessor(conf)
      name(n) == ReadPipeline(conf.pipelines[n]).id
  IN  /\ \A m, n \in DOMAIN conf.pipelines : name(m) = name(n) => m = n
      /\ \A m, n \in DOMAIN zip :
           \A j \in DOMAIN Outputs(zip[m]), k \in DOMAIN Outputs(zip[n]) :
             Outputs(zip[m])[j] = Outputs(zip[n])[k] => m = n /\ j = k
      /\ \A file \in ToSet(zip) : \A p \in ToSet(file.plugins) :
           p.section = "input" /\ p.name = "pipeline" =>
             \A id \in IdsIn(zip, "output") : p.address # OutputAddress(PluginIDSave(id))

==================================================================================
