--------------------------------- MODULE TestCases --------------------------------
(***************************************************************************)
(* Test case files and the events they are compared with: reading a file   *)
(* (testcase.New), field references in brackets and ignored fields         *)
(* (testcase/helper.go), and what the client makes of the results before   *)
(* the comparison (run.go, postProcessResults).                            *)
(*                                                                         *)
(* A (nested) set of fields is a function from the paths of its leaves to  *)
(* values; EmptyMap is the value of an object without fields.  As written  *)
(* in a file it is a function from keys to sets of fields: a key is the    *)
(* sequence of the names it stands for, of length two for "[a][b]", and a  *)
(* scalar is the set with the empty path alone.                            *)
(***************************************************************************)
EXTENDS Integers, SequencesExt

CONSTANTS
  Dummy,     \* DummyEventInputIndicator, the line of a test case without input
  StableUpTo \* up to this length sort.Slice keeps the order of equal elements

ASSUME StableUpToAssumption == StableUpTo \in Nat

NoFields == << >>
EmptyMap == "{}"
Panic == <<"panic">> :> "panic"
Scalar(value) == << >> :> value

Message == <<"message">>
Version == <<"@version">>

\* One field; and the fields f, with those of g that f does not have (":>" and "@@"
\* of TLC, in a form the provers can expand).
Field(path, value) == [p \in {path} |-> value]
Over(f, g) ==
  [p \in DOMAIN f \cup DOMAIN g |-> IF p \in DOMAIN f THEN f[p] ELSE g[p]]

\* The fields without the paths in gone.
Without(fields, gone) == Restrict(fields, DOMAIN fields \ gone)

-----------------------------------------------------------------------------
(* helper.go *)

\* The paths of a value, at the place it is set.
At(path, value) ==
  [p \in {path \o q : q \in DOMAIN value} |-> value[SubSeq(p, Len(path) + 1, Len(p))]]

\* Set the value at a path: it replaces what is there, an object takes the place
\* of an empty one above it, and a value above it that is not an object makes
\* the type assertion fail.
ParseBracketProperty(path, value, result) ==
  IF \E p \in DOMAIN result : IsStrictPrefix(p, path) /\ result[p] # EmptyMap
    THEN Panic
    ELSE Over(At(path, value),
              Without(result, {p \in DOMAIN result : IsPrefix(path, p) \/ IsPrefix(p, path)}))

\* The keys are taken in the order of a Go map, which is any order.
ParseAllBracketProperties(data) ==
  {FoldLeft(LAMBDA result, key : IF result = Panic THEN Panic
                                 ELSE ParseBracketProperty(key, data[key], result),
            NoFields, order) : order \in SetToSeqs(DOMAIN data)}

\* removeField: the field, and the objects that are empty then, or were before.
RemoveField(path, data) ==
  Without(data, {p \in DOMAIN data : \/ IsPrefix(path, p)
                                     \/ IsStrictPrefix(p, path) /\ data[p] = EmptyMap})

RemoveFields(paths, data) ==
  Restrict(data, {p \in DOMAIN data : \A path \in paths : p \in DOMAIN RemoveField(path, data)})

-----------------------------------------------------------------------------
(* testcase.go: New *)

DefaultIgnoredFields == {Version}

\* Fields of the test case replace the global ones, name by name.
MergeFields(global, local) ==
  Over(local, Without(global, {p \in DOMAIN global : \E q \in DOMAIN local : q[1] = p[1]}))

InputLines(tc) == IF tc.lines = << >> THEN <<Dummy>> ELSE tc.lines

\* What New finds wrong with a file: one of the deprecated keys "input" and
\* "expected", fields that IsValid refuses, or a line that is not an object
\* although the codec is json_lines.
Wrongs == {"keys", "fields", "lines"}

NewFails(file) == file.wrong # {}

\* What the fields of a file and of its test cases (0 and n) may be read as.
FieldsRead(file) ==
  [n \in 0..Len(file.cases) |->
     ParseAllBracketProperties(IF n = 0 THEN file.fields ELSE file.cases[n].fields)]

NewPanics(file) == \E n \in 0..Len(file.cases) : Panic \in FieldsRead(file)[n]

\* Faulty: fields are appended for a test case, not for each of its lines.
CaseSetOnce(file, fields) ==
  LET cases == DOMAIN file.cases
  IN  [plugin   |-> file.plugin,
       lines    |-> FlattenSeq([n \in cases |-> InputLines(file.cases[n])]),
       events   |-> [n \in cases |-> MergeFields(fields[0], fields[n])],
       expected |-> FlattenSeq([n \in cases |-> file.cases[n].expected]),
       ignored  |-> file.ignored \cup DefaultIgnoredFields,
       exportMetadata |-> file.exportMetadata, exportOutputs |-> file.exportOutputs]

\* The set of test cases of a file with its fields: the fields of each line, and
\* the expected events of all test cases in one list.
CaseSet(file, fields) ==
  LET cases == DOMAIN file.cases
  IN  [plugin   |-> file.plugin,
       lines    |-> FlattenSeq([n \in cases |-> InputLines(file.cases[n])]),
       events   |-> FlattenSeq([n \in cases |-> [k \in DOMAIN InputLines(file.cases[n]) |->
                                                   MergeFields(fields[0], fields[n])]]),
       expected |-> FlattenSeq([n \in cases |-> file.cases[n].expected]),
       ignored  |-> file.ignored \cup DefaultIgnoredFields,
       exportMetadata |-> file.exportMetadata, exportOutputs |-> file.exportOutputs]

\* The test case sets a file may be read as.
New(file) ==
  LET read == FieldsRead(file)
  IN  {CaseSet(file, fields) : fields \in {f \in [DOMAIN read -> UNION Range(read)] :
                                             \A n \in DOMAIN read : f[n] \in read[n] \ {Panic}}}

-----------------------------------------------------------------------------
(* run.go: postProcessResults *)

\* Faulty: by the line alone.
BeforeById(a, b) == a.id < b.id

\* The order of the results: by the line, then by the output.
Before(a, b) == a.id < b.id \/ (a.id = b.id /\ a.out < b.out)
Alike(a, b) == ~Before(a, b) /\ ~Before(b, a)

StableSort(results) ==
  LET place(n) == Cardinality({m \in DOMAIN results :
                                 \/ Before(results[m], results[n])
                                 \/ m <= n /\ Alike(results[m], results[n])})
  IN  [k \in DOMAIN results |-> results[CHOOSE n \in DOMAIN results : place(n) = k]]

\* sort.Slice: longer slices are sorted by a method that is not stable; of its
\* outcomes, those that exchange two neighbours.
Sorted(results) ==
  LET s == StableSort(results)
  IN  {s} \cup IF Len(s) <= StableUpTo \/ s = results THEN {}
               ELSE {[s EXCEPT ![n] = s[n + 1], ![n + 1] = s[n]] :
                       n \in {n \in 1..Len(s) - 1 : Alike(s[n], s[n + 1])}}

\* Names that start with "__lfv_" or "__tmp_".
Internal == {"__lfv_id", "__lfv_out_passed", "__lfv_fields", "__lfv_ruby_fields_exception"}
Temporary == {"__tmp_cache"}

NotShown == -1

\* What is compared of a result: its fields, tags, exported metadata, and the
\* numbers of line and output where they are exported.
PostProcess(result, test, debug) ==
  [fields |-> result.fields,
   tags   |-> IF debug THEN result.tags ELSE result.tags \ Internal,
   meta   |-> IF test.exportMetadata THEN result.meta \ (Internal \cup Temporary) ELSE {},
   id     |-> IF debug THEN result.id ELSE NotShown,
   out    |-> IF test.exportOutputs \/ debug THEN result.out ELSE NotShown]

\* testcase.go, Compare: the lists are equal but for the ignored fields.
Same(actual, test) ==
  /\ Len(actual) = Len(test.expected)
  /\ \A n \in DOMAIN actual :
       [actual[n] EXCEPT !.fields = RemoveFields(test.ignored, @)] = test.expected[n]

=================================================================================
