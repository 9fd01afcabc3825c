CONSTANTS
  Saved <- MCSaved
  Dummy <- MCDummy
  StableUpTo = 12
  Runs <- MCRuns
SPECIFICATION Spec
INVARIANTS
  TypeOK
  EntersWherePromised
  LeavesMarked
  FilesFound
  VerdictIsRight
  FieldsAreOwn
CHECK_DEADLOCK FALSE
