CONSTANTS
  Saved <- MCSaved
  Dummy <- MCDummy
  StableUpTo = 12
  Runs <- AbsoluteRuns
SPECIFICATION Spec
INVARIANT FilesFound
CHECK_DEADLOCK FALSE
