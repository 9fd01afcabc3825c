CONSTANTS
  MaxLines = 2
  Faults = {"spawn", "crash", "long"}
SPECIFICATION FairSpec
INVARIANTS
  NoEventLost
  CrashHasCause
  ReleasedMeansGone
PROPERTIES
  CrashNoticed
  StopsWhenTold
  ImplementsLife
CHECK_DEADLOCK FALSE
