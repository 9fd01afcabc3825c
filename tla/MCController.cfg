CONSTANTS
  Base = {"stdin"}
  Sut = {"main"}
  Mark = "__lfv_pipelines_running"
  MaxSessions = 2
  MaxTests = 2
  Expected = {0, 1, 2}
  MaxMissing = 0
  MaxSurplus = 1
  Headroom = TRUE
  Orderly = TRUE
  Faults = {}
SPECIFICATION FairSpec
INVARIANTS
  ResultsAreOfTheTest
  ReadyMeansLoaded
  StaysHealthy
  NoMapRace
PROPERTIES
  TestCompletes
  SessionCompletes
CHECK_DEADLOCK FALSE
