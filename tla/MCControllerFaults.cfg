CONSTANTS
  Base = {"stdin"}
  Sut = {"main"}
  Mark = "__lfv_pipelines_running"
  MaxSessions = 1
  MaxTests = 2
  Expected = {0, 1}
  MaxMissing = 1
  MaxSurplus = 1
  Headroom = TRUE
  Orderly = TRUE
  Faults = {"timeout", "crash", "shutdown", "reload"}
SPECIFICATION Spec
INVARIANTS
  CommandInAwaitedState
  NoStrayCompleter
PROPERTIES
  ImplementsService
CHECK_DEADLOCK FALSE
