CONSTANTS
  Tests = 2
  MinLines = 1
  MaxLines = 2
  Faults = {"stream", "listen", "prepare", "spawn", "slow", "crash", "ioerror", "garbage",
            "diff", "rpc"}
  Modes = {"sockets", "stdin", "daemon"}
  Prompt = TRUE
SPECIFICATION FairSpec
INVARIANTS
  PassIsRight
  SummaryIsRight
  NothingLeftBehind
PROPERTIES
  RunReturns
CHECK_DEADLOCK FALSE
