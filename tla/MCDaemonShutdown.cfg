CONSTANTS
  i1 = i1
  i2 = i2
  h1 = h1
  h2 = h2
  Instance = {i1, i2}
  Handler = {h1, h2}
  Stubborn = {i2}
  MaxSignals = 2
  Faults = {"factory", "crash", "late", "serve", "stuck"}
SPECIFICATION FairSpec
INVARIANTS
  SocketRemoved
  InstancesCounted
  CleanExit
PROPERTIES
  ShutdownCompletes
CHECK_DEADLOCK FALSE
