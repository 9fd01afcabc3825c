CONSTANTS
  caller = caller
  completer = completer
  Waiter = {caller, completer}
  Target <- MCTarget
  Cancellable = TRUE
  Nobody = Nobody
SPECIFICATION FairSpec
PROPERTY ShutdownReleasesWaiters
