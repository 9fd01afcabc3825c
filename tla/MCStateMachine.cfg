CONSTANTS
  caller = caller
  completer = completer
  Waiter = {caller, completer}
  Target <- MCTarget
  Cancellable = TRUE
  Nobody = Nobody
SPECIFICATION FairSpec
INVARIANTS
  Exclusion
  NoMissedTarget
PROPERTIES
  ImplementsAtomic
  WaitReturns
