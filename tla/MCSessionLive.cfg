CONSTANTS
  i1 = i1
  i2 = i2
  i3 = i3
  i4 = i4
  Instance = {i1, i2}
  Nil = Nil
  MaxControllers = 2
  FactoryMayFail = FALSE
  MaxFailures = 0
  c1 = c1
  c2 = c2
  c3 = c3
  Client = {c1, c2, c3}
  Nobody = Nobody
  Faults = {"execute", "interrupt"}
SPECIFICATION FairSpec
PROPERTIES
  CreateReturns
  FinishDrains
CHECK_DEADLOCK FALSE
