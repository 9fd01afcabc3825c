CONSTANTS
  i1 = i1
  i2 = i2
  i3 = i3
  i4 = i4
  Instance = {i1, i2, i3, i4}
  Nil = Nil
  MaxControllers = 2
  FactoryMayFail = TRUE
  MaxFailures = 2
  c1 = c1
  c2 = c2
  c3 = c3
  Client = {c1, c2, c3}
  Nobody = Nobody
  Faults = {"setup", "cleanup", "vanish", "execute", "interrupt"}
SPECIFICATION Spec
INVARIANTS
  TypeOK
  ExclusiveUse
  NeverExhausted
  SessionsCounted
PROPERTIES
  ImplementsLease
SYMMETRY Symmetry
CHECK_DEADLOCK FALSE
