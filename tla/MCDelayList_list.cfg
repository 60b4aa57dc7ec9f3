SPECIFICATION Spec
CONSTANTS
  t1 = t1
  t2 = t2
  t3 = t3
  Tasks = {t1, t2, t3}
  Delays = {2, 3}
  Never = 3
CHECK_DEADLOCK FALSE
INVARIANTS
  TypeOK
  NeverEarly
  OnTime
  Called
PROPERTIES
  ImplementsTimeouts
SYMMETRY Symmetry
VIEW Read
