SPECIFICATION Spec
CONSTANTS
  t1 = t1
  t2 = t2
  t3 = t3
  Tasks = {t1, t2}
  Delays = {1, 2}
  Never = 4
CHECK_DEADLOCK FALSE
INVARIANTS
  NoFault
