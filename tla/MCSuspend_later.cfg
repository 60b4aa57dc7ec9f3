SPECIFICATION Spec
CONSTANTS
  t1 = t1
  t2 = t2
  t3 = t3
  Tasks = {t1, t2}
  Suspenders = {t1}
  Resumers = {}
  Sleepers = {t2}
  SemMax = 2
CHECK_DEADLOCK FALSE
PROPERTIES
  SuspendedStops
