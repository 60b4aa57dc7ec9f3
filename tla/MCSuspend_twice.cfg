SPECIFICATION Spec
CONSTANTS
  t1 = t1
  t2 = t2
  t3 = t3
  Tasks = {t1, t2, t3}
  Suspenders = {t3}
  Resumers = {t1}
  Sleepers = {t2}
  SemMax = 2
CHECK_DEADLOCK FALSE
INVARIANTS
  NoEffect
