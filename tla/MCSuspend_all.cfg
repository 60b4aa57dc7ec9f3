SPECIFICATION Spec
CONSTANTS
  t1 = t1
  t2 = t2
  t3 = t3
  Tasks = {t1, t2}
  Suspenders = {t1, t2}
  Resumers = {t1, t2}
  Sleepers = {t1, t2}
  SemMax = 2
CHECK_DEADLOCK FALSE
INVARIANTS
  TypeOK
  NothingLost
  WakesDeserved
  OnlyListedCancelled
  Resumable
