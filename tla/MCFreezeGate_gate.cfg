SPECIFICATION FairSpec
CONSTANTS
  root = root
  t1 = t1
  t2 = t2
  t3 = t3
  Tasks = {t1, t2, t3}
  Root = root
  Bakers = {root, t1}
  NULL = NULL
INVARIANTS
  TypeOK
  OneMissed
PROPERTIES
  StaysFrozen
  OneOfTwoThaws
