SPECIFICATION FairSpec
CONSTANTS
  root = root
  t1 = t1
  t2 = t2
  t3 = t3
  Tasks = {t1, t2}
  Root = root
  Bakers = {root}
  NULL = NULL
PROPERTIES
  AllThaw
